---------------------------- MODULE SimpleVector ----------------------------
(***************************************************************************)
(* src/include/core/simple_vector.h: vectors in arrays that grow by        *)
(* ExtendSize cells.  The cells are numbered from 1, an index of the code  *)
(* from 0.  What is left unwritten, or lies behind an array, is Garbage.   *)
(***************************************************************************)
EXTENDS Integers, Sequences

CONSTANTS
  Vectors, Values,
  Garbage,
  ExtendSize, \* DefaultExtendSize
  MaxCount    \* bound: the longest vector

ASSUME ExtendAssumption == ExtendSize \in Nat \ {0} /\ MaxCount \in Nat
ASSUME GarbageAssumption == Garbage \notin Values

VARIABLES
  vec,        \* [data, count] of every vector; max_size_ is the length of data
  plain,      \* T is plain data, and an array may be read behind its end
  call,       \* the last call: <<name, vector, argument>>
  answer,     \* what the last call that returned something did
  lost        \* something behind an array has been used as a string

vectorVars == <<vec, plain, call, answer, lost>>

VectorInit ==
  /\ vec = [x \in Vectors |-> [data |-> <<>>, count |-> 0]]
  /\ plain \in BOOLEAN /\ call = <<>> /\ answer = FALSE /\ lost = FALSE

Calls(name, x, argument) == ~lost /\ call' = <<name, x, argument>> /\ UNCHANGED plain

\* The clamps of operator[].
Cell(r, index) == r.data[IF index > r.count - 1 THEN r.count ELSE IF index < 0 THEN 1 ELSE index + 1]

Full(r) == r.count + 1 > Len(r.data)

\* Mutant: the new array holds no more than the cells of the growth.
GrownFlat(r) ==
  IF Full(r) THEN [data |-> [k \in 1..ExtendSize |-> IF k <= Len(r.data) THEN r.data[k] ELSE Garbage], count |-> r.count] ELSE r

\* As many cells are copied as the new array has.
Grown(r) ==
  IF Full(r)
  THEN [data |-> [k \in 1..Len(r.data) + ExtendSize |-> IF k <= Len(r.data) THEN r.data[k] ELSE Garbage], count |-> r.count]
  ELSE r

PushBack(x, t) ==
  /\ Calls("PushBack", x, t)
  /\ vec[x].count < MaxCount
  /\ vec' = [vec EXCEPT ![x] = [data |-> [Grown(@).data EXCEPT ![vec[x].count + 1] = t], count |-> @.count + 1]]
  /\ UNCHANGED <<answer, lost>>

\* A string that is none is assigned to one.
GrowStrings(x) ==
  /\ \E t \in Values : Calls("PushBack", x, t)
  /\ ~plain /\ Full(vec[x]) /\ vec[x].data # <<>>
  /\ lost' = TRUE /\ UNCHANGED <<vec, answer>>

PopBack(x) ==
  /\ Calls("PopBack", x, 0)
  /\ vec[x].count > 0
  /\ answer' = vec[x].data[vec[x].count]
  /\ vec' = [vec EXCEPT ![x].count = @ - 1]
  /\ UNCHANGED lost

Front(x) ==
  /\ Calls("Front", x, 0)
  /\ vec[x].count > 0
  /\ answer' = vec[x].data[1] /\ UNCHANGED <<vec, lost>>

Back(x) ==
  /\ Calls("Back", x, 0)
  /\ vec[x].count > 0
  /\ answer' = vec[x].data[vec[x].count] /\ UNCHANGED <<vec, lost>>

At(x, index) ==
  /\ Calls("At", x, index)
  /\ vec[x].count > 0
  /\ answer' = Cell(vec[x], index) /\ UNCHANGED <<vec, lost>>

\* Mutant: the loop goes on to the back, and every cell changes places twice.
ReverseTwice(x) == Calls("Reverse", x, 0) /\ UNCHANGED <<vec, answer, lost>>

\* A cell of the front half changes places with the one as far from the back.
Reverse(x) ==
  /\ Calls("Reverse", x, 0)
  /\ vec' = [vec EXCEPT ![x].data =
               [k \in DOMAIN @ |-> IF k <= vec[x].count THEN @[vec[x].count + 1 - k] ELSE @[k]]]
  /\ UNCHANGED <<answer, lost>>

\* The storage PushBack makes for n values, one after the other.
Cells(n) == ((n + ExtendSize - 1) \div ExtendSize) * ExtendSize

\* Clear, and PushBack of what is in sv by now.
Assign(x, y) ==
  /\ Calls("Assign", x, y)
  /\ LET n == IF x = y THEN 0 ELSE vec[y].count IN
     vec' = [vec EXCEPT ![x] = [data |-> [k \in 1..Cells(n) |-> IF k <= n THEN vec[y].data[k] ELSE Garbage], count |-> n]]
  /\ UNCHANGED <<answer, lost>>

AssignStrings(x, y) ==
  /\ Calls("Assign", x, y)
  /\ ~plain /\ x # y /\ vec[y].count > ExtendSize
  /\ lost' = TRUE /\ UNCHANGED <<vec, answer>>

\* Of pointers; it is what they lead to that is compared.
Equal(x, y) ==
  /\ Calls("Equal", x, y) /\ plain
  /\ vec[x].count > 0 => vec[y].count > 0
  /\ answer' = (\A i \in 0..vec[x].count - 1 : Cell(vec[x], i) = Cell(vec[y], i))
  /\ UNCHANGED <<vec, lost>>

Indexes == -1..MaxCount

VectorNext ==
  \E x \in Vectors :
    \/ PopBack(x) \/ Front(x) \/ Back(x) \/ Reverse(x) \/ GrowStrings(x)
    \/ \E t \in Values : PushBack(x, t)
    \/ \E index \in Indexes : At(x, index)
    \/ \E y \in Vectors : Assign(x, y) \/ AssignStrings(x, y) \/ Equal(x, y)

VectorSpec == VectorInit /\ [][VectorNext]_vectorVars

-----------------------------------------------------------------------------
(* Properties                                                               *)

\* A vector has storage for its values, none or as much as it first gets at least.
VectorTypeOK ==
  /\ vec \in [Vectors -> [data : Seq(Values \cup {Garbage}), count : Nat]]
  /\ plain \in BOOLEAN /\ lost \in BOOLEAN
  /\ \A x \in Vectors :
       /\ vec[x].count <= Len(vec[x].data)
       /\ vec[x].data = <<>> \/ Len(vec[x].data) >= ExtendSize

Contents == [x \in Vectors |-> SubSeq(vec[x].data, 1, vec[x].count)]

Abstract == INSTANCE AbstractVector WITH seqs <- Contents

\* The vectors are sequences, whatever is pushed, popped, reversed and assigned.
ImplementsVector == Abstract!Spec
=============================================================================
