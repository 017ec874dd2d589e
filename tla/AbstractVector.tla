--------------------------- MODULE AbstractVector ---------------------------
(***************************************************************************)
(* What SimpleVector promises: vectors that grow as they need to, if what  *)
(* is in them is plain data.                                               *)
(***************************************************************************)
EXTENDS Integers, Sequences

CONSTANTS
  Vectors, Values, Indexes,
  ExtendSize  \* the storage a vector begins with

VARIABLES
  seqs,       \* the values of every vector
  plain,      \* they are plain data: numbers and pointers
  call,       \* the last call: <<name, vector, argument>>
  answer,     \* what the last call that returned something did
  lost        \* something has been done that may do anything

Calls(name, x, argument) == ~lost /\ call' = <<name, x, argument>> /\ UNCHANGED plain

Nearest(s, index) == s[IF index > Len(s) - 1 THEN Len(s) ELSE IF index < 0 THEN 1 ELSE index + 1]

PushBack(x, t) == Calls("PushBack", x, t) /\ seqs' = [seqs EXCEPT ![x] = Append(@, t)] /\ UNCHANGED <<answer, lost>>

\* The last value goes.
PopBack(x) ==
  /\ Calls("PopBack", x, 0) /\ seqs[x] # <<>> /\ UNCHANGED lost
  /\ answer' = seqs[x][Len(seqs[x])] /\ seqs' = [seqs EXCEPT ![x] = SubSeq(@, 1, Len(@) - 1)]

Look(x, name, argument, a) == Calls(name, x, argument) /\ answer' = a /\ UNCHANGED <<seqs, lost>>

\* An index outside of the vector means the value nearest to it.
At(x, index) == seqs[x] # <<>> /\ Look(x, "At", index, Nearest(seqs[x], index))
Front(x) == seqs[x] # <<>> /\ Look(x, "Front", 0, seqs[x][1])
Back(x) == seqs[x] # <<>> /\ Look(x, "Back", 0, seqs[x][Len(seqs[x])])

Reverse(x) ==
  /\ Calls("Reverse", x, 0) /\ UNCHANGED <<answer, lost>>
  /\ seqs' = [seqs EXCEPT ![x] = [k \in 1..Len(@) |-> @[Len(@) + 1 - k]]]

\* A vector that is assigned to itself is empty.
Assign(x, y) ==
  /\ Calls("Assign", x, y) /\ UNCHANGED <<answer, lost>>
  /\ seqs' = [seqs EXCEPT ![x] = IF x = y THEN <<>> ELSE seqs[y]]

\* The first is as long as the second and equal, or shorter and its front, or longer
\* with the last value of the second to the end.
Equal(x, y) ==
  /\ plain /\ (seqs[x] # <<>> => seqs[y] # <<>>)
  /\ Look(x, "Equal", y, \A k \in 1..Len(seqs[x]) : seqs[x][k] = Nearest(seqs[y], k - 1))

\* Strings are lost when they need more storage than a vector begins with.
Lose(x) ==
  /\ ~plain /\ lost' = TRUE /\ UNCHANGED <<seqs, answer>>
  /\ \/ Len(seqs[x]) >= ExtendSize /\ \E t \in Values : Calls("PushBack", x, t)
     \/ \E y \in Vectors : y # x /\ Len(seqs[y]) > ExtendSize /\ Calls("Assign", x, y)

Init == seqs = [x \in Vectors |-> <<>>] /\ plain \in BOOLEAN /\ call = <<>> /\ answer = FALSE /\ lost = FALSE

Next ==
  \E x \in Vectors :
    \/ PopBack(x) \/ Front(x) \/ Back(x) \/ Reverse(x) \/ Lose(x)
    \/ \E t \in Values : PushBack(x, t)
    \/ \E index \in Indexes : At(x, index)
    \/ \E y \in Vectors : Assign(x, y) \/ Equal(x, y)

Spec == Init /\ [][Next]_<<seqs, plain, call, answer, lost>>
=============================================================================
