------------------------- MODULE SimpleVector_proofs -------------------------
(***************************************************************************)
(* SimpleVector implements AbstractVector: for every set of vectors and of *)
(* values, every ExtendSize and every length.                              *)
(***************************************************************************)
EXTENDS SimpleVector, TLAPS

USE ExtendAssumption

\* The storage of n values has room for them, and is none or what a vector begins
\* with at least.
LEMMA CellsSuffice ==
  ASSUME NEW n \in Nat
  PROVE  /\ Cells(n) \in Nat /\ n <= Cells(n)
         /\ Cells(n) = 0 \/ Cells(n) >= ExtendSize
<1> DEFINE q == (n + ExtendSize - 1) \div ExtendSize
<1>1. q \in Nat /\ n + ExtendSize - 1 < (q + 1) * ExtendSize
  BY SMTT(30)
<1>2. n <= q * ExtendSize
  BY <1>1, SMTT(30)
<1>3. q = 0 \/ q * ExtendSize >= ExtendSize
  BY <1>1, SMTT(30)
<1> QED
  BY <1>1, <1>2, <1>3, SMTT(30) DEF Cells

\* The fields of a vector of which one has been changed.
LEMMA RecordOK ==
  ASSUME VectorTypeOK, NEW x \in Vectors, NEW data
  PROVE  /\ [vec[x] EXCEPT !.count = @ - 1] = [data |-> vec[x].data, count |-> vec[x].count - 1]
         /\ [vec[x] EXCEPT !.data = data] = [data |-> data, count |-> vec[x].count]
<1>1. vec[x] \in [data : Seq(Values \cup {Garbage}), count : Nat]
  BY DEF VectorTypeOK
<1> QED
  BY <1>1

\* What the type invariant says of one vector.
LEMMA VectorOK ==
  ASSUME VectorTypeOK, NEW x \in Vectors
  PROVE  /\ vec[x].data \in Seq(Values \cup {Garbage}) /\ vec[x].count \in 0..Len(vec[x].data)
         /\ vec[x].data = <<>> \/ Len(vec[x].data) >= ExtendSize
BY DEF VectorTypeOK

\* The first n of a sequence.
LEMMA FrontOfSeq ==
  ASSUME NEW S, NEW s \in Seq(S), NEW n \in 0..Len(s)
  PROVE  /\ SubSeq(s, 1, n) = [k \in 1..n |-> s[k]]
         /\ SubSeq(s, 1, n) \in Seq(S) /\ Len(SubSeq(s, 1, n)) = n
OBVIOUS

\* What a vector is to its users.
LEMMA ContentsAre ==
  ASSUME VectorTypeOK, NEW x \in Vectors
  PROVE  /\ Contents[x] = [k \in 1..vec[x].count |-> vec[x].data[k]]
         /\ Contents[x] \in Seq(Values \cup {Garbage})
BY VectorOK, FrontOfSeq DEF Contents

\* The values of a vector are its first cells.
LEMMA ContentsCells ==
  ASSUME VectorTypeOK, NEW x \in Vectors
  PROVE  /\ vec[x].count \in Nat /\ Len(Contents[x]) = vec[x].count
         /\ DOMAIN Contents[x] = 1..vec[x].count
         /\ \A k \in 1..vec[x].count : Contents[x][k] = vec[x].data[k]
<1>1. vec[x].count \in Nat
  BY VectorOK
<1>2. Len(SubSeq(vec[x].data, 1, vec[x].count)) = vec[x].count
  BY VectorOK, FrontOfSeq
<1>3. SubSeq(vec[x].data, 1, vec[x].count) = [k \in 1..vec[x].count |-> vec[x].data[k]]
  BY VectorOK, FrontOfSeq
<1> QED
  BY <1>1, <1>2, <1>3 DEF Contents

-----------------------------------------------------------------------------
(* One step                                                                 *)

\* Vectors begin without storage.
LEMMA InitOK == VectorInit => VectorTypeOK
<1> SUFFICES ASSUME VectorInit PROVE VectorTypeOK
  OBVIOUS
<1> DEFINE empty == <<>>
<1>1. empty \in Seq(Values \cup {Garbage}) /\ Len(empty) = 0
  OBVIOUS
<1>2. vec = [x \in Vectors |-> [data |-> empty, count |-> 0]]
  BY DEF VectorInit
<1>3. (\A x \in Vectors : vec[x].data = empty) => \A x \in Vectors : vec[x].data = <<>>
  OBVIOUS
<1> HIDE DEF empty
<1>4. vec \in [Vectors -> [data : Seq(Values \cup {Garbage}), count : Nat]]
  BY <1>1, <1>2
<1>5. \A x \in Vectors : vec[x].data = empty /\ vec[x].count = 0
  BY <1>2
<1>6. \A x \in Vectors : vec[x].count <= Len(vec[x].data)
  <2> TAKE x \in Vectors
  <2>1. Len(vec[x].data) = 0 /\ vec[x].count = 0
    BY <1>1, <1>5, Zenon
  <2> QED
    BY <2>1, SMT
<1> QED
  BY <1>3, <1>4, <1>5, <1>6 DEF VectorInit, VectorTypeOK

\* A sequence with n more cells behind it.
LEMMA LongerSeq ==
  ASSUME NEW S, NEW s \in Seq(S), NEW g \in S, NEW n \in Nat,
         NEW new, new = [k \in 1..Len(s) + n |-> IF k <= Len(s) THEN s[k] ELSE g]
  PROVE  new \in Seq(S) /\ Len(new) = Len(s) + n /\ \A k \in 1..Len(s) : new[k] = s[k]
<1>1. \A k \in 1..Len(s) + n : new[k] \in S
  OBVIOUS
<1> QED
  BY <1>1

\* A sequence whose first n cells are in the reverse order.
LEMMA MirroredSeq ==
  ASSUME NEW S, NEW s \in Seq(S), NEW n \in 0..Len(s),
         NEW new, new = [k \in DOMAIN s |-> IF k <= n THEN s[n + 1 - k] ELSE s[k]]
  PROVE  new \in Seq(S) /\ Len(new) = Len(s)
<1>1. DOMAIN s = 1..Len(s) /\ \A k \in 1..Len(s) : new[k] \in S
  OBVIOUS
<1> QED
  BY <1>1

\* Growing keeps the values and makes room for one more.
LEMMA GrownOK ==
  ASSUME VectorTypeOK, NEW x \in Vectors, NEW r, r = Grown(vec[x])
  PROVE  /\ r.count = vec[x].count /\ r.data \in Seq(Values \cup {Garbage})
         /\ r.count < Len(r.data) /\ Len(r.data) >= ExtendSize
         /\ \A k \in 1..vec[x].count : r.data[k] = vec[x].data[k]
<1>1. /\ vec[x].data \in Seq(Values \cup {Garbage}) /\ vec[x].count \in 0..Len(vec[x].data)
      /\ vec[x].data = <<>> \/ Len(vec[x].data) >= ExtendSize
  BY VectorOK
<1>2. CASE Full(vec[x])
  <2> DEFINE new == [k \in 1..Len(vec[x].data) + ExtendSize |-> IF k <= Len(vec[x].data) THEN vec[x].data[k] ELSE Garbage]
  <2>1. r = [data |-> new, count |-> vec[x].count]
    BY <1>2 DEF Grown
  <2>2. new \in Seq(Values \cup {Garbage}) /\ Len(new) = Len(vec[x].data) + ExtendSize
        /\ \A k \in 1..Len(vec[x].data) : new[k] = vec[x].data[k]
    BY <1>1, LongerSeq
  <2> HIDE DEF new
  <2> QED
    BY <1>1, <2>1, <2>2
<1>3. CASE ~Full(vec[x])
  <2>1. r = vec[x] /\ vec[x].count + 1 <= Len(vec[x].data)
    BY <1>1, <1>3 DEF Grown, Full
  <2> QED
    BY <1>1, <2>1
<1> QED
  BY <1>2, <1>3

\* One vector may change to whatever has storage enough.
LEMMA UpdateOK ==
  ASSUME VectorTypeOK, NEW x \in Vectors,
         NEW data \in Seq(Values \cup {Garbage}), NEW count \in 0..Len(data), data = <<>> \/ Len(data) >= ExtendSize,
         vec' = [vec EXCEPT ![x] = [data |-> data, count |-> count]], plain' = plain, lost' = lost
  PROVE  VectorTypeOK'
BY DEF VectorTypeOK

\* PopBack keeps the storage.
LEMMA PopBackOK == ASSUME VectorTypeOK, NEW x \in Vectors, PopBack(x) PROVE VectorTypeOK'
<1>1. [vec[x] EXCEPT !.count = @ - 1] = [data |-> vec[x].data, count |-> vec[x].count - 1]
  BY RecordOK
<1>2. vec' = [vec EXCEPT ![x] = [data |-> vec[x].data, count |-> vec[x].count - 1]]
  BY <1>1 DEF PopBack
<1>3. vec[x].count - 1 \in 0..Len(vec[x].data)
  BY VectorOK DEF PopBack
<1> QED
  BY <1>2, <1>3, VectorOK, UpdateOK DEF PopBack, Calls

\* Reverse keeps the storage.
LEMMA ReverseOK == ASSUME VectorTypeOK, NEW x \in Vectors, Reverse(x) PROVE VectorTypeOK'
<1> DEFINE data == [k \in DOMAIN vec[x].data |->
                      IF k <= vec[x].count THEN vec[x].data[vec[x].count + 1 - k] ELSE vec[x].data[k]]
<1>1. data \in Seq(Values \cup {Garbage}) /\ Len(data) = Len(vec[x].data)
  <2>1. vec[x].data \in Seq(Values \cup {Garbage}) /\ vec[x].count \in 0..Len(vec[x].data)
    BY VectorOK
  <2> DEFINE s == vec[x].data
             n == vec[x].count
  <2> HIDE DEF s, n
  <2>2. s \in Seq(Values \cup {Garbage}) /\ n \in 0..Len(s)
    BY <2>1 DEF s, n
  <2>3. data = [k \in DOMAIN s |-> IF k <= n THEN s[n + 1 - k] ELSE s[k]]
    BY DEF s, n
  <2> HIDE DEF data
  <2>4. data \in Seq(Values \cup {Garbage}) /\ Len(data) = Len(s)
    BY <2>2, <2>3, MirroredSeq
  <2> QED
    BY <2>4 DEF s
<1>2. vec' = [vec EXCEPT ![x].data = data]
  BY DEF Reverse
<1> HIDE DEF data
<1>3. [vec[x] EXCEPT !.data = data] = [data |-> data, count |-> vec[x].count]
  BY RecordOK
<1>4. vec' = [vec EXCEPT ![x] = [data |-> data, count |-> vec[x].count]]
  BY <1>2, <1>3
<1>5. vec[x].count \in 0..Len(data) /\ (data = <<>> \/ Len(data) >= ExtendSize)
  BY <1>1, VectorOK
<1> QED
  BY <1>1, <1>4, <1>5, UpdateOK DEF Reverse, Calls

\* PushBack writes within the storage, which it has made larger when it was full.
LEMMA PushBackOK == ASSUME VectorTypeOK, NEW x \in Vectors, NEW t \in Values, PushBack(x, t) PROVE VectorTypeOK'
<1> DEFINE r == Grown(vec[x])
           data == [r.data EXCEPT ![vec[x].count + 1] = t]
<1>1. vec' = [vec EXCEPT ![x] = [data |-> data, count |-> vec[x].count + 1]]
  BY DEF PushBack
<1>2. r.data \in Seq(Values \cup {Garbage}) /\ vec[x].count < Len(r.data) /\ Len(r.data) >= ExtendSize
  BY GrownOK
<1> HIDE DEF r
<1>3. vec[x].count \in Nat
  BY VectorOK
<1>4. data \in Seq(Values \cup {Garbage}) /\ Len(data) = Len(r.data)
  BY <1>2, <1>3
<1> HIDE DEF data
<1>5. vec[x].count + 1 \in 0..Len(data) /\ (data = <<>> \/ Len(data) >= ExtendSize)
  BY <1>2, <1>3, <1>4
<1> QED
  BY <1>1, <1>4, <1>5, UpdateOK DEF PushBack, Calls

\* Assigned vectors have the storage that pushing their values makes.
LEMMA AssignOK == ASSUME VectorTypeOK, NEW x \in Vectors, NEW y \in Vectors, Assign(x, y) PROVE VectorTypeOK'
<1> DEFINE n == IF x = y THEN 0 ELSE vec[y].count
           data == [k \in 1..Cells(n) |-> IF k <= n THEN vec[y].data[k] ELSE Garbage]
<1>1. vec' = [vec EXCEPT ![x] = [data |-> data, count |-> n]]
  BY DEF Assign
<1>2. n \in 0..Len(vec[y].data) /\ vec[y].data \in Seq(Values \cup {Garbage})
  BY VectorOK
<1>3. Cells(n) \in Nat /\ n <= Cells(n) /\ (Cells(n) = 0 \/ Cells(n) >= ExtendSize)
  BY <1>2, CellsSuffice
<1> HIDE DEF n
<1>4. data \in Seq(Values \cup {Garbage}) /\ Len(data) = Cells(n)
  <2>1. \A k \in 1..Cells(n) : data[k] \in Values \cup {Garbage}
    BY <1>2, <1>3
  <2> QED
    BY <1>3, <2>1
<1> HIDE DEF data
<1>5. n \in 0..Len(data) /\ (data = <<>> \/ Len(data) >= ExtendSize)
  BY <1>2, <1>3, <1>4
<1> QED
  BY <1>1, <1>4, <1>5, UpdateOK DEF Assign, Calls

\* Every step preserves the type invariant.
LEMMA StepOK == VectorTypeOK /\ [VectorNext]_vectorVars => VectorTypeOK'
<1> SUFFICES ASSUME VectorTypeOK, [VectorNext]_vectorVars PROVE VectorTypeOK'
  OBVIOUS
<1>1. ASSUME UNCHANGED <<vec, plain>>, lost' \in BOOLEAN PROVE VectorTypeOK'
  BY <1>1 DEF VectorTypeOK
<1>2. CASE UNCHANGED vectorVars
  BY <1>1, <1>2 DEF vectorVars, VectorTypeOK
<1>3. ASSUME NEW x \in Vectors, Front(x) \/ Back(x) \/ GrowStrings(x) \/ (\E index \in Indexes : At(x, index))
                                   \/ \E y \in Vectors : AssignStrings(x, y) \/ Equal(x, y)
      PROVE  VectorTypeOK'
  BY <1>1, <1>3 DEF Front, Back, At, Equal, GrowStrings, AssignStrings, Calls, VectorTypeOK
<1> QED
  BY <1>2, <1>3, PopBackOK, ReverseOK, PushBackOK, AssignOK DEF VectorNext

\* At all times a vector has room for its values, and storage as it first gets it
\* at least: no call reads behind the values of a vector but for growing.
THEOREM TypeCorrect == VectorSpec => []VectorTypeOK
BY InitOK, StepOK, PTL DEF VectorSpec

-----------------------------------------------------------------------------
(* The abstract vector                                                      *)

\* Vectors begin as empty sequences.
LEMMA InitRefines == VectorInit => Abstract!Init
<1> SUFFICES ASSUME VectorInit PROVE Abstract!Init
  OBVIOUS
<1>1. VectorTypeOK /\ \A x \in Vectors : vec[x].count = 0
  BY InitOK DEF VectorInit
<1>2. \A x \in Vectors : Contents[x] = <<>>
  <2> TAKE x \in Vectors
  <2>1. Contents[x] \in Seq(Values \cup {Garbage}) /\ Len(Contents[x]) = 0
    BY <1>1, ContentsAre, ContentsCells
  <2> QED
    BY <2>1
<1> QED
  BY <1>2 DEF VectorInit, Abstract!Init, Contents

\* What is read of a vector is read of its contents.
LEMMA ReadsContents ==
  ASSUME VectorTypeOK, NEW x \in Vectors, NEW index \in Int, vec[x].count > 0
  PROVE  Cell(vec[x], index) = Abstract!Nearest(Contents[x], index)
<1>1. /\ vec[x].count \in Nat /\ Len(Contents[x]) = vec[x].count
      /\ \A k \in 1..vec[x].count : Contents[x][k] = vec[x].data[k]
  BY ContentsCells
<1> DEFINE i == IF index > vec[x].count - 1 THEN vec[x].count ELSE IF index < 0 THEN 1 ELSE index + 1
<1>2. i \in 1..vec[x].count
  BY <1>1
<1>3. Cell(vec[x], index) = vec[x].data[i]
  BY DEF Cell
<1>4. Abstract!Nearest(Contents[x], index) = Contents[x][i]
  BY <1>1 DEF Abstract!Nearest
<1> HIDE DEF i
<1> QED
  BY <1>1, <1>2, <1>3, <1>4

\* One vector changes, and its contents are said.
LEMMA ContentsBecome ==
  ASSUME VectorTypeOK, VectorTypeOK', NEW x \in Vectors, NEW data, NEW count \in Nat,
         vec' = [vec EXCEPT ![x] = [data |-> data, count |-> count]]
  PROVE  Contents' = [Contents EXCEPT ![x] = [k \in 1..count |-> data[k]]]
<1>1. \A y \in Vectors : Contents'[y] = [k \in 1..vec'[y].count |-> vec'[y].data[k]]
  <2> TAKE y \in Vectors
  <2>1. vec'[y].data \in Seq(Values \cup {Garbage}) /\ vec'[y].count \in 0..Len(vec'[y].data)
    BY DEF VectorTypeOK
  <2> QED
    BY <2>1, FrontOfSeq DEF Contents
<1>2. Contents'[x] = [k \in 1..count |-> data[k]]
  BY <1>1 DEF VectorTypeOK
<1>3. \A y \in Vectors \ {x} : Contents'[y] = Contents[y]
  BY DEF Contents, VectorTypeOK
<1> QED
  BY <1>2, <1>3 DEF Contents

-----------------------------------------------------------------------------
(* Every step is one of the abstract vector, or none                        *)

\* A push, with or without growing, appends to the sequence and keeps what was there.
LEMMA PushBackRefines ==
  ASSUME VectorTypeOK, VectorTypeOK', NEW x \in Vectors, NEW t \in Values, PushBack(x, t)
  PROVE  Abstract!PushBack(x, t)
<1> DEFINE r == Grown(vec[x])
           data == [r.data EXCEPT ![vec[x].count + 1] = t]
           n == vec[x].count
<1>1. vec' = [vec EXCEPT ![x] = [data |-> data, count |-> n + 1]]
  BY DEF PushBack
<1>2. /\ n \in Nat /\ r.data \in Seq(Values \cup {Garbage}) /\ n < Len(r.data)
      /\ \A k \in 1..n : r.data[k] = vec[x].data[k]
  BY GrownOK, VectorOK
<1> HIDE DEF r
<1>3. data[n + 1] = t /\ \A k \in 1..n : data[k] = vec[x].data[k]
  BY <1>2
<1> HIDE DEF data
<1>4. Contents' = [Contents EXCEPT ![x] = [k \in 1..n + 1 |-> data[k]]]
  <2>1. n + 1 \in Nat
    BY <1>2
  <2> HIDE DEF n
  <2> QED
    BY <1>1, <2>1, ContentsBecome
<1>5. Len(Contents[x]) = n /\ \A k \in 1..n : Contents[x][k] = vec[x].data[k]
  BY ContentsCells
<1>6. [k \in 1..n + 1 |-> data[k]] = Append(Contents[x], t)
  BY <1>2, <1>3, <1>5
<1> QED
  BY <1>4, <1>6 DEF PushBack, Calls, Abstract!PushBack, Abstract!Calls

\* A pop takes the last value and answers with it.
LEMMA PopBackRefines ==
  ASSUME VectorTypeOK, VectorTypeOK', NEW x \in Vectors, PopBack(x)
  PROVE  Abstract!PopBack(x)
<1> DEFINE n == vec[x].count
           data == vec[x].data
<1>1. vec' = [vec EXCEPT ![x] = [data |-> data, count |-> n - 1]]
  BY RecordOK DEF PopBack
<1>2. n \in Nat /\ n > 0 /\ Len(Contents[x]) = n /\ \A k \in 1..n : Contents[x][k] = data[k]
  BY ContentsCells DEF PopBack
<1>3. Contents' = [Contents EXCEPT ![x] = [k \in 1..n - 1 |-> data[k]]]
  <2>1. n - 1 \in Nat
    BY <1>2
  <2> HIDE DEF n, data
  <2> QED
    BY <1>1, <2>1, ContentsBecome
<1>4. [k \in 1..n - 1 |-> data[k]] = SubSeq(Contents[x], 1, n - 1)
  BY <1>2
<1>5. Contents[x] # <<>> /\ Contents[x][n] = data[n]
  BY <1>2
<1> QED
  BY <1>2, <1>3, <1>4, <1>5 DEF PopBack, Calls, Abstract!PopBack, Abstract!Calls

\* The sequence is reversed.
LEMMA ReverseRefines ==
  ASSUME VectorTypeOK, VectorTypeOK', NEW x \in Vectors, Reverse(x)
  PROVE  Abstract!Reverse(x)
<1> DEFINE n == vec[x].count
           data == [k \in DOMAIN vec[x].data |-> IF k <= n THEN vec[x].data[n + 1 - k] ELSE vec[x].data[k]]
<1>1. n \in 0..Len(vec[x].data) /\ vec[x].data \in Seq(Values \cup {Garbage})
  BY VectorOK
<1>2. vec' = [vec EXCEPT ![x] = [data |-> data, count |-> n]]
  <2>1. vec' = [vec EXCEPT ![x].data = data]
    BY DEF Reverse
  <2> HIDE DEF data
  <2> QED
    BY <2>1, RecordOK
<1>3. \A k \in 1..n : data[k] = vec[x].data[n + 1 - k]
  BY <1>1
<1> HIDE DEF data
<1>4. Contents' = [Contents EXCEPT ![x] = [k \in 1..n |-> data[k]]]
  <2>1. n \in Nat
    BY <1>1
  <2> HIDE DEF n
  <2> QED
    BY <1>2, <2>1, ContentsBecome
<1>5. Len(Contents[x]) = n /\ \A k \in 1..n : Contents[x][k] = vec[x].data[k]
  BY ContentsCells
<1>6. [k \in 1..n |-> data[k]] = [k \in 1..Len(Contents[x]) |-> Contents[x][Len(Contents[x]) + 1 - k]]
  <2>0. n \in Nat
    BY <1>1
  <2> HIDE DEF n
  <2>1. ASSUME NEW k \in 1..n PROVE data[k] = Contents[x][n + 1 - k]
    <3>1. n + 1 - k \in 1..n
      BY <2>0
    <3> QED
      BY <3>1, <1>3, <1>5
  <2> QED
    BY <1>5, <2>1
<1> QED
  BY <1>4, <1>6 DEF Reverse, Calls, Abstract!Reverse, Abstract!Calls

\* The sequence is that of the other vector, or empty when it is the same.
LEMMA AssignRefines ==
  ASSUME VectorTypeOK, VectorTypeOK', NEW x \in Vectors, NEW y \in Vectors, Assign(x, y)
  PROVE  Abstract!Assign(x, y)
<1> DEFINE n == IF x = y THEN 0 ELSE vec[y].count
           data == [k \in 1..Cells(n) |-> IF k <= n THEN vec[y].data[k] ELSE Garbage]
<1>1. vec' = [vec EXCEPT ![x] = [data |-> data, count |-> n]]
  BY DEF Assign
<1>2. n \in Nat /\ n <= Cells(n) /\ Cells(n) \in Nat
  BY CellsSuffice, VectorOK
<1>3. \A k \in 1..n : data[k] = vec[y].data[k]
  BY <1>2
<1> HIDE DEF data
<1>4. Contents' = [Contents EXCEPT ![x] = [k \in 1..n |-> data[k]]]
  BY <1>1, <1>2, ContentsBecome
<1>5. [k \in 1..n |-> data[k]] = [k \in 1..n |-> vec[y].data[k]]
  BY <1>3
<1>6. [k \in 1..n |-> vec[y].data[k]] = IF x = y THEN <<>> ELSE Contents[y]
  BY ContentsAre
<1> QED
  BY <1>4, <1>5, <1>6 DEF Assign, Calls, Abstract!Assign, Abstract!Calls

\* The comparison of the cells is that of the sequences.
LEMMA EqualRefines ==
  ASSUME VectorTypeOK, NEW x \in Vectors, NEW y \in Vectors, Equal(x, y)
  PROVE  Abstract!Equal(x, y)
<1> DEFINE n == vec[x].count
<1>1. n \in Nat /\ Len(Contents[x]) = n /\ vec[y].count \in Nat /\ Len(Contents[y]) = vec[y].count
  BY ContentsCells
<1>2. /\ Contents[x] # <<>> => n > 0
      /\ vec[y].count > 0 => Contents[y] # <<>>
  BY <1>1, ContentsAre
<1>3. ASSUME NEW i \in 0..n - 1
      PROVE  /\ Cell(vec[x], i) = Contents[x][i + 1]
             /\ Cell(vec[y], i) = Abstract!Nearest(Contents[y], i)
  <2>1. n > 0 /\ vec[y].count > 0
    BY <1>1 DEF Equal
  <2>2. Cell(vec[x], i) = Abstract!Nearest(Contents[x], i)
    BY <2>1, ReadsContents
  <2>3. Abstract!Nearest(Contents[x], i) = Contents[x][i + 1]
    BY <1>1 DEF Abstract!Nearest
  <2> QED
    BY <2>1, <2>2, <2>3, ReadsContents
<1>4. (\A i \in 0..n - 1 : Cell(vec[x], i) = Cell(vec[y], i))
        = (\A k \in 1..n : Contents[x][k] = Abstract!Nearest(Contents[y], k - 1))
  BY <1>1, <1>3
<1>5. Contents' = Contents
  BY DEF Equal, Contents
<1> QED
  BY <1>1, <1>2, <1>4, <1>5 DEF Equal, Calls, Abstract!Equal, Abstract!Look, Abstract!Calls

\* What is read is a value of the sequence, whatever the index.
LEMMA LookRefines ==
  ASSUME VectorTypeOK, NEW x \in Vectors
  PROVE  /\ Front(x) => Abstract!Front(x)
         /\ Back(x) => Abstract!Back(x)
         /\ \A index \in Indexes : At(x, index) => Abstract!At(x, index)
<1>1. /\ vec[x].count \in Nat /\ Len(Contents[x]) = vec[x].count
      /\ \A k \in 1..vec[x].count : Contents[x][k] = vec[x].data[k]
  BY ContentsCells
<1>2. vec[x].count > 0 => Contents[x] # <<>>
  BY <1>1
<1>3. vec' = vec => Contents' = Contents
  BY DEF Contents
<1>4. \A index \in Indexes : vec[x].count > 0 => Cell(vec[x], index) = Abstract!Nearest(Contents[x], index)
  BY ReadsContents DEF Indexes
<1> QED
  BY <1>1, <1>2, <1>3, <1>4
  DEF Front, Back, At, Calls, Abstract!Front, Abstract!Back, Abstract!At, Abstract!Look, Abstract!Calls

\* Strings are lost only where the sequences say so.
LEMMA LoseRefines ==
  ASSUME VectorTypeOK, NEW x \in Vectors
  PROVE  /\ GrowStrings(x) => Abstract!Lose(x)
         /\ \A y \in Vectors : AssignStrings(x, y) => Abstract!Lose(x)
<1>1. \A y \in Vectors : vec[y].count \in Nat /\ Len(Contents[y]) = vec[y].count
  BY ContentsCells
<1>2. vec' = vec => Contents' = Contents
  BY DEF Contents
<1>3. Full(vec[x]) /\ vec[x].data # <<>> => vec[x].count >= ExtendSize
  BY VectorOK DEF Full
<1> QED
  BY <1>1, <1>2, <1>3 DEF GrowStrings, AssignStrings, Calls, Abstract!Lose, Abstract!Calls

\* Every step of the vectors is a step of the sequences or changes nothing of them.
LEMMA StepRefines ==
  VectorTypeOK /\ VectorTypeOK' /\ [VectorNext]_vectorVars
    => [Abstract!Next]_<<Contents, plain, call, answer, lost>>
<1> SUFFICES ASSUME VectorTypeOK, VectorTypeOK', [VectorNext]_vectorVars
             PROVE  [Abstract!Next]_<<Contents, plain, call, answer, lost>>
  OBVIOUS
<1>1. CASE UNCHANGED vectorVars
  BY <1>1 DEF vectorVars, Contents
<1>2. CASE VectorNext
  <2> PICK x \in Vectors :
        \/ PopBack(x) \/ Front(x) \/ Back(x) \/ Reverse(x) \/ GrowStrings(x)
        \/ \E t \in Values : PushBack(x, t)
        \/ \E index \in Indexes : At(x, index)
        \/ \E y \in Vectors : Assign(x, y) \/ AssignStrings(x, y) \/ Equal(x, y)
    BY <1>2 DEF VectorNext
  <2> QED
    BY PushBackRefines, PopBackRefines, ReverseRefines, AssignRefines, EqualRefines, LookRefines, LoseRefines
    DEF Abstract!Next
<1> QED
  BY <1>1, <1>2

\* SimpleVector is a sequence for its users, and loses strings only when more is
\* pushed or assigned than the storage a vector begins with.
THEOREM Refinement == VectorSpec => ImplementsVector
<1>1. VectorSpec => Abstract!Init
  BY InitRefines DEF VectorSpec
<1>2. VectorSpec => [][Abstract!Next]_<<Contents, plain, call, answer, lost>>
  BY InitOK, StepOK, StepRefines, PTL DEF VectorSpec
<1> QED
  BY <1>1, <1>2 DEF ImplementsVector, Abstract!Spec
=============================================================================
