-------------------------- MODULE HashTable_proofs --------------------------
(***************************************************************************)
(* Proofs about HashTable, for every set of keys and values, every size of *)
(* the table, every hash function and any number of elements.              *)
(***************************************************************************)
EXTENDS HashTable, FiniteSetTheorems, WellFoundedInduction, TLAPS

\* The elements of a table are finitely many.
LEMMA FiniteTable ==
  ASSUME TypeOK
  PROVE  IsFiniteSet(DOMAIN elems) /\ Cardinality(DOMAIN elems) \in Nat
<1>1. IsFiniteSet(1..newest)
  BY FS_Interval DEF TypeOK
<1>2. DOMAIN elems \subseteq 1..newest
  BY DEF TypeOK
<1>3. IsFiniteSet(DOMAIN elems)
  BY <1>1, <1>2, FS_Subset
<1> QED BY <1>3, FS_CardinalityType

\* The bucket of an element is one of the table, and holds the element.
LEMMA RowType ==
  ASSUME TypeOK, NEW a \in DOMAIN elems
  PROVE  /\ RowOf(a) \in Rows /\ RowOf(a) \in Nat /\ a \in Bucket(RowOf(a))
         /\ a \in Nat /\ a # Null /\ elems[a] \in Element
BY HashAssumption DEF TypeOK, RowOf, Bucket, Element, Rows, Null

\* What an insertion changes: a new element becomes the first of its bucket.
Inserted(b) ==
  /\ newest' = newest + 1
  /\ DOMAIN elems' = DOMAIN elems \cup {newest'}
  /\ elems'[newest'] = NewElement(table_[b])
  /\ \A a \in DOMAIN elems :
       elems'[a] = IF a = table_[b] THEN WithPrev(elems[a], newest') ELSE elems[a]
  /\ table_' = [table_ EXCEPT ![b] = newest']

\* After an insertion the buckets are those of before and the new element.
LEMMA InsertedBuckets ==
  ASSUME TypeOK, call \in Inserts, Inserted(Hash[call.key])
  PROVE  /\ newest' \in Nat \ {0} /\ newest' \notin DOMAIN elems
         /\ \A a \in DOMAIN elems : a < newest'
         /\ \A a \in DOMAIN elems : RowOf(a)' = RowOf(a) /\ elems'[a].key_ = elems[a].key_
                                    /\ elems'[a].value_ = elems[a].value_
         /\ RowOf(newest)' = Hash[call.key]
         /\ \A b : Bucket(b)' = IF b = Hash[call.key] THEN Bucket(b) \cup {newest'} ELSE Bucket(b)
<1> DEFINE n == newest'
<1>1. n \in Nat \ {0} /\ n \notin DOMAIN elems /\ \A a \in DOMAIN elems : a \in Nat /\ a < n
  BY DEF TypeOK, Inserted
<1>2. ASSUME NEW a \in DOMAIN elems
      PROVE  RowOf(a)' = RowOf(a) /\ elems'[a].key_ = elems[a].key_
             /\ elems'[a].value_ = elems[a].value_
  BY <1>2 DEF TypeOK, Inserted, RowOf, Element, WithPrev
<1>3. elems'[n].key_ = call.key
  BY DEF Inserted, NewElement
<1>4. ASSUME NEW b
      PROVE  Bucket(b)' = IF b = Hash[call.key] THEN Bucket(b) \cup {n} ELSE Bucket(b)
  BY <1>1, <1>2, <1>3 DEF Inserted, Bucket, RowOf
<1> QED BY <1>1, <1>2, <1>3, <1>4 DEF RowOf

\* Both ways of inserting are such a change.
LEMMA Insertions ==
  ASSUME IInv, InsertIntoEmpty \/ InsertFirst
  PROVE  /\ Inserted(Hash[call.key]) /\ call \in Inserts /\ call' = NoCall /\ steady' = FALSE
         /\ cur = Null /\ cur' = Null /\ row' = 0 /\ found_count_' = 0
         /\ answer' = call.value /\ count_' <= count_ + 1 /\ count_' \in Int
         /\ UNCHANGED <<iterator, undefined, seen, repeated>>
<1>1. call \in Inserts
  BY DEF IInv, TypeOK, InsertIntoEmpty, InsertFirst, Miss, Searching, Calls, Inserts, Lookups, NoCall
<1>2. CASE InsertIntoEmpty
  <2>1. table_[Hash[call.key]] = Null /\ \A a \in DOMAIN elems : a # Null
    BY <1>2 DEF InsertIntoEmpty, IInv, TypeOK, Null
  <2>2. Inserted(Hash[call.key])
    BY <1>2, <2>1 DEF InsertIntoEmpty, Inserted, IInv, TypeOK
  <2> QED BY <1>1, <1>2, <2>2 DEF InsertIntoEmpty, Miss, Return, Unsteady, IInv, TypeOK
<1>3. CASE InsertFirst
  <2>1. Inserted(Hash[call.key])
    BY <1>3 DEF InsertFirst, Inserted, IInv, TypeOK
  <2> QED BY <1>1, <1>3, <2>1 DEF InsertFirst, Miss, Return, Unsteady, IInv, TypeOK
<1> QED BY <1>2, <1>3

\* An insertion keeps the links in order.
LEMMA InsertLinked ==
  ASSUME IInv, call \in Inserts, Inserted(Hash[call.key])
  PROVE  Linked'
<1> DEFINE b == Hash[call.key]
           n == newest'
<1>0. TypeOK /\ Linked
  BY DEF IInv
<1>1. /\ n \in Nat \ {0} /\ n \notin DOMAIN elems
      /\ \A a \in DOMAIN elems : a < n
      /\ \A a \in DOMAIN elems : RowOf(a)' = RowOf(a)
      /\ RowOf(newest)' = b
      /\ \A c : Bucket(c)' = IF c = b THEN Bucket(c) \cup {n} ELSE Bucket(c)
  BY <1>0, InsertedBuckets
<1>2. b \in Rows
  BY HashAssumption DEF Inserts
<1>3. \A a \in DOMAIN elems : RowOf(a) \in Rows /\ a \in Bucket(RowOf(a)) /\ a \in Nat /\ a # Null
  BY <1>0, RowType
<1>4. \A c : Bucket(c) \subseteq DOMAIN elems
  BY DEF Bucket
<1>5. IsNewest(table_[b], Bucket(b))
  BY <1>0, <1>2 DEF Linked
<1>6. ASSUME NEW c \in Rows PROVE IsNewest(table_[c], Bucket(c))'
  <2>1. CASE c = b
    <3>1. table_'[c] = n
      BY <2>1, <1>0, <1>2 DEF Inserted, TypeOK
    <3> QED BY <2>1, <3>1, <1>1, <1>3, <1>4 DEF IsNewest, Null
  <2>2. CASE c # b
    <3>1. table_'[c] = table_[c] /\ Bucket(c)' = Bucket(c)
      BY <2>2, <1>0, <1>1, <1>6 DEF Inserted, TypeOK
    <3> QED BY <3>1, <1>0 DEF Linked, IsNewest
  <2> QED BY <2>1, <2>2
<1>7. ASSUME NEW a \in DOMAIN elems'
      PROVE  IsNewest(elems[a].next_, Older(a))' /\ IsOldest(elems[a].prev_, Newer(a))'
  <2>1. CASE a = n
    <3>1. elems'[a].next_ = table_[b] /\ elems'[a].prev_ = Null
      BY <2>1 DEF Inserted, NewElement
    <3>2. RowOf(a)' = b
      BY <2>1, <1>1 DEF RowOf
    <3>3. Older(a)' = Bucket(b) /\ Newer(a)' = {}
      BY <2>1, <3>2, <1>1, <1>3, <1>4 DEF Older, Newer
    <3> QED BY <3>1, <3>3, <1>5 DEF IsNewest, IsOldest
  <2>2. CASE a # n
    <3>1. a \in DOMAIN elems
      BY <2>2, <1>7 DEF Inserted
    <3>2. RowOf(a)' = RowOf(a) /\ Older(a)' = Older(a)
          /\ Newer(a)' = IF RowOf(a) = b THEN Newer(a) \cup {n} ELSE Newer(a)
      BY <3>1, <1>1, <1>3, <1>4 DEF Older, Newer
    <3>3. elems'[a].next_ = elems[a].next_
          /\ elems'[a].prev_ = IF a = table_[b] THEN n ELSE elems[a].prev_
      BY <3>1, <1>0 DEF Inserted, WithPrev, TypeOK, Element
    <3>4. IsNewest(elems[a].next_, Older(a)) /\ IsOldest(elems[a].prev_, Newer(a))
      BY <3>1, <1>0 DEF Linked
    <3>5. IsNewest(elems[a].next_, Older(a))'
      BY <3>2, <3>3, <3>4 DEF IsNewest
    <3>6. IsOldest(elems'[a].prev_, Newer(a)')
      <4>1. CASE a = table_[b]
        <5>1. a \in Bucket(b) /\ RowOf(a) = b
          BY <4>1, <3>1, <1>3, <1>5 DEF IsNewest, Bucket
        <5>2. Newer(a) = {}
          BY <5>1, <4>1, <1>3, <1>4, <1>5 DEF IsNewest, Newer
        <5> QED BY <4>1, <5>1, <5>2, <3>2, <3>3, <1>1 DEF IsOldest, Null
      <4>2. CASE a # table_[b] /\ RowOf(a) = b
        <5>1. table_[b] \in Newer(a)
          BY <4>2, <3>1, <1>3, <1>4, <1>5 DEF IsNewest, Newer, Bucket
        <5>2. elems[a].prev_ \in Newer(a)
          BY <5>1, <3>4 DEF IsOldest
        <5> QED BY <4>2, <5>1, <5>2, <3>2, <3>3, <3>4, <1>1, <1>3, <1>4 DEF IsOldest, Newer
      <4>3. CASE RowOf(a) # b
        <5>1. a # table_[b]
          BY <4>3, <3>1, <1>3, <1>5 DEF IsNewest, Bucket
        <5> QED BY <4>3, <5>1, <3>2, <3>3, <3>4
      <4> QED BY <4>1, <4>2, <4>3
    <3>7. IsOldest(elems[a].prev_, Newer(a))'
      BY <3>6 DEF IsOldest
    <3> QED BY <3>5, <3>7
  <2> QED BY <2>1, <2>2
<1> QED BY <1>6, <1>7 DEF Linked

\* What a deletion finds, and what it leaves: the buckets without the element at cur.
LEMMA DeletedBuckets ==
  ASSUME IInv, DeleteHit
  PROVE  /\ call \in Lookups /\ cur \in DOMAIN elems /\ RowOf(cur) = Hash[call.key]
         /\ DOMAIN elems' = DOMAIN elems \ {cur}
         /\ elems[cur].key_ = call.key
         /\ \A a \in DOMAIN elems' : RowOf(a)' = RowOf(a) /\ elems'[a].key_ = elems[a].key_
                                     /\ elems'[a].value_ = elems[a].value_
         /\ \A b : Bucket(b)' = Bucket(b) \ {cur}
<1>0. TypeOK /\ SearchInv
  BY DEF IInv
<1>1. call \in Lookups /\ call.op = "delete" /\ cur # Null /\ elems[cur].key_ = call.key
  BY <1>0 DEF TypeOK, DeleteHit, Hit, Searching, Calls, Inserts, Lookups, NoCall
<1>2. cur \in Bucket(Hash[call.key])
  BY <1>0, <1>1 DEF SearchInv, InBucket
<1>3. cur \in DOMAIN elems /\ RowOf(cur) = Hash[call.key]
  BY <1>2 DEF Bucket
<1>4. DOMAIN elems' = DOMAIN elems \ {cur}
  BY DEF DeleteHit
<1>5. ASSUME NEW a \in DOMAIN elems'
      PROVE  RowOf(a)' = RowOf(a) /\ elems'[a].key_ = elems[a].key_
             /\ elems'[a].value_ = elems[a].value_
  BY <1>5, <1>4, <1>0 DEF DeleteHit, WithNext, WithPrev, RowOf
<1>6. ASSUME NEW b PROVE Bucket(b)' = Bucket(b) \ {cur}
  BY <1>4, <1>5 DEF Bucket
<1> QED BY <1>1, <1>3, <1>4, <1>5, <1>6

\* A deletion keeps the links in order.
LEMMA DeleteLinked ==
  ASSUME IInv, DeleteHit
  PROVE  Linked'
<1> DEFINE b == Hash[call.key]
           next == elems[cur].next_
           prev == elems[cur].prev_
<1>0. TypeOK /\ Linked
  BY DEF IInv
<1>1. /\ cur \in DOMAIN elems /\ RowOf(cur) = b
      /\ DOMAIN elems' = DOMAIN elems \ {cur}
      /\ \A a \in DOMAIN elems' : RowOf(a)' = RowOf(a)
      /\ \A c : Bucket(c)' = Bucket(c) \ {cur}
  BY DeletedBuckets
<1>2. b \in Rows
  BY DeletedBuckets, HashAssumption DEF Lookups
<1>3. \A a \in DOMAIN elems : RowOf(a) \in Rows /\ a \in Bucket(RowOf(a)) /\ a \in Nat /\ a # Null
  BY <1>0, RowType
<1>4. \A c : \A a \in Bucket(c) : a \in DOMAIN elems /\ RowOf(a) = c
  BY DEF Bucket
<1>5. IsNewest(next, Older(cur)) /\ IsOldest(prev, Newer(cur))
  BY <1>0, <1>1 DEF Linked
<1>6. ASSUME NEW a \in DOMAIN elems'
      PROVE  /\ elems'[a].next_ = IF a = prev THEN next ELSE elems[a].next_
             /\ elems'[a].prev_ = IF a = next THEN prev ELSE elems[a].prev_
  <2>1. next = Null \/ next < cur
    BY <1>1, <1>3, <1>4, <1>5 DEF IsNewest, Older
  <2>2. prev = Null \/ prev > cur
    BY <1>1, <1>3, <1>4, <1>5 DEF IsOldest, Newer
  <2>3. a # Null /\ a \in Nat /\ cur \in Nat
    BY <1>1, <1>3, <1>6
  <2>4. elems'[a] = IF a = prev THEN WithNext(elems[a], next)
                    ELSE IF a = next THEN WithPrev(elems[a], prev) ELSE elems[a]
    BY <1>1, <1>6 DEF DeleteHit
  <2>5. ~(a = prev /\ a = next)
    BY <2>1, <2>2, <2>3
  <2>6. CASE a = prev
    BY <2>4, <2>5, <2>6 DEF WithNext
  <2>7. CASE a = next
    BY <2>4, <2>5, <2>7 DEF WithPrev
  <2>8. CASE a # prev /\ a # next
    BY <2>4, <2>8
  <2> QED BY <2>6, <2>7, <2>8
<1>7. ASSUME NEW c \in Rows PROVE IsNewest(table_'[c], Bucket(c)')
  <2>1. IsNewest(table_[c], Bucket(c))
    BY <1>0 DEF Linked
  <2>2. CASE c # b
    <3>1. table_'[c] = table_[c] /\ cur \notin Bucket(c)
      BY <2>2, <1>0, <1>1, <1>4 DEF DeleteHit, TypeOK
    <3> QED BY <3>1, <2>1, <1>1 DEF IsNewest
  <2>3. CASE c = b /\ prev = Null
    <3>1. table_'[c] = next /\ Newer(cur) = {}
      BY <2>3, <1>0, <1>2, <1>5 DEF DeleteHit, TypeOK, IsOldest
    <3>2. Bucket(c) \ {cur} = Older(cur)
      BY <3>1, <2>3, <1>1, <1>3, <1>4 DEF Older, Newer
    <3> QED BY <3>1, <3>2, <1>1, <1>5
  <2>4. CASE c = b /\ prev # Null
    <3>1. table_'[c] = table_[c] /\ prev \in Newer(cur)
      BY <2>4, <1>5 DEF DeleteHit, IsOldest
    <3>2. table_[c] # cur
      BY <3>1, <2>1, <2>4, <1>1, <1>3, <1>4 DEF IsNewest, Newer
    <3> QED BY <3>1, <3>2, <2>1, <1>1 DEF IsNewest, Newer
  <2> QED BY <2>2, <2>3, <2>4
<1>8. ASSUME NEW a \in DOMAIN elems'
      PROVE  IsNewest(elems'[a].next_, Older(a)') /\ IsOldest(elems'[a].prev_, Newer(a)')
  <2>0. a \in DOMAIN elems /\ a # cur
    BY <1>1, <1>8
  <2>1. Older(a)' = Older(a) \ {cur} /\ Newer(a)' = Newer(a) \ {cur}
    BY <1>1, <1>8 DEF Older, Newer
  <2>2. IsNewest(elems[a].next_, Older(a)) /\ IsOldest(elems[a].prev_, Newer(a))
    BY <2>0, <1>0 DEF Linked
  <2>3. IsNewest(elems'[a].next_, Older(a) \ {cur})
    <3>1. CASE a = prev
      <4>1. a \in Newer(cur) /\ \A x \in Newer(cur) : x >= a
        BY <3>1, <2>0, <1>3, <1>5 DEF IsOldest
      <4>2. Older(a) \ {cur} = Older(cur)
        BY <4>1, <2>0, <1>1, <1>3, <1>4 DEF Older, Newer
      <4> QED BY <3>1, <4>2, <1>5, <1>6, <1>8
    <3>2. CASE a # prev
      <4>1. elems[a].next_ # cur
        <5>1. SUFFICES ASSUME elems[a].next_ = cur PROVE FALSE
          OBVIOUS
        <5>2. cur \in Older(a) /\ \A x \in Older(a) : x <= cur
          BY <5>1, <2>2, <1>1, <1>3 DEF IsNewest
        <5>3. a \in Newer(cur)
          BY <5>2, <2>0, <1>1, <1>3, <1>4 DEF Older, Newer
        <5>4. prev \in Newer(cur) /\ prev <= a
          BY <5>3, <1>5 DEF IsOldest
        <5>5. prev \in Older(a)
          BY <5>3, <5>4, <3>2, <2>0, <1>1, <1>3, <1>4 DEF Older, Newer
        <5> QED BY <5>2, <5>4, <5>5, <1>1, <1>3, <1>4 DEF Newer
      <4> QED BY <3>2, <4>1, <2>2, <1>6, <1>8 DEF IsNewest
    <3> QED BY <3>1, <3>2
  <2>4. IsOldest(elems'[a].prev_, Newer(a) \ {cur})
    <3>1. CASE a = next
      <4>1. a \in Older(cur) /\ \A x \in Older(cur) : x <= a
        BY <3>1, <2>0, <1>3, <1>5 DEF IsNewest
      <4>2. Newer(a) \ {cur} = Newer(cur)
        BY <4>1, <2>0, <1>1, <1>3, <1>4 DEF Older, Newer
      <4> QED BY <3>1, <4>2, <1>5, <1>6, <1>8
    <3>2. CASE a # next
      <4>1. elems[a].prev_ # cur
        <5>1. SUFFICES ASSUME elems[a].prev_ = cur PROVE FALSE
          OBVIOUS
        <5>2. cur \in Newer(a) /\ \A x \in Newer(a) : x >= cur
          BY <5>1, <2>2, <1>1, <1>3 DEF IsOldest
        <5>3. a \in Older(cur)
          BY <5>2, <2>0, <1>1, <1>3, <1>4 DEF Older, Newer
        <5>4. next \in Older(cur) /\ next >= a
          BY <5>3, <1>5 DEF IsNewest
        <5>5. next \in Newer(a)
          BY <5>3, <5>4, <3>2, <2>0, <1>1, <1>3, <1>4 DEF Older, Newer
        <5> QED BY <5>2, <5>4, <5>5, <1>1, <1>3, <1>4 DEF Older
      <4> QED BY <3>2, <4>1, <2>2, <1>6, <1>8 DEF IsOldest
    <3> QED BY <3>1, <3>2
  <2> QED BY <2>1, <2>3, <2>4
<1> QED BY <1>7, <1>8 DEF Linked, IsNewest, IsOldest

\* The flags of the history stay flags.
Flags == undefined \in BOOLEAN /\ steady \in BOOLEAN /\ repeated \in BOOLEAN /\ seen \subseteq Nat

\* A step that only ends the steady time of the iterator keeps the flags typed.
LEMMA UnsteadyFlags ==
  ASSUME TypeOK, steady' = FALSE, UNCHANGED <<undefined, seen, repeated>>
  PROVE  Flags'
BY Zenon DEF TypeOK, Flags

\* An empty table satisfies the invariant, whatever its iterator holds.
LEMMA InitInv ==
  ASSUME Init PROVE IInv
<1>1. elems = <<>> /\ DOMAIN elems = {}
  BY DEF Init
<1>2. TypeOK
  <2>1. table_ \in [Rows -> Nat]
    BY DEF Init, Null
  <2>2. tableIterator_ \in 0..MAX_TABLE /\ bucketIterator_ \in Nat \cup {Wild}
    BY DEF Init, Null
  <2>3. Flags
    BY Zenon DEF Init, Flags
  <2>4. call \in Calls /\ cur \in Nat /\ row \in Nat /\ found_count_ \in Nat
    BY DEF Init, Calls, Null
  <2> QED BY <1>1, <2>1, <2>2, <2>3, <2>4 DEF Init, TypeOK, Flags
<1>3. Linked
  <2>1. \A b \in Rows : table_[b] = Null /\ Bucket(b) = {}
    BY <1>1 DEF Init, Bucket
  <2> QED BY <2>1, <1>1 DEF Linked, IsNewest
<1>4. Distinct /\ SearchInv /\ IteratorInv
  BY <1>1 DEF Init, Distinct, SearchInv, IteratorInv, NoCall
<1>5. CountBelow
  BY <1>1, FS_EmptySet DEF Init, CountBelow
<1> QED BY <1>2, <1>3, <1>4, <1>5 DEF IInv

\* Insert puts its element in front of its bucket and keeps the links.
LEMMA InsertInv ==
  ASSUME IInv, InsertIntoEmpty \/ InsertFirst
  PROVE  IInv'
<1> DEFINE b == Hash[call.key]
           n == newest'
<1>0. TypeOK /\ Distinct /\ SearchInv /\ CountBelow
  BY DEF IInv
<1>1. /\ Inserted(b) /\ call \in Inserts /\ call' = NoCall /\ steady' = FALSE
      /\ cur = Null /\ cur' = Null /\ row' = 0 /\ found_count_' = 0
      /\ count_' <= count_ + 1 /\ count_' \in Int
      /\ UNCHANGED <<iterator, undefined, seen, repeated>>
  BY Insertions
<1>2. /\ n \in Nat \ {0} /\ n \notin DOMAIN elems
      /\ \A a \in DOMAIN elems : a < n
      /\ \A a \in DOMAIN elems : elems'[a].key_ = elems[a].key_
  BY <1>0, <1>1, InsertedBuckets
<1>3. b \in Rows /\ call.key \in Keys /\ call.value \in Values
  BY <1>1, HashAssumption DEF Inserts
<1>4. DOMAIN elems' = DOMAIN elems \cup {n} /\ newest' = newest + 1 /\ newest \in Nat
      /\ DOMAIN elems \subseteq 1..newest
  BY <1>0, <1>1 DEF Inserted, TypeOK
<1>5. TypeOK'
  <2>1. table_' \in [Rows -> Nat]
    BY <1>0, <1>1, <1>2 DEF Inserted, TypeOK
  <2>2. ASSUME NEW a \in DOMAIN elems' PROVE elems'[a] \in Element
    <3>1. CASE a = n
      BY <3>1, <1>0, <1>1, <1>3 DEF Inserted, NewElement, Element, TypeOK, Null
    <3>2. CASE a # n
      BY <3>2, <2>2, <1>0, <1>1, <1>2 DEF Inserted, WithPrev, Element, TypeOK
    <3> QED BY <3>1, <3>2
  <2>3. call' \in Calls /\ cur' \in Nat /\ row' \in Nat /\ found_count_' \in Nat
    BY <1>1 DEF Calls, Null
  <2>4. Flags'
    BY <1>0, <1>1, UnsteadyFlags
  <2> QED BY <2>1, <2>2, <2>3, <2>4, <1>0, <1>1, <1>4 DEF TypeOK, Flags, iterator
<1>6. Distinct'
  <2>1. \A a \in DOMAIN elems : elems[a].key_ # call.key
    <3>1. call.op = "insert"
      BY <1>1 DEF Inserts
    <3>2. ASSUME NEW a \in DOMAIN elems, elems[a].key_ = call.key PROVE FALSE
      BY <3>1, <3>2, <1>0, <1>1 DEF SearchInv, Passed, Bucket, RowOf
    <3> QED BY <3>2
  <2>2. elems'[n].key_ = call.key
    BY <1>1 DEF Inserted, NewElement
  <2> QED BY <2>1, <2>2, <1>0, <1>2, <1>4 DEF Distinct
<1>7. SearchInv' /\ IteratorInv'
  BY <1>1 DEF SearchInv, IteratorInv, NoCall
<1>8. CountBelow'
  <2>1. Cardinality(DOMAIN elems') = Cardinality(DOMAIN elems) + 1
    BY <1>0, <1>2, <1>4, FiniteTable, FS_AddElement
  <2> QED BY <2>1, <1>0, <1>1, FiniteTable DEF CountBelow, TypeOK
<1>9. Linked'
  BY <1>1, InsertLinked
<1> QED BY <1>5, <1>6, <1>7, <1>8, <1>9 DEF IInv

\* Delete joins the neighbours of what it takes out, at either end of a bucket too.
LEMMA DeleteInv ==
  ASSUME IInv, DeleteHit
  PROVE  IInv'
<1>0. TypeOK /\ Linked /\ Distinct /\ SearchInv /\ CountBelow
  BY DEF IInv
<1>1. /\ cur \in DOMAIN elems /\ RowOf(cur) = Hash[call.key]
      /\ DOMAIN elems' = DOMAIN elems \ {cur}
      /\ \A a \in DOMAIN elems' : elems'[a].key_ = elems[a].key_
  BY DeletedBuckets
<1>2. call' = NoCall /\ steady' = FALSE /\ count_' = count_ - 1
      /\ cur' = Null /\ row' = 0 /\ found_count_' = 0
      /\ UNCHANGED <<newest, iterator, undefined, seen, repeated>>
  BY DEF DeleteHit, Return, Unsteady
<1>3. elems[cur] \in Element
  BY <1>0, <1>1 DEF TypeOK
<1>4. TypeOK'
  <2>1. table_' \in [Rows -> Nat]
    BY <1>0, <1>3 DEF DeleteHit, TypeOK, Element
  <2>2. ASSUME NEW a \in DOMAIN elems' PROVE elems'[a] \in Element
    <3>1. elems[a] \in Element
      BY <2>2, <1>0, <1>1 DEF TypeOK
    <3> QED BY <3>1, <2>2, <1>1, <1>3 DEF DeleteHit, WithNext, WithPrev, Element
  <2>3. call' \in Calls /\ cur' \in Nat /\ row' \in Nat /\ found_count_' \in Nat
    BY <1>2 DEF Calls, Null
  <2>4. Flags'
    BY <1>0, <1>2, UnsteadyFlags
  <2> QED BY <2>1, <2>2, <2>3, <2>4, <1>0, <1>1, <1>2 DEF TypeOK, Flags, iterator
<1>5. Distinct'
  BY <1>0, <1>1 DEF Distinct
<1>6. SearchInv' /\ IteratorInv'
  BY <1>0, <1>2 DEF SearchInv, IteratorInv, NoCall
<1>7. CountBelow'
  <2>1. Cardinality(DOMAIN elems') = Cardinality(DOMAIN elems) - 1
    BY <1>0, <1>1, FiniteTable, FS_RemoveElement
  <2> QED BY <2>1, <1>0, <1>2, FiniteTable DEF CountBelow, TypeOK
<1> QED BY <1>4, <1>5, <1>6, <1>7, DeleteLinked DEF IInv

\* Clear leaves no element and no pointer to one.
LEMMA ClearInv ==
  ASSUME IInv, Clear
  PROVE  IInv'
<1>1. elems' = <<>> /\ DOMAIN elems' = {} /\ table_' = [b \in Rows |-> Null] /\ count_' = 0
      /\ call = NoCall /\ ~undefined /\ steady' = FALSE
      /\ UNCHANGED <<newest, iterator, call, locals, answer, undefined, seen, repeated>>
  BY DEF Clear, Idle, Unsteady
<1>2. TypeOK'
  <2>1. TypeOK
    BY DEF IInv
  <2>2. Flags'
    BY <2>1, <1>1, UnsteadyFlags
  <2> QED BY <2>1, <2>2, <1>1 DEF TypeOK, Flags, Null, iterator, locals
<1>3. Linked'
  <2>1. \A b \in Rows : table_'[b] = Null /\ Bucket(b)' = {}
    BY <1>1 DEF Bucket
  <2> QED BY <2>1, <1>1 DEF Linked, IsNewest
<1>4. Distinct' /\ SearchInv' /\ IteratorInv'
  BY <1>1 DEF Distinct, SearchInv, IteratorInv, NoCall
<1>5. CountBelow'
  BY <1>1, FS_EmptySet DEF CountBelow
<1> QED BY <1>2, <1>3, <1>4, <1>5 DEF IInv

\* What a step that leaves the elements alone need not show again.
LEMMA SameMemory ==
  ASSUME IInv, UNCHANGED memory
  PROVE  /\ Linked' /\ Distinct' /\ CountBelow'
         /\ \A b : Bucket(b)' = Bucket(b)
         /\ \A a : RowOf(a)' = RowOf(a)
         /\ DOMAIN elems' = DOMAIN elems
BY DEF IInv, memory, Linked, Distinct, CountBelow, Bucket, RowOf, Older, Newer, IsNewest, IsOldest

\* A step that changes neither elements nor iterator keeps what has been shown.
LEMMA SameIterator ==
  ASSUME IInv, UNCHANGED <<memory, iterator, undefined, history>>
  PROVE  IteratorInv'
BY DEF IInv, memory, iterator, history, IteratorInv, Before, InBucket, Bucket, RowOf, Passed

\* The state of a walk, and what such a step must show.
WalkType == call \in Calls /\ cur \in Nat /\ row \in Nat /\ found_count_ \in Nat

\* A step that changes no memory preserves the invariant when its own walk is in order.
LEMMA SameTypes ==
  ASSUME IInv, UNCHANGED <<memory, iterator, undefined, history>>, WalkType', SearchInv'
  PROVE  IInv'
<1>1. TypeOK
  BY DEF IInv
<1>2. Flags'
  BY <1>1, Zenon DEF TypeOK, Flags, history
<1>3. TypeOK'
  BY <1>1, <1>2 DEF TypeOK, Flags, WalkType, memory, iterator
<1> QED BY <1>3, SameMemory, SameIterator DEF IInv

\* A call that answers and changes nothing.
LEMMA Answers ==
  ASSUME IInv, NEW a, Return(a), UNCHANGED <<memory, iterator, undefined, history>>
  PROVE  IInv'
<1>1. WalkType'
  BY DEF Return, WalkType, Calls, Null
<1>2. SearchInv'
  BY DEF Return, SearchInv, NoCall
<1> QED BY <1>1, <1>2, SameTypes

\* The head of a bucket is one of its elements, and none is newer.
LEMMA BucketHead ==
  ASSUME IInv, NEW b \in Rows
  PROVE  /\ table_[b] \in Nat /\ InBucket(table_[b], b)
         /\ \A x \in Bucket(b) : ~Passed(table_[b], x)
<1>1. IsNewest(table_[b], Bucket(b)) /\ table_[b] \in Nat
  BY DEF IInv, Linked, TypeOK
<1>2. \A x \in Bucket(b) : x \in Nat /\ x # Null
  BY RowType DEF IInv, Bucket
<1> QED BY <1>1, <1>2 DEF IsNewest, InBucket, Passed

\* The link of an element leads into its own bucket, past nothing but the element.
LEMMA BucketLink ==
  ASSUME IInv, NEW a \in DOMAIN elems
  PROVE  /\ elems[a].next_ \in Nat /\ InBucket(elems[a].next_, RowOf(a))
         /\ \A x \in Bucket(RowOf(a)) : Passed(elems[a].next_, x) <=> Passed(a, x) \/ x = a
<1>1. IsNewest(elems[a].next_, Older(a)) /\ elems[a].next_ \in Nat
  BY DEF IInv, Linked, TypeOK, Element
<1>2. a \in Nat /\ a # Null /\ \A x \in Bucket(RowOf(a)) : x \in Nat /\ x # Null
  BY RowType DEF IInv, Bucket
<1> QED BY <1>1, <1>2 DEF IsNewest, InBucket, Passed, Older

\* A search begins at the newest element of the bucket of its key.
LEMMA SearchStep ==
  ASSUME IInv, NEW c \in Inserts \cup Lookups, Search(c)
  PROVE  IInv'
<1>1. c.key \in Keys /\ Hash[c.key] \in Rows /\ c \in Calls /\ c # NoCall /\ c.op # "value"
  BY HashAssumption DEF Inserts, Lookups, Calls, NoCall
<1>2. call' = c /\ cur' = table_[Hash[c.key]] /\ ~undefined
      /\ UNCHANGED <<memory, iterator, undefined, history, row, found_count_>>
  BY DEF Search, Idle
<1>3. WalkType'
  BY <1>1, <1>2, BucketHead DEF WalkType, IInv, TypeOK
<1>4. SearchInv'
  BY <1>1, <1>2, BucketHead, SameMemory DEF SearchInv, InBucket
<1> QED BY <1>2, <1>3, <1>4, SameTypes

\* A search that goes on has passed one more element, which is not its key.
LEMMA SearchOnStep ==
  ASSUME IInv, SearchOn
  PROVE  IInv'
<1>1. call.op \in {"insert", "find", "delete"} /\ cur # Null /\ elems[cur].key_ # call.key
      /\ cur' = elems[cur].next_
      /\ UNCHANGED <<memory, iterator, undefined, history, call, row, found_count_>>
  BY DEF SearchOn, Searching
<1>2. cur \in DOMAIN elems /\ RowOf(cur) = Hash[call.key]
  BY <1>1 DEF IInv, SearchInv, InBucket, Bucket
<1>3. WalkType'
  BY <1>1, <1>2, BucketLink DEF WalkType, IInv, TypeOK
<1>4. SearchInv'
  <2>1. InBucket(cur', Hash[call.key])
    BY <1>1, <1>2, BucketLink
  <2>2. ASSUME NEW x \in Bucket(Hash[call.key]), Passed(cur', x)
        PROVE  elems[x].key_ # call.key
    BY <1>1, <1>2, <2>2, BucketLink DEF IInv, SearchInv
  <2>3. elems' = elems
    BY <1>1 DEF memory
  <2> QED BY <1>1, <2>1, <2>2, <2>3, SameMemory DEF SearchInv, InBucket, IInv
<1> QED BY <1>1, <1>3, <1>4, SameTypes

\* GetValue walks along the buckets and stays within them.
LEMMA GetValueSteps ==
  ASSUME IInv, (\E index \in 0..MaxNew : GetValue(index)) \/ GetValueRow \/ GetValueOn
  PROVE  IInv'
<1>1. CASE \E index \in 0..MaxNew : GetValue(index)
  <2>1. PICK index \in 0..MaxNew : GetValue(index)
    BY <1>1
  <2>2. 0 \in Rows /\ index \in Nat
    BY SizeAssumption DEF Rows
  <2>3. WalkType'
    BY <2>1, <2>2, BucketHead DEF GetValue, WalkType, Calls
  <2>4. SearchInv'
    BY <2>1, <2>2, BucketHead, SameMemory DEF GetValue, Idle, SearchInv, InBucket
  <2> QED BY <2>1, <2>3, <2>4, SameTypes DEF GetValue
<1>2. CASE GetValueRow
  <2>1. call.op = "value" /\ row' = row + 1 /\ row' \in Rows /\ row' \in Nat /\ cur' = table_[row']
    BY <1>2, SizeAssumption DEF GetValueRow, Searching, IInv, TypeOK, Rows
  <2>2. WalkType'
    BY <1>2, <2>1, BucketHead DEF GetValueRow, WalkType, IInv, TypeOK
  <2>3. SearchInv'
    BY <1>2, <2>1, BucketHead, SameMemory DEF GetValueRow, SearchInv, InBucket, IInv
  <2> QED BY <1>2, <2>2, <2>3, SameTypes DEF GetValueRow
<1>3. CASE GetValueOn
  <2>1. call.op = "value" /\ cur' = elems[cur].next_ /\ cur \in DOMAIN elems /\ RowOf(cur) = row
    BY <1>3 DEF GetValueOn, Searching, IInv, SearchInv, InBucket, Bucket
  <2>2. WalkType'
    BY <1>3, <2>1, BucketLink DEF GetValueOn, WalkType, IInv, TypeOK
  <2>3. SearchInv'
    BY <1>3, <2>1, BucketLink, SameMemory DEF GetValueOn, SearchInv, InBucket, IInv
  <2> QED BY <1>3, <2>2, <2>3, SameTypes DEF GetValueOn
<1> QED BY <1>1, <1>2, <1>3

\* The loop over the buckets finds the first one that has an element.
LEMMA FirstRow ==
  ASSUME NEW S \in SUBSET Rows, S # {}
  PROVE  FirstOf(S) \in S /\ \A c \in S : FirstOf(S) <= c
<1> DEFINE R == OpToRel(<, Nat)
<1>1. \A x, y \in Nat : y < x => <<y, x>> \in R
  BY DEF OpToRel
<1>2. S \subseteq Nat
  BY SizeAssumption DEF Rows
<1> HIDE DEF R
<1>3. IsWellFoundedOn(R, Nat)
  BY NatLessThanWellFounded DEF R
<1>4. \E x \in S : \A y \in S : ~(<<y, x>> \in R)
  BY <1>2, <1>3, WFMin
<1>5. PICK x \in S : \A y \in S : ~(<<y, x>> \in R)
  BY <1>4
<1>6. ASSUME NEW y \in S PROVE x <= y
  <2>1. x \in Nat /\ y \in Nat /\ ~(y < x)
    BY <1>1, <1>2, <1>5
  <2> QED BY <2>1
<1> QED BY <1>5, <1>6 DEF FirstOf

\* The elements before a place of the iterator, one by one.
LEMMA InBefore ==
  ASSUME NEW b, NEW p
  PROVE  /\ Before(b, p) \subseteq DOMAIN elems
         /\ \A a \in DOMAIN elems :
              a \in Before(b, p) <=> (RowOf(a) < b \/ (RowOf(a) = b /\ Passed(p, a)))
BY DEF Before

\* Where the iterator goes when it moves on: past no element it has not shown.
LEMMA MovedOn ==
  ASSUME IInv, steady
  PROVE  /\ Moved.row \in Rows /\ InBucket(Moved.at, Moved.row)
         /\ seen = Before(Moved.row, Moved.at)
         /\ Moved.at = Null => seen = DOMAIN elems
<1>1. /\ tableIterator_ \in Rows /\ InBucket(bucketIterator_, tableIterator_)
      /\ seen = Before(tableIterator_, bucketIterator_)
  BY DEF IInv, IteratorInv
<1>2. ASSUME NEW a \in DOMAIN elems
      PROVE  RowOf(a) \in Rows /\ RowOf(a) \in Int /\ table_[RowOf(a)] # Null
             /\ ~Passed(table_[RowOf(a)], a)
  <2>1. RowOf(a) \in Rows /\ RowOf(a) \in Nat /\ a \in Bucket(RowOf(a))
    BY <1>2, RowType DEF IInv
  <2> QED BY <2>1, BucketHead DEF Passed
<1>3. Rows \subseteq Int /\ NextRow \subseteq Rows
  BY SizeAssumption DEF Rows, NextRow, FilledRows
<1>4. CASE ~(bucketIterator_ = Null /\ NextRow # {})
  <2>1. Moved.row = tableIterator_ /\ Moved.at = bucketIterator_
    BY <1>4 DEF Moved
  <2>2. ASSUME Moved.at = Null, NEW a \in DOMAIN elems PROVE a \in seen
    <3>1. RowOf(a) \notin NextRow
      BY <1>4, <2>1, <2>2
    <3>2. RowOf(a) <= tableIterator_
      BY <3>1, <2>2, <1>1, <1>2, <1>3 DEF NextRow, FilledRows
    <3>3. RowOf(a) < tableIterator_ \/ RowOf(a) = tableIterator_
      BY <3>2, <2>2, <1>1, <1>2, <1>3
    <3>4. Passed(bucketIterator_, a)
      BY <2>1, <2>2 DEF Passed
    <3> QED BY <3>3, <3>4, <2>2, <1>1, InBefore
  <2>3. seen \subseteq DOMAIN elems
    BY <1>1, InBefore
  <2> QED BY <2>1, <2>2, <2>3, <1>1 DEF Before
<1>5. CASE bucketIterator_ = Null /\ NextRow # {}
  <2> DEFINE r == FirstOf(NextRow)
  <2>1. Moved.row = r /\ Moved.at = table_[r]
    BY <1>5 DEF Moved
  <2>2. r \in NextRow /\ \A c \in NextRow : r <= c
    BY <1>3, <1>5, FirstRow
  <2>3. r \in Rows /\ table_[r] # Null /\ tableIterator_ < r
    BY <2>2 DEF NextRow, FilledRows
  <2>4. InBucket(table_[r], r) /\ \A x \in Bucket(r) : ~Passed(table_[r], x)
    BY <2>3, BucketHead
  <2>5. ASSUME NEW a \in DOMAIN elems
        PROVE  a \in Before(tableIterator_, bucketIterator_) <=> a \in Before(r, table_[r])
    <3>0. RowOf(a) \in Int /\ r \in Int /\ tableIterator_ \in Int
      BY <2>3, <1>1, <1>2, <1>3, <2>5
    <3>1. a \in Before(tableIterator_, bucketIterator_) <=> RowOf(a) <= tableIterator_
      <4>1. Passed(bucketIterator_, a)
        BY <1>5 DEF Passed
      <4>2. a \in Before(tableIterator_, bucketIterator_)
              <=> RowOf(a) < tableIterator_ \/ RowOf(a) = tableIterator_
        BY <4>1, <2>5, InBefore
      <4> QED BY <4>2, <3>0
    <3>2. RowOf(a) > tableIterator_ => r <= RowOf(a)
      BY <2>2, <1>2 DEF NextRow, FilledRows
    <3>3. RowOf(a) = r => ~Passed(table_[r], a)
      BY <1>2
    <3>4. a \in Before(r, table_[r]) <=> RowOf(a) < r
      BY <3>3, <2>5, InBefore
    <3> QED BY <3>0, <3>1, <3>2, <3>4, <2>3
  <2>6. Before(tableIterator_, bucketIterator_) \subseteq DOMAIN elems
        /\ Before(r, table_[r]) \subseteq DOMAIN elems
    BY InBefore
  <2> QED BY <2>1, <2>3, <2>4, <2>5, <2>6, <1>1
<1> QED BY <1>4, <1>5

\* Put on the first filled bucket, the iterator has nothing behind it.
LEMMA ResetStep ==
  ASSUME IInv, ResetItr
  PROVE  IInv'
<1>0. TypeOK
  BY DEF IInv
<1>1. /\ call = NoCall /\ ~undefined /\ seen' = {} /\ repeated' = FALSE
      /\ UNCHANGED <<memory, call, locals, answer, undefined>>
  BY DEF ResetItr, Idle
<1>2. SearchInv'
  BY <1>1 DEF SearchInv, NoCall
<1>3. CASE FilledRows = {}
  <2>1. UNCHANGED <<iterator, steady>>
    BY <1>3 DEF ResetItr
  <2>2. DOMAIN elems = {}
    <3>1. ASSUME NEW a \in DOMAIN elems PROVE FALSE
      <4>1. RowOf(a) \in Rows /\ a \in Bucket(RowOf(a))
        BY <1>0, RowType
      <4>2. table_[RowOf(a)] # Null
        BY <4>1, BucketHead DEF Passed
      <4> QED BY <4>1, <4>2, <1>3 DEF FilledRows
    <3> QED BY <3>1
  <2>3. TypeOK'
    <3>1. Flags'
      BY <1>0, <1>1, <2>1, Zenon DEF TypeOK, Flags
    <3> QED BY <3>1, <1>0, <1>1, <2>1 DEF TypeOK, Flags, memory, iterator, locals
  <2>4. IteratorInv'
    BY <1>1, <2>1, <2>2 DEF IInv, IteratorInv, Before, InBucket, Bucket, iterator, memory
  <2> QED BY <1>1, <1>2, <2>3, <2>4, SameMemory DEF IInv
<1>4. CASE FilledRows # {}
  <2> DEFINE r == FirstOf(FilledRows)
  <2>1. tableIterator_' = r /\ bucketIterator_' = table_[r] /\ steady' = TRUE
    BY <1>4 DEF ResetItr
  <2>2. r \in FilledRows /\ \A c \in FilledRows : r <= c
    BY <1>4, FirstRow DEF FilledRows
  <2>3. r \in Rows /\ r \in 0..MAX_TABLE
    BY <2>2, SizeAssumption DEF FilledRows, Rows
  <2>4. TypeOK'
    <3>1. Flags'
      BY <1>0, <1>1, <2>1, Zenon DEF TypeOK, Flags
    <3> QED BY <3>1, <1>0, <1>1, <2>1, <2>3 DEF TypeOK, Flags, memory, locals
  <2>5. Before(tableIterator_, bucketIterator_)' = {}
    <3>1. ASSUME NEW a \in DOMAIN elems PROVE ~(RowOf(a) < r) /\ ~(RowOf(a) = r /\ Passed(table_[r], a))
      <4>1. RowOf(a) \in Rows /\ RowOf(a) \in Int /\ a \in Bucket(RowOf(a))
        BY <1>0, RowType
      <4>2. table_[RowOf(a)] # Null /\ ~Passed(table_[RowOf(a)], a)
        BY <4>1, BucketHead DEF Passed
      <4>3. RowOf(a) \in FilledRows
        BY <4>1, <4>2 DEF FilledRows
      <4> QED BY <4>1, <4>2, <4>3, <2>2, <2>3
    <3>2. elems' = elems
      BY <1>1 DEF memory
    <3> QED BY <3>1, <3>2, <2>1 DEF Before, RowOf, Passed
  <2>6. IteratorInv'
    <3>1. InBucket(table_[r], r)
      BY <2>3, BucketHead
    <3> QED BY <3>1, <1>1, <2>1, <2>3, <2>5, SameMemory DEF IteratorInv, InBucket
  <2> QED BY <1>1, <1>2, <2>4, <2>6, SameMemory DEF IInv
<1> QED BY <1>3, <1>4

\* What Next shows is exactly what its iterator has not passed before.
LEMMA NextElementStep ==
  ASSUME IInv, NextElement
  PROVE  IInv'
<1> DEFINE at == Moved.at
<1>0. TypeOK
  BY DEF IInv
<1>1. /\ call = NoCall /\ ~undefined /\ at \in DOMAIN elems
      /\ tableIterator_' = Moved.row /\ bucketIterator_' = elems[at].next_
      /\ seen' = seen \cup {at} /\ repeated' = (repeated \/ at \in seen)
      /\ UNCHANGED <<memory, call, locals, undefined, steady>>
  BY DEF NextElement, Idle
<1>2. SearchInv'
  BY <1>1 DEF SearchInv, NoCall
<1>3. at \in Nat /\ elems[at].next_ \in Nat
  BY <1>0, <1>1, BucketLink, RowType
<1>4. TypeOK'
  <2>1. Flags'
    <3>1. repeated' \in BOOLEAN /\ undefined' \in BOOLEAN /\ steady' \in BOOLEAN
      BY <1>0, <1>1, Zenon DEF TypeOK
    <3>2. seen' \subseteq Nat
      BY <1>0, <1>1, <1>3 DEF TypeOK
    <3> QED BY <3>1, <3>2 DEF Flags
  <2>2. Moved.row \in 0..MAX_TABLE
    <3>1. NextRow # {} => FirstOf(NextRow) \in Rows
      BY FirstRow DEF NextRow, FilledRows
    <3> QED BY <3>1, <1>0, SizeAssumption DEF Moved, TypeOK, Rows
  <2> QED BY <2>1, <2>2, <1>0, <1>1, <1>3 DEF TypeOK, Flags, memory, locals
<1>5. IteratorInv'
  <2>0. SUFFICES ASSUME steady PROVE IteratorInv'
    BY <1>1 DEF IteratorInv
  <2>1. /\ Moved.row \in Rows /\ InBucket(at, Moved.row) /\ ~repeated
        /\ seen = Before(Moved.row, at)
    BY <2>0, MovedOn DEF IInv, IteratorInv
  <2>2. at # Null /\ RowOf(at) = Moved.row /\ at \in Bucket(RowOf(at)) /\ RowOf(at) \in Int
    BY <1>0, <1>1, <2>1, RowType DEF InBucket, Bucket
  <2>3. at \notin seen
    <3>1. ~Passed(at, at)
      BY <1>3, <2>2 DEF Passed
    <3> QED BY <3>1, <1>1, <2>1, <2>2, InBefore
  <2>4. InBucket(elems[at].next_, Moved.row)
    BY <1>1, <2>2, BucketLink
  <2>5. seen \cup {at} = Before(Moved.row, elems[at].next_)
    <3>1. ASSUME NEW a \in DOMAIN elems, RowOf(a) = Moved.row
          PROVE  Passed(elems[at].next_, a) <=> Passed(at, a) \/ a = at
      <4>1. a \in Bucket(RowOf(at))
        BY <3>1, <2>2 DEF Bucket
      <4> QED BY <4>1, <1>1, BucketLink
    <3>2. \A a \in DOMAIN elems :
            a \in Before(Moved.row, elems[at].next_) <=> a \in Before(Moved.row, at) \/ a = at
      BY <3>1, <1>1, <2>2, InBefore
    <3>3. /\ Before(Moved.row, elems[at].next_) \subseteq DOMAIN elems
          /\ Before(Moved.row, at) \subseteq DOMAIN elems
      BY InBefore
    <3> QED BY <3>2, <3>3, <1>1, <2>1
  <2>6. Before(tableIterator_, bucketIterator_)' = seen \cup {at}
    <3>1. elems' = elems
      BY <1>1 DEF memory
    <3> QED BY <3>1, <2>5, <1>1 DEF Before, RowOf, Passed
  <2> QED BY <1>1, <2>1, <2>3, <2>4, <2>6, SameMemory DEF IteratorInv, InBucket
<1> QED BY <1>1, <1>2, <1>4, <1>5, SameMemory DEF IInv

\* A steady iterator leaves the table only when all elements lie behind it.
LEMMA NextLostStep ==
  ASSUME IInv, NextLost
  PROVE  IInv'
<1>0. TypeOK
  BY DEF IInv
<1>1. /\ call = NoCall /\ Moved.at \notin DOMAIN elems /\ undefined' = TRUE
      /\ UNCHANGED <<memory, iterator, call, locals, answer, history>>
  BY DEF NextLost, Idle
<1>2. TypeOK'
  <2>1. Flags'
    BY <1>0, <1>1, Zenon DEF TypeOK, Flags, history
  <2> QED BY <2>1, <1>0, <1>1 DEF TypeOK, Flags, memory, iterator, locals
<1>3. SearchInv'
  BY <1>1 DEF SearchInv, NoCall
<1>4. IteratorInv'
  <2>1. steady => seen = DOMAIN elems
    BY <1>1, MovedOn DEF InBucket, Bucket
  <2> QED BY <1>1, <2>1, SameMemory
      DEF IInv, IteratorInv, Before, InBucket, Passed, iterator, history, memory, RowOf
<1> QED BY <1>1, <1>2, <1>3, <1>4, SameMemory DEF IInv

-----------------------------------------------------------------------------
\* Every step keeps the invariant.
LEMMA StepInv ==
  ASSUME IInv, [Next]_vars
  PROVE  IInv'
<1>1. ASSUME NEW c \in Inserts \cup Lookups, Search(c) PROVE IInv'
  BY <1>1, SearchStep
<1>2. ASSUME NEW index \in 0..MaxNew, GetValue(index) PROVE IInv'
  BY <1>2, GetValueSteps
<1>3. ASSUME NEW index \in 0..MaxNew, GetValueOutside(index) PROVE IInv'
  BY <1>3, Answers DEF GetValueOutside
<1>4. CASE Clear
  BY <1>4, ClearInv
<1>5. CASE ResetItr
  BY <1>5, ResetStep
<1>6. CASE NextNull
  BY <1>6, SameTypes DEF NextNull, IInv, TypeOK, WalkType, SearchInv, Idle, NoCall, locals
<1>7. CASE NextElement
  BY <1>7, NextElementStep
<1>8. CASE NextLost
  BY <1>8, NextLostStep
<1>9. CASE SearchOn
  BY <1>9, SearchOnStep
<1>10. CASE FindHit
  BY <1>10, Answers DEF FindHit
<1>11. CASE FindMiss
  BY <1>11, Answers DEF FindMiss
<1>12. CASE InsertIntoEmpty \/ InsertFirst
  BY <1>12, InsertInv
<1>13. CASE DeleteHit
  BY <1>13, DeleteInv
<1>14. CASE DeleteMiss
  BY <1>14, Answers DEF DeleteMiss
<1>15. CASE GetValueRow \/ GetValueOn
  BY <1>15, GetValueSteps
<1>16. CASE GetValueHit
  BY <1>16, Answers DEF GetValueHit
<1>17. CASE UNCHANGED vars
  <2>1. UNCHANGED <<memory, iterator, undefined, history>> /\ UNCHANGED <<call, cur, row, found_count_>>
    BY <1>17 DEF vars, locals
  <2>2. WalkType'
    BY <2>1 DEF IInv, TypeOK, WalkType
  <2>3. SearchInv'
    BY <2>1, SameMemory DEF IInv, SearchInv, InBucket, Passed, memory
  <2> QED BY <2>1, <2>2, <2>3, SameTypes
<1> QED BY <1>1, <1>2, <1>3, <1>4, <1>5, <1>6, <1>7, <1>8, <1>9, <1>10, <1>11, <1>12, <1>13, <1>14,
           <1>15, <1>16, <1>17 DEF Next, Start, Run, Lost

\* The invariant of the table holds in every state it can reach.
THEOREM Invariance == Spec => []IInv
<1>1. Init => IInv
  BY InitInv
<1>2. IInv /\ [Next]_vars => IInv'
  BY StepInv
<1> QED BY <1>1, <1>2, PTL DEF Spec

\* The table, its iterator and the locals of its calls have their types.
THEOREM TypeCorrect == Spec => []TypeOK
<1>1. IInv => TypeOK
  BY DEF IInv
<1> QED BY <1>1, Invariance, PTL

\* No sequence of insertions and deletions loses an element, closes a cycle or
\* leaves a pointer to an element that is gone.
THEOREM LinksSound == Spec => []Linked
<1>1. IInv => Linked
  BY DEF IInv
<1> QED BY <1>1, Invariance, PTL

\* The count never exceeds the number of elements.
THEOREM CountSound == Spec => []CountBelow
<1>1. IInv => CountBelow
  BY DEF IInv
<1> QED BY <1>1, Invariance, PTL

\* While the table stays as it is, the iterator shows every element once before it
\* runs off the end.
THEOREM IterationSound == Spec => []VisitsEachOnce
<1>1. IInv => VisitsEachOnce
  BY DEF IInv, IteratorInv, VisitsEachOnce
<1> QED BY <1>1, Invariance, PTL

-----------------------------------------------------------------------------
(* GetValue has an element for every index it accepts.                      *)

\* Elements that lie before one place and not another: those of the step between.
LEMMA SameBefore ==
  ASSUME UNCHANGED memory, UNCHANGED <<cur, row>>
  PROVE  Before(row, cur)' = Before(row, cur)
BY DEF memory, Before, RowOf, Passed

\* GetValue begins in front of all elements.
LEMMA NoneBefore ==
  ASSUME IInv
  PROVE  Before(0, table_[0]) = {}
<1>1. 0 \in Rows
  BY SizeAssumption DEF Rows
<1>2. ASSUME NEW a \in DOMAIN elems, RowOf(a) = 0 PROVE ~Passed(table_[0], a)
  BY <1>1, <1>2, BucketHead DEF Bucket
<1>3. ASSUME NEW a \in DOMAIN elems PROVE ~(RowOf(a) < 0)
  BY RowType DEF IInv
<1> QED BY <1>2, <1>3 DEF Before

\* It goes on to the next bucket behind all elements of the one at hand.
LEMMA NextBucket ==
  ASSUME IInv, row \in Rows, row + 1 \in Rows
  PROVE  Before(row + 1, table_[row + 1]) = Before(row, Null)
<1>1. ASSUME NEW a \in DOMAIN elems
      PROVE  a \in Before(row + 1, table_[row + 1]) <=> a \in Before(row, Null)
  <2>1. RowOf(a) \in Nat /\ row \in Nat
    BY RowType, SizeAssumption DEF IInv, Rows
  <2>2. RowOf(a) = row + 1 => ~Passed(table_[row + 1], a)
    BY BucketHead DEF Bucket
  <2>3. a \in Before(row + 1, table_[row + 1]) <=> RowOf(a) < row + 1
    BY <2>2, InBefore
  <2>4. a \in Before(row, Null) <=> RowOf(a) < row \/ RowOf(a) = row
    BY InBefore DEF Passed
  <2> QED BY <2>1, <2>3, <2>4
<1> QED BY <1>1, InBefore

\* Past one element, one more is counted.
LEMMA OneMore ==
  ASSUME IInv, cur \in DOMAIN elems, RowOf(cur) = row
  PROVE  /\ Cardinality(Before(row, cur)) \in Nat
         /\ Cardinality(Before(row, elems[cur].next_)) = Cardinality(Before(row, cur)) + 1
<1>1. cur \in Nat /\ cur # Null /\ RowOf(cur) \in Nat /\ cur \in Bucket(RowOf(cur))
  BY RowType DEF IInv
<1>2. ASSUME NEW a \in DOMAIN elems
      PROVE  a \in Before(row, elems[cur].next_) <=> a \in Before(row, cur) \/ a = cur
  <2>1. RowOf(a) = row => (Passed(elems[cur].next_, a) <=> Passed(cur, a) \/ a = cur)
    BY BucketLink DEF Bucket
  <2> QED BY <2>1, <1>1, InBefore
<1>3. Before(row, elems[cur].next_) = Before(row, cur) \cup {cur}
  BY <1>2, InBefore
<1>4. cur \notin Before(row, cur)
  <2>1. ~Passed(cur, cur) /\ ~(RowOf(cur) < row)
    BY <1>1 DEF Passed
  <2> QED BY <2>1, InBefore
<1>5. IsFiniteSet(Before(row, cur))
  BY FiniteTable, FS_Subset, InBefore DEF IInv
<1> QED BY <1>3, <1>4, <1>5, FS_AddElement, FS_CardinalityType

\* GetValue counts the elements it passes.
LEMMA ValueStep ==
  ASSUME IInv, ValueInv, [Next]_vars
  PROVE  ValueInv'
<1>1. ASSUME NEW index \in 0..MaxNew, GetValue(index) PROVE ValueInv'
  <2>1. call' = [op |-> "value", index |-> index] /\ cur' = table_[0] /\ row' = 0
        /\ found_count_' = 0 /\ index < count_ /\ UNCHANGED memory
    BY <1>1 DEF GetValue
  <2>2. Before(row, cur)' = Before(0, table_[0])
    BY <2>1 DEF memory, Before, RowOf, Passed
  <2>3. Cardinality({}) = 0 /\ count_' = count_ /\ 0 <= index
    BY <1>1, <2>1, FS_EmptySet DEF memory
  <2> QED BY <2>1, <2>2, <2>3, NoneBefore DEF ValueInv
<1>2. CASE GetValueRow
  <2>1. /\ call.op = "value" /\ cur = Null /\ row < MAX_TABLE - 1 /\ row' = row + 1
        /\ cur' = table_[row + 1] /\ UNCHANGED <<memory, call, found_count_>>
    BY <1>2 DEF GetValueRow, Searching
  <2>2. row \in Rows /\ row + 1 \in Rows
    BY <2>1, SizeAssumption DEF IInv, SearchInv, Rows
  <2>3. Before(row, cur)' = Before(row + 1, table_[row + 1])
    BY <2>1 DEF memory, Before, RowOf, Passed
  <2>4. Before(row, cur)' = Before(row, cur)
    BY <2>1, <2>2, <2>3, NextBucket
  <2>5. count_' = count_
    BY <2>1 DEF memory
  <2> QED BY <2>1, <2>4, <2>5 DEF ValueInv
<1>3. CASE GetValueOn
  <2>1. /\ call.op = "value" /\ cur # Null /\ found_count_ # call.index
        /\ found_count_' = found_count_ + 1 /\ cur' = elems[cur].next_
        /\ UNCHANGED <<memory, call, row>>
    BY <1>3 DEF GetValueOn, Searching
  <2>2. cur \in DOMAIN elems /\ RowOf(cur) = row
    BY <2>1 DEF IInv, SearchInv, InBucket, Bucket
  <2>3. Before(row, cur)' = Before(row, elems[cur].next_)
    BY <2>1 DEF memory, Before, RowOf, Passed
  <2>4. found_count_' = Cardinality(Before(row, cur)')
    BY <2>1, <2>2, <2>3, OneMore DEF ValueInv
  <2>5. call.index \in Nat /\ found_count_ \in Nat
    BY <2>1 DEF IInv, TypeOK, Calls, NoCall, Inserts, Lookups
  <2>6. found_count_' <= call.index /\ call.index < count_ /\ count_' = count_
    BY <2>1, <2>5 DEF ValueInv, memory
  <2> QED BY <2>1, <2>4, <2>6 DEF ValueInv
<1>4. ASSUME call'.op # "value" PROVE ValueInv'
  BY <1>4 DEF ValueInv
<1>5. ASSUME UNCHANGED <<memory, call, cur, row, found_count_>> PROVE ValueInv'
  <2>1. Before(row, cur)' = Before(row, cur) /\ count_' = count_
    BY <1>5, SameBefore DEF memory
  <2> QED BY <1>5, <2>1 DEF ValueInv
<1>6. ASSUME NEW c \in Inserts \cup Lookups, Search(c) PROVE ValueInv'
  BY <1>4, <1>6 DEF Search, Inserts, Lookups
<1>7. ASSUME NEW a, Return(a) PROVE ValueInv'
  BY <1>4, <1>7 DEF Return, NoCall
<1>8. ASSUME NEW index \in 0..MaxNew, GetValueOutside(index) PROVE ValueInv'
  BY <1>7, <1>8 DEF GetValueOutside
<1>9. CASE Clear \/ ResetItr \/ NextNull \/ NextElement \/ NextLost
  BY <1>4, <1>9 DEF Clear, ResetItr, NextNull, NextElement, NextLost, Idle, NoCall
<1>10. CASE SearchOn
  BY <1>4, <1>10 DEF SearchOn, Searching
<1>11. CASE \/ FindHit \/ FindMiss \/ InsertIntoEmpty \/ InsertFirst \/ DeleteHit
            \/ DeleteMiss \/ GetValueHit
  BY <1>7, <1>11 DEF FindHit, FindMiss, InsertIntoEmpty, InsertFirst, DeleteHit, DeleteMiss,
                     GetValueHit
<1>12. CASE UNCHANGED vars
  BY <1>5, <1>12 DEF vars, locals
<1> QED BY <1>1, <1>2, <1>3, <1>6, <1>8, <1>9, <1>10, <1>11, <1>12
        DEF Next, Start, Run, Lost

\* The loops of GetValue never run off the end of the table: the count may say less
\* than there is, and never says more.
THEOREM GetValueSound == Spec => []GetValueAnswers
<1>1. Init => ValueInv
  BY DEF Init, ValueInv, NoCall
<1>2. IInv /\ ValueInv /\ [Next]_vars => ValueInv'
  BY ValueStep
<1>3. IInv /\ ValueInv => GetValueAnswers
  <2>1. SUFFICES ASSUME IInv, ValueInv, call.op = "value", cur = Null,
                        \A b \in FilledRows : ~(b > row)
                 PROVE  FALSE
    BY DEF GetValueAnswers
  <2>2. row \in Rows /\ row \in Nat
    BY <2>1, SizeAssumption DEF IInv, SearchInv, Rows
  <2>3. ASSUME NEW a \in DOMAIN elems PROVE a \in Before(row, cur)
    <3>1. RowOf(a) \in Rows /\ RowOf(a) \in Nat /\ a \in Bucket(RowOf(a))
      BY <2>1, RowType DEF IInv
    <3>2. RowOf(a) \in FilledRows
      BY <2>1, <3>1 DEF IInv, Linked, IsNewest, FilledRows
    <3>3. RowOf(a) < row \/ RowOf(a) = row
      BY <2>1, <2>2, <3>1, <3>2
    <3> QED BY <2>1, <3>3, InBefore DEF Passed
  <2>4. Before(row, cur) = DOMAIN elems
    BY <2>3, InBefore
  <2>5. found_count_ = Cardinality(DOMAIN elems) /\ found_count_ <= call.index
        /\ call.index < count_ /\ count_ <= Cardinality(DOMAIN elems)
    BY <2>1, <2>4 DEF ValueInv, IInv, CountBelow
  <2>6. call.index \in Nat /\ found_count_ \in Nat /\ count_ \in Int
    BY <2>1 DEF IInv, TypeOK, Calls, NoCall, Inserts, Lookups
  <2> QED BY <2>5, <2>6
<1> QED BY <1>1, <1>2, <1>3, Invariance, PTL DEF Spec

-----------------------------------------------------------------------------
(* The table implements the map.                                            *)

\* What is in the map, read off the elements.
LEMMA ContentOf ==
  ASSUME IInv
  PROVE  /\ \A a \in DOMAIN elems : /\ <<elems[a].key_, elems[a].value_>> \in Content
                                   /\ elems[a].key_ \in Keys /\ elems[a].value_ \in Values
         /\ \A p \in Content : \E a \in DOMAIN elems : p = <<elems[a].key_, elems[a].value_>>
         /\ \A k \in Keys : Map!Known(k) <=> \E a \in DOMAIN elems : elems[a].key_ = k
<1>1. \A a \in DOMAIN elems : /\ <<elems[a].key_, elems[a].value_>> \in Content
                            /\ elems[a].key_ \in Keys /\ elems[a].value_ \in Values
  BY DEF Content, IInv, TypeOK, Element
<1>2. \A p \in Content : \E a \in DOMAIN elems : p = <<elems[a].key_, elems[a].value_>>
  BY DEF Content
<1>3. ASSUME NEW k \in Keys
      PROVE  Map!Known(k) <=> \E a \in DOMAIN elems : elems[a].key_ = k
  <2>1. ASSUME NEW a \in DOMAIN elems, elems[a].key_ = k PROVE Map!Known(k)
    BY <1>1, <2>1 DEF Map!Known
  <2>2. ASSUME Map!Known(k) PROVE \E a \in DOMAIN elems : elems[a].key_ = k
    <3>1. PICK v \in Values : <<k, v>> \in Content
      BY <2>2 DEF Map!Known
    <3>2. PICK a \in DOMAIN elems : <<k, v>> = <<elems[a].key_, elems[a].value_>>
      BY <1>2, <3>1
    <3> QED BY <3>2
  <2> QED BY <2>1, <2>2
<1> QED BY <1>1, <1>2, <1>3

\* A search that comes to the end has looked at all: the key is not there.
LEMMA NotThere ==
  ASSUME IInv, Miss({"insert", "find", "delete"})
  PROVE  call.key \in Keys /\ \A a \in DOMAIN elems : elems[a].key_ # call.key
<1>1. call.op \in {"insert", "find", "delete"} /\ cur = Null
  BY DEF Miss, Searching
<1>2. call.key \in Keys
  BY <1>1 DEF IInv, TypeOK, Calls, Inserts, Lookups, NoCall
<1>3. ASSUME NEW a \in DOMAIN elems, elems[a].key_ = call.key PROVE FALSE
  BY <1>1, <1>3 DEF IInv, SearchInv, Passed, Bucket, RowOf
<1> QED BY <1>2, <1>3

\* Insert is the Insert of the map, for a key it does not know.
LEMMA InsertMaps ==
  ASSUME IInv, InsertIntoEmpty \/ InsertFirst
  PROVE  Map!Next
<1>1. /\ Inserted(Hash[call.key]) /\ call \in Inserts /\ answer' = call.value
  BY Insertions
<1>2. /\ newest' \notin DOMAIN elems
      /\ \A a \in DOMAIN elems : elems'[a].key_ = elems[a].key_
                              /\ elems'[a].value_ = elems[a].value_
      /\ DOMAIN elems' = DOMAIN elems \cup {newest'}
      /\ elems'[newest'].key_ = call.key /\ elems'[newest'].value_ = call.value
  BY <1>1, InsertedBuckets DEF IInv, Inserted, NewElement
<1>3. Content' = Content \cup {<<call.key, call.value>>}
  BY <1>2 DEF Content
<1>4. call.key \in Keys /\ call.value \in Values /\ ~Map!Known(call.key)
  <2>1. Miss({"insert", "find", "delete"})
    BY DEF InsertIntoEmpty, InsertFirst, Miss, Searching
  <2> QED BY <2>1, <1>1, NotThere, ContentOf DEF Inserts
<1>5. Map!Insert(call.key, call.value)
  BY <1>1, <1>3, <1>4 DEF Map!Insert
<1> QED BY <1>4, <1>5 DEF Map!Next

\* Delete takes the one pair of its key out of the map.
LEMMA DeleteMaps ==
  ASSUME IInv, DeleteHit
  PROVE  Map!Next
<1>1. /\ cur \in DOMAIN elems /\ elems[cur].key_ = call.key
      /\ DOMAIN elems' = DOMAIN elems \ {cur}
      /\ \A a \in DOMAIN elems' : elems'[a].key_ = elems[a].key_
                               /\ elems'[a].value_ = elems[a].value_
      /\ answer' = TRUE
  BY DeletedBuckets DEF DeleteHit, Return
<1>2. call.key \in Keys /\ Map!Known(call.key)
  BY <1>1, ContentOf
<1>3. \A a \in DOMAIN elems : elems[a].key_ = call.key <=> a = cur
  BY <1>1 DEF IInv, Distinct
<1>4. Content' = {p \in Content : p[1] # call.key}
  BY <1>1, <1>3 DEF Content
<1>5. Map!Delete(call.key)
  <2>1. answer' = Map!Known(call.key)
    BY <1>1, <1>2, Zenon
  <2> QED BY <2>1, <1>4, Zenon DEF Map!Delete
<1> QED BY <1>2, <1>5, Zenon DEF Map!Next

\* A Delete that has come to the end of a bucket had no such key.
LEMMA DeleteMissMaps ==
  ASSUME IInv, DeleteMiss
  PROVE  Map!Next
<1>1. Miss({"insert", "find", "delete"}) /\ answer' = FALSE /\ elems' = elems
  BY DEF DeleteMiss, Return, memory, Miss, Searching
<1>2. call.key \in Keys /\ ~Map!Known(call.key)
  BY <1>1, NotThere, ContentOf
<1>3. Content' = {p \in Content : p[1] # call.key}
  BY <1>1, NotThere, ContentOf DEF Content
<1>4. Map!Delete(call.key)
  <2>1. answer' = Map!Known(call.key)
    BY <1>1, <1>2, Zenon DEF Map!Known
  <2> QED BY <2>1, <1>3, Zenon DEF Map!Delete
<1> QED BY <1>2, <1>4, Zenon DEF Map!Next

\* Find answers with the value of its key, and with null only for an unknown one.
LEMMA FindMaps ==
  ASSUME IInv, FindHit \/ FindMiss
  PROVE  Map!Next
<1>1. Content' = Content
  BY DEF FindHit, FindMiss, memory, Content
<1>2. CASE FindHit
  <2>1. /\ call.op \in {"find", "insert"} /\ cur # Null /\ elems[cur].key_ = call.key
        /\ answer' = elems[cur].value_
    BY <1>2 DEF FindHit, Hit, Searching, Return
  <2>2. cur \in DOMAIN elems
    BY <2>1 DEF IInv, SearchInv, InBucket, Bucket
  <2>3. <<call.key, answer'>> \in Content /\ call.key \in Keys /\ Map!Known(call.key)
    BY <2>1, <2>2, ContentOf
  <2>4. CASE call.op = "find"
    BY <1>1, <2>3 DEF Map!Find, Map!Next
  <2>5. CASE call.op = "insert"
    <3>1. call.value \in Values
      BY <2>5 DEF IInv, TypeOK, Calls, Inserts, Lookups, NoCall
    <3>2. Map!Insert(call.key, call.value)
      BY <1>1, <2>3 DEF Map!Insert
    <3> QED BY <2>3, <3>1, <3>2 DEF Map!Next
  <2> QED BY <2>1, <2>4, <2>5
<1>3. CASE FindMiss
  <2>1. Miss({"insert", "find", "delete"}) /\ answer' = NoValue
    BY <1>3 DEF FindMiss, Return, Miss, Searching
  <2>2. call.key \in Keys /\ ~Map!Known(call.key)
    BY <2>1, NotThere, ContentOf
  <2> QED BY <1>1, <2>1, <2>2 DEF Map!Find, Map!Next
<1> QED BY <1>2, <1>3

\* The walks over the table only look at it.
LEMMA LookMaps ==
  ASSUME IInv, elems' = elems,
         answer' = NoValue \/ \E a \in DOMAIN elems : answer' = elems[a].value_
  PROVE  Map!Next
<1>1. Content' = Content
  BY DEF Content
<1>2. ASSUME NEW a \in DOMAIN elems, answer' = elems[a].value_
      PROVE  \E k \in Keys : <<k, answer'>> \in Content
  BY <1>2, ContentOf
<1> QED BY <1>1, <1>2 DEF Map!Look, Map!Next

\* Every step of the table is one of the map or changes nothing of it.
LEMMA StepMaps ==
  ASSUME IInv, [Next]_vars
  PROVE  [Map!Next]_<<Content, answer>>
<1>1. ASSUME elems' = elems, answer' = answer PROVE UNCHANGED <<Content, answer>>
  BY <1>1 DEF Content
<1>2. ASSUME NEW c \in Inserts \cup Lookups, Search(c) PROVE UNCHANGED <<Content, answer>>
  BY <1>1, <1>2 DEF Search, memory
<1>3. ASSUME NEW index \in 0..MaxNew, GetValue(index) PROVE UNCHANGED <<Content, answer>>
  BY <1>1, <1>3 DEF GetValue, memory
<1>4. CASE ResetItr \/ NextLost \/ SearchOn \/ GetValueRow \/ GetValueOn \/ UNCHANGED vars
  BY <1>1, <1>4 DEF ResetItr, NextLost, SearchOn, GetValueRow, GetValueOn, vars, memory
<1>5. ASSUME NEW index \in 0..MaxNew, GetValueOutside(index) PROVE Map!Next
  BY <1>5, LookMaps DEF GetValueOutside, Return, memory
<1>6. CASE NextNull
  BY <1>6, LookMaps DEF NextNull, memory
<1>7. CASE NextElement
  BY <1>7, LookMaps DEF NextElement, memory
<1>8. CASE GetValueHit
  <2>1. cur \in DOMAIN elems
    BY <1>8 DEF GetValueHit, Searching, IInv, SearchInv, InBucket, Bucket
  <2> QED BY <2>1, <1>8, LookMaps DEF GetValueHit, Return, memory
<1>9. CASE Clear
  <2>1. Content' = {}
    <3>1. DOMAIN elems' = {}
      BY <1>9 DEF Clear
    <3> QED BY <3>1 DEF Content
  <2> QED BY <2>1, <1>9 DEF Clear, Map!Clear, Map!Next
<1>10. CASE InsertIntoEmpty \/ InsertFirst
  BY <1>10, InsertMaps
<1>11. CASE DeleteHit \/ DeleteMiss
  BY <1>11, DeleteMaps, DeleteMissMaps
<1>12. CASE FindHit \/ FindMiss
  BY <1>12, FindMaps
<1> QED BY <1>2, <1>3, <1>4, <1>5, <1>6, <1>7, <1>8, <1>9, <1>10, <1>11, <1>12
        DEF Next, Start, Run, Lost

\* Whatever is inserted, found, deleted and looked at, in any order, the table
\* answers as the abstract map does.
THEOREM Refinement == Spec => ImplementsMap
<1>1. Init => Map!Init
  <2>1. SUFFICES ASSUME Init PROVE Map!Init
    OBVIOUS
  <2>2. DOMAIN elems = {} /\ answer = NoValue
    BY <2>1 DEF Init
  <2> QED BY <2>2 DEF Map!Init, Content
<1>2. IInv /\ [Next]_vars => [Map!Next]_<<Content, answer>>
  BY StepMaps
<1> QED BY <1>1, <1>2, Invariance, PTL DEF Spec, ImplementsMap, Map!Spec
=============================================================================
