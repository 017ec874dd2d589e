----------------------------- MODULE HashTable -----------------------------
(***************************************************************************)
(* The chained hash table of src/include/core/hash.h, as the table of the  *)
(* types uses it: buckets of doubly linked elements, a count, and one      *)
(* iterator inside of the table.                                           *)
(*                                                                         *)
(* Memory is explicit.  elems holds the allocated elements by address; new *)
(* never reuses an address, so a pointer to a deleted element shows as one *)
(* outside of DOMAIN elems, and the newer of two elements has the greater  *)
(* address.  Following such a pointer, or null, is undefined behaviour:    *)
(* undefined is set, and nothing is known of what follows.                 *)
(***************************************************************************)
EXTENDS Integers, FiniteSets

CONSTANTS
  Keys, Values,
  NoValue,      \* the null pointer as an answer
  MAX_TABLE,    \* number of buckets
  Hash,         \* the bucket of a key, any function of it
  MaxNew        \* bound: elements ever allocated

Rows == 0..MAX_TABLE - 1

ASSUME SizeAssumption == MAX_TABLE \in Nat \ {0} /\ MaxNew \in Nat
ASSUME HashAssumption == Hash \in [Keys -> Rows]
ASSUME ValueAssumption == NoValue \notin Values

Null == 0
Wild == -1      \* an address nobody has written
Addresses == Nat \ {0}

VARIABLES
  table_,          \* the newest element of every bucket
  elems,           \* the Element at an address
  newest,          \* the last address allocated
  count_,
  tableIterator_, bucketIterator_,
  call,            \* the call that runs
  cur,             \* cur or e: where its loop is
  row, found_count_, \* the other locals of GetValue
  answer,          \* what the last call returned
  undefined,       \* a pointer to no element has been followed
  steady, seen, repeated \* history: no element has come or gone since the iterator was
                         \* put on one, which ones Next has shown since, any of them twice

memory == <<table_, elems, newest, count_>>
iterator == <<tableIterator_, bucketIterator_>>
history == <<steady, seen, repeated>>
locals == <<cur, row, found_count_>>
vars == <<memory, iterator, call, locals, answer, undefined, history>>

Element == [key_: Keys, value_: Values, next_: Nat, prev_: Nat]
NoCall == [op |-> "none"]
Inserts == [op: {"insert"}, key: Keys, value: Values]
Lookups == [op: {"find", "delete"}, key: Keys]
Calls == {NoCall} \cup Inserts \cup Lookups \cup [op: {"value"}, index: Nat]

Init ==
  /\ table_ = [b \in Rows |-> Null]
  /\ elems = <<>> /\ newest = 0 /\ count_ = 0
  /\ tableIterator_ \in 0..MAX_TABLE /\ bucketIterator_ \in {Null, Wild} \* not initialised: of all integers, those that mean something
  /\ call = NoCall /\ cur = Null /\ row = 0 /\ found_count_ = 0
  /\ answer = NoValue /\ undefined = FALSE
  /\ steady = FALSE /\ seen = {} /\ repeated = FALSE

Idle == call = NoCall /\ ~undefined
Return(a) == call' = NoCall /\ cur' = Null /\ row' = 0 /\ found_count_' = 0 /\ answer' = a

-----------------------------------------------------------------------------
(* FindElement and Find: the walk along a bucket                            *)

Search(c) ==
  /\ Idle /\ (c.op = "insert" => newest < MaxNew)
  /\ call' = c
  /\ cur' = table_[Hash[c.key]]
  /\ UNCHANGED <<memory, iterator, row, found_count_, answer, undefined, history>>

Searching(ops) == call.op \in ops
Hit(ops) == Searching(ops) /\ cur # Null /\ elems[cur].key_ = call.key
Miss(ops) == Searching(ops) /\ cur = Null

SearchOn ==
  /\ Searching({"insert", "find", "delete"}) /\ cur # Null /\ elems[cur].key_ # call.key
  /\ cur' = elems[cur].next_
  /\ UNCHANGED <<memory, iterator, call, row, found_count_, answer, undefined, history>>

FindHit ==
  /\ Hit({"find", "insert"})
  /\ Return(elems[cur].value_)
  /\ UNCHANGED <<memory, iterator, undefined, history>>

FindMiss ==
  /\ Miss({"find"})
  /\ Return(NoValue)
  /\ UNCHANGED <<memory, iterator, undefined, history>>

-----------------------------------------------------------------------------
(* Insert, Delete and Clear                                                 *)

\* Elements come and go: what the iterator has shown is no longer the table.
Unsteady == steady' = FALSE /\ UNCHANGED <<seen, repeated>>

WithNext(e, p) == [key_ |-> e.key_, value_ |-> e.value_, next_ |-> p, prev_ |-> e.prev_]
WithPrev(e, p) == [key_ |-> e.key_, value_ |-> e.value_, next_ |-> e.next_, prev_ |-> p]

NewElementUnlinked(next) ==
  [key_ |-> call.key, value_ |-> call.value, next_ |-> next, prev_ |-> Wild]

NewElement(next) == [key_ |-> call.key, value_ |-> call.value, next_ |-> next, prev_ |-> Null]

\* The first element of a bucket is not counted.
InsertIntoEmpty ==
  LET b == Hash[call.key] IN
  /\ Miss({"insert"}) /\ table_[b] = Null
  /\ newest' = newest + 1
  /\ elems' = [a \in DOMAIN elems \cup {newest'} |-> IF a = newest' THEN NewElement(Null) ELSE elems[a]]
  /\ table_' = [table_ EXCEPT ![b] = newest']
  /\ Return(call.value) /\ Unsteady
  /\ UNCHANGED <<count_, iterator, undefined>>

InsertFirstUnhooked ==
  LET b == Hash[call.key] IN
  /\ Miss({"insert"}) /\ table_[b] # Null
  /\ newest' = newest + 1
  /\ elems' = [a \in DOMAIN elems \cup {newest'} |->
                 IF a = newest' THEN NewElement(table_[b])
                 ELSE IF a = table_[b] THEN WithPrev(elems[a], newest') ELSE elems[a]]
  /\ count_' = count_ + 1
  /\ Return(call.value) /\ Unsteady
  /\ UNCHANGED <<table_, iterator, undefined>>

InsertFirstSwapped ==
  LET b == Hash[call.key] IN
  /\ Miss({"insert"}) /\ table_[b] # Null
  /\ newest' = newest + 1
  /\ elems' = [a \in DOMAIN elems \cup {newest'} |->
                 IF a = newest' THEN NewElement(newest')
                 ELSE IF a = table_[b] THEN WithPrev(elems[a], newest') ELSE elems[a]]
  /\ table_' = [table_ EXCEPT ![b] = newest']
  /\ count_' = count_ + 1
  /\ Return(call.value) /\ Unsteady
  /\ UNCHANGED <<iterator, undefined>>

InsertFirst ==
  LET b == Hash[call.key] IN
  /\ Miss({"insert"}) /\ table_[b] # Null
  /\ newest' = newest + 1
  /\ elems' = [a \in DOMAIN elems \cup {newest'} |->
                 IF a = newest' THEN NewElement(table_[b])
                 ELSE IF a = table_[b] THEN WithPrev(elems[a], newest') ELSE elems[a]]
  /\ table_' = [table_ EXCEPT ![b] = newest']
  /\ count_' = count_ + 1
  /\ Return(call.value) /\ Unsteady
  /\ UNCHANGED <<iterator, undefined>>

DeleteHitForward ==
  LET res == elems[cur] IN
  /\ Hit({"delete"})
  /\ elems' = [a \in DOMAIN elems \ {cur} |->
                 IF a = res.prev_ THEN WithNext(elems[a], res.next_) ELSE elems[a]]
  /\ table_' = IF res.prev_ = Null THEN [table_ EXCEPT ![Hash[call.key]] = res.next_] ELSE table_
  /\ count_' = count_ - 1
  /\ Return(TRUE) /\ Unsteady
  /\ UNCHANGED <<newest, iterator, undefined>>

DeleteHit ==
  LET res == elems[cur] IN
  /\ Hit({"delete"})
  /\ elems' = [a \in DOMAIN elems \ {cur} |->
                 IF a = res.prev_ THEN WithNext(elems[a], res.next_)
                 ELSE IF a = res.next_ THEN WithPrev(elems[a], res.prev_) ELSE elems[a]]
  /\ table_' = IF res.prev_ = Null THEN [table_ EXCEPT ![Hash[call.key]] = res.next_] ELSE table_
  /\ count_' = count_ - 1
  /\ Return(TRUE) /\ Unsteady
  /\ UNCHANGED <<newest, iterator, undefined>>

DeleteMiss ==
  /\ Miss({"delete"})
  /\ Return(FALSE)
  /\ UNCHANGED <<memory, iterator, undefined, history>>

Clear ==
  /\ Idle
  /\ table_' = [b \in Rows |-> Null] /\ elems' = <<>> /\ count_' = 0
  /\ Unsteady
  /\ UNCHANGED <<newest, iterator, call, locals, answer, undefined>>

-----------------------------------------------------------------------------
(* The iterator                                                             *)

FilledRows == {b \in Rows : table_[b] # Null}
FirstOf(rows) == CHOOSE b \in rows : \A c \in rows : b <= c

\* Of an empty table ResetItr leaves the iterator as it was.
ResetItr ==
  /\ Idle
  /\ IF FilledRows = {} THEN UNCHANGED <<iterator, steady>>
     ELSE /\ tableIterator_' = FirstOf(FilledRows)
          /\ bucketIterator_' = table_[FirstOf(FilledRows)]
          /\ steady' = TRUE
  /\ seen' = {} /\ repeated' = FALSE
  /\ UNCHANGED <<memory, call, locals, answer, undefined>>

\* The iterator moves on to the next bucket that has an element, if there is one.
NextRowFromHere == {b \in FilledRows : b >= tableIterator_}

NextRow == {b \in FilledRows : b > tableIterator_}
Moved ==
  IF bucketIterator_ = Null /\ NextRow # {}
  THEN [row |-> FirstOf(NextRow), at |-> table_[FirstOf(NextRow)]]
  ELSE [row |-> tableIterator_, at |-> bucketIterator_]

NextNull ==
  /\ Idle /\ tableIterator_ = MAX_TABLE
  /\ answer' = NoValue
  /\ UNCHANGED <<memory, iterator, call, locals, undefined, history>>

NextElement ==
  /\ Idle /\ tableIterator_ # MAX_TABLE
  /\ Moved.at \in DOMAIN elems
  /\ tableIterator_' = Moved.row
  /\ bucketIterator_' = elems[Moved.at].next_
  /\ answer' = elems[Moved.at].value_
  /\ seen' = seen \cup {Moved.at}
  /\ repeated' = (repeated \/ Moved.at \in seen)
  /\ UNCHANGED <<memory, call, locals, undefined, steady>>

\* cur is null, or what is left of an element.
NextLost ==
  /\ Idle /\ tableIterator_ # MAX_TABLE
  /\ Moved.at \notin DOMAIN elems
  /\ undefined' = TRUE
  /\ UNCHANGED <<memory, iterator, call, locals, answer, history>>

-----------------------------------------------------------------------------
(* GetValue counts the elements from the first bucket on.  The answer behind *)
(* its loops is never given: GetValueAnswers.                               *)

GetValueOutside(index) ==
  /\ Idle /\ index >= count_
  /\ Return(NoValue)
  /\ UNCHANGED <<memory, iterator, undefined, history>>

GetValuePast(index) ==
  /\ Idle /\ index <= count_
  /\ call' = [op |-> "value", index |-> index]
  /\ cur' = table_[0] /\ row' = 0 /\ found_count_' = 0
  /\ UNCHANGED <<memory, iterator, answer, undefined, history>>

GetValue(index) ==
  /\ Idle /\ index < count_
  /\ call' = [op |-> "value", index |-> index]
  /\ cur' = table_[0] /\ row' = 0 /\ found_count_' = 0
  /\ UNCHANGED <<memory, iterator, answer, undefined, history>>

GetValueRow ==
  /\ Searching({"value"}) /\ cur = Null /\ row < MAX_TABLE - 1
  /\ row' = row + 1 /\ cur' = table_[row + 1]
  /\ UNCHANGED <<memory, iterator, call, found_count_, answer, undefined, history>>

GetValueOn ==
  /\ Searching({"value"}) /\ cur # Null /\ found_count_ # call.index
  /\ found_count_' = found_count_ + 1 /\ cur' = elems[cur].next_
  /\ UNCHANGED <<memory, iterator, call, row, answer, undefined, history>>

GetValueHit ==
  /\ Searching({"value"}) /\ cur # Null /\ found_count_ = call.index
  /\ Return(elems[cur].value_)
  /\ UNCHANGED <<memory, iterator, undefined, history>>

-----------------------------------------------------------------------------

Start ==
  \/ \E c \in Inserts \cup Lookups : Search(c)
  \/ \E index \in 0..MaxNew : GetValue(index) \/ GetValueOutside(index)
  \/ Clear \/ ResetItr \/ NextNull \/ NextElement \/ NextLost

Run ==
  \/ SearchOn \/ FindHit \/ FindMiss
  \/ InsertIntoEmpty \/ InsertFirst \/ DeleteHit \/ DeleteMiss
  \/ GetValueRow \/ GetValueOn \/ GetValueHit

\* Undefined behaviour ends what can be said.
Lost == undefined /\ UNCHANGED vars

Next == Start \/ Run \/ Lost
Spec == Init /\ [][Next]_vars

\* A call that runs goes on: there is one thread, and nothing in it waits.
FairSpec == Spec /\ WF_vars(Run)

-----------------------------------------------------------------------------
(* Properties                                                               *)

TypeOK ==
  /\ table_ \in [Rows -> Nat]
  /\ DOMAIN elems \subseteq 1..newest /\ newest \in Nat
  /\ \A a \in DOMAIN elems : elems[a] \in Element
  /\ count_ \in Int
  /\ tableIterator_ \in 0..MAX_TABLE /\ bucketIterator_ \in Nat \cup {Wild}
  /\ call \in Calls /\ cur \in Nat /\ row \in Nat /\ found_count_ \in Nat
  /\ undefined \in BOOLEAN /\ steady \in BOOLEAN /\ repeated \in BOOLEAN
  /\ seen \subseteq Nat

\* The bucket an element belongs to, and those of a bucket below and above it.
RowOf(a) == Hash[elems[a].key_]
Bucket(b) == {a \in DOMAIN elems : RowOf(a) = b}
Older(a) == {x \in Bucket(RowOf(a)) : x < a}
Newer(a) == {x \in Bucket(RowOf(a)) : x > a}

IsNewest(p, S) == IF p = Null THEN S = {} ELSE p \in S /\ \A x \in S : x <= p
IsOldest(p, S) == IF p = Null THEN S = {} ELSE p \in S /\ \A x \in S : x >= p

\* The links of every bucket lead from its newest element to its oldest one and
\* back, past every element of the bucket and none of another: no insertion or
\* deletion, in whatever order, loses an element, closes a cycle, or leaves a
\* pointer to an element that is gone (Insert and Delete of hash.h).
Linked ==
  /\ \A b \in Rows : IsNewest(table_[b], Bucket(b))
  /\ \A a \in DOMAIN elems :
       /\ IsNewest(elems[a].next_, Older(a))
       /\ IsOldest(elems[a].prev_, Newer(a))

\* The map the table stands for.
Content == {<<elems[a].key_, elems[a].value_>> : a \in DOMAIN elems}
Map == INSTANCE AbstractMap WITH content <- Content

\* Whatever is inserted, found and deleted, the buckets answer as a map does: the
\* loops of Insert, Find, Delete and of the walks over the table implement it.
ImplementsMap == Map!Spec

\* The count never says more elements than there are.  It may say less: the first
\* element of a bucket is never counted, and every deletion is.
CountBelow == count_ <= Cardinality(DOMAIN elems)

\* GetValue has an element for every index below the count; an index it accepts
\* never runs off the end of the table.
GetValueAnswers == call.op = "value" => (cur # Null \/ \E b \in FilledRows : b > row)

\* As long as no element comes or goes, Next shows none twice, and it loses its
\* way only after it has shown all: what CheckSemanticError and CheckVoidArray
\* rely on when they visit every type.
VisitsEachOnce == steady => ~repeated /\ (undefined => seen = DOMAIN elems)

\* What the walks of the table rely on, an invariant of every step: no two
\* elements have one key; none that a search has passed has the key it looks for;
\* behind the iterator lies what it has shown.
InBucket(p, b) == p = Null \/ p \in Bucket(b)
Passed(p, x) == p = Null \/ x > p

Distinct == \A a, x \in DOMAIN elems : elems[a].key_ = elems[x].key_ => a = x

SearchInv ==
  /\ call.op \in {"insert", "find", "delete"} =>
       /\ InBucket(cur, Hash[call.key])
       /\ \A x \in Bucket(Hash[call.key]) : Passed(cur, x) => elems[x].key_ # call.key
  /\ call.op = "value" => row \in Rows /\ InBucket(cur, row)
  /\ undefined => call = NoCall

Before(b, p) ==
  {a \in DOMAIN elems : RowOf(a) < b \/ (RowOf(a) = b /\ Passed(p, a))}

IteratorInv ==
  steady =>
    /\ tableIterator_ \in Rows /\ InBucket(bucketIterator_, tableIterator_)
    /\ seen = Before(tableIterator_, bucketIterator_) /\ ~repeated
    /\ undefined => seen = DOMAIN elems

IInv == TypeOK /\ Linked /\ Distinct /\ SearchInv /\ IteratorInv /\ CountBelow

\* Where GetValue is: behind as many elements as it has counted.
ValueInv ==
  call.op = "value" =>
    /\ call.index < count_ /\ found_count_ <= call.index
    /\ found_count_ = Cardinality(Before(row, cur))

\* Every call comes to its end: no walk along a bucket goes in circles.
Returns == (call # NoCall) ~> (call = NoCall)
=============================================================================
