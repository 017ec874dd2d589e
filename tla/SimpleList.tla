----------------------------- MODULE SimpleList -----------------------------
(***************************************************************************)
(* src/include/core/list.h, the list of pointers: doubly linked elements,  *)
(* a count, and an iterator.  elems is the memory: the Element at every    *)
(* address in use.  new takes one that has never been used, so a pointer   *)
(* to what was deleted is none of DOMAIN elems.  A call that follows one,  *)
(* or null, ends in the state "broken".  Names that SimpleVector has too   *)
(* begin with List here.                                                   *)
(***************************************************************************)
EXTENDS Integers, Sequences

CONSTANTS
  Objects, NoValue,
  MaxNew    \* bound: elements ever allocated

VARIABLES
  elems, newest,
  first_, last_, count_,
  cur_,
  listCall, listAnswer, state

listVars == <<elems, newest, first_, last_, count_, cur_, listCall, listAnswer, state>>

Null == 0

ListInit ==
  /\ elems = <<>> /\ newest = 0
  /\ first_ = Null /\ last_ = Null /\ count_ = 0 /\ cur_ = Null
  /\ listCall = <<>> /\ listAnswer = NoValue /\ state = "live"

\* The elements one comes to from first_ by next_.
Nth[k \in 0..count_] == IF k = 0 THEN first_ ELSE elems[Nth[k - 1]].next_

ListCalls(name, argument) == state = "live" /\ listCall' = <<name, argument>>
Returns(a) == listAnswer' = a /\ UNCHANGED state
Breaks == state' = "broken" /\ UNCHANGED <<elems, newest, first_, last_, count_, cur_, listAnswer>>
Same == UNCHANGED <<elems, newest, first_, last_, count_, cur_>>

-----------------------------------------------------------------------------

Element(v, prev, next) == [value |-> v, prev_ |-> prev, next_ |-> next]

\* The memory with one element more.
Allocated(mem, e, element) == [i \in DOMAIN mem \cup {e} |-> IF i = e THEN element ELSE mem[i]]

ListPushBack(v) ==
  /\ ListCalls("PushBack", v) /\ newest < MaxNew /\ newest' = newest + 1
  /\ IF first_ # Null
     THEN /\ elems' = Allocated([elems EXCEPT ![last_].next_ = newest'], newest', Element(v, last_, Null))
          /\ last_' = newest' /\ UNCHANGED first_
     ELSE elems' = Allocated(elems, newest', Element(v, Null, Null)) /\ first_' = newest' /\ last_' = newest'
  /\ count_' = count_ + 1 /\ UNCHANGED <<cur_, listAnswer, state>>

PushFront(v) ==
  /\ ListCalls("PushFront", v) /\ newest < MaxNew /\ newest' = newest + 1
  /\ IF first_ # Null
     THEN /\ elems' = Allocated([elems EXCEPT ![first_].prev_ = newest'], newest', Element(v, Null, first_))
          /\ first_' = newest' /\ UNCHANGED last_
     ELSE elems' = Allocated(elems, newest', Element(v, Null, Null)) /\ first_' = newest' /\ last_' = newest'
  /\ count_' = count_ + 1 /\ UNCHANGED <<cur_, listAnswer, state>>

\* The memory without an element, after one field of another has been written.
Freed(mem, e) == [i \in DOMAIN mem \ {e} |-> mem[i]]

RemoveLast ==
  LET prev == elems[last_].prev_ IN
  /\ IF prev # Null
     THEN elems' = Freed([elems EXCEPT ![prev].next_ = Null], last_) /\ last_' = prev /\ UNCHANGED first_
     ELSE elems' = Freed(elems, last_) /\ first_' = Null /\ last_' = Null
  /\ count_' = count_ - 1 /\ Returns(TRUE) /\ UNCHANGED <<newest, cur_>>

ListPopBack == ListCalls("PopBack", 0) /\ IF count_ = 0 THEN Returns(FALSE) /\ Same ELSE RemoveLast

\* Mutant: the new first element still leads back to the old one.
PopFrontKeepsPrev ==
  /\ ListCalls("PopFront", 0)
  /\ IF count_ = 0 THEN Returns(FALSE) /\ Same
     ELSE LET next == elems[first_].next_ IN
          /\ elems' = Freed(elems, first_) /\ first_' = next /\ (IF next # Null THEN UNCHANGED last_ ELSE last_' = Null)
          /\ count_' = count_ - 1 /\ Returns(TRUE) /\ UNCHANGED <<newest, cur_>>

PopFront ==
  /\ ListCalls("PopFront", 0)
  /\ IF count_ = 0 THEN Returns(FALSE) /\ Same
     ELSE LET next == elems[first_].next_ IN
          /\ IF next # Null
             THEN elems' = Freed([elems EXCEPT ![next].prev_ = Null], first_) /\ first_' = next /\ UNCHANGED last_
             ELSE elems' = Freed(elems, first_) /\ first_' = Null /\ last_' = Null
          /\ count_' = count_ - 1 /\ Returns(TRUE) /\ UNCHANGED <<newest, cur_>>

-----------------------------------------------------------------------------

\* Where the loop of Find and FindIndex, which ends at the last element, finds v.
Where(v) == {k \in 0..count_ - 1 : elems[Nth[k]].next_ # Null /\ elems[Nth[k]].value = v}

\* Mutant: the search goes on to the last one that is equal.
LastOf(v) == CHOOSE k \in Where(v) : \A j \in Where(v) : j <= k

FirstOf(v) == CHOOSE k \in Where(v) : \A j \in Where(v) : k <= j

Find(v) ==
  /\ ListCalls("Find", v)
  /\ IF first_ = Null THEN Breaks ELSE Returns(IF Where(v) = {} THEN NoValue ELSE v) /\ Same

FindIndex(v) ==
  /\ ListCalls("FindIndex", v)
  /\ IF first_ = Null THEN Breaks ELSE Returns(IF Where(v) = {} THEN -1 ELSE FirstOf(v)) /\ Same

GetElementAt(index) == IF index > count_ THEN Null ELSE IF index < 0 THEN first_ ELSE Nth[index]

GetAt(index) ==
  /\ ListCalls("GetAt", index)
  /\ IF index > count_ THEN Returns(NoValue) /\ Same
     ELSE IF GetElementAt(index) = Null THEN Breaks ELSE Returns(elems[GetElementAt(index)].value) /\ Same

Remove(index) ==
  LET e == GetElementAt(index) IN
  IF e = Null THEN Returns(FALSE) /\ Same
  ELSE IF elems[e].next_ = Null THEN RemoveLast
  ELSE IF elems[e].prev_ = Null THEN Breaks
  ELSE /\ elems' = Freed([elems EXCEPT ![elems[e].prev_].next_ = elems[e].next_,
                                       ![elems[e].next_].prev_ = elems[e].prev_], e)
       /\ count_' = count_ - 1 /\ Returns(TRUE) /\ UNCHANGED <<newest, first_, last_, cur_>>

DeleteAt(index) == ListCalls("DeleteAt", index) /\ Remove(index)

Delete(v) ==
  /\ ListCalls("Delete", v)
  /\ IF first_ = Null THEN Breaks ELSE IF Where(v) = {} THEN Returns(FALSE) /\ Same ELSE Remove(FirstOf(v))

ListFront == ListCalls("Front", 0) /\ Returns(IF first_ = Null THEN NoValue ELSE elems[first_].value) /\ Same
ListBack == ListCalls("Back", 0) /\ Returns(IF last_ = Null THEN NoValue ELSE elems[last_].value) /\ Same

-----------------------------------------------------------------------------

ItrReset ==
  /\ ListCalls("ItrReset", 0) /\ cur_' = first_
  /\ UNCHANGED <<elems, newest, first_, last_, count_, listAnswer, state>>

ItrNext ==
  /\ ListCalls("ItrNext", 0)
  /\ IF cur_ = Null THEN Returns(NoValue) /\ Same
     ELSE IF cur_ \notin DOMAIN elems THEN Breaks
     ELSE cur_' = elems[cur_].next_ /\ Returns(elems[cur_].value) /\ UNCHANGED <<elems, newest, first_, last_, count_>>

\* Clear follows next_ from first_ and leaves both ends as they are.
Destroy ==
  /\ ListCalls("~SimpleList", 0) /\ state' = "destroyed"
  /\ elems' = [e \in DOMAIN elems \ {Nth[k] : k \in 0..count_} |-> elems[e]]
  /\ count_' = 0 /\ UNCHANGED <<newest, first_, last_, cur_, listAnswer>>

ListIndexes == -1..MaxNew + 1

ListNext ==
  \/ \E v \in Objects : ListPushBack(v) \/ PushFront(v) \/ Find(v) \/ FindIndex(v) \/ Delete(v)
  \/ \E index \in ListIndexes : DeleteAt(index) \/ GetAt(index)
  \/ ListPopBack \/ PopFront \/ ListFront \/ ListBack \/ ItrReset \/ ItrNext \/ Destroy

ListSpec == ListInit /\ [][ListNext]_listVars

-----------------------------------------------------------------------------
(* Properties                                                               *)

\* All memory in use is the list, whose links lead back and forth between first_
\* and last_; none is left over when it is destroyed.
ListLinked ==
  /\ DOMAIN elems = {Nth[k] : k \in 0..count_ - 1}
  /\ state # "destroyed" =>
       /\ Nth[count_] = Null /\ (count_ > 0 => last_ = Nth[count_ - 1]) /\ (count_ = 0 => last_ = Null)
       /\ \A k \in 0..count_ - 1 : elems[Nth[k]].prev_ = IF k = 0 THEN Null ELSE Nth[k - 1]

ListContents == [k \in 1..count_ |-> elems[Nth[k - 1]].value]
Place == IF cur_ = Null THEN 0 ELSE IF cur_ \in DOMAIN elems THEN 1 + CHOOSE k \in 0..count_ - 1 : Nth[k] = cur_ ELSE -1

AsSequence ==
  INSTANCE AbstractList WITH Values <- Objects, Indexes <- ListIndexes, seq <- ListContents, place <- Place,
                             call <- listCall, answer <- listAnswer

\* The linked elements are a sequence and the iterator a place in it, through every
\* order of calls; the calls that break are those whose rule is broken.
ImplementsList == AsSequence!Spec
=============================================================================
