---------------------------- MODULE AbstractList ----------------------------
(***************************************************************************)
(* What SimpleList does for a caller who keeps to its rules: a sequence    *)
(* and a place in it to go on from.  A call that breaks its rule may do    *)
(* anything.                                                               *)
(***************************************************************************)
EXTENDS Integers, Sequences

CONSTANTS
  Values, Indexes,
  NoValue   \* the null pointer as an answer

VARIABLES
  seq,
  place,    \* what ItrNext shows next: an index of seq, Over, or Gone
  call,     \* the last call: <<name, argument>>
  answer,   \* what the last call that returned something did
  state     \* "live", "destroyed" or "broken"

Over == 0
Gone == -1  \* what would have been shown next has been deleted

Call(name, argument, rule) == call' = <<name, argument>> /\ state' = IF rule THEN "live" ELSE "broken"
Answer(a) == answer' = a /\ UNCHANGED <<seq, place>>

Without(i) ==
  /\ seq' = SubSeq(seq, 1, i - 1) \o SubSeq(seq, i + 1, Len(seq))
  /\ place' = IF place = i THEN Gone ELSE IF place > i THEN place - 1 ELSE place
  /\ answer' = TRUE

PushBack(v) == Call("PushBack", v, TRUE) /\ seq' = Append(seq, v) /\ UNCHANGED <<place, answer>>

PushFront(v) ==
  /\ Call("PushFront", v, TRUE) /\ seq' = <<v>> \o seq
  /\ place' = (IF place > 0 THEN place + 1 ELSE place) /\ UNCHANGED answer

Pop(name, i) == Call(name, 0, TRUE) /\ IF seq = <<>> THEN Answer(FALSE) ELSE Without(i)

\* The last value is never found.  An empty list must not be searched.
Where(v) == {i \in 1..Len(seq) - 1 : seq[i] = v}
FirstOf(v) == CHOOSE i \in Where(v) : \A j \in Where(v) : i <= j

Find(v) == Call("Find", v, seq # <<>>) /\ Answer(IF seq = <<>> THEN answer ELSE IF Where(v) = {} THEN NoValue ELSE v)

FindIndex(v) ==
  /\ Call("FindIndex", v, seq # <<>>)
  /\ Answer(IF seq = <<>> THEN answer ELSE IF Where(v) = {} THEN -1 ELSE FirstOf(v) - 1)

\* Of several values the first must not be deleted.
Second(i) == i > 1 \/ Len(seq) = 1

DeleteAt(index) ==
  LET i == IF index < 0 THEN 1 ELSE index + 1 IN
  /\ Call("DeleteAt", index, seq = <<>> \/ Second(i))
  /\ IF i > Len(seq) THEN Answer(FALSE) ELSE IF Second(i) THEN Without(i) ELSE Answer(answer)

Delete(v) ==
  /\ Call("Delete", v, seq # <<>> /\ (Where(v) # {} => Second(FirstOf(v))))
  /\ IF seq = <<>> THEN Answer(answer)
     ELSE IF Where(v) = {} THEN Answer(FALSE) ELSE IF Second(FirstOf(v)) THEN Without(FirstOf(v)) ELSE Answer(answer)

\* One index behind the list answers nullptr, but not the first one.
GetAt(index) ==
  LET i == IF index < 0 THEN 1 ELSE index + 1 IN
  /\ Call("GetAt", index, i # Len(seq) + 1)
  /\ Answer(IF i <= Len(seq) THEN seq[i] ELSE IF i = Len(seq) + 1 THEN answer ELSE NoValue)

Look(name, i) == Call(name, 0, TRUE) /\ Answer(IF seq = <<>> THEN NoValue ELSE seq[i])

ItrReset == Call("ItrReset", 0, TRUE) /\ place' = (IF seq = <<>> THEN Over ELSE 1) /\ UNCHANGED <<seq, answer>>

\* What is shown next must not have been deleted.  The end is final: what is
\* appended then is not shown.
ItrNext ==
  /\ Call("ItrNext", 0, place # Gone) /\ UNCHANGED seq
  /\ answer' = (IF place = Over THEN NoValue ELSE IF place = Gone THEN answer ELSE seq[place])
  /\ place' = (IF place > 0 /\ place < Len(seq) THEN place + 1 ELSE IF place = Gone THEN Gone ELSE Over)

Destroy ==
  /\ call' = <<"~SimpleList", 0>> /\ state' = "destroyed" /\ seq' = <<>> /\ UNCHANGED answer
  /\ place' = IF place = Over THEN Over ELSE Gone

Init == seq = <<>> /\ place = Over /\ call = <<>> /\ answer = NoValue /\ state = "live"

Next ==
  /\ state = "live"
  /\ \/ \E v \in Values : PushBack(v) \/ PushFront(v) \/ Find(v) \/ FindIndex(v) \/ Delete(v)
     \/ \E index \in Indexes : DeleteAt(index) \/ GetAt(index)
     \/ Pop("PopBack", Len(seq)) \/ Pop("PopFront", 1) \/ Look("Back", Len(seq)) \/ Look("Front", 1)
     \/ ItrReset \/ ItrNext \/ Destroy

Spec == Init /\ [][Next]_<<seq, place, call, answer, state>>
=============================================================================
