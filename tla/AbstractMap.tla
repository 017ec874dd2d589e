---------------------------- MODULE AbstractMap ----------------------------
(***************************************************************************)
(* What a table of sealang promises to its callers: a map whose entries    *)
(* stay as they were first inserted until they are deleted.                *)
(***************************************************************************)
CONSTANTS
  Keys, Values,
  NoValue       \* the null pointer that stands for "not found"

VARIABLES
  content,      \* the pairs <<key, value>> of the map, one for a key
  answer        \* what the last call returned

Known(k) == \E v \in Values : <<k, v>> \in content

Init == content = {} /\ answer = NoValue

\* Insert keeps an entry that is there, and answers with the entry of the key.
Insert(k, v) ==
  \/ /\ Known(k) /\ UNCHANGED content
     /\ <<k, answer'>> \in content
  \/ /\ ~Known(k) /\ content' = content \cup {<<k, v>>}
     /\ answer' = v

Find(k) ==
  /\ UNCHANGED content
  /\ \/ <<k, answer'>> \in content
     \/ ~Known(k) /\ answer' = NoValue

Delete(k) ==
  /\ content' = {p \in content : p[1] # k}
  /\ answer' = Known(k)

Clear == content' = {} /\ UNCHANGED answer

\* Walking over the table changes nothing and shows what is in it.
Look ==
  /\ UNCHANGED content
  /\ answer' = NoValue \/ \E k \in Keys : <<k, answer'>> \in content

Next ==
  \/ \E k \in Keys : Find(k) \/ Delete(k) \/ \E v \in Values : Insert(k, v)
  \/ Clear \/ Look

Spec == Init /\ [][Next]_<<content, answer>>
=============================================================================
