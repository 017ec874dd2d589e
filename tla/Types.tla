-------------------------------- MODULE Types --------------------------------
(***************************************************************************)
(* TypeResolver, which completes the types of classes, and the search for  *)
(* classes that contain themselves in TypeTable::CheckSemanticError.       *)
(*                                                                         *)
(* A type is a tuple: <<"record", name>>, <<"user", name>> for an alias,   *)
(* <<"array", base>>, <<"ptr", base>>, or a primitive type by its name.    *)
(***************************************************************************)
EXTENDS Driver

CONSTANTS
  MaxDepth  \* bound: activations of CheckRecursiveTypeDef the C++ stack has room for

ASSUME MaxDepthAssumption == MaxDepth \in Nat \ {0}

VARIABLES
  records_,   \* the classes that TypeResolver has still to complete
  members_,   \* from the name of a complete class to the types of its members
  unseen,     \* types the iterator of the table has not come to
  origin, at, \* whose member CheckSemanticError has come to
  target,     \* what CheckRecursiveTypeDef looks at
  depth       \* its activations

typeVars == <<records_, members_, unseen, origin, at, target, depth>>

TypesInit ==
  /\ records_ = <<>> /\ members_ = <<>> /\ unseen = {}
  /\ origin = Null /\ at = 1 /\ target = Null /\ depth = 0

-----------------------------------------------------------------------------
(* TypeResolver::MakeCompleteType                                           *)

\* The class of the first function is asked for its type, be it a member or not.
CompleteFunctionType ==
  /\ Begin("complete")
  /\ records_' = decls_.records
  /\ UNCHANGED <<members_, unseen, origin, at, target, depth>>

FunctionWithoutClass ==
  /\ status = "complete" /\ decls_.functions # <<>>
  /\ Crash /\ UNCHANGED typeVars

Completing == status = "complete" /\ decls_.functions = <<>>

\* Mutant: an alias is not told from a class.
IsCompleteRecord(name) == name \in DOMAIN members_

\* The name of an alias, or of a class that has been completed already.
IsComplete(name) == types_[name][1] = "user" \/ name \in DOMAIN members_

SkipRecordType ==
  /\ Completing /\ records_ # <<>> /\ IsComplete(records_[1][2])
  /\ records_' = Tail(records_)
  /\ Continue /\ UNCHANGED <<members_, unseen, origin, at, target, depth>>

\* Mutant: without the last member.
MemberTypesShort(record) == [k \in 1..Len(record[3]) - 1 |-> record[3][k][3]]

MemberTypes(record) == [k \in DOMAIN record[3] |-> record[3][k][3]]

CompleteRecordType ==
  /\ Completing /\ records_ # <<>> /\ ~IsComplete(records_[1][2])
  /\ LET RD == records_[1] IN
     IF RD[4] # <<>> THEN Crash /\ UNCHANGED <<records_, members_>>  \* a member function has no TypeNode
     ELSE /\ members_' = Put(members_, RD[2], MemberTypes(RD))
          /\ records_' = Tail(records_) /\ Continue
  /\ UNCHANGED <<unseen, origin, at, target, depth>>

EndOfRecords ==
  /\ Completing /\ records_ = <<>>
  /\ Return /\ UNCHANGED typeVars

-----------------------------------------------------------------------------
(* TypeTable::CheckSemanticError                                            *)

GetMembers(record) == IF record[2] \in DOMAIN members_ THEN members_[record[2]] ELSE <<>>

CheckSemanticError ==
  /\ Begin("recursion")
  /\ unseen' = {<<types_[name][1], name>> : name \in DOMAIN types_}
  /\ UNCHANGED <<records_, members_, origin, at, target, depth>>

Searching == status = "recursion" /\ depth = 0

GetMemberNum == IF origin = Null THEN 0 ELSE Len(GetMembers(origin))

\* Next, in the order of the hash table.  Aliases have no members to check.
NextType ==
  /\ Searching /\ at > GetMemberNum
  /\ \E type \in unseen :
       /\ unseen' = unseen \ {type}
       /\ origin' = (IF type[1] = "record" THEN type ELSE Null) /\ at' = 1
  /\ Continue /\ UNCHANGED <<records_, members_, target, depth>>

\* Next behind the last element goes through a null pointer.  (So it does, or through an
\* address nobody has written, in a table without any type, unless its uninitialised
\* tableIterator_ is MAX_TABLE by chance, when it answers null: that is left out.)
NextBehindLast ==
  /\ Searching /\ at > GetMemberNum /\ unseen = {}
  /\ Crash /\ UNCHANGED typeVars

CheckMember ==
  /\ Searching /\ at <= GetMemberNum
  /\ target' = GetMembers(origin)[at] /\ depth' = 1
  /\ Continue /\ UNCHANGED <<records_, members_, unseen, origin, at>>

-----------------------------------------------------------------------------
(* CheckRecursiveTypeDef: every call of itself is the last thing it does.   *)

Checking == status = "recursion" /\ depth > 0

GetBaseType(type) == IF type[1] = "user" THEN types_[type[2]][2] ELSE type[2]

\* Mutant: arrays are not looked into.
InsideNoArray(type) ==
  CASE type[1] = "user" -> <<GetBaseType(type)>>
    [] type[1] = "record" /\ GetMembers(type) # <<>> -> <<Head(GetMembers(type))>>
    [] OTHER -> <<>>

\* The types behind target: of a class only its first member.
Inside(type) ==
  CASE type[1] \in {"user", "array"} -> <<GetBaseType(type)>>
    [] type[1] = "record" /\ GetMembers(type) # <<>> -> <<Head(GetMembers(type))>>
    [] OTHER -> <<>>

IsOrigin == IF target[1] \in {"user", "array"} THEN GetBaseType(target) = origin ELSE target = origin

RecursionFound ==
  /\ Checking /\ IsOrigin
  /\ Refuse /\ UNCHANGED typeVars

CheckRecursiveTypeDef ==
  /\ Checking /\ ~IsOrigin /\ Inside(target) # <<>> /\ depth < MaxDepth
  /\ target' = Inside(target)[1] /\ depth' = depth + 1
  /\ Continue /\ UNCHANGED <<records_, members_, unseen, origin, at>>

StackOverflow ==
  /\ Checking /\ ~IsOrigin /\ Inside(target) # <<>> /\ depth = MaxDepth
  /\ Crash /\ UNCHANGED typeVars

\* Mutant: not on to the next member.
NotFoundStays ==
  /\ Checking /\ ~IsOrigin /\ Inside(target) = <<>>
  /\ target' = Null /\ depth' = 0
  /\ Continue /\ UNCHANGED <<records_, members_, unseen, origin, at>>

NotFound ==
  /\ Checking /\ ~IsOrigin /\ Inside(target) = <<>>
  /\ target' = Null /\ depth' = 0 /\ at' = at + 1
  /\ Continue /\ UNCHANGED <<records_, members_, unseen, origin>>

TypesNext ==
  \/ CompleteFunctionType \/ FunctionWithoutClass \/ SkipRecordType \/ CompleteRecordType \/ EndOfRecords
  \/ CheckSemanticError \/ NextType \/ NextBehindLast \/ CheckMember
  \/ RecursionFound \/ CheckRecursiveTypeDef \/ StackOverflow \/ NotFound
=============================================================================
