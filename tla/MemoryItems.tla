---------------------------- MODULE MemoryItems ----------------------------
(***************************************************************************)
(* The long-term memory as claw_memory.c edits it between lt_load and      *)
(* lt_save: a JSON array of items, oldest first.  An item keeps its id and *)
(* its content; the other fields are never compared.                       *)
(***************************************************************************)
EXTENDS Naturals, SequencesExt

CONSTANTS
  MaxItems,   \* LT_MAX_ITEMS
  Texts,      \* contents of items
  MaxId,      \* bound: ids handed out
  None

ASSUME MaxItemsAssumption == MaxItems \in Nat \ {0} /\ MaxId \in Nat

Item    == [id : Nat, text : Texts]
Arrays  == Seq(Item)
Ids(a)  == {a[i].id : i \in DOMAIN a}

(* The operations of the CRUD interface, with their arguments.             *)
StoreOps == {[kind |-> "store", id |-> 0, text |-> x] : x \in Texts}
OpsOn(id) ==
  {[kind |-> "update", id |-> id, text |-> x] : x \in Texts}
    \cup {[kind |-> k, id |-> id, text |-> CHOOSE x \in Texts : TRUE] : k \in {"forget", "recall"}}
Ops  == StoreOps \cup UNION {OpsOn(id) : id \in 1..MaxId}
NoOp == [kind |-> "none", id |-> 0, text |-> None]

(* Mutant of NextId: the number of items. *)
NextId_Count(a) == Len(a) + 1

NextId(a) == IF a = <<>> THEN 1 ELSE 1 + (CHOOSE m \in Ids(a) : \A i \in Ids(a) : i <= m)

(* Evict the oldest items until one more fits. *)
MakeRoom(a) == IF Len(a) >= MaxItems THEN SubSeq(a, Len(a) - MaxItems + 2, Len(a)) ELSE a

Stored(a, text) == Append(MakeRoom(a), [id |-> NextId(MakeRoom(a)), text |-> text])

(* update and forget stop at the first item that has the id. *)
Place(a, id)         == CHOOSE i \in DOMAIN a : a[i].id = id /\ \A k \in 1..(i - 1) : a[k].id # id
Updated(a, id, text) == [a EXCEPT ![Place(a, id)].text = text]
Forgotten(a, id)     == RemoveAt(a, Place(a, id))

(* A recall that matches some item writes the array back, for the access   *)
(* counts; update and forget write only when they find their item.         *)
Writes(op, a) ==
  \/ op.kind = "store"
  \/ op.kind = "recall" /\ a # <<>>
  \/ op.kind \in {"update", "forget"} /\ op.id \in Ids(a)

Edited(op, a) ==
  CASE op.kind = "store"  -> Stored(a, op.text)
    [] op.kind = "update" -> Updated(a, op.id, op.text)
    [] op.kind = "forget" -> Forgotten(a, op.id)
    [] OTHER              -> a
=============================================================================
