---------------------------- MODULE RouterRules ----------------------------
(***************************************************************************)
(* cap_router_mgr.c over claw_event_dispatcher.c: the rule calls first     *)
(* edit the dispatcher's table, which the worker uses at once, and then    *)
(* read, edit and replace the rule file, from which the table is loaded    *)
(* rule by rule at the next boot.  One call runs at a time: nothing in the *)
(* code keeps two of them apart, and what they do to the shared .tmp file  *)
(* depends on the file system.                                             *)
(***************************************************************************)
EXTENDS EventDispatcher

CONSTANTS
  Torn,        \* a file that does not parse
  RuleFaults,  \* subset of {"read", "write", "rename"}: what may fail
  MaxBoots     \* bound: power losses

VARIABLES
  file,     \* router_rules.json: the rules in file order, or Torn
  call,     \* the call in progress
  unsaved,  \* history: ids whose last edit did not reach the file
  boots     \* bounded counter

rvars == <<vars, file, call, unsaved, boots>>
disk  == <<file, unsaved, boots>>

ASSUME RouterAssumption ==
  /\ RuleFaults \subseteq {"read", "write", "rename"}
  /\ MaxBoots \in Nat /\ Torn \notin Seq(Templates)

(* A call: the step it is at, the id and the rules it puts under that id   *)
(* (none when it removes), the array it works on, and the table it found.  *)
Call(at, id, new, arr) ==
  [at |-> at, id |-> id, new |-> new, arr |-> arr, was |-> {rules[i].rule : i \in DOMAIN rules}]
Idle == [at |-> "idle", id |-> "", new |-> <<>>, arr |-> <<>>, was |-> {}]

RouterInit == Init /\ file = <<>> /\ call = Idle /\ unsaved = {} /\ boots = 0

-----------------------------------------------------------------------------
(* add_or_update: the table first; a rule the dispatcher rejects is not    *)
(* saved.                                                                  *)
Accepts(r) == IndexOf(r.id) # {} \/ Len(rules) < MaxRules

PutRule(r) ==
  /\ call = Idle
  /\ AddRule(r) \/ UpdateRule(r)
  /\ call' = IF Accepts(r) THEN Call("load", r.id, <<r>>, <<>>) ELSE Idle
  /\ UNCHANGED disk

PutFails == call = Idle /\ EditFails /\ UNCHANGED <<call, disk>>

(* cap_router_remove_rule goes on when only the file has the rule.         *)
RemoveRule(id) ==
  /\ call = Idle /\ edits < MaxEdits
  /\ \/ DeleteRule(id)
     \/ IndexOf(id) = {} /\ edits' = edits + 1 /\ UNCHANGED <<inbox, rules, worker, time, events>>
  /\ call' = Call("load", id, <<>>, <<>>)
  /\ UNCHANGED disk

(* load_rules_array: what cannot be read or parsed is an empty array.      *)
Readable == IF file = Torn THEN <<>> ELSE file
Reads    == {Readable} \cup IF "read" \in RuleFaults THEN {<<>>} ELSE {}

(* array_remove_id removes the first rule with the id.                     *)
HasId(arr, id)   == \E i \in DOMAIN arr : arr[i].id = id
Without(arr, id) == IF HasId(arr, id) THEN RemoveAt(arr, Min({i \in DOMAIN arr : arr[i].id = id})) ELSE arr

(* Mutant of Edited: the rule is appended beside its older version.        *)
Edited_Append(arr) == IF call.new = <<>> THEN Without(arr, call.id) ELSE arr \o call.new

Edited(arr) == Without(arr, call.id) \o call.new

LoadFile ==
  /\ call.at = "load"
  /\ \E arr \in Reads :
       /\ call' = IF call.new = <<>> /\ ~HasId(arr, call.id) THEN Idle
                  ELSE [call EXCEPT !.at = "write", !.arr = Edited(arr)]
       /\ unsaved' = IF arr # Readable THEN RuleIds ELSE unsaved
  /\ UNCHANGED <<vars, file, boots>>

(* write_rules_file.  The .tmp file is read by nobody else, so writing it  *)
(* is one step; what fails is not reported.                                *)
Saved   == file' = call.arr /\ call' = Idle /\ unsaved' = unsaved \ {call.id}
Unsaved == call' = Idle /\ unsaved' = unsaved \cup {call.id}

WriteTmp ==
  /\ call.at = "write"
  /\ \/ call' = [call EXCEPT !.at = "rename"] /\ UNCHANGED unsaved
     \/ "write" \in RuleFaults /\ Unsaved
  /\ UNCHANGED <<vars, file, boots>>

RenameTmp ==
  /\ call.at = "rename"
  /\ \/ Saved
     \/ "rename" \in RuleFaults /\ call' = [call EXCEPT !.at = "direct"] /\ UNCHANGED <<file, unsaved>>
  /\ UNCHANGED <<vars, boots>>

(* The fallback opens the file itself, which truncates it.                 *)
OpenDirect ==
  /\ call.at = "direct"
  /\ \/ file' = Torn /\ call' = [call EXCEPT !.at = "fill"] /\ UNCHANGED unsaved
     \/ "write" \in RuleFaults /\ Unsaved /\ UNCHANGED file
  /\ UNCHANGED <<vars, boots>>

WriteDirect ==
  /\ call.at = "fill"
  /\ Saved
  /\ UNCHANGED <<vars, boots>>

-----------------------------------------------------------------------------
(* cap_router_reload_rules: add the rules of the file to the table.        *)
Reload ==
  /\ call = Idle
  /\ \E arr \in Reads : call' = Call("reload", "", <<>>, arr)
  /\ UNCHANGED <<vars, disk>>

(* Power is lost: the table is empty and cap_router_mgr_init loads the     *)
(* file while the worker already runs.                                     *)
PowerLoss ==
  /\ boots < MaxBoots
  /\ boots' = boots + 1
  /\ inbox' = <<>> /\ rules' = <<>>
  /\ cur' = None /\ busy' = FALSE /\ matched' = 0
  /\ snaps' = <<>> /\ acts' = <<>> /\ ran' = <<>> /\ asked' = 0
  /\ time' = 1
  /\ \E arr \in Reads :
       /\ call' = [Idle EXCEPT !.at = "boot", !.arr = arr]
       /\ unsaved' = IF arr # Readable THEN RuleIds ELSE {}
  /\ UNCHANGED <<events, edits, file>>

LoadNext ==
  /\ call.at \in {"boot", "reload"}
  /\ IF call.arr = <<>>
     THEN call' = Idle /\ UNCHANGED <<rules, unsaved>>
     ELSE LET r == Head(call.arr)
          IN  /\ rules' = Added(r)
              /\ unsaved' = IF Accepts(r) THEN unsaved \ {r.id} ELSE unsaved \cup {r.id}
              /\ call' = [call EXCEPT !.arr = Tail(@)]
  /\ UNCHANGED <<inbox, worker, time, events, edits, file, boots>>

RouterCalls ==
  \/ \E r \in Templates : PutRule(r)
  \/ \E id \in RuleIds : RemoveRule(id)
  \/ PutFails \/ LoadFile \/ WriteTmp \/ RenameTmp \/ OpenDirect \/ WriteDirect
  \/ Reload \/ LoadNext \/ PowerLoss

Dispatcher ==
  /\ Worker \/ Tick \/ \E k \in Published : Publish(k)
  /\ UNCHANGED <<file, call, unsaved, boots>>

RouterNext == RouterCalls \/ Dispatcher

RouterSpec == RouterInit /\ [][RouterNext]_rvars
-----------------------------------------------------------------------------
(* Properties *)

RouterTypeOK ==
  /\ TypeOK
  /\ file \in Seq(Templates) \cup {Torn}
  /\ call.at \in {"idle", "load", "write", "rename", "direct", "fill", "reload", "boot"}
  /\ call.arr \in Seq(Templates) /\ call.new \in Seq(Templates) /\ call.was \subseteq Templates
  /\ unsaved \subseteq RuleIds /\ boots \in 0..MaxBoots

(* A rule "takes effect immediately and is persisted": but for the ids     *)
(* whose edit failed to reach it, the file holds the rules of the running  *)
(* table or, during a call, those before it, whenever power is lost; only  *)
(* while the fallback rewrites the file in place is there nothing to load. *)
Live    == {rules[i].rule : i \in DOMAIN rules}
OnFile  == {Readable[i] : i \in DOMAIN Readable}
Sure(S) == {r \in S : r.id \notin unsaved}
RulesPersist ==
  call.at \notin {"boot", "fill"} =>
    \/ Sure(OnFile) = Sure(Live)
    \/ call.at # "idle" /\ Sure(OnFile) = Sure(call.was)
=============================================================================
