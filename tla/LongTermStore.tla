--------------------------- MODULE LongTermStore ---------------------------
(***************************************************************************)
(* The long-term memory of claw_modules/claw_memory: one JSON file, read   *)
(* whole and written whole by every operation, by any task (the agent's    *)
(* tools in the engine task, the mem_extract task, the console).  lt_load  *)
(* and lt_save each hold file_mutex, but not from the one to the other.    *)
(* lt_save keeps the old file as .bak while it writes the new one, and     *)
(* lt_rollback_stale_bak cleans up at boot.                                *)
(***************************************************************************)
EXTENDS MemoryItems

CONSTANTS
  Tasks,     \* the tasks that call the CRUD functions
  MaxBoots,  \* bound: starts of the program
  Faults,    \* what may fail: the read buffer or the print buffer cannot be
             \* allocated, the write is incomplete, the backup cannot be
             \* removed, power fails inside the write
  Absent, Torn

ASSUME LongTermStoreAssumption ==
  /\ MaxBoots \in Nat \ {0}
  /\ Faults \subseteq {"read", "print", "write", "unlink", "torn"}
  /\ Absent \notin Arrays /\ Torn \notin Arrays /\ Absent # Torn
  /\ None \notin Tasks

VARIABLES
  main, bak,   \* long_term_store.json and its .bak
  corrupt,     \* an unparseable store was moved aside
  fileMutex,   \* the task that holds file_mutex between two file operations
  pc, op, arr, \* per task: where it is, its operation, the array it will write
  boot

vars == <<main, bak, corrupt, fileMutex, pc, op, arr, boot>>

Init ==
  /\ main = Absent /\ bak = Absent /\ corrupt = FALSE
  /\ fileMutex = None
  /\ pc = [t \in Tasks |-> "idle"] /\ op = [t \in Tasks |-> NoOp] /\ arr = [t \in Tasks |-> <<>>]
  /\ boot = 1

-----------------------------------------------------------------------------
(* Mutant of Load: the unparseable file stays where it is.                 *)
Load_Kept(result) ==
  /\ result = IF main \in {Absent, Torn} THEN <<>> ELSE main
  /\ UNCHANGED <<main, corrupt>>

(* lt_load: no file, or no memory to read it, gives an empty array; a file *)
(* that does not parse is moved aside first.                               *)
Load(result) ==
  \/ /\ main = Torn /\ result = <<>>
     /\ main' = Absent /\ corrupt' = TRUE
  \/ /\ main # Torn
     /\ result = IF main = Absent THEN <<>> ELSE main
     /\ UNCHANGED <<main, corrupt>>
  \/ /\ "read" \in Faults /\ result = <<>>
     /\ UNCHANGED <<main, corrupt>>

(* The first half of claw_memory_store, recall, update and forget: load,   *)
(* edit the copy, and return at once when there is nothing to write.       *)
Begin(t, o) ==
  /\ pc[t] = "idle" /\ fileMutex = None
  /\ \E a \in {<<>>, IF main \in {Absent, Torn} THEN <<>> ELSE main} :
       /\ Load(a)
       /\ o.kind = "store" => NextId(MakeRoom(a)) <= MaxId
       /\ IF Writes(o, a)
            THEN /\ pc' = [pc EXCEPT ![t] = "edited"]
                 /\ op' = [op EXCEPT ![t] = o]
                 /\ arr' = [arr EXCEPT ![t] = Edited(o, a)]
            ELSE UNCHANGED <<pc, op, arr>>
  /\ UNCHANGED <<bak, fileMutex, boot>>

(* The operation returns success, whatever lt_save did.                    *)
Return(t) ==
  /\ pc' = [pc EXCEPT ![t] = "idle"]
  /\ op' = [op EXCEPT ![t] = NoOp]
  /\ arr' = [arr EXCEPT ![t] = <<>>]

(* lt_save gives up: the array cannot be printed.                          *)
SaveGivesUp(t) ==
  /\ "print" \in Faults /\ pc[t] = "edited" /\ fileMutex = None
  /\ Return(t)
  /\ UNCHANGED <<main, bak, corrupt, fileMutex, boot>>

(* Step 1: drop a stale backup, make the file the backup.                  *)
BackUp(t) ==
  /\ pc[t] = "edited" /\ fileMutex = None
  /\ fileMutex' = t
  /\ bak' = main /\ main' = Absent
  /\ pc' = [pc EXCEPT ![t] = "write"]
  /\ UNCHANGED <<corrupt, op, arr, boot>>

(* Step 2: write the new file. *)
WriteFile(t) ==
  /\ pc[t] = "write"
  /\ main' = arr[t]
  /\ pc' = [pc EXCEPT ![t] = "unlink"]
  /\ UNCHANGED <<bak, corrupt, fileMutex, op, arr, boot>>

RolledBack(b) == main' = b /\ bak' = Absent

(* Step 2 fails: remove the partial file, rename the backup back.          *)
WriteFileFails(t) ==
  /\ "write" \in Faults /\ pc[t] = "write"
  /\ RolledBack(bak)
  /\ fileMutex' = None
  /\ Return(t)
  /\ UNCHANGED <<corrupt, boot>>

(* Step 3: drop the backup; a failure is ignored.                          *)
RemoveBackup(t) ==
  /\ pc[t] = "unlink"
  /\ bak' = Absent \/ ("unlink" \in Faults /\ UNCHANGED bak)
  /\ fileMutex' = None
  /\ Return(t)
  /\ UNCHANGED <<main, corrupt, boot>>

(* claw_memory_clear_long_term takes no lock.                              *)
ClearLongTerm(t) ==
  /\ pc[t] = "idle"
  /\ main' = Absent
  /\ UNCHANGED <<bak, corrupt, fileMutex, pc, op, arr, boot>>

(* Mutant of lt_rollback_stale_bak: the backup is never used.              *)
Recovered_NoRollback(m, b) == m

(* lt_rollback_stale_bak: a file that can be opened is the good one.       *)
Recovered(m, b) == IF m # Absent THEN m ELSE b

PowerLoss ==
  /\ boot < MaxBoots /\ boot' = boot + 1
  /\ \E m \in {main, Torn} :
       /\ m = main \/ ("torn" \in Faults /\ \E t \in Tasks : pc[t] = "write")
       /\ main' = Recovered(m, bak)
  /\ bak' = Absent /\ fileMutex' = None
  /\ pc' = [t \in Tasks |-> "idle"] /\ op' = [t \in Tasks |-> NoOp] /\ arr' = [t \in Tasks |-> <<>>]
  /\ UNCHANGED corrupt

Step(t) ==
  \/ \E o \in Ops : Begin(t, o)
  \/ SaveGivesUp(t) \/ BackUp(t) \/ WriteFile(t) \/ WriteFileFails(t) \/ RemoveBackup(t)
  \/ ClearLongTerm(t)

Next == PowerLoss \/ \E t \in Tasks : Step(t)

Spec == Init /\ [][Next]_vars
-----------------------------------------------------------------------------
(* Properties *)

TypeOK ==
  /\ {main, bak} \subseteq Arrays \cup {Absent, Torn}
  /\ corrupt \in BOOLEAN /\ fileMutex \in Tasks \cup {None}
  /\ pc \in [Tasks -> {"idle", "edited", "write", "unlink"}]
  /\ arr \in [Tasks -> Arrays]
  /\ main \in Arrays => Len(main) <= MaxItems
  /\ \A t \in Tasks : pc[t] \in {"write", "unlink"} => fileMutex = t

(* The array a reader finds once the save under way, or the next boot, is  *)
(* done.                                                                   *)
Visible == IF main # Absent THEN main ELSE IF bak # Absent THEN bak ELSE <<>>

(* A call as its caller sees it: the write of the new file decides it.     *)
Call == [t \in Tasks |->
           CASE pc[t] = "idle"   -> NoOp
             [] pc[t] = "unlink" -> [NoOp EXCEPT !.kind = "done"]
             [] OTHER            -> op[t]]

Store == INSTANCE MemoryStore WITH items <- Visible, call <- Call

(* The file and its backup implement the atomic store, through failed      *)
(* writes and power loss between any two file operations: what a failure   *)
(* leaves is the array before the call or the one after it.                *)
AtomicStore == Store!Spec

(* The ids in the file strictly increase, whoever writes it and whatever   *)
(* fails: no two items of one file have the same id, and the first one is  *)
(* the oldest, the one eviction takes.                                     *)
Increasing(a) == \A i, k \in DOMAIN a : i < k => a[i].id < a[k].id
IdsIncrease ==
  /\ main \in Arrays => Increasing(main)
  /\ bak \in Arrays => Increasing(bak)
  /\ \A t \in Tasks : Increasing(arr[t])

(* An unparseable store is moved aside before anything else takes its      *)
(* name, unless the user clears the memory.                                *)
CorruptKept ==
  [][main = Torn /\ main' # Torn =>
       corrupt' \/ \E t \in Tasks : pc[t] = "idle" /\ ClearLongTerm(t)]_vars

=============================================================================
