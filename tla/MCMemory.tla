------------------------------ MODULE MCMemory ------------------------------
(***************************************************************************)
(* The memory under every fault: the store of facts, which two tasks       *)
(* write; a session's history, of which compaction summarises the older    *)
(* turns; and the queues of the background tasks.  They are checked one at *)
(* a time: `part`, chosen in the initial state, names the one that runs.   *)
(***************************************************************************)
EXTENDS LongTermStore

CONSTANTS engine, extract, tea, milk
CONSTANTS Parts    \* the parts that run
CONSTANTS MaxTurns, ProtectLast, MaxRequests, MaxClears, Notes, AllocFails, TornWrites, WriteFails, RenameReplaces
CONSTANTS Sessions, QueueLen, ExtractLen

VARIABLES part
VARIABLES file, backup, held, starts, since, serial, reqId, epc, snap, queued, cpc, job, next, clears, done, evicted, cleared
VARIABLES queue, slots, adding, worker, extracts, extractor, talking

History == INSTANCE SessionHistory WITH main <- file, bak <- backup, lock <- held, boot <- starts
Tasked  == INSTANCE MemoryTasks

ASSUME MemoryAssumption == History!SessionHistoryAssumption /\ Tasked!MemoryTasksAssumption

historyvars == <<file, backup, held, starts, since, serial, reqId, epc, snap, queued, cpc, job, next, clears, done, evicted, cleared>>
taskvars    == <<queue, slots, adding, worker, extracts, extractor, talking>>
allvars     == <<part, vars, historyvars, taskvars>>

MemoryInit == part \in Parts /\ Init /\ History!Init /\ Tasked!Init

RunsFacts   == part = "facts"   /\ Next         /\ UNCHANGED <<part, historyvars, taskvars>>
RunsHistory == part = "history" /\ History!Next /\ UNCHANGED <<part, vars, taskvars>>
RunsTasks   == part = "tasks"   /\ Tasked!Next  /\ UNCHANGED <<part, vars, historyvars>>

MemoryNext == RunsFacts \/ RunsHistory \/ RunsTasks

MemorySpec == MemoryInit /\ [][MemoryNext]_allvars
-----------------------------------------------------------------------------
(* The properties of the parts, under the names they have there. *)

(* SessionHistory: the replayed turns follow the summarised ones.          *)
SummaryThenTurns == History!SummaryThenTurns

(* SessionHistory: compaction deletes only what it summarised, a turn      *)
(* belongs to one request, and a reboot recovers the history.              *)
NothingForgotten   == History!NothingForgotten
TurnIsOneRequest   == History!TurnIsOneRequest
RebootKeepsHistory == History!RebootKeepsHistory

(* MemoryTasks: a slot for each session that is queued or compacted.       *)
SlotsMatch == Tasked!SlotsMatch
=============================================================================
