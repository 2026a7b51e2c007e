---------------------------- MODULE MemoryTasks ----------------------------
(***************************************************************************)
(* The two background tasks of the memory.  The engine task gives sessions *)
(* to mem_compact through a short queue and a table of the sessions that   *)
(* are queued or being compacted, and turns to mem_extract through a       *)
(* longer queue; s_summary_lock keeps the two from talking to the model at *)
(* the same time.  What a compaction does to the file is SessionHistory's. *)
(***************************************************************************)
EXTENDS Naturals, SequencesExt

CONSTANTS
  Sessions,
  None,
  QueueLen,    \* COMPACT_QUEUE_LEN
  ExtractLen   \* EXTRACT_QUEUE_LEN

MemoryTasksAssumption == QueueLen \in Nat /\ ExtractLen \in Nat /\ None \notin Sessions

VARIABLES
  queue,       \* s_queue of claw_memory_compact.c
  slots,       \* s_inflight
  adding,      \* the session the engine task enqueues; it holds s_dedup_lock
  worker,      \* mem_compact: where it is, and the session of its job
  extracts,    \* jobs in s_queue of claw_memory_extract.c
  extractor,   \* mem_extract: where it is
  talking      \* the holder of s_summary_lock

mtvars == <<queue, slots, adding, worker, extracts, extractor, talking>>

Idle == [at |-> "idle", sid |-> None]

Init ==
  /\ queue = <<>> /\ slots = [i \in 1..(QueueLen + 1) |-> None] /\ adding = None
  /\ worker = Idle /\ extracts = 0 /\ extractor = "idle" /\ talking = None

(* Mutant of Released: it frees the first slot in use, whatever it holds.  *)
Released_First(sid) ==
  LET used == {i \in DOMAIN slots : slots[i] # None}
  IN  slots' = [i \in DOMAIN slots |-> IF i \in used /\ \A k \in used : i <= k THEN None ELSE slots[i]]

(* inflight_release *)
Released(sid) == slots' = [i \in DOMAIN slots |-> IF slots[i] = sid THEN None ELSE slots[i]]

(* claw_memory_compact_enqueue: find the session or reserve the first free *)
(* slot; the worker may take a job before the send.                        *)
Reserve(sid) ==
  /\ adding = None
  /\ \A i \in DOMAIN slots : slots[i] # sid
  /\ \E i \in DOMAIN slots :
       /\ slots[i] = None /\ \A k \in 1..(i - 1) : slots[k] # None
       /\ slots' = [slots EXCEPT ![i] = sid]
  /\ adding' = sid
  /\ UNCHANGED <<queue, worker, extracts, extractor, talking>>

Send ==
  /\ adding # None /\ adding' = None
  /\ \/ Len(queue) < QueueLen /\ queue' = Append(queue, adding) /\ UNCHANGED slots
     \/ Len(queue) >= QueueLen /\ Released(adding) /\ UNCHANGED queue
  /\ UNCHANGED <<worker, extracts, extractor, talking>>

(* compact_task *)
Take ==
  /\ worker = Idle /\ queue # <<>>
  /\ worker' = [at |-> "snapshot", sid |-> Head(queue)] /\ queue' = Tail(queue)
  /\ UNCHANGED <<slots, adding, extracts, extractor, talking>>

Goes(from, to) == worker.at = from /\ worker' = [worker EXCEPT !.at = to]

(* Window A may find nothing to summarise.                                 *)
Snapshot ==
  /\ Goes("snapshot", "prompt") \/ Goes("snapshot", "done")
  /\ UNCHANGED <<queue, slots, adding, extracts, extractor, talking>>

TalkCompact ==
  /\ Goes("prompt", "llm") /\ talking = None /\ talking' = "compact"
  /\ UNCHANGED <<queue, slots, adding, extracts, extractor>>

Summarised ==
  /\ Goes("llm", "commit") \/ Goes("llm", "done")
  /\ talking' = None
  /\ UNCHANGED <<queue, slots, adding, extracts, extractor>>

Commit ==
  /\ Goes("commit", "done")
  /\ UNCHANGED <<queue, slots, adding, extracts, extractor, talking>>

JobEnds ==
  /\ worker.at = "done" /\ adding = None
  /\ Released(worker.sid) /\ worker' = Idle
  /\ UNCHANGED <<queue, adding, extracts, extractor, talking>>

-----------------------------------------------------------------------------
(* claw_memory_extract_observer; a full queue drops the turn after 200 ms. *)
Observe ==
  /\ extracts < ExtractLen /\ extracts' = extracts + 1
  /\ UNCHANGED <<queue, slots, adding, worker, extractor, talking>>

(* extract_task and do_extract *)
TakeTurn ==
  /\ extractor = "idle" /\ extracts > 0
  /\ extracts' = extracts - 1 /\ extractor' = "prompt"
  /\ UNCHANGED <<queue, slots, adding, worker, talking>>

TalkExtract ==
  /\ extractor = "prompt" /\ talking = None
  /\ extractor' = "llm" /\ talking' = "extract"
  /\ UNCHANGED <<queue, slots, adding, worker, extracts>>

Extracted ==
  /\ extractor = "llm"
  /\ extractor' = "idle" /\ talking' = None
  /\ UNCHANGED <<queue, slots, adding, worker, extracts>>

Next ==
  \/ (\E sid \in Sessions : Reserve(sid)) \/ Send
  \/ Take \/ Snapshot \/ TalkCompact \/ Summarised \/ Commit \/ JobEnds
  \/ Observe \/ TakeTurn \/ TalkExtract \/ Extracted

Spec == Init /\ [][Next]_mtvars

-----------------------------------------------------------------------------
(* Property *)

(* A session has one slot while it is being added, queued or compacted,    *)
(* and none otherwise, and no session has two jobs: no slot leaks when a   *)
(* full queue refuses it, and a session that is being compacted is not     *)
(* queued again.                                                           *)
Jobs == queue \o (IF worker = Idle THEN <<>> ELSE <<worker.sid>>) \o (IF adding = None THEN <<>> ELSE <<adding>>)
SlotsMatch ==
  /\ IsInjective(Jobs)
  /\ ToSet(Jobs) = {slots[i] : i \in DOMAIN slots} \ {None}
  /\ \A i, k \in DOMAIN slots : i # k /\ slots[i] # None => slots[i] # slots[k]
=============================================================================
