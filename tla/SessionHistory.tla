--------------------------- MODULE SessionHistory ---------------------------
(***************************************************************************)
(* The history file of one session (claw_modules/claw_memory): the engine  *)
(* task saves turns with claw_memory_append_session_turn, the mem_compact  *)
(* task replaces older turns by a summary, any task may clear the session, *)
(* and power may fail.  A save reads the file under file_mutex, builds the *)
(* new content without it and writes it under file_mutex again; compaction *)
(* holds file_mutex in its windows A and C but not during the LLM call.    *)
(*                                                                         *)
(* A turn keeps the number of the request its user text is from (user) and *)
(* the one its reply is from (by); the code has only the texts.  The       *)
(* summary is the set of requests whose turns the summariser was shown.    *)
(***************************************************************************)
EXTENDS Naturals, SequencesExt

CONSTANTS
  MaxTurns,      \* max_session_turns, the ring buffer
  ProtectLast,   \* compaction_protect_last
  MaxRequests,   \* bound: requests of the session
  MaxBoots,      \* bound: starts of the program
  MaxClears,     \* bound: calls of claw_memory_clear_session
  Notes,         \* reply texts that different turns share
  AllocFails,    \* TRUE: the copy of the boundary text may fail
  TornWrites,    \* the writers whose fopen/fwrite/fclose power may cut short
  WriteFails,    \* the writers whose fwrite may be incomplete
  RenameReplaces,\* TRUE: rename over an existing file succeeds (not on FatFs)
  Absent, Torn,  \* no file; a file that does not parse
  None

Requests    == 1..MaxRequests
Replied     == Requests \cup Notes
Turn        == [user : Requests, by : Requests, req : Requests, reply : Replied \cup {None}]
Contents    == [turns : Seq(Turn), summary : SUBSET Requests, gen : Nat]

SessionHistoryAssumption ==
  /\ {MaxTurns, ProtectLast, MaxRequests, MaxBoots} \subseteq Nat \ {0}
  /\ MaxClears \in Nat
  /\ {AllocFails, RenameReplaces} \subseteq BOOLEAN
  /\ {TornWrites, WriteFails} \subseteq SUBSET {"append", "compact"}
  /\ Notes \cap Nat = {} /\ None \notin Notes \cup ({"assistant", "user"} \X Replied)
  /\ Absent \notin Contents /\ Torn \notin Contents

VARIABLES
  main, bak,   \* s_<sid>.json and s_<sid>.json.bak
  lock,        \* file_mutex is held by compaction between two file operations
  boot,        \* starts of the program so far
  since,       \* history: the last request before this boot
  serial,      \* number of the last request, over all boots
  reqId,       \* request_id of the last request, counted from 1 in each boot
  epc,         \* engine task: idle, in a request, or between Phase 1 and Phase 3
  snap,        \* what Phase 1 read
  queued,      \* the session is in the compaction queue
  cpc, job,    \* mem_compact task: where it is and what window A captured
  next,        \* the content window C writes
  clears,
  done,        \* history: requests whose final turn was saved
  evicted,     \* history: turns the ring or the soft cap dropped, overwritten, or cut short
  cleared      \* history: saved requests a successful clear deleted

engineVars  == <<serial, reqId, epc, snap>>
compactVars == <<queued, cpc, job, next>>
historyVars == <<done, evicted, cleared>>
vars == <<main, bak, lock, boot, since, engineVars, compactVars, clears, historyVars>>

Parsed(f)   == f \notin {Absent, Torn}
Fresh       == [turns |-> <<>>, summary |-> {}, gen |-> 0]
Authors(ts) == UNION {{ts[i].user, ts[i].by} : i \in DOMAIN ts}
Known(f)    == IF Parsed(f) THEN Authors(f.turns) \cup f.summary ELSE {}
\* what a reader gets once the writer, or the next boot, has finished
Visible     == IF main = Absent THEN bak ELSE main
NoJob       == [count |-> 0, older |-> {}, prev |-> {}, mark |-> None]

Init ==
  /\ main = Absent /\ bak = Absent /\ lock = FALSE /\ boot = 1 /\ since = 0
  /\ serial = 0 /\ reqId = 0 /\ epc = "idle" /\ snap = Absent
  /\ queued = FALSE /\ cpc = "idle" /\ job = NoJob /\ next = Absent
  /\ clears = 0 /\ done = {} /\ evicted = {} /\ cleared = {}

-----------------------------------------------------------------------------
(* claw_memory_append_session_turn *)

(* Other sessions take ids from the same counter in between.               *)
BeginRequest(id) ==
  /\ epc = "idle" /\ serial < MaxRequests
  /\ id > reqId
  /\ reqId' = id /\ serial' = serial + 1
  /\ epc' = "request"
  /\ UNCHANGED <<main, bak, lock, boot, since, snap, compactVars, clears, historyVars>>

(* The request ends without another save.                                  *)
EndRequest ==
  /\ epc = "request"
  /\ epc' = "idle"
  /\ UNCHANGED <<main, bak, lock, boot, since, serial, reqId, snap, compactVars, clears, historyVars>>

(* Phase 1. *)
ReadTurns ==
  /\ epc = "request" /\ ~lock
  /\ snap' = main
  /\ epc' = "building"
  /\ UNCHANGED <<main, bak, lock, boot, since, serial, reqId, compactVars, clears, historyVars>>

(* Mutant: the last turn is updated whatever its request id.               *)
Upserts_Always(ts) == ts # <<>>

Upserts(ts) == ts # <<>> /\ Last(ts).req = reqId

(* Room for one more turn in the ring. *)
RingTrim(ts) == LET n == Len(ts) IN IF n >= MaxTurns THEN SubSeq(ts, n - MaxTurns + 2, n) ELSE ts

(* Phase 2: update the last turn in place, or trim the ring and append.    *)
WithTurn(ts, reply) ==
  LET turn == [user |-> serial, by |-> serial, req |-> reqId, reply |-> reply]
  IN IF Upserts(ts) THEN Front(ts) \o <<[turn EXCEPT !.user = Last(ts).user]>>
                    ELSE Append(RingTrim(ts), turn)

(* The soft cap drops oldest whole turns, never the protected tail.        *)
Sheds(ts) == {SubSeq(ts, k + 1, Len(ts)) : k \in {0} \cup {n \in 1..Len(ts) : Len(ts) - n >= ProtectLast}}

(* A checkpoint has no reply; a final reply may be empty (None).           *)
Replies(final) == IF final THEN {serial, None} \cup Notes ELSE {None}

(* Phase 3, and the compaction trigger (a token count over its threshold,  *)
(* left open).  A session whose job is queued or running is not queued.    *)
WriteTurns(final) ==
  /\ epc = "building" /\ ~lock
  /\ \E reply \in Replies(final) :
       LET base == IF Parsed(snap) THEN snap ELSE Fresh
       IN \E ts \in Sheds(WithTurn(base.turns, reply)) :
            /\ main' = [base EXCEPT !.turns = ts]
            /\ evicted' = evicted \cup (Authors(base.turns) \ Authors(ts))
  /\ done' = IF final THEN done \cup {serial} ELSE done
  /\ snap' = Absent
  /\ epc' = IF final THEN "idle" ELSE "request"
  /\ \/ queued' = (queued \/ cpc = "idle")
     \/ UNCHANGED queued
  /\ UNCHANGED <<bak, lock, boot, since, serial, reqId, cpc, job, next, clears, cleared>>

(* fwrite was incomplete: the truncated file stays.                        *)
WriteTurnsFails ==
  /\ "append" \in WriteFails /\ epc = "building" /\ ~lock
  /\ main' = Torn /\ snap' = Absent /\ epc' = "request"
  /\ evicted' = evicted \cup Known(Visible)
  /\ UNCHANGED <<bak, lock, boot, since, serial, reqId, compactVars, clears, done, cleared>>

(* claw_memory_clear_session takes no lock.                                *)
ClearSession ==
  /\ clears < MaxClears /\ clears' = clears + 1
  /\ main' = Absent
  /\ cleared' = IF main = Absent THEN cleared ELSE cleared \cup done
  /\ UNCHANGED <<bak, lock, boot, since, engineVars, compactVars, done, evicted>>

-----------------------------------------------------------------------------
(* do_compact *)

OlderCount(ts) == IF Len(ts) >= ProtectLast THEN Len(ts) - ProtectLast ELSE 0

(* The boundary fingerprint: the reply if there is one, else the user text.*)
Mark(turn) == IF turn.reply # None THEN <<"assistant", turn.reply>> ELSE <<"user", turn.user>>
Bears(turn, mark) ==
  \/ mark[1] = "assistant" /\ turn.reply = mark[2]
  \/ mark[1] = "user" /\ turn.user = mark[2]

(* Window A. *)
WindowA ==
  /\ cpc = "idle" /\ queued /\ ~lock
  /\ queued' = FALSE
  /\ IF Parsed(main) /\ OlderCount(main.turns) >= 2
       THEN LET n == OlderCount(main.turns) IN
            /\ \E mark \in {Mark(main.turns[n])} \cup (IF AllocFails THEN {None} ELSE {}) :
                 job' = [count |-> n, older |-> Authors(SubSeq(main.turns, 1, n)),
                         prev |-> main.summary, mark |-> mark]
            /\ cpc' = "llm"
       ELSE UNCHANGED <<cpc, job>>
  /\ UNCHANGED <<main, bak, lock, boot, since, engineVars, next, clears, historyVars>>

(* Window B ends without a summary: it is discarded. *)
SummaryFails ==
  /\ cpc = "llm"
  /\ cpc' = "idle" /\ job' = NoJob
  /\ UNCHANGED <<main, bak, lock, boot, since, engineVars, queued, next, clears, historyVars>>

(* Mutants of CutPoint: the count of window A, as if the ring had not      *)
(* moved; the boundary turn itself is left in the file.                    *)
CutPoint_ByCount(ts) == IF job.count < OlderCount(ts) THEN job.count ELSE OlderCount(ts)
CutPoint_OneLess(ts) ==
  LET matches == {i \in 1..OlderCount(ts) : job.mark # None /\ Bears(ts[i], job.mark)}
  IN IF matches = {} THEN 0 ELSE Min(matches) - 1

(* How many head turns to delete: up to the newest unprotected turn if it  *)
(* bears the mark, else up to the first turn that does.                    *)
CutPoint(ts) ==
  LET limit   == OlderCount(ts)
      matches == {i \in 1..limit : Bears(ts[i], job.mark)}
  IN IF job.mark = None THEN Min({job.count, limit})
     ELSE IF limit \in matches THEN limit
     ELSE IF matches = {} THEN 0 ELSE Min(matches)

(* Window C up to rename(main, bak); nothing to do if the file vanished.   *)
WindowC ==
  /\ cpc = "llm" /\ ~lock
  /\ IF Parsed(main)
       THEN LET cut == CutPoint(main.turns) IN
            /\ next' = [turns   |-> SubSeq(main.turns, cut + 1, Len(main.turns)),
                        summary |-> job.prev \cup job.older,
                        gen     |-> main.gen + 1]
            /\ bak' = main /\ main' = Absent
            /\ lock' = TRUE /\ cpc' = "renamed"
            /\ UNCHANGED job
       ELSE /\ cpc' = "idle" /\ job' = NoJob
            /\ UNCHANGED <<main, bak, lock, next>>
  /\ UNCHANGED <<boot, since, engineVars, queued, clears, historyVars>>

(* write_file succeeds. *)
CommitCompaction ==
  /\ cpc = "renamed"
  /\ main' = next /\ cpc' = "written"
  /\ UNCHANGED <<bak, lock, boot, since, engineVars, queued, job, next, clears, historyVars>>

CompactionEnds ==
  /\ cpc' = "idle" /\ job' = NoJob /\ next' = Absent /\ lock' = FALSE

(* write_file fails after it created the file: rename the backup back,     *)
(* which FatFs refuses.                                                    *)
CommitFails ==
  /\ "compact" \in WriteFails /\ cpc = "renamed"
  /\ IF RenameReplaces THEN main' = bak /\ bak' = Absent
                       ELSE main' = Torn /\ UNCHANGED bak
  /\ CompactionEnds
  /\ UNCHANGED <<boot, since, engineVars, queued, clears, historyVars>>

RemoveBackup ==
  /\ cpc = "written"
  /\ bak' = Absent
  /\ CompactionEnds
  /\ UNCHANGED <<main, boot, since, engineVars, queued, clears, historyVars>>

-----------------------------------------------------------------------------
(* Power fails; at boot rollback_stale_bak_files keeps the file if one can *)
(* be opened and renames the backup back otherwise.                        *)

Writer == IF cpc = "renamed" THEN "compact" ELSE IF epc = "building" /\ ~lock THEN "append" ELSE "nobody"

(* Mutant of Recovered: a backup always replaces the file.                 *)
Recovered_BackupFirst(m, b) == IF b # Absent THEN b ELSE m
Recovered(m, b) == IF m # Absent THEN m ELSE b

PowerLoss ==
  /\ boot < MaxBoots /\ boot' = boot + 1 /\ since' = serial
  /\ \E m \in {main} \cup (IF Writer \in TornWrites THEN {Torn} ELSE {}) :
       main' = Recovered(m, bak)
  /\ bak' = Absent
  /\ lock' = FALSE
  /\ reqId' = 0 /\ epc' = "idle" /\ snap' = Absent
  /\ queued' = FALSE /\ cpc' = "idle" /\ job' = NoJob /\ next' = Absent
  /\ UNCHANGED <<serial, clears, historyVars>>

Next ==
  \/ \E id \in Requests : BeginRequest(id)
  \/ EndRequest \/ ReadTurns \/ (\E final \in BOOLEAN : WriteTurns(final)) \/ WriteTurnsFails
  \/ ClearSession
  \/ WindowA \/ SummaryFails \/ WindowC \/ CommitCompaction \/ CommitFails \/ RemoveBackup
  \/ PowerLoss

Spec == Init /\ [][Next]_vars
-----------------------------------------------------------------------------
(* Properties *)

TypeOK ==
  /\ main \in Contents \cup {Absent, Torn} /\ bak \in Contents \cup {Absent, Torn}
  /\ Parsed(main) => Len(main.turns) <= MaxTurns
  /\ lock \in BOOLEAN /\ (lock <=> cpc \in {"renamed", "written"})
  /\ boot \in 1..MaxBoots /\ since \in 0..serial /\ serial \in 0..MaxRequests /\ reqId \in 0..MaxRequests
  /\ epc \in {"idle", "request", "building"}
  /\ snap \in Contents \cup {Absent, Torn}
  /\ queued \in BOOLEAN /\ cpc \in {"idle", "llm", "renamed", "written"}
  /\ next \in Contents \cup {Absent}
  /\ {done, evicted, cleared} \subseteq SUBSET Requests

(* A request whose final turn was saved is still known to the model: it is *)
(* in the file's turns or its summary, unless the ring, the soft cap, a    *)
(* later save of the same id, a write cut short or a clear removed it.     *)
(* Compaction deletes only what it summarised, however many turns were     *)
(* saved, evicted or cleared while it waited for the LLM.                  *)
NothingForgotten == done \subseteq Known(Visible) \cup evicted \cup cleared

(* No turn is both replayed and summarised, and the replayed ones are the  *)
(* newer ones, in the order of their requests.                             *)
SummaryThenTurns ==
  Parsed(main) =>
    /\ \A i \in DOMAIN main.turns, s \in main.summary : s < main.turns[i].user
    /\ \A i, k \in DOMAIN main.turns : i < k => main.turns[i].user < main.turns[k].user

(* A turn's reply answers the turn's user text: a save updates only the    *)
(* turn of its own request, "checkpoint after each round".  Ids start      *)
(* again at a reboot, so only a request of an earlier boot may lose its    *)
(* reply to a later one.                                                   *)
TurnIsOneRequest ==
  Parsed(main) =>
    \A i \in DOMAIN main.turns : LET turn == main.turns[i] IN turn.user # turn.by => turn.user <= since

(* A finished compaction is not undone: the generation of the file grows   *)
(* until the session is cleared, since "append and compaction never race   *)
(* on the same file".                                                      *)
CompactionKept ==
  [][Parsed(main) /\ Parsed(main') => main'.gen >= main.gen]_vars

(* A reboot changes nothing a reader could see before the power failed.    *)
RebootKeepsHistory == [][boot' # boot => main' = Visible]_vars
=============================================================================
