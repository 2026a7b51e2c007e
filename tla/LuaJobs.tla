------------------------------ MODULE LuaJobs ------------------------------
(***************************************************************************)
(* cap_lua_async.c, cap_lua_runtime.c and thread_sync.c: scripts run as    *)
(* jobs, each in a task of its own with a slot of the job table, or        *)
(* synchronously, in a task whose caller waits for it and may give up.     *)
(* They share named synchronisation objects, which the last run to end     *)
(* reclaims.  s_jobs_lock guards the table, the registry lock the objects; *)
(* what a run does between two of their critical sections is one step.     *)
(***************************************************************************)
EXTENDS Naturals, FiniteSets

CONSTANTS
  Launchers,   \* tasks that start jobs
  Syncs,       \* synchronous runs
  Names,       \* names of synchronisation objects
  NoRun,       \* the owner of an object nobody has locked
  SlotCount,   \* LUA_JOB_SLOTS
  MaxRunning,  \* LUA_JOB_MAX_RUNNING
  MaxObjects,  \* CLAW_LUA_THREAD_SYNC_MAX_OBJECTS
  MaxJobs,     \* bound: jobs started
  MaxCreated   \* bound: objects created

VARIABLES
  slots,    \* s_jobs
  nextId,   \* s_next_job_id
  running,  \* s_sync_lua_run_count
  launch,   \* per launcher: the step of lua_run_async, and the job it replaces
  run,      \* per run: the step of its task, and the object it is inside
  exec,     \* per synchronous run: the lua_exec_ctx_t it shares with its caller
  objs,     \* s_objects
  made      \* objects created: the next one's serial number

lvars == <<slots, nextId, running, launch, run, exec, objs, made>>
table == <<slots, nextId, running>>

LuaAssumption ==
  /\ SlotCount \in Nat \ {0} /\ MaxRunning \in 1..SlotCount
  /\ MaxObjects \in Nat \ {0} /\ MaxJobs \in Nat /\ MaxCreated \in Nat
  /\ IsFiniteSet(Syncs) /\ Syncs \cap Nat = {} /\ NoRun \notin Syncs \cup Nat

Jobs == 1..MaxJobs
Runs == Jobs \cup Syncs

FreeSlot == [id |-> 0, status |-> "free", stop |-> FALSE, named |-> FALSE]

Resting == [at |-> "idle", over |-> 0]

Init ==
  /\ slots = [s \in 1..SlotCount |-> FreeSlot] /\ nextId = 1 /\ running = 0
  /\ launch = [t \in Launchers |-> Resting]
  /\ run = [r \in Runs |-> [at |-> "none", obj |-> 0]]
  /\ exec = [r \in Syncs |-> [caller |-> "idle", alive |-> FALSE, abandoned |-> FALSE, given |-> FALSE, read |-> FALSE]]
  /\ objs = {}
  /\ made = 0

-----------------------------------------------------------------------------
(* The job table. *)
Ended(s)  == slots[s].status = "ended"
Active    == {s \in DOMAIN slots : slots[s].id # 0 /\ ~Ended(s)}
SlotOf(j) == {s \in DOMAIN slots : slots[s].id = j}
Idle      == running = 0 /\ Active = {}
Budget    == running + Cardinality(Active)   \* places taken, in cap_lua_sync_slot_acquire

Least(S)   == CHOOSE x \in S : \A y \in S : x <= y

(* job_find_free_slot: an unused slot, or one whose job has ended.         *)
Unused   == {s \in DOMAIN slots : slots[s].id = 0}
Reusable == IF Unused # {} THEN Least(Unused) ELSE Least({s \in DOMAIN slots : Ended(s)})

Goes(r, at) == run' = [run EXCEPT ![r].at = at]

(* The rest of lua_run_async once the name is free: a slot is claimed and  *)
(* the task created, or the slot is given up again.                        *)
Claim(t, named) ==
  /\ launch' = [launch EXCEPT ![t] = Resting]
  /\ IF Cardinality(Active) >= MaxRunning
     THEN UNCHANGED <<slots, nextId, run>>
     ELSE /\ nextId <= MaxJobs /\ nextId' = nextId + 1
          /\ \/ /\ slots' = [slots EXCEPT ![Reusable] = [id |-> nextId, status |-> "queued", stop |-> FALSE, named |-> named]]
                /\ Goes(nextId, "created")
             \/ slots' = [slots EXCEPT ![Reusable] = FreeSlot] /\ UNCHANGED run

(* A job may have the name that all named ones here share, or none.        *)
Conflicts(named) == {s \in Active : named /\ slots[s].named}

Launch(t, named, replace) ==
  /\ launch[t].at = "idle"
  /\ IF Conflicts(named) = {} THEN Claim(t, named)
     ELSE /\ replace
          /\ LET s == Least(Conflicts(named))
             IN  /\ slots' = [slots EXCEPT ![s].stop = TRUE]
                 /\ launch' = [launch EXCEPT ![t] = [at |-> "waiting", over |-> slots[s].id]]
          /\ UNCHANGED <<nextId, run>>
  /\ UNCHANGED <<running, exec, objs, made>>

(* Mutants: of Reclaims, an object is reclaimed whoever is inside it; of   *)
(* Sampled, only jobs look whether all is idle.                            *)
Reclaims_All(o) == o.scoped
Sampled_Jobs(r) == r \in Jobs /\ Idle

Gone(j) == \A s \in SlotOf(j) : Ended(s)

SeesGone(t) ==
  /\ launch[t].at = "waiting" /\ Gone(launch[t].over)
  /\ launch' = [launch EXCEPT ![t].at = "relock"]
  /\ UNCHANGED <<table, run, exec, objs, made>>

GivesUp(t) ==
  /\ launch[t].at = "waiting" /\ ~Gone(launch[t].over)
  /\ launch' = [launch EXCEPT ![t] = Resting]
  /\ UNCHANGED <<table, run, exec, objs, made>>

(* The lock is taken again; nobody asks again whether the name is free.    *)
TakesOver(t) ==
  /\ launch[t].at = "relock" /\ Claim(t, TRUE)
  /\ UNCHANGED <<running, exec, objs, made>>

(* cap_lua_stop_job, and for every job of a path stop_jobs_for_path.       *)
StopJob(s) ==
  /\ s \in Active /\ ~slots[s].stop
  /\ slots' = [slots EXCEPT ![s].stop = TRUE]
  /\ UNCHANGED <<nextId, running, launch, run, exec, objs, made>>

-----------------------------------------------------------------------------
(* A job's task. *)
SetSlot(j, f(_)) == slots' = [s \in DOMAIN slots |-> IF s \in SlotOf(j) THEN f(slots[s]) ELSE slots[s]]
AsRunning(e) == [e EXCEPT !.status = "running"]
AsEnded(e)   == [FreeSlot EXCEPT !.id = e.id, !.status = "ended"]   \* the rest is not read any more

JobStarts(j) ==
  /\ run[j].at = "created"
  /\ SetSlot(j, AsRunning) /\ Goes(j, "script")
  /\ UNCHANGED <<nextId, running, launch, exec, objs, made>>

JobEnds(j) ==
  /\ run[j].at = "script"
  /\ SetSlot(j, AsEnded) /\ Goes(j, "sample")
  /\ UNCHANGED <<nextId, running, launch, exec, objs, made>>

(* A synchronous run takes a place of the budget, or goes on without one   *)
(* when the lock is not free for 100 ms; then its task is created, or not. *)
SyncStarts(r) ==
  /\ run[r].at = "none"
  /\ \/ Budget < MaxRunning /\ running' = running + 1
     \/ UNCHANGED running
  /\ \/ Goes(r, "top") /\ exec' = [exec EXCEPT ![r] = [@ EXCEPT !.caller = "waiting", !.alive = TRUE]]
     \/ Goes(r, "release") /\ UNCHANGED exec
  /\ UNCHANGED <<slots, nextId, launch, objs, made>>

(* The top level of its script runs before it can be cancelled.            *)
TopEnds(r) ==
  /\ run[r].at = "top" /\ (Goes(r, "script") \/ Goes(r, "closing"))
  /\ UNCHANGED <<table, launch, exec, objs, made>>

SyncEnds(r) ==
  /\ run[r].at = "script" /\ Goes(r, "closing")
  /\ UNCHANGED <<table, launch, exec, objs, made>>

(* The end of lua_exec_task: the flag is read before the semaphore is      *)
(* given, and decides who frees the context.                               *)
ReadsAbandoned(r) ==
  /\ run[r].at = "closing"
  /\ exec' = [exec EXCEPT ![r].read = @ \/ exec[r].abandoned] /\ Goes(r, "give")
  /\ UNCHANGED <<table, launch, objs, made>>

GivesDone(r) ==
  /\ run[r].at = "give"
  /\ exec' = [exec EXCEPT ![r].given = TRUE, ![r].alive = @ /\ ~exec[r].read]
  /\ Goes(r, "release")
  /\ UNCHANGED <<table, launch, objs, made>>

(* Its caller: it has the result, or waits in vain twice and leaves.       *)
CallerTakes(r) ==
  /\ exec[r].caller = "waiting" /\ exec[r].given
  /\ exec' = [exec EXCEPT ![r].caller = "gone", ![r].alive = FALSE]
  /\ UNCHANGED <<table, launch, run, objs, made>>

CallerLate(r) ==
  /\ exec[r].caller = "waiting" /\ ~exec[r].given
  /\ exec' = [exec EXCEPT ![r].caller = "late"]
  /\ UNCHANGED <<table, launch, run, objs, made>>

CallerAbandons(r) ==
  /\ exec[r].caller = "late"
  /\ exec' = [exec EXCEPT ![r].caller = "gone", ![r].abandoned = TRUE]
  /\ UNCHANGED <<table, launch, run, objs, made>>

(* cap_lua_sync_slot_release, by a run that took no place too.             *)
Release(r) ==
  /\ run[r].at = "release"
  /\ running' = IF running > 0 THEN running - 1 ELSE 0
  /\ Goes(r, "sample")
  /\ UNCHANGED <<slots, nextId, launch, exec, objs, made>>

-----------------------------------------------------------------------------
(* cap_lua_notify_if_quiescent looks under the lock of the table and calls *)
(* the sweep without it.                                                   *)
Sampled(r) == Idle

Sample(r) ==
  /\ run[r].at = "sample"
  /\ Goes(r, IF Sampled(r) THEN "sweep" ELSE "gone")
  /\ UNCHANGED <<table, launch, exec, objs, made>>

(* thread_sync_reclaim_job_scoped. *)
Reclaims(o) == o.scoped /\ o.waiters = 0

Sweep(r) ==
  /\ run[r].at = "sweep"
  /\ objs' = {o \in objs : ~Reclaims(o)}
  /\ Goes(r, "gone")
  /\ UNCHANGED <<table, launch, exec, made>>

-----------------------------------------------------------------------------
(* What a script does with the objects.  One that a synchronous run makes  *)
(* at its top level, without a __cancel_ptr, is not job-scoped.            *)
InScript(r) == run[r].at \in {"top", "script"}
Named(n)    == {o \in objs : o.name = n}

Create(r, n) ==
  /\ InScript(r) /\ made < MaxCreated
  /\ Named(n) = {} /\ Cardinality(objs) < MaxObjects
  /\ made' = made + 1
  /\ objs' = objs \cup {[name |-> n, serial |-> made + 1, waiters |-> 0, owner |-> NoRun, scoped |-> run[r].at = "script"]}
  /\ UNCHANGED <<table, launch, run, exec>>

(* thread_sync_acquire; a run is inside one object at a time.              *)
Acquire(r, n) ==
  /\ run[r].at = "script"
  /\ \E o \in Named(n) :
       /\ objs' = (objs \ {o}) \cup {[o EXCEPT !.waiters = @ + 1]}
       /\ run' = [run EXCEPT ![r] = [at |-> "inside", obj |-> o.serial]]
  /\ UNCHANGED <<table, launch, exec, made>>

(* It waits in vain, is stopped, sends, receives or gives; or it locks or  *)
(* unlocks.  Then thread_sync_release.                                     *)
Owners(r, o) == {o.owner} \cup IF o.owner = NoRun THEN {r} ELSE IF o.owner = r THEN {NoRun} ELSE {}

Leave(r) ==
  /\ run[r].at = "inside"
  /\ \E o \in {o \in objs : o.serial = run[r].obj} : \E w \in Owners(r, o) :
       objs' = (objs \ {o}) \cup {[o EXCEPT !.waiters = @ - 1, !.owner = w]}
  /\ run' = [run EXCEPT ![r] = [at |-> "script", obj |-> 0]]
  /\ UNCHANGED <<table, launch, exec, made>>

Delete(r, n) ==
  /\ InScript(r)
  /\ \E o \in Named(n) : o.waiters = 0 /\ o.owner = NoRun /\ objs' = objs \ {o}
  /\ UNCHANGED <<table, launch, run, exec, made>>

Script(r) == \E n \in Names : Create(r, n) \/ Acquire(r, n) \/ Delete(r, n)

Closes(r) == Sample(r) \/ Sweep(r)
Hands(r)  == ReadsAbandoned(r) \/ GivesDone(r) \/ Release(r)

Next ==
  \/ \E t \in Launchers :
       \/ \E named, replace \in BOOLEAN : Launch(t, named, replace)
       \/ SeesGone(t) \/ GivesUp(t) \/ TakesOver(t)
  \/ \E s \in DOMAIN slots : StopJob(s)
  \/ \E j \in Jobs : JobStarts(j) \/ JobEnds(j)
  \/ \E r \in Syncs : SyncStarts(r) \/ TopEnds(r) \/ SyncEnds(r) \/ Hands(r) \/ CallerTakes(r) \/ CallerLate(r) \/ CallerAbandons(r)
  \/ \E r \in Runs : Closes(r) \/ Script(r) \/ Leave(r)

Spec == Init /\ [][Next]_lvars

-----------------------------------------------------------------------------
(* Properties *)

TypeOK ==
  /\ slots \in [1..SlotCount -> [id : 0..MaxJobs, status : {"free", "queued", "running", "ended"}, stop : BOOLEAN, named : BOOLEAN]]
  /\ nextId \in 1..(MaxJobs + 1) /\ running \in 0..MaxRunning
  /\ \A r \in Runs : run[r].at \in {"none", "created", "top", "script", "inside", "closing", "give", "release", "sample", "sweep", "gone"}
  /\ \A o \in objs : o.name \in Names /\ o.waiters \in Nat /\ o.owner \in Runs \cup {NoRun}
  /\ Cardinality(objs) <= MaxObjects

(* No call is inside an object that was freed, even when a sweep that was  *)
(* decided before the run began comes after; and neither the task nor the  *)
(* caller of a synchronous run uses its context after the other freed it.  *)
NothingFreedIsUsed ==
  /\ \A r \in Runs : run[r].at = "inside" => \E o \in objs : o.serial = run[r].obj
  /\ \A r \in Syncs : run[r].at \in {"top", "script", "inside", "closing", "give"} \/ exec[r].caller \in {"waiting", "late"}
                        => exec[r].alive

(* "Auto-reclaimed when the job world goes idle": whatever ended the runs  *)
(* and in whatever order they looked, the last one leaves no job-scoped    *)
(* object behind.                                                          *)
NothingLeftOver == (\A r \in Runs : run[r].at \in {"none", "gone"}) => \A o \in objs : ~o.scoped
=============================================================================
