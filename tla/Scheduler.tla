----------------------------- MODULE Scheduler -----------------------------
(***************************************************************************)
(* cap_scheduler.c: the table of timed jobs.  The poll task works in two   *)
(* phases: it marks the due jobs under the mutex, executes copies of them  *)
(* without it, and writes each one's next time back by id.  Calls change   *)
(* the table in between.  Definitions and run counts are two files,        *)
(* written in place one after the other, from which a boot arms the jobs.  *)
(***************************************************************************)
EXTENDS Integers, Sequences, SequencesExt

CONSTANTS
  Definitions,  \* jobs that scheduler_add_job may be called with
  MaxJobs,      \* CLAW_SCHEDULER_MAX_JOBS
  Grace,        \* CLAW_SCHEDULER_MISS_GRACE_SEC
  FileFaults,   \* subset of {"open", "short"}: how a write may fail
  Torn,         \* a file that does not parse
  MaxNow, MaxCalls, MaxReboots   \* bounds: clock, calls, power losses

VARIABLES
  jobs,          \* s.entries
  work, asof,    \* the poll task: its items by their place, the time it took
  flush,         \* ... and the files to save at the end of the pass
  saving,        \* the files still to be written before s.mutex is released
  disk,          \* schedules.json and state.json
  clock,         \* the wall clock, and whether it is synced and the timezone set
  gens, runsOf,  \* history: definitions added; executions of each once job (to 2)
  excused,       \* history: once jobs the code may run again, or not at all
  clash,         \* history: whether a generated id repeated one in use
  calls, reboots \* bounded counters

polling == <<work, asof, flush>>
history == <<gens, runsOf, excused, clash>>
svars   == <<jobs, polling, saving, disk, clock, history, calls, reboots>>

(* Sentinels of next_fire, and the id of a request that names none; the    *)
(* generated id "sch_%d" of place i is i.                                  *)
ARM == 0
DONE == -1
PENDING == -2
NoId == -1

Definition ==
  [id : Int, kind : {"once", "interval", "cron", "on_event"}, start : Nat, every : Nat, max : Nat, end : Nat]

ASSUME SchedulerAssumption ==
  /\ Definitions \subseteq Definition
  /\ \A d \in Definitions : d.kind = "cron" => d.every > 0
  /\ MaxJobs \in Nat \ {0} /\ Grace \in Nat /\ FileFaults \subseteq {"open", "short"}
  /\ MaxNow \in Nat /\ MaxCalls \in Nat /\ MaxReboots \in Nat

Init ==
  /\ jobs = <<>> /\ work = <<>> /\ asof = 0 /\ flush = <<>> /\ saving = <<>>
  /\ disk = [defs |-> <<>>, state |-> <<>>]
  /\ clock = [now |-> 1, valid |-> FALSE]
  /\ gens = 0 /\ runsOf = [g \in 1..MaxCalls |-> 0] /\ excused = {} /\ clash = FALSE
  /\ calls = 0 /\ reboots = 0

-----------------------------------------------------------------------------
(* compute_arm; a cron expression is the multiples of its period.          *)
Arm(d, t) ==
  CASE d.kind = "once"     -> IF d.start > 0 THEN d.start ELSE DONE
    [] d.kind = "interval" -> IF d.start > t THEN d.start ELSE t + d.every
    [] d.kind = "cron"     -> (t \div d.every + 1) * d.every
    [] d.kind = "on_event" -> DONE

IndexOf(id) == {i \in DOMAIN jobs : jobs[i].def.id = id /\ \A j \in 1..(i - 1) : jobs[j].def.id # id}

Called == calls < MaxCalls /\ saving = <<>> /\ calls' = calls + 1

(* What one write_json_file leaves of the file, given what it should be.   *)
Written(old, new) ==
  {new} \cup (IF "open" \in FileFaults THEN {old} ELSE {}) \cup (IF "short" \in FileFaults THEN {Torn} ELSE {})

DefsOf  == [i \in DOMAIN jobs |-> [def |-> jobs[i].def, gen |-> jobs[i].gen, enabled |-> jobs[i].enabled]]
StateOf == [i \in DOMAIN jobs |-> [id |-> jobs[i].def.id, runs |-> jobs[i].runs]]
Content == [defs |-> DefsOf, state |-> StateOf]

(* save_defs and save_state, under the mutex.                              *)
Save ==
  /\ saving # <<>>
  /\ \E f \in Written(disk[Head(saving)], Content[Head(saving)]) : disk' = [disk EXCEPT ![Head(saving)] = f]
  /\ saving' = Tail(saving)
  /\ UNCHANGED <<jobs, polling, clock, history, calls, reboots>>

-----------------------------------------------------------------------------
(* The calls. *)

(* Mutant of Stored: an update keeps the next_fire of the old entry.       *)
Stored_Kept(i, e) ==
  IF i \in DOMAIN jobs THEN [jobs EXCEPT ![i] = [e EXCEPT !.next = jobs[i].next]] ELSE Append(jobs, e)

(* The entry replaces the one with its id, or is appended.                 *)
Stored(i, e) == IF i \in DOMAIN jobs THEN [jobs EXCEPT ![i] = e] ELSE Append(jobs, e)

AddJob(d) ==
  /\ Called
  /\ LET at  == IF IndexOf(d.id) = {} THEN Len(jobs) + 1 ELSE CHOOSE i \in IndexOf(d.id) : TRUE
         id  == IF d.id = NoId THEN at - 1 ELSE d.id
         e   == [def |-> [d EXCEPT !.id = id], gen |-> gens + 1, enabled |-> TRUE, paused |-> FALSE, runs |-> 0,
                 next |-> CASE d.kind = "on_event" -> DONE
                            [] clock.valid -> Arm(d, clock.now)
                            [] OTHER -> ARM]
     IN  /\ at <= MaxJobs
         /\ jobs' = Stored(at, e)
         /\ clash' = (clash \/ (d.id = NoId /\ IndexOf(id) # {}))
  /\ gens' = gens + 1
  /\ saving' = <<"defs", "state">>
  /\ UNCHANGED <<polling, disk, clock, runsOf, excused, reboots>>

RemoveJob(i) ==
  /\ Called
  /\ jobs' = RemoveAt(jobs, i)
  /\ saving' = <<"defs", "state">>
  /\ UNCHANGED <<polling, disk, clock, history, reboots>>

(* enable and resume arm the job again, even one that ran or that waits    *)
(* for the write-back, which then leaves it alone.                         *)
Rearm(e) == [e EXCEPT !.next = IF e.def.kind = "on_event" THEN DONE ELSE ARM]
SetJob(i, e) ==
  /\ Called
  /\ jobs' = [jobs EXCEPT ![i] = e]
  /\ saving' = <<"defs">>
  /\ excused' = IF e.next = ARM /\ e.runs > 0 THEN excused \cup {e.gen} ELSE excused
  /\ UNCHANGED <<polling, disk, clock, gens, runsOf, clash, reboots>>

EnableJob(i)  == SetJob(i, Rearm([jobs[i] EXCEPT !.enabled = TRUE]))
DisableJob(i) == SetJob(i, [jobs[i] EXCEPT !.enabled = FALSE])
PauseJob(i)   == SetJob(i, [jobs[i] EXCEPT !.paused = TRUE])
ResumeJob(i)  == SetJob(i, Rearm([jobs[i] EXCEPT !.paused = FALSE]))

(* cap_scheduler_fire_event, once per boot when Wi-Fi connects.            *)
Listens(e) == e.enabled /\ ~e.paused /\ e.def.kind = "on_event"
FireEvent ==
  /\ Called /\ \E i \in DOMAIN jobs : Listens(jobs[i])
  /\ jobs' = [i \in DOMAIN jobs |-> IF Listens(jobs[i]) THEN [jobs[i] EXCEPT !.runs = @ + 1] ELSE jobs[i]]
  /\ saving' = <<"state">>
  /\ UNCHANGED <<polling, disk, clock, history, reboots>>

Call ==
  \/ \E d \in Definitions : AddJob(d)
  \/ FireEvent
  \/ \E i \in DOMAIN jobs :
       /\ i \in IndexOf(jobs[i].def.id)
       /\ RemoveJob(i) \/ EnableJob(i) \/ DisableJob(i) \/ PauseJob(i) \/ ResumeJob(i)

-----------------------------------------------------------------------------
(* The poll task.  Phase 1: what is due is fired, or missed after Grace.   *)
Due(e) ==
  /\ e.enabled /\ ~e.paused /\ e.def.kind # "on_event"
  /\ e.next \notin {DONE, PENDING} /\ (e.next = ARM \/ clock.now >= e.next)
Fires(e) == e.next # ARM /\ clock.now <= e.next + Grace
Counted(e) == IF Fires(e) THEN [e EXCEPT !.runs = @ + 1] ELSE e

(* Whether the job is done after this: INTENT_DONE.                        *)
Finished(e) ==
  \/ e.def.kind = "once" /\ e.next # ARM
  \/ Fires(e) /\ e.def.max > 0 /\ e.runs + 1 >= e.def.max

Item(e) == [e |-> e, fire |-> Fires(e), last |-> Finished(e)]

Free == saving = <<>>

DueAt == {i \in DOMAIN jobs : Due(jobs[i])}

Scan ==
  /\ Free /\ clock.valid /\ DOMAIN work = {} /\ flush = <<>>
  /\ DueAt # {}
  /\ work' = [i \in DueAt |-> Item(jobs[i])] /\ asof' = clock.now
  /\ jobs' = [i \in DOMAIN jobs |-> IF i \in DueAt THEN [Counted(jobs[i]) EXCEPT !.next = PENDING] ELSE jobs[i]]
  /\ UNCHANGED <<flush, saving, disk, clock, history, calls, reboots>>

(* Phase 2, an item at a time: execute_action without the mutex ...        *)
IsNext(k) == \A l \in DOMAIN work : k <= l

Execute(k) ==
  /\ IsNext(k) /\ work[k].fire
  /\ work' = [work EXCEPT ![k].fire = FALSE]
  /\ runsOf' = LET e == work[k].e
               IN  IF e.def.kind = "once" /\ runsOf[e.gen] < 2 THEN [runsOf EXCEPT ![e.gen] = @ + 1] ELSE runsOf
  /\ UNCHANGED <<jobs, asof, flush, saving, disk, clock, gens, excused, clash, calls, reboots>>

(* ... and the next time is written back if the entry still waits for it;  *)
(* a once job that is done is removed.                                     *)
NextFire(w) ==
  LET nf == Arm(w.e.def, asof)
  IN  IF w.last \/ (w.e.def.end > 0 /\ nf > w.e.def.end) THEN DONE ELSE nf

(* Mutant of Waits: the entry is not asked whether it still waits.         *)
Waits_Always(w) == IndexOf(w.e.def.id)

Waits(w) == {i \in IndexOf(w.e.def.id) : jobs[i].next = PENDING}

WriteBack(k) ==
  /\ Free /\ IsNext(k) /\ ~work[k].fire
  /\ work' = [l \in DOMAIN work \ {k} |-> work[l]]
  /\ IF Waits(work[k]) = {}
     THEN UNCHANGED <<jobs, flush>>
     ELSE LET over == work[k].e.def.kind = "once" /\ NextFire(work[k]) = DONE
          IN  /\ \E i \in Waits(work[k]) :
                   jobs' = IF over THEN RemoveAt(jobs, i) ELSE [jobs EXCEPT ![i].next = NextFire(work[k])]
              /\ flush' = IF over \/ Len(flush) = 2 THEN <<"defs", "state">> ELSE <<"state">>
  /\ UNCHANGED <<asof, saving, disk, clock, history, calls, reboots>>

(* At the end of the pass: save_defs if a job was removed, and save_state. *)
Flush ==
  /\ Free /\ DOMAIN work = {} /\ flush # <<>>
  /\ saving' = flush /\ flush' = <<>> /\ asof' = 0
  /\ UNCHANGED <<jobs, work, disk, clock, history, calls, reboots>>

-----------------------------------------------------------------------------
Tick == clock.now < MaxNow /\ clock' = [clock EXCEPT !.now = @ + 1] /\ UNCHANGED <<jobs, polling, saving, disk, history, calls, reboots>>
Sync == ~clock.valid /\ clock' = [clock EXCEPT !.valid = TRUE] /\ UNCHANGED <<jobs, polling, saving, disk, history, calls, reboots>>

(* load_all: the run counts are merged by id, each into the first entry    *)
(* that has it.                                                            *)
Readable(f) == IF f = Torn THEN <<>> ELSE f
RunsIn(state, id) ==
  LET of   == {i \in DOMAIN Readable(state) : state[i].id = id}
      last == {i \in of : \A j \in of : j <= i}
  IN  IF last = {} THEN 0 ELSE state[CHOOSE i \in last : TRUE].runs

(* Mutant of Armed: a once job that ran is armed again.                    *)
Armed_Always(d, runs) == IF d.kind = "on_event" THEN DONE ELSE ARM

Armed(d, runs) == IF d.kind = "on_event" \/ (d.kind = "once" /\ runs > 0) THEN DONE ELSE ARM

Loaded(d) ==
  LET defs == Readable(d.defs)
      First(i) == \A j \in 1..(i - 1) : defs[j].def.id # defs[i].def.id
      Runs(i)  == IF First(i) THEN RunsIn(d.state, defs[i].def.id) ELSE 0
  IN  [i \in DOMAIN defs |-> [def |-> defs[i].def, gen |-> defs[i].gen, enabled |-> defs[i].enabled, paused |-> FALSE,
                              runs |-> Runs(i), next |-> Armed(defs[i].def, Runs(i))]]

(* Once jobs of which the files say wrongly whether they ran: the count is *)
(* saved before the execution or not saved after it, or belongs to an      *)
(* older definition.                                                       *)
Misreported(d) == {e.gen : e \in {Loaded(d)[i] : i \in {j \in DOMAIN Loaded(d) :
  Loaded(d)[j].def.kind = "once" /\ (runsOf[Loaded(d)[j].gen] > 0) # (Loaded(d)[j].runs > 0)}}}

(* Power is lost, inside a write too; the boot loads what there is and     *)
(* writes the definitions again.                                           *)
PowerLoss ==
  /\ reboots < MaxReboots /\ reboots' = reboots + 1
  /\ disk' \in {disk} \cup IF saving = <<>> THEN {} ELSE {[disk EXCEPT ![Head(saving)] = Torn]}
  /\ jobs' = Loaded(disk')
  /\ saving' = IF disk'.defs = Torn THEN <<>> ELSE <<"defs">>
  /\ work' = <<>> /\ asof' = 0 /\ flush' = <<>>
  /\ clock' = [clock EXCEPT !.valid = FALSE]
  /\ excused' = excused \cup Misreported(disk')
  /\ UNCHANGED <<gens, runsOf, clash, calls>>

Poll == Scan \/ Flush \/ \E k \in DOMAIN work : Execute(k) \/ WriteBack(k)

Next == Call \/ Save \/ Poll \/ Tick \/ Sync \/ PowerLoss

Spec == Init /\ [][Next]_svars

(* The poll task runs every second, and the clock is synced and goes on.   *)
Fairness == WF_svars(Save) /\ WF_svars(Poll) /\ WF_svars(Tick) /\ WF_svars(Sync)
-----------------------------------------------------------------------------
(* Properties *)

TypeOK ==
  /\ Len(jobs) <= MaxJobs /\ gens <= calls /\ calls <= MaxCalls /\ excused \subseteq 1..gens
  /\ \A i \in DOMAIN jobs :
       jobs[i].gen \in 1..gens /\ jobs[i].next \in {DONE, PENDING} \cup Nat /\ jobs[i].runs \in Nat
  /\ \A k \in DOMAIN work : work[k].e.gen \in 1..gens

(* A once job "fires EXACTLY ONCE": at most once here, whatever is added,  *)
(* removed or paused between the phases and whenever power is lost, unless *)
(* the files said that it had not run, or it was resumed after it ran; but *)
(* for generated ids that repeat an id in use.                             *)
FiresOnce == clash \/ \A g \in 1..gens : g \notin excused => runsOf[g] <= 1

(* An entry that waits for a write-back is the one a work item is for, so  *)
(* the poll task neither loses a job nor reschedules another definition;   *)
(* but for generated ids that repeat an id in use.                         *)
PendingIsWork ==
  clash \/ \A i \in DOMAIN jobs :
    jobs[i].next = PENDING => \E k \in DOMAIN work : work[k].e.gen = jobs[i].gen

(* An enabled once job runs or is missed and leaves the table, whatever    *)
(* interrupts it, unless it is stopped or the files misreport it.          *)
Expects(g) == \E i \in DOMAIN jobs :
  jobs[i].gen = g /\ jobs[i].def.kind = "once" /\ jobs[i].enabled /\ ~jobs[i].paused /\ runsOf[g] = 0
OnceServed == \A g \in 1..MaxCalls : Expects(g) ~> ~Expects(g) \/ g \in excused \/ clash
=============================================================================
