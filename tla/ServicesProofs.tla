-------------------------- MODULE ServicesProofs --------------------------
(***************************************************************************)
(* Theorems about the scheduler, for any definitions, table size, grace,   *)
(* clock and failing writes, and any calls and power losses; about the     *)
(* Wi-Fi manager, for any callbacks and limits; and about the answers of   *)
(* the model provider, for any replies, chunks, reads and failures.        *)
(***************************************************************************)
EXTENDS MCServices, SeqLemmas

USE SchedulerAssumption

(***************************************************************************)
(* Types.                                                                  *)
(***************************************************************************)
GoodDef   == {d \in Definition : d.id # NoId /\ (d.kind = "cron" => d.every > 0)}
Job       == [def : GoodDef, gen : Nat, enabled : BOOLEAN, paused : BOOLEAN, runs : Nat, next : Int]
WorkItem  == [e : Job, fire : BOOLEAN, last : BOOLEAN]
SavedDef  == [def : GoodDef, gen : Nat, enabled : BOOLEAN]
SavedRuns == [id : Int, runs : Nat]
Files     == {"defs", "state"}

JobsOK  == jobs \in Seq(Job) /\ \A i \in DOMAIN jobs : jobs[i].gen \in 1..gens
WorkOK  == /\ DOMAIN work \subseteq Nat /\ work \in [DOMAIN work -> WorkItem]
           /\ \A k \in DOMAIN work : work[k].e.gen \in 1..gens
DefsOK  == /\ Readable(disk["defs"]) \in Seq(SavedDef)
           /\ \A i \in DOMAIN Readable(disk["defs"]) : Readable(disk["defs"])[i].gen \in 1..gens
StateOK == DOMAIN disk = Files /\ Readable(disk["state"]) \in Seq(SavedRuns)
PollOK  == asof \in Nat /\ flush \in Seq(Files) /\ saving \in Seq(Files)
ClockOK == clock \in [now : Nat, valid : BOOLEAN]
CountOK == gens \in Nat /\ calls \in Nat /\ gens <= calls /\ calls <= MaxCalls
RunsOK  == runsOf \in [1..MaxCalls -> Nat] /\ \A g \in 1..MaxCalls : g > gens => runsOf[g] = 0

(***************************************************************************)
(* The inductive invariant, while no generated id repeats one in use: ids  *)
(* and definitions are apart in the table, the file and the work items;    *)
(* what waits for a write-back is what a work item is for; and a once job  *)
(* that ran, or is about to run, is neither armed nor written back armed.  *)
(***************************************************************************)
IdsApart(s)  == \A i, j \in DOMAIN s : s[i].def.id = s[j].def.id => i = j
GensApart(s) == \A i, j \in DOMAIN s : s[i].gen = s[j].gen => i = j

TableApart == IdsApart(jobs) /\ GensApart(jobs)
FileApart  == IdsApart(Readable(disk["defs"])) /\ GensApart(Readable(disk["defs"]))
WorkApart  ==
  \A k, l \in DOMAIN work :
    work[k].e.gen = work[l].e.gen \/ work[k].e.def.id = work[l].e.def.id => k = l
SameDef    ==
  \A i \in DOMAIN jobs, k \in DOMAIN work : jobs[i].gen = work[k].e.gen => jobs[i].def = work[k].e.def
Pending    ==
  \A i \in DOMAIN jobs : jobs[i].next = PENDING => \E k \in DOMAIN work : work[k].e.gen = jobs[i].gen

Firing(g)  == \E k \in DOMAIN work : work[k].e.gen = g /\ work[k].fire
AtMostOnce == \A g \in 1..MaxCalls : g \notin excused => runsOf[g] <= 1
Spent      ==
  \A i \in DOMAIN jobs :
    jobs[i].def.kind = "once" /\ jobs[i].gen \notin excused /\ (runsOf[jobs[i].gen] > 0 \/ Firing(jobs[i].gen))
      => jobs[i].next \in {PENDING, DONE} /\ jobs[i].runs > 0
LastRun    ==
  \A k \in DOMAIN work :
    work[k].e.def.kind = "once" /\ work[k].e.gen \notin excused =>
      /\ work[k].fire => work[k].last /\ runsOf[work[k].e.gen] = 0
      /\ runsOf[work[k].e.gen] > 0 => work[k].last

Apart == TableApart /\ FileApart /\ WorkApart /\ SameDef /\ Pending
Once  == AtMostOnce /\ Spent /\ LastRun
Types == JobsOK /\ WorkOK /\ DefsOK /\ StateOK /\ PollOK /\ ClockOK /\ CountOK /\ RunsOK
Inv   == Types /\ (clash \/ (Apart /\ Once))

LEMMA InvInit == Init => Inv
<1> SUFFICES ASSUME Init PROVE Inv
  OBVIOUS
<1>1. /\ jobs = <<>> /\ work = <<>> /\ asof = 0 /\ flush = <<>> /\ saving = <<>>
      /\ disk = [defs |-> <<>>, state |-> <<>>] /\ clock = [now |-> 1, valid |-> FALSE]
      /\ gens = 0 /\ runsOf = [g \in 1..MaxCalls |-> 0] /\ excused = {} /\ calls = 0
  BY DEF Init
<1>2. DOMAIN disk = Files /\ Readable(disk["defs"]) = <<>> /\ Readable(disk["state"]) = <<>>
  BY <1>1 DEF Readable, Files
<1>3. JobsOK BY <1>1 DEF JobsOK
<1>4. WorkOK BY <1>1 DEF WorkOK
<1>5. DefsOK BY <1>2 DEF DefsOK
<1>6. StateOK BY <1>2 DEF StateOK
<1>7. PollOK BY <1>1 DEF PollOK
<1>8. ClockOK BY <1>1 DEF ClockOK
<1>9. CountOK BY <1>1 DEF CountOK
<1>10. RunsOK BY <1>1 DEF RunsOK
<1>11. TableApart /\ WorkApart /\ SameDef /\ Pending
  BY <1>1 DEF TableApart, WorkApart, SameDef, Pending, IdsApart, GensApart
<1>12. FileApart BY <1>2 DEF FileApart, IdsApart, GensApart
<1>13. AtMostOnce BY <1>1 DEF AtMostOnce
<1>14. Spent /\ LastRun BY <1>1 DEF Spent, LastRun
<1> QED BY <1>3, <1>4, <1>5, <1>6, <1>7, <1>8, <1>9, <1>10, <1>11, <1>12, <1>13, <1>14
        DEF Inv, Types, Apart, Once

(***************************************************************************)
(* What the steps do to the table.                                         *)
(***************************************************************************)
LEMMA JobElement ==
  ASSUME JobsOK
  PROVE  /\ Len(jobs) \in Nat /\ DOMAIN jobs = 1..Len(jobs)
         /\ \A i \in DOMAIN jobs :
              /\ jobs[i] \in Job /\ jobs[i].def \in GoodDef /\ jobs[i].gen \in Nat /\ jobs[i].gen \in 1..gens
              /\ jobs[i].runs \in Nat /\ jobs[i].next \in Int
              /\ jobs[i].enabled \in BOOLEAN /\ jobs[i].paused \in BOOLEAN
<1>1. Len(jobs) \in Nat /\ DOMAIN jobs = 1..Len(jobs) /\ jobs \in Seq(Job) BY DEF JobsOK
<1>2. \A i \in DOMAIN jobs : jobs[i] \in Job
  <2> HIDE DEF Job
  <2> QED BY <1>1
<1>3. \A i \in DOMAIN jobs : jobs[i].gen \in 1..gens BY DEF JobsOK
<1>4. \A i \in DOMAIN jobs :
        /\ jobs[i].def \in GoodDef /\ jobs[i].gen \in Nat /\ jobs[i].runs \in Nat /\ jobs[i].next \in Int
        /\ jobs[i].enabled \in BOOLEAN /\ jobs[i].paused \in BOOLEAN
  <2> HIDE DEF GoodDef
  <2> QED BY <1>2 DEF Job
<1> QED BY <1>1, <1>2, <1>3, <1>4

(* A step that changes entries in place, but no definition.                *)
LEMMA SameTable ==
  ASSUME JobsOK, gens' = gens, DOMAIN jobs' = DOMAIN jobs, jobs' = [i \in DOMAIN jobs |-> jobs'[i]],
         \A i \in DOMAIN jobs : jobs'[i] \in Job /\ jobs'[i].def = jobs[i].def /\ jobs'[i].gen = jobs[i].gen
  PROVE  JobsOK' /\ (TableApart => TableApart')
<1>1. Len(jobs) \in Nat /\ DOMAIN jobs = 1..Len(jobs) BY JobElement
<1>2. jobs' \in [1..Len(jobs) -> Job] BY <1>1
<1>3. jobs' \in Seq(Job) BY <1>1, <1>2
<1>4. \A i \in DOMAIN jobs' : jobs'[i].gen \in 1..gens' BY DEF JobsOK
<1>5. TableApart => TableApart'
  BY DEF TableApart, IdsApart, GensApart
<1> QED BY <1>3, <1>4, <1>5 DEF JobsOK

LEMMA LessTable ==
  ASSUME JobsOK, gens' = gens, NEW i \in DOMAIN jobs, jobs' = RemoveAt(jobs, i)
  PROVE  /\ JobsOK' /\ (TableApart => TableApart')
         /\ \A k \in DOMAIN jobs' : \E j \in DOMAIN jobs \ {i} : jobs'[k] = jobs[j]
<1> DEFINE up(k) == IF k < i THEN k ELSE k + 1
           s == jobs'
<1>1. Len(jobs) \in Nat /\ DOMAIN jobs = 1..Len(jobs) /\ jobs \in Seq(Job) BY JobElement DEF JobsOK
<1>2. /\ s \in Seq(Job) /\ DOMAIN s = 1..(Len(jobs) - 1)
      /\ \A k \in 1..(Len(jobs) - 1) : s[k] = jobs[up(k)]
  <2> HIDE DEF Job
  <2> QED BY <1>1, RemoveAtElements
<1>3. \A k \in 1..(Len(jobs) - 1) : up(k) \in DOMAIN jobs /\ up(k) # i
  BY <1>1
<1>4. \A k, l \in 1..(Len(jobs) - 1) : up(k) = up(l) => k = l
  BY <1>1
<1> HIDE DEF up
<1>5. \A k \in DOMAIN s : s[k].gen \in 1..gens'
  BY <1>2, <1>3 DEF JobsOK
<1>6. JobsOK' BY <1>2, <1>5 DEF JobsOK
<1>7. ASSUME TableApart PROVE TableApart'
  <2>1. ASSUME NEW k \in DOMAIN s, NEW l \in DOMAIN s, s[k].def.id = s[l].def.id \/ s[k].gen = s[l].gen PROVE k = l
    <3>1. up(k) = up(l) BY <2>1, <1>2, <1>3, <1>7 DEF TableApart, IdsApart, GensApart
    <3> QED BY <3>1, <1>2, <1>4
  <2> QED BY <2>1 DEF TableApart, IdsApart, GensApart
<1>8. \A k \in DOMAIN s : \E j \in DOMAIN jobs \ {i} : s[k] = jobs[j]
  BY <1>2, <1>3
<1> QED BY <1>6, <1>7, <1>8

(* find_idx of an id that is in the table at most once.                    *)
LEMMA FoundAt ==
  ASSUME JobsOK, IdsApart(jobs), NEW id
  PROVE  /\ IndexOf(id) = {i \in DOMAIN jobs : jobs[i].def.id = id}
         /\ \A i, j \in IndexOf(id) : i = j
<1>1. Len(jobs) \in Nat /\ DOMAIN jobs = 1..Len(jobs) BY JobElement
<1>2. ASSUME NEW i \in DOMAIN jobs, jobs[i].def.id = id PROVE \A j \in 1..(i - 1) : jobs[j].def.id # id
  <2> SUFFICES ASSUME NEW j \in 1..(i - 1), jobs[j].def.id = id PROVE FALSE
    OBVIOUS
  <2>1. j \in DOMAIN jobs /\ j # i BY <1>1
  <2> QED BY <2>1, <1>2 DEF IdsApart
<1>3. IndexOf(id) = {i \in DOMAIN jobs : jobs[i].def.id = id} BY <1>2 DEF IndexOf
<1> QED BY <1>3 DEF IdsApart

(* The next time of a job is a time or DONE, never PENDING.                *)
LEMMA ArmType ==
  ASSUME NEW d \in Definition, d.kind = "cron" => d.every > 0, NEW t \in Nat
  PROVE  Arm(d, t) \in Int /\ Arm(d, t) # PENDING
<1>1. d.start \in Nat /\ d.every \in Nat /\ d.kind \in {"once", "interval", "cron", "on_event"}
  BY DEF Definition
<1>2. CASE d.kind = "once" BY <1>1, <1>2 DEF Arm, DONE, PENDING
<1>3. CASE d.kind = "interval" BY <1>1, <1>3 DEF Arm, DONE, PENDING
<1>4. CASE d.kind = "cron"
  <2>1. d.every \in Nat /\ d.every > 0 BY <1>1, <1>4
  <2>2. t \div d.every \in Int /\ t \div d.every >= 0 BY <2>1
  <2> DEFINE q == t \div d.every + 1
  <2>3. q \in Nat BY <2>2
  <2> HIDE DEF q
  <2>4. q * d.every \in Nat BY <2>1, <2>3
  <2>5. Arm(d, t) = q * d.every BY <1>4 DEF Arm, q
  <2> QED BY <2>4, <2>5 DEF PENDING
<1>5. CASE d.kind = "on_event" BY <1>5 DEF Arm, DONE, PENDING
<1> QED BY <1>1, <1>2, <1>3, <1>4, <1>5

LEMMA NextFireType ==
  ASSUME PollOK, NEW w \in WorkItem
  PROVE  NextFire(w) \in Int /\ NextFire(w) # PENDING
<1>1. w.e.def \in GoodDef BY DEF WorkItem, Job
<1>2. w.e.def \in Definition /\ (w.e.def.kind = "cron" => w.e.def.every > 0) BY <1>1 DEF GoodDef
<1>3. Arm(w.e.def, asof) \in Int /\ Arm(w.e.def, asof) # PENDING BY <1>2, ArmType DEF PollOK
<1> QED BY <1>3 DEF NextFire, DONE, PENDING

(***************************************************************************)
(* A part of the invariant is kept by what leaves its variables alone.     *)
(***************************************************************************)
LEMMA FrameTypes ==
  /\ JobsOK /\ UNCHANGED <<jobs, gens>> => JobsOK'
  /\ WorkOK /\ UNCHANGED <<work, gens>> => WorkOK'
  /\ DefsOK /\ UNCHANGED <<disk, gens>> => DefsOK'
  /\ StateOK /\ UNCHANGED disk => StateOK'
  /\ ClockOK /\ UNCHANGED clock => ClockOK'
  /\ CountOK /\ UNCHANGED <<gens, calls>> => CountOK'
  /\ RunsOK /\ UNCHANGED <<runsOf, gens>> => RunsOK'
BY DEF JobsOK, WorkOK, DefsOK, StateOK, ClockOK, CountOK, RunsOK

LEMMA FrameApart ==
  /\ TableApart /\ UNCHANGED jobs => TableApart'
  /\ FileApart /\ UNCHANGED disk => FileApart'
  /\ WorkApart /\ UNCHANGED work => WorkApart'
  /\ SameDef /\ UNCHANGED <<jobs, work>> => SameDef'
  /\ Pending /\ UNCHANGED <<jobs, work>> => Pending'
<1>1. TableApart /\ UNCHANGED jobs => TableApart' BY DEF TableApart, IdsApart, GensApart
<1>2. FileApart /\ UNCHANGED disk => FileApart' BY DEF FileApart, IdsApart, GensApart
<1>3. WorkApart /\ UNCHANGED work => WorkApart' BY DEF WorkApart
<1>4. SameDef /\ UNCHANGED <<jobs, work>> => SameDef' BY DEF SameDef
<1>5. Pending /\ UNCHANGED <<jobs, work>> => Pending' BY DEF Pending
<1> QED BY <1>1, <1>2, <1>3, <1>4, <1>5

LEMMA FrameOnce ==
  /\ AtMostOnce /\ UNCHANGED <<runsOf, excused>> => AtMostOnce'
  /\ Spent /\ UNCHANGED <<jobs, work, runsOf, excused>> => Spent'
  /\ LastRun /\ UNCHANGED <<work, runsOf, excused>> => LastRun'
<1>1. AtMostOnce /\ UNCHANGED <<runsOf, excused>> => AtMostOnce' BY DEF AtMostOnce
<1>2. Spent /\ UNCHANGED <<jobs, work, runsOf, excused>> => Spent' BY DEF Spent, Firing
<1>3. LastRun /\ UNCHANGED <<work, runsOf, excused>> => LastRun' BY DEF LastRun
<1> QED BY <1>1, <1>2, <1>3

(* What changes neither the table, nor the work items, nor the history.    *)
LEMMA FrameAll ==
  ASSUME Inv, UNCHANGED <<jobs, work, history>>, DefsOK', StateOK', PollOK', ClockOK', CountOK',
         FileApart /\ TableApart => FileApart'
  PROVE  Inv'
<1>1. /\ UNCHANGED jobs /\ UNCHANGED work /\ UNCHANGED gens /\ UNCHANGED runsOf /\ UNCHANGED excused
      /\ UNCHANGED clash
  BY DEF history
<1>2. JobsOK' /\ WorkOK' /\ RunsOK' BY <1>1, FrameTypes DEF Inv, Types
<1>3. Types' BY <1>2 DEF Types
<1>4. CASE clash BY <1>1, <1>3, <1>4 DEF Inv
<1>5. CASE Apart /\ Once
  <2>1. TableApart /\ FileApart /\ WorkApart /\ SameDef /\ Pending BY <1>5 DEF Apart
  <2>2. AtMostOnce /\ Spent /\ LastRun BY <1>5 DEF Once
  <2>3. TableApart' /\ FileApart' /\ WorkApart' /\ SameDef' /\ Pending' BY <2>1, <1>1, FrameApart
  <2>4. AtMostOnce' /\ Spent' /\ LastRun' BY <2>2, <1>1, FrameOnce
  <2> QED BY <2>3, <2>4, <1>3 DEF Inv, Apart, Once
<1> QED BY <1>4, <1>5 DEF Inv

LEMMA TickStep == ASSUME Inv, Tick \/ Sync PROVE Inv'
<1>1. UNCHANGED <<jobs, work, history>> /\ UNCHANGED <<asof, flush, saving>> /\ UNCHANGED disk /\ UNCHANGED <<gens, calls>>
  BY DEF Tick, Sync, polling, history
<1>2. Types BY DEF Inv
<1>3. DefsOK' /\ StateOK' /\ CountOK' BY <1>1, <1>2, FrameTypes DEF Types
<1>4. PollOK' BY <1>1, <1>2 DEF Types, PollOK
<1>5. ClockOK'
  <2>1. clock \in [now : Nat, valid : BOOLEAN] BY <1>2 DEF Types, ClockOK
  <2>2. CASE Tick BY <2>1, <2>2 DEF Tick, ClockOK
  <2>3. CASE Sync BY <2>1, <2>3 DEF Sync, ClockOK
  <2> QED BY <2>2, <2>3
<1>6. FileApart /\ TableApart => FileApart' BY <1>1, FrameApart
<1> QED BY <1>1, <1>3, <1>4, <1>5, <1>6, FrameAll

LEMMA FlushStep == ASSUME Inv, Flush PROVE Inv'
<1>1. UNCHANGED <<jobs, work, history>> /\ UNCHANGED disk /\ UNCHANGED clock /\ UNCHANGED <<gens, calls>>
      /\ saving' = flush /\ flush' = <<>> /\ asof' = 0
  BY DEF Flush, history
<1>2. Types BY DEF Inv
<1>3. DefsOK' /\ StateOK' /\ CountOK' /\ ClockOK' BY <1>1, <1>2, FrameTypes DEF Types
<1>4. PollOK' BY <1>1, <1>2 DEF Types, PollOK
<1>6. FileApart /\ TableApart => FileApart' BY <1>1, FrameApart
<1> QED BY <1>1, <1>3, <1>4, <1>6, FrameAll

(***************************************************************************)
(* A file written from the table is as typed and as apart as the table.    *)
(***************************************************************************)
LEMMA SavedTable ==
  ASSUME JobsOK
  PROVE  /\ DefsOf \in Seq(SavedDef) /\ StateOf \in Seq(SavedRuns)
         /\ DOMAIN DefsOf = DOMAIN jobs
         /\ \A i \in DOMAIN jobs : DefsOf[i].def = jobs[i].def /\ DefsOf[i].gen = jobs[i].gen
<1>1. /\ Len(jobs) \in Nat /\ DOMAIN jobs = 1..Len(jobs)
      /\ \A i \in DOMAIN jobs :
           /\ jobs[i].def \in GoodDef /\ jobs[i].gen \in Nat /\ jobs[i].runs \in Nat /\ jobs[i].enabled \in BOOLEAN
  BY JobElement
<1>2. \A i \in DOMAIN jobs : [def |-> jobs[i].def, gen |-> jobs[i].gen, enabled |-> jobs[i].enabled] \in SavedDef
  <2> HIDE DEF GoodDef
  <2> QED BY <1>1 DEF SavedDef
<1>3. \A i \in DOMAIN jobs : [id |-> jobs[i].def.id, runs |-> jobs[i].runs] \in SavedRuns
  BY <1>1 DEF SavedRuns, GoodDef, Definition
<1>4. DefsOf \in Seq(SavedDef) /\ StateOf \in Seq(SavedRuns)
  <2> HIDE DEF SavedDef, SavedRuns
  <2>1. DefsOf \in [1..Len(jobs) -> SavedDef] BY <1>1, <1>2 DEF DefsOf
  <2>2. StateOf \in [1..Len(jobs) -> SavedRuns] BY <1>1, <1>3 DEF StateOf
  <2> QED BY <1>1, <2>1, <2>2
<1> QED BY <1>4 DEF DefsOf

LEMMA SaveStep == ASSUME Inv, Save PROVE Inv'
<1> DEFINE h == Head(saving)
           f == disk'[h]
<1>1. Types BY DEF Inv
<1>2. h \in Files /\ saving' \in Seq(Files)
  BY <1>1 DEF Types, PollOK, Save
<1>3. UNCHANGED <<jobs, work, history>> /\ UNCHANGED clock /\ UNCHANGED <<gens, calls>> /\ UNCHANGED <<asof, flush>>
  BY DEF Save, history, polling
<1>4. PICK g \in Written(disk[h], Content[h]) : disk' = [disk EXCEPT ![h] = g] BY DEF Save
<1>5. g \in {disk[h], Content[h], Torn} BY DEF Written
<1>6. /\ Content["defs"] = DefsOf /\ Content["state"] = StateOf
  BY DEF Content
<1>7. DOMAIN disk' = Files /\ disk'[h] = g /\ \A x \in Files : x # h => disk'[x] = disk[x]
  BY <1>1, <1>2, <1>4 DEF Types, StateOK
<1> HIDE DEF h
<1>8. /\ disk'["defs"] \in {disk["defs"], DefsOf, Torn}
      /\ disk'["state"] \in {disk["state"], StateOf, Torn}
  BY <1>2, <1>5, <1>6, <1>7 DEF Files
<1>9. /\ Readable(disk'["defs"]) \in {Readable(disk["defs"]), DefsOf, <<>>}
      /\ Readable(disk'["state"]) \in {Readable(disk["state"]), StateOf, <<>>}
  BY <1>8 DEF Readable
<1>10. JobsOK /\ DefsOK /\ StateOK BY <1>1 DEF Types
<1>11. StateOK'
  <2> DEFINE none == <<>>
  <2>1. none \in Seq(SavedRuns) OBVIOUS
  <2> HIDE DEF none, SavedRuns
  <2>2. Readable(disk'["state"]) \in {Readable(disk["state"]), StateOf, none} BY <1>9 DEF none
  <2> QED BY <2>1, <2>2, <1>7, <1>10, SavedTable DEF StateOK
<1>12. DefsOK'
  <2>1. CASE Readable(disk'["defs"]) = Readable(disk["defs"]) BY <2>1, <1>3, <1>10 DEF DefsOK
  <2>2. CASE Readable(disk'["defs"]) = DefsOf
    <3>1. DefsOf \in Seq(SavedDef) /\ \A i \in DOMAIN DefsOf : DefsOf[i].gen \in 1..gens'
      BY <1>3, <1>10, SavedTable DEF JobsOK
    <3> QED BY <2>2, <3>1 DEF DefsOK
  <2>3. CASE Readable(disk'["defs"]) = <<>> BY <2>3 DEF DefsOK
  <2> QED BY <2>1, <2>2, <2>3, <1>9
<1>13. PollOK' BY <1>1, <1>2, <1>3 DEF Types, PollOK
<1>14. ASSUME FileApart, TableApart PROVE FileApart'
  <2>1. CASE Readable(disk'["defs"]) = Readable(disk["defs"]) BY <2>1, <1>14 DEF FileApart, IdsApart, GensApart
  <2>2. CASE Readable(disk'["defs"]) = DefsOf
    <3>1. IdsApart(DefsOf) /\ GensApart(DefsOf)
      BY <1>10, <1>14, SavedTable DEF TableApart, IdsApart, GensApart
    <3> QED BY <2>2, <3>1 DEF FileApart
  <2>3. CASE Readable(disk'["defs"]) = <<>> BY <2>3 DEF FileApart, IdsApart, GensApart
  <2> QED BY <2>1, <2>2, <2>3, <1>9
<1>15. ClockOK' /\ CountOK' BY <1>1, <1>3, FrameTypes DEF Types
<1> QED BY <1>3, <1>11, <1>12, <1>13, <1>14, <1>15, FrameAll

(***************************************************************************)
(* Calls that leave the definitions alone: no entry waits that did not,    *)
(* and a once job that ran stays DONE unless it is armed again.            *)
(***************************************************************************)
From(i, j) ==
  /\ jobs'[i].def = jobs[j].def /\ jobs'[i].gen = jobs[j].gen
  /\ jobs[j].runs > 0 => jobs'[i].runs > 0
  /\ jobs'[i].next = jobs[j].next \/ (jobs'[i].next # PENDING /\ jobs[j].runs = 0)
       \/ (jobs'[i].next # PENDING /\ jobs[j].gen \in excused') \/ jobs'[i].next = DONE

LEMMA CallStep ==
  ASSUME Inv, JobsOK', UNCHANGED work, UNCHANGED gens, UNCHANGED runsOf, UNCHANGED clash, UNCHANGED disk,
         UNCHANGED clock, UNCHANGED <<asof, flush>>, saving' \in Seq(Files), CountOK', excused \subseteq excused',
         TableApart => TableApart', \A i \in DOMAIN jobs' : \E j \in DOMAIN jobs : From(i, j)
  PROVE  Inv'
<1>1. Types BY DEF Inv
<1>2. WorkOK' /\ DefsOK' /\ StateOK' /\ ClockOK' /\ RunsOK' BY <1>1, FrameTypes DEF Types
<1>3. PollOK' BY <1>1 DEF Types, PollOK
<1>4. Types' BY <1>2, <1>3 DEF Types
<1>5. CASE clash BY <1>4, <1>5 DEF Inv
<1>6. CASE Apart /\ Once
  <2>1. TableApart /\ FileApart /\ WorkApart /\ SameDef /\ Pending BY <1>6 DEF Apart
  <2>2. AtMostOnce /\ Spent /\ LastRun BY <1>6 DEF Once
  <2>3. TableApart' /\ FileApart' /\ WorkApart' BY <2>1, FrameApart
  <2>4. SameDef'
    <3> SUFFICES ASSUME NEW i \in DOMAIN jobs', NEW k \in DOMAIN work, jobs'[i].gen = work[k].e.gen
                 PROVE  jobs'[i].def = work[k].e.def
      BY DEF SameDef
    <3>1. PICK j \in DOMAIN jobs : From(i, j) OBVIOUS
    <3> QED BY <2>1, <3>1 DEF SameDef, From
  <2>5. Pending'
    <3> SUFFICES ASSUME NEW i \in DOMAIN jobs', jobs'[i].next = PENDING
                 PROVE  \E k \in DOMAIN work : work[k].e.gen = jobs'[i].gen
      BY DEF Pending
    <3>1. PICK j \in DOMAIN jobs : From(i, j) OBVIOUS
    <3>2. jobs[j].next = PENDING BY <3>1 DEF From, PENDING, DONE
    <3> QED BY <2>1, <3>1, <3>2 DEF Pending, From
  <2>6. AtMostOnce' BY <2>2 DEF AtMostOnce
  <2>7. LastRun' BY <2>2 DEF LastRun
  <2>8. Spent'
    <3> SUFFICES ASSUME NEW i \in DOMAIN jobs', jobs'[i].def.kind = "once", jobs'[i].gen \notin excused',
                        runsOf[jobs'[i].gen] > 0 \/ Firing(jobs[i].gen)'
                 PROVE  jobs'[i].next \in {PENDING, DONE} /\ jobs'[i].runs > 0
      BY DEF Spent
    <3>1. PICK j \in DOMAIN jobs : From(i, j) OBVIOUS
    <3>2. Firing(jobs[i].gen)' => Firing(jobs[j].gen) BY <3>1 DEF Firing, From
    <3>3. jobs[j].next \in {PENDING, DONE} /\ jobs[j].runs > 0
      <4>1. jobs[j].def.kind = "once" /\ jobs[j].gen \notin excused BY <3>1 DEF From
      <4>2. runsOf[jobs[j].gen] > 0 \/ Firing(jobs[j].gen) BY <3>1, <3>2 DEF From
      <4> QED BY <2>2, <4>1, <4>2 DEF Spent
    <3>4. jobs[j].gen \notin excused' BY <3>1 DEF From
    <3>5. jobs[j].runs # 0 BY <3>3
    <3> QED BY <3>1, <3>3, <3>4, <3>5 DEF From
  <2> QED BY <1>4, <2>3, <2>4, <2>5, <2>6, <2>7, <2>8 DEF Inv, Apart, Once
<1> QED BY <1>5, <1>6 DEF Inv

LEMMA CalledCount ==
  ASSUME CountOK, Called, gens' = gens
  PROVE  CountOK'
BY DEF CountOK, Called

LEMMA RemoveStep == ASSUME Inv, NEW i \in DOMAIN jobs, RemoveJob(i) PROVE Inv'
<1>1. JobsOK /\ CountOK BY DEF Inv, Types
<1>2. /\ UNCHANGED work /\ UNCHANGED gens /\ UNCHANGED runsOf /\ UNCHANGED clash /\ UNCHANGED disk
      /\ UNCHANGED clock /\ UNCHANGED <<asof, flush>> /\ excused' = excused
      /\ Called /\ jobs' = RemoveAt(jobs, i) /\ saving' = <<"defs", "state">>
  BY DEF RemoveJob, polling, history
<1>3. saving' \in Seq(Files) BY <1>2 DEF Files
<1>4. /\ JobsOK' /\ (TableApart => TableApart')
      /\ \A k \in DOMAIN jobs' : \E j \in DOMAIN jobs \ {i} : jobs'[k] = jobs[j]
  BY <1>1, <1>2, LessTable
<1>5. ASSUME NEW k \in DOMAIN jobs' PROVE \E j \in DOMAIN jobs : From(k, j)
  <2>1. PICK j \in DOMAIN jobs : jobs'[k] = jobs[j] BY <1>4
  <2>2. From(k, j) BY <2>1 DEF From
  <2> QED BY <2>2
<1>6. CountOK' BY <1>1, <1>2, CalledCount
<1>7. excused \subseteq excused' BY <1>2
<1> QED BY <1>2, <1>3, <1>4, <1>5, <1>6, <1>7, CallStep

(* A call that changes one entry in place.                                 *)
LEMMA SetStep ==
  ASSUME Inv, NEW i \in DOMAIN jobs, NEW e, SetJob(i, e), e \in Job, e.def = jobs[i].def, e.gen = jobs[i].gen,
         e.runs = jobs[i].runs, e.next \in {jobs[i].next, DONE, ARM}
  PROVE  Inv'
<1>1. JobsOK /\ CountOK BY DEF Inv, Types
<1>2. /\ UNCHANGED work /\ UNCHANGED gens /\ UNCHANGED runsOf /\ UNCHANGED clash /\ UNCHANGED disk
      /\ UNCHANGED clock /\ UNCHANGED <<asof, flush>>
      /\ excused' = IF e.next = ARM /\ e.runs > 0 THEN excused \cup {e.gen} ELSE excused
      /\ Called /\ jobs' = [jobs EXCEPT ![i] = e] /\ saving' = <<"defs">>
  BY DEF SetJob, polling, history
<1>3. saving' \in Seq(Files) BY <1>2 DEF Files
<1>4. /\ DOMAIN jobs' = DOMAIN jobs /\ jobs' = [j \in DOMAIN jobs |-> jobs'[j]]
      /\ jobs'[i] = e /\ \A j \in DOMAIN jobs : j # i => jobs'[j] = jobs[j]
  BY <1>2
<1>5. \A j \in DOMAIN jobs : jobs'[j] \in Job /\ jobs'[j].def = jobs[j].def /\ jobs'[j].gen = jobs[j].gen
  <2> HIDE DEF Job
  <2> QED BY <1>1, <1>4, JobElement
<1>6. JobsOK' /\ (TableApart => TableApart') BY <1>1, <1>2, <1>4, <1>5, SameTable
<1>7. excused \subseteq excused' BY <1>2
<1>8. ASSUME NEW k \in DOMAIN jobs' PROVE \E j \in DOMAIN jobs : From(k, j)
  <2>1. k \in DOMAIN jobs BY <1>4
  <2>2. CASE k # i BY <1>4, <2>1, <2>2 DEF From
  <2>3. CASE k = i
    <3>1. jobs[i].runs \in Nat BY <1>1, JobElement
    <3>2. ASSUME e.next = ARM PROVE e.next # PENDING /\ (jobs[i].runs = 0 \/ jobs[i].gen \in excused')
      BY <1>2, <3>1, <3>2 DEF ARM, PENDING
    <3>3. From(i, i) BY <1>4, <3>2 DEF From
    <3> QED BY <2>3, <3>3
  <2> QED BY <2>2, <2>3
<1>9. CountOK' BY <1>1, <1>2, CalledCount
<1> QED BY <1>2, <1>3, <1>6, <1>7, <1>8, <1>9, CallStep

LEMMA RearmType ==
  ASSUME NEW e \in Job
  PROVE  /\ Rearm(e) \in Job /\ Rearm(e).def = e.def /\ Rearm(e).gen = e.gen /\ Rearm(e).runs = e.runs
         /\ Rearm(e).next \in {DONE, ARM}
BY DEF Rearm, Job, DONE, ARM

LEMMA FlagsType ==
  ASSUME NEW e \in Job, NEW f \in {[e EXCEPT !.enabled = TRUE], [e EXCEPT !.enabled = FALSE],
                                   [e EXCEPT !.paused = TRUE], [e EXCEPT !.paused = FALSE]}
  PROVE  f \in Job /\ f.def = e.def /\ f.gen = e.gen /\ f.runs = e.runs /\ f.next = e.next
BY DEF Job

LEMMA FlagStep ==
  ASSUME Inv, NEW i \in DOMAIN jobs, EnableJob(i) \/ DisableJob(i) \/ PauseJob(i) \/ ResumeJob(i)
  PROVE  Inv'
<1> HIDE DEF Job
<1>1. jobs[i] \in Job BY JobElement DEF Inv, Types
<1> DEFINE on  == [jobs[i] EXCEPT !.enabled = TRUE]
           off == [jobs[i] EXCEPT !.enabled = FALSE]
           p   == [jobs[i] EXCEPT !.paused = TRUE]
           r   == [jobs[i] EXCEPT !.paused = FALSE]
<1>2. \A f \in {on, off, p, r} : f \in Job /\ f.def = jobs[i].def /\ f.gen = jobs[i].gen /\ f.runs = jobs[i].runs
                                   /\ f.next = jobs[i].next
  BY <1>1, FlagsType
<1>3. SetJob(i, Rearm(on)) \/ SetJob(i, off) \/ SetJob(i, p) \/ SetJob(i, Rearm(r))
  BY DEF EnableJob, DisableJob, PauseJob, ResumeJob
<1> HIDE DEF on, off, p, r
<1>4. CASE SetJob(i, off) BY <1>2, <1>4, SetStep
<1>5. CASE SetJob(i, p) BY <1>2, <1>5, SetStep
<1>6. ASSUME NEW f \in {on, r}, SetJob(i, Rearm(f)) PROVE Inv'
  <2> DEFINE e == Rearm(f)
  <2>1. e \in Job /\ e.def = jobs[i].def /\ e.gen = jobs[i].gen /\ e.runs = jobs[i].runs /\ e.next \in {DONE, ARM}
    BY <1>2, RearmType
  <2>2. SetJob(i, e) BY <1>6
  <2> HIDE DEF e
  <2> QED BY <2>1, <2>2, SetStep
<1> QED BY <1>3, <1>4, <1>5, <1>6

(* An execution counted, and an entry marked.                              *)
LEMMA CountedType ==
  ASSUME NEW e \in Job
  PROVE  LET c == [e EXCEPT !.runs = @ + 1]
         IN  c \in Job /\ c.def = e.def /\ c.gen = e.gen /\ c.runs = e.runs + 1 /\ c.next = e.next
BY DEF Job

LEMMA FireEventStep == ASSUME Inv, FireEvent PROVE Inv'
<1> DEFINE c(j) == [jobs[j] EXCEPT !.runs = @ + 1]
<1>1. JobsOK /\ CountOK BY DEF Inv, Types
<1>2. /\ UNCHANGED work /\ UNCHANGED gens /\ UNCHANGED runsOf /\ UNCHANGED clash /\ UNCHANGED disk
      /\ UNCHANGED clock /\ UNCHANGED <<asof, flush>> /\ excused' = excused /\ Called /\ saving' = <<"state">>
      /\ jobs' = [j \in DOMAIN jobs |-> IF Listens(jobs[j]) THEN c(j) ELSE jobs[j]]
  BY DEF FireEvent, polling, history
<1>3. saving' \in Seq(Files) BY <1>2 DEF Files
<1>4. \A j \in DOMAIN jobs : /\ c(j) \in Job /\ c(j).def = jobs[j].def /\ c(j).gen = jobs[j].gen
                             /\ c(j).runs = jobs[j].runs + 1 /\ c(j).next = jobs[j].next
  <2> HIDE DEF Job
  <2> QED BY <1>1, JobElement, CountedType
<1> HIDE DEF c
<1>5. /\ DOMAIN jobs' = DOMAIN jobs /\ jobs' = [j \in DOMAIN jobs |-> jobs'[j]]
      /\ \A j \in DOMAIN jobs : jobs'[j] = c(j) \/ jobs'[j] = jobs[j]
  BY <1>2
<1>6. \A j \in DOMAIN jobs : jobs'[j] \in Job /\ jobs'[j].def = jobs[j].def /\ jobs'[j].gen = jobs[j].gen
  <2> HIDE DEF Job
  <2> QED BY <1>1, <1>4, <1>5, JobElement
<1>7. JobsOK' /\ (TableApart => TableApart') BY <1>1, <1>2, <1>5, <1>6, SameTable
<1>8. ASSUME NEW k \in DOMAIN jobs' PROVE \E j \in DOMAIN jobs : From(k, j)
  <2>1. k \in DOMAIN jobs /\ jobs[k].runs \in Nat BY <1>1, <1>5, JobElement
  <2>2. From(k, k) BY <1>4, <1>5, <2>1 DEF From
  <2> QED BY <2>1, <2>2
<1>9. CountOK' BY <1>1, <1>2, CalledCount
<1>10. excused \subseteq excused' BY <1>2
<1> QED BY <1>2, <1>3, <1>7, <1>8, <1>9, <1>10, CallStep

(***************************************************************************)
(* The poll task marks what is due.                                        *)
(***************************************************************************)
LEMMA ItemType ==
  ASSUME NEW e \in Job
  PROVE  /\ Item(e) \in WorkItem /\ Item(e).e = e
         /\ Item(e).fire <=> Fires(e)
         /\ Item(e).last <=> Finished(e)
<1>1. Fires(e) \in BOOLEAN BY DEF Fires
<1>2. Finished(e) \in BOOLEAN BY DEF Finished
<1> HIDE DEF Job
<1> QED BY <1>1, <1>2 DEF Item, WorkItem

LEMMA MarkedType ==
  ASSUME NEW e \in Job
  PROVE  LET m == [Counted(e) EXCEPT !.next = PENDING]
         IN  /\ m \in Job /\ m.def = e.def /\ m.gen = e.gen /\ m.next = PENDING
             /\ Fires(e) => m.runs = e.runs + 1
<1>1. Counted(e) \in Job /\ Counted(e).def = e.def /\ Counted(e).gen = e.gen
      /\ (Fires(e) => Counted(e).runs = e.runs + 1)
  <2>1. CASE Fires(e)
    <3> DEFINE c == [e EXCEPT !.runs = @ + 1]
    <3>1. c \in Job /\ c.def = e.def /\ c.gen = e.gen /\ c.runs = e.runs + 1 BY CountedType
    <3>2. Counted(e) = c BY <2>1 DEF Counted
    <3> HIDE DEF c, Job
    <3> QED BY <3>1, <3>2
  <2>2. CASE ~Fires(e)
    <3>1. Counted(e) = e BY <2>2 DEF Counted
    <3> HIDE DEF Job
    <3> QED BY <2>2, <3>1
  <2> QED BY <2>1, <2>2
<1> HIDE DEF Counted
<1> DEFINE c == Counted(e)
<1>2. c \in Job BY <1>1
<1> HIDE DEF c
<1>3. LET m == [c EXCEPT !.next = PENDING]
      IN  m \in Job /\ m.def = c.def /\ m.gen = c.gen /\ m.next = PENDING /\ m.runs = c.runs
  BY <1>2 DEF Job, PENDING
<1> HIDE DEF Job
<1> QED BY <1>1, <1>3 DEF c

LEMMA ScanStep == ASSUME Inv, Scan PROVE Inv'
<1> DEFINE m(i) == [Counted(jobs[i]) EXCEPT !.next = PENDING]
           it(i) == Item(jobs[i])
<1>1. Types BY DEF Inv
<1>2. JobsOK /\ ClockOK BY <1>1 DEF Types
<1>3. /\ DOMAIN work = {} /\ work' = [i \in DueAt |-> it(i)] /\ asof' = clock.now
      /\ jobs' = [i \in DOMAIN jobs |-> IF i \in DueAt THEN m(i) ELSE jobs[i]]
      /\ UNCHANGED flush /\ UNCHANGED saving /\ UNCHANGED disk /\ UNCHANGED clock /\ UNCHANGED gens
      /\ UNCHANGED runsOf /\ UNCHANGED excused /\ UNCHANGED clash /\ UNCHANGED calls
  BY DEF Scan, history
<1>4. DueAt \subseteq DOMAIN jobs /\ \A i \in DueAt : Due(jobs[i]) BY DEF DueAt
<1>5. \A i \in DOMAIN jobs :
        /\ m(i) \in Job /\ m(i).def = jobs[i].def /\ m(i).gen = jobs[i].gen /\ m(i).next = PENDING
        /\ Fires(jobs[i]) => m(i).runs = jobs[i].runs + 1
  <2> HIDE DEF Job
  <2> QED BY <1>2, JobElement, MarkedType
<1>6. \A i \in DOMAIN jobs :
        /\ it(i) \in WorkItem /\ it(i).e = jobs[i]
        /\ it(i).fire <=> Fires(jobs[i])
        /\ it(i).last <=> Finished(jobs[i])
  <2> HIDE DEF Job, WorkItem
  <2> QED BY <1>2, JobElement, ItemType
<1> HIDE DEF m, it
<1>7. /\ DOMAIN work' = DueAt
      /\ \A k \in DueAt : /\ work'[k] \in WorkItem /\ work'[k].e = jobs[k]
                          /\ work'[k].fire <=> Fires(jobs[k])
                          /\ work'[k].last <=> Finished(jobs[k])
  <2> HIDE DEF WorkItem
  <2> QED BY <1>3, <1>4, <1>6
<1>8. /\ DOMAIN jobs' = DOMAIN jobs /\ jobs' = [i \in DOMAIN jobs |-> jobs'[i]]
      /\ \A i \in DOMAIN jobs : jobs'[i] = IF i \in DueAt THEN m(i) ELSE jobs[i]
  BY <1>3
<1>9. \A i \in DOMAIN jobs : jobs'[i] \in Job /\ jobs'[i].def = jobs[i].def /\ jobs'[i].gen = jobs[i].gen
  <2> HIDE DEF Job
  <2> QED BY <1>2, <1>5, <1>8, JobElement
<1>10. JobsOK' /\ (TableApart => TableApart') BY <1>2, <1>3, <1>8, <1>9, SameTable
<1>11. WorkOK'
  <2>1. DOMAIN work' \subseteq Nat BY <1>2, <1>4, <1>7, JobElement
  <2>2. work' \in [DOMAIN work' -> WorkItem]
    <3> HIDE DEF WorkItem
    <3> QED BY <1>3, <1>7
  <2>3. \A k \in DOMAIN work' : work'[k].e.gen \in 1..gens' BY <1>2, <1>3, <1>4, <1>7 DEF JobsOK
  <2> QED BY <2>1, <2>2, <2>3 DEF WorkOK
<1>12. PollOK'
  <2>1. asof' \in Nat BY <1>2, <1>3 DEF ClockOK
  <2> QED BY <1>1, <1>3, <2>1 DEF Types, PollOK
<1>13. Types'
  <2>1. DefsOK' /\ StateOK' /\ ClockOK' /\ CountOK' /\ RunsOK' BY <1>1, <1>3, FrameTypes DEF Types
  <2> QED BY <1>10, <1>11, <1>12, <2>1 DEF Types
<1>14. CASE clash BY <1>3, <1>13, <1>14 DEF Inv
<1>15. CASE Apart /\ Once
  <2>1. TableApart /\ FileApart /\ WorkApart /\ SameDef /\ Pending BY <1>15 DEF Apart
  <2>2. AtMostOnce /\ Spent /\ LastRun BY <1>15 DEF Once
  <2>3. FileApart' /\ AtMostOnce' BY <1>3, <2>1, <2>2, FrameApart, FrameOnce
  <2>4. \A i, k \in DOMAIN jobs : jobs[i].gen = jobs[k].gen => i = k
    BY <2>1 DEF TableApart, GensApart
  <2>5. \A i, k \in DOMAIN jobs : jobs[i].def.id = jobs[k].def.id => i = k
    BY <2>1 DEF TableApart, IdsApart
  <2>6. WorkApart' BY <1>4, <1>7, <2>4, <2>5 DEF WorkApart
  <2>7. SameDef' BY <1>4, <1>7, <1>8, <1>9, <2>4 DEF SameDef
  <2>8. \A i \in DOMAIN jobs : jobs[i].next # PENDING BY <1>3, <2>1 DEF Pending
  <2>9. Pending'
    <3> SUFFICES ASSUME NEW i \in DOMAIN jobs, jobs'[i].next = PENDING
                 PROVE  \E k \in DueAt : work'[k].e.gen = jobs'[i].gen
      BY <1>7, <1>8 DEF Pending
    <3>1. i \in DueAt BY <1>8, <2>8
    <3>2. work'[i].e.gen = jobs'[i].gen BY <1>7, <1>9, <3>1
    <3> QED BY <3>1, <3>2
  <2>10. \A i \in DueAt : jobs[i].next \notin {PENDING, DONE} BY <1>4 DEF Due
  <2>11. \A i \in DueAt : jobs[i].def.kind = "once" /\ jobs[i].gen \notin excused => ~(runsOf[jobs[i].gen] > 0)
    BY <1>4, <2>2, <2>10 DEF Spent
  <2>12. Spent'
    <3> SUFFICES ASSUME NEW i \in DOMAIN jobs, jobs[i].def.kind = "once", jobs[i].gen \notin excused,
                        runsOf[jobs[i].gen] > 0
                          \/ \E k \in DueAt : work'[k].e.gen = jobs[i].gen /\ work'[k].fire
                 PROVE  jobs'[i].next \in {PENDING, DONE} /\ jobs'[i].runs > 0
      BY <1>3, <1>7, <1>8, <1>9 DEF Spent, Firing
    <3>1. CASE i \in DueAt
      <4>1. PICK k \in DueAt : work'[k].e.gen = jobs[i].gen /\ work'[k].fire BY <2>11, <3>1
      <4>2. k = i BY <1>4, <1>7, <2>4, <4>1
      <4>3. Fires(jobs[i]) BY <1>7, <4>1, <4>2
      <4>4. jobs'[i].next = PENDING /\ jobs'[i].runs = jobs[i].runs + 1 BY <1>5, <1>8, <3>1, <4>3
      <4>5. jobs[i].runs \in Nat BY <1>2, JobElement
      <4> QED BY <4>4, <4>5
    <3>2. CASE i \notin DueAt
      <4>1. jobs'[i] = jobs[i] BY <1>8, <3>2
      <4>2. runsOf[jobs[i].gen] > 0 BY <1>4, <1>7, <2>4, <3>2
      <4> QED BY <2>2, <4>1, <4>2 DEF Spent
    <3> QED BY <3>1, <3>2
  <2>13. LastRun'
    <3> SUFFICES ASSUME NEW k \in DueAt, jobs[k].def.kind = "once", jobs[k].gen \notin excused
                 PROVE  /\ work'[k].fire => work'[k].last /\ runsOf[jobs[k].gen] = 0
                        /\ runsOf[jobs[k].gen] > 0 => work'[k].last
      BY <1>3, <1>7 DEF LastRun
    <3>1. ~(runsOf[jobs[k].gen] > 0) BY <2>11
    <3>2. runsOf[jobs[k].gen] \in Nat
      <4>1. jobs[k].gen \in 1..gens BY <1>2, <1>4 DEF JobsOK
      <4>2. jobs[k].gen \in 1..MaxCalls BY <1>1, <4>1 DEF Types, CountOK
      <4> QED BY <1>1, <4>2 DEF Types, RunsOK
    <3>3. Fires(jobs[k]) => Finished(jobs[k]) BY DEF Fires, Finished
    <3> QED BY <1>7, <3>1, <3>2, <3>3
  <2> QED BY <1>10, <1>13, <2>1, <2>3, <2>6, <2>7, <2>9, <2>12, <2>13 DEF Inv, Apart, Once
<1> QED BY <1>14, <1>15 DEF Inv

(***************************************************************************)
(* The execution of one item.                                              *)
(***************************************************************************)
LEMMA WorkElement ==
  ASSUME WorkOK, NEW k \in DOMAIN work
  PROVE  /\ work[k] \in WorkItem /\ work[k].e \in Job /\ work[k].e.def \in GoodDef /\ work[k].e.gen \in 1..gens
         /\ work[k].fire \in BOOLEAN /\ work[k].last \in BOOLEAN
<1>1. work[k] \in WorkItem
  <2> HIDE DEF WorkItem
  <2> QED BY DEF WorkOK
<1>2. work[k].e \in Job /\ work[k].fire \in BOOLEAN /\ work[k].last \in BOOLEAN
  <2> HIDE DEF Job
  <2> QED BY <1>1 DEF WorkItem
<1>3. work[k].e.def \in GoodDef
  <2> HIDE DEF GoodDef
  <2> QED BY <1>2 DEF Job
<1> QED BY <1>1, <1>2, <1>3 DEF WorkOK

LEMMA ExecutedType ==
  ASSUME NEW w \in WorkItem
  PROVE  LET x == [w EXCEPT !.fire = FALSE]
         IN  x \in WorkItem /\ x.e = w.e /\ x.last = w.last /\ x.fire = FALSE
<1> HIDE DEF Job
<1> QED BY DEF WorkItem

LEMMA ExecuteStep == ASSUME Inv, NEW k \in DOMAIN work, Execute(k) PROVE Inv'
<1> DEFINE g == work[k].e.gen
           x == [work[k] EXCEPT !.fire = FALSE]
<1>1. Types BY DEF Inv
<1>2. WorkOK /\ RunsOK /\ CountOK BY <1>1 DEF Types
<1>3. /\ work[k].fire /\ work' = [work EXCEPT ![k] = x]
      /\ runsOf' = IF work[k].e.def.kind = "once" /\ runsOf[g] < 2 THEN [runsOf EXCEPT ![g] = @ + 1] ELSE runsOf
      /\ UNCHANGED jobs /\ UNCHANGED <<asof, flush, saving>> /\ UNCHANGED disk /\ UNCHANGED clock
      /\ UNCHANGED gens /\ UNCHANGED excused /\ UNCHANGED clash /\ UNCHANGED <<calls>>
  BY DEF Execute
<1>4. x \in WorkItem /\ x.e = work[k].e /\ x.last = work[k].last /\ x.fire = FALSE
  BY <1>2, WorkElement, ExecutedType
<1>5. g \in 1..gens /\ g \in 1..MaxCalls
  BY <1>2, WorkElement DEF CountOK
<1> HIDE DEF x
<1>6. /\ DOMAIN work' = DOMAIN work /\ work'[k] = x
      /\ \A l \in DOMAIN work : l # k => work'[l] = work[l]
      /\ \A l \in DOMAIN work : work'[l].e = work[l].e /\ work'[l].last = work[l].last
                                  /\ (work'[l].fire => work[l].fire /\ l # k)
  BY <1>3, <1>4
<1>7. WorkOK'
  <2> HIDE DEF WorkItem
  <2>1. work' \in [DOMAIN work' -> WorkItem] BY <1>2, <1>3, <1>4, <1>6 DEF WorkOK
  <2> QED BY <1>2, <1>3, <1>6, <2>1 DEF WorkOK
<1>8. /\ runsOf' \in [1..MaxCalls -> Nat]
      /\ \A h \in 1..MaxCalls : h # g => runsOf'[h] = runsOf[h]
      /\ work[k].e.def.kind # "once" => runsOf' = runsOf
      /\ runsOf'[g] \in {runsOf[g], runsOf[g] + 1} /\ runsOf[g] \in Nat
  <2> HIDE DEF g
  <2> QED BY <1>2, <1>3, <1>5 DEF RunsOK
<1>9. RunsOK'
  <2>1. \A h \in 1..MaxCalls : h > gens' => h # g BY <1>2, <1>3, <1>5 DEF CountOK
  <2> QED BY <1>2, <1>3, <1>8, <2>1 DEF RunsOK
<1>10. PollOK' BY <1>1, <1>3 DEF Types, PollOK
<1>11. Types'
  <2>1. JobsOK' /\ DefsOK' /\ StateOK' /\ ClockOK' /\ CountOK' BY <1>1, <1>3, FrameTypes DEF Types
  <2> QED BY <1>7, <1>9, <1>10, <2>1 DEF Types
<1>12. CASE clash BY <1>3, <1>11, <1>12 DEF Inv
<1>13. CASE Apart /\ Once
  <2>1. TableApart /\ FileApart /\ WorkApart /\ SameDef /\ Pending BY <1>13 DEF Apart
  <2>2. AtMostOnce /\ Spent /\ LastRun BY <1>13 DEF Once
  <2>3. TableApart' /\ FileApart' BY <1>3, <2>1, FrameApart
  <2>4. WorkApart' BY <1>6, <2>1 DEF WorkApart
  <2>5. SameDef' BY <1>3, <1>6, <2>1 DEF SameDef
  <2>6. Pending' BY <1>3, <1>6, <2>1 DEF Pending
  <2>7. AtMostOnce'
    <3> SUFFICES ASSUME NEW h \in 1..MaxCalls, h \notin excused PROVE runsOf'[h] <= 1
      BY <1>3 DEF AtMostOnce
    <3>1. CASE h # g BY <1>8, <2>2, <3>1 DEF AtMostOnce
    <3>2. CASE h = g /\ work[k].e.def.kind = "once"
      <4>1. runsOf[g] = 0 BY <1>3, <2>2, <3>2 DEF LastRun
      <4> QED BY <1>8, <3>2, <4>1
    <3>3. CASE h = g /\ work[k].e.def.kind # "once" BY <1>8, <2>2, <3>3 DEF AtMostOnce
    <3> QED BY <3>1, <3>2, <3>3
  <2>8. Spent'
    <3> SUFFICES ASSUME NEW i \in DOMAIN jobs, jobs[i].def.kind = "once", jobs[i].gen \notin excused,
                        runsOf'[jobs[i].gen] > 0
                          \/ \E l \in DOMAIN work : work'[l].e.gen = jobs[i].gen /\ work'[l].fire
                 PROVE  jobs[i].next \in {PENDING, DONE} /\ jobs[i].runs > 0
      BY <1>3, <1>6 DEF Spent, Firing
    <3>1. jobs[i].gen \in 1..MaxCalls BY <1>1 DEF Types, JobsOK, CountOK
    <3>2. runsOf[jobs[i].gen] > 0 \/ Firing(jobs[i].gen)
      <4>1. CASE jobs[i].gen = g BY <1>3, <4>1 DEF Firing
      <4>2. CASE jobs[i].gen # g BY <1>6, <1>8, <3>1, <4>2 DEF Firing
      <4> QED BY <4>1, <4>2
    <3> QED BY <2>2, <3>2 DEF Spent
  <2>9. LastRun'
    <3> SUFFICES ASSUME NEW l \in DOMAIN work, work[l].e.def.kind = "once", work[l].e.gen \notin excused
                 PROVE  /\ work'[l].fire => work[l].last /\ runsOf'[work[l].e.gen] = 0
                        /\ runsOf'[work[l].e.gen] > 0 => work[l].last
      BY <1>3, <1>6 DEF LastRun
    <3>1. CASE l = k
      <4>1. work[k].last BY <1>3, <2>2, <3>1 DEF LastRun
      <4> QED BY <1>6, <3>1, <4>1
    <3>2. CASE l # k
      <4>1. work[l].e.gen # g BY <2>1, <3>2 DEF WorkApart
      <4>2. work[l].e.gen \in 1..MaxCalls BY <1>2, WorkElement DEF CountOK
      <4>3. runsOf'[work[l].e.gen] = runsOf[work[l].e.gen] BY <1>8, <4>1, <4>2
      <4> QED BY <1>6, <2>2, <4>3 DEF LastRun
    <3> QED BY <3>1, <3>2
  <2> QED BY <1>11, <2>3, <2>4, <2>5, <2>6, <2>7, <2>8, <2>9 DEF Inv, Apart, Once
<1> QED BY <1>12, <1>13 DEF Inv

(***************************************************************************)
(* The write-back.  The one entry that may wait for an item is the one the *)
(* item was made from.                                                     *)
(***************************************************************************)
NextSet(i, j, w) ==
  /\ jobs'[i].def = jobs[j].def /\ jobs'[i].gen = jobs[j].gen /\ jobs'[i].runs = jobs[j].runs
  /\ \/ jobs'[i].next = jobs[j].next /\ (Apart => j \notin Waits(w))
     \/ j \in Waits(w) /\ jobs'[i].next = NextFire(w)

LEMMA NextType ==
  ASSUME NEW e \in Job, NEW t \in Int
  PROVE  LET n == [e EXCEPT !.next = t]
         IN  n \in Job /\ n.def = e.def /\ n.gen = e.gen /\ n.runs = e.runs /\ n.next = t
BY DEF Job

LEMMA WrittenBack ==
  ASSUME Types, NEW k \in DOMAIN work, WriteBack(k)
  PROVE  /\ JobsOK' /\ (TableApart => TableApart')
         /\ \A i \in DOMAIN jobs' : \E j \in DOMAIN jobs : NextSet(i, j, work[k])
         /\ flush' \in Seq(Files)
<1> DEFINE w == work[k]
           nf == NextFire(w)
           over == w.e.def.kind = "once" /\ nf = DONE
<1>1. JobsOK /\ WorkOK /\ PollOK BY DEF Types
<1>2. gens' = gens BY DEF WriteBack, history
<1>3. w \in WorkItem BY <1>1, WorkElement
<1>4. nf \in Int /\ nf # PENDING BY <1>1, <1>3, NextFireType
<1> HIDE DEF nf
<1>5. Waits(w) \subseteq DOMAIN jobs BY DEF Waits, IndexOf
<1>6. CASE Waits(w) = {}
  <2>1. jobs' = jobs /\ flush' = flush BY <1>6 DEF WriteBack
  <2>2. \A i \in DOMAIN jobs : NextSet(i, i, w) BY <1>6, <2>1 DEF NextSet
  <2>3. JobsOK' BY <1>1, <1>2, <2>1, FrameTypes
  <2>4. TableApart => TableApart' BY <2>1, FrameApart
  <2> QED BY <1>1, <2>1, <2>2, <2>3, <2>4 DEF PollOK
<1>7. CASE Waits(w) # {}
  <2>1. PICK i \in Waits(w) : jobs' = IF over THEN RemoveAt(jobs, i) ELSE [jobs EXCEPT ![i].next = nf]
    BY <1>7 DEF WriteBack, nf
  <2>2. flush' \in Seq(Files)
    <3>1. flush' = <<"defs", "state">> \/ flush' = <<"state">> BY <1>7 DEF WriteBack
    <3>2. <<"defs", "state">> \in Seq(Files) BY DEF Files
    <3>3. <<"state">> \in Seq(Files) BY DEF Files
    <3> QED BY <3>1, <3>2, <3>3
  <2>3. i \in DOMAIN jobs BY <1>5
  <2>4. ASSUME Apart PROVE \A j \in Waits(w) : j = i
    BY <1>1, <2>4, FoundAt DEF Apart, TableApart, Waits
  <2>5. CASE over
    <3>1. jobs' = RemoveAt(jobs, i) BY <2>1, <2>5
    <3>2. /\ JobsOK' /\ (TableApart => TableApart')
          /\ \A l \in DOMAIN jobs' : \E j \in DOMAIN jobs \ {i} : jobs'[l] = jobs[j]
      BY <1>1, <1>2, <2>3, <3>1, LessTable
    <3>3. ASSUME NEW l \in DOMAIN jobs' PROVE \E j \in DOMAIN jobs : NextSet(l, j, w)
      <4>1. PICK j \in DOMAIN jobs \ {i} : jobs'[l] = jobs[j] BY <3>2
      <4>2. NextSet(l, j, w) BY <2>4, <4>1 DEF NextSet
      <4> QED BY <4>2
    <3> QED BY <2>2, <3>2, <3>3
  <2>6. CASE ~over
    <3> DEFINE n == [jobs[i] EXCEPT !.next = nf]
    <3>1. jobs' = [jobs EXCEPT ![i] = n] BY <2>1, <2>6
    <3>2. n \in Job /\ n.def = jobs[i].def /\ n.gen = jobs[i].gen /\ n.runs = jobs[i].runs /\ n.next = nf
      <4>1. jobs[i] \in Job BY <1>1, <2>3, JobElement
      <4> HIDE DEF Job
      <4> QED BY <1>4, <4>1, NextType
    <3> HIDE DEF n
    <3>3. /\ DOMAIN jobs' = DOMAIN jobs /\ jobs' = [j \in DOMAIN jobs |-> jobs'[j]]
          /\ jobs'[i] = n /\ \A j \in DOMAIN jobs : j # i => jobs'[j] = jobs[j]
      BY <2>3, <3>1
    <3>4. \A j \in DOMAIN jobs : jobs'[j] \in Job /\ jobs'[j].def = jobs[j].def /\ jobs'[j].gen = jobs[j].gen
      <4> HIDE DEF Job
      <4> QED BY <1>1, <3>2, <3>3, JobElement
    <3>5. JobsOK' /\ (TableApart => TableApart') BY <1>1, <1>2, <3>3, <3>4, SameTable
    <3>6. ASSUME NEW l \in DOMAIN jobs' PROVE NextSet(l, l, w)
      <4>1. CASE l = i BY <2>1, <3>2, <3>3, <4>1 DEF NextSet, nf
      <4>2. CASE l # i BY <2>4, <3>3, <3>6, <4>2 DEF NextSet
      <4> QED BY <4>1, <4>2
    <3> QED BY <2>2, <3>3, <3>5, <3>6
  <2> QED BY <2>5, <2>6
<1> QED BY <1>6, <1>7

LEMMA WriteBackStep == ASSUME Inv, NEW k \in DOMAIN work, WriteBack(k) PROVE Inv'
<1> DEFINE w == work[k]
<1>1. Types BY DEF Inv
<1>2. JobsOK /\ WorkOK BY <1>1 DEF Types
<1>3. /\ work' = [l \in DOMAIN work \ {k} |-> work[l]]
      /\ UNCHANGED <<asof, saving>> /\ UNCHANGED disk /\ UNCHANGED clock /\ UNCHANGED <<gens, calls>>
      /\ UNCHANGED runsOf /\ UNCHANGED excused /\ UNCHANGED clash
  BY DEF WriteBack, history
<1>4. /\ JobsOK' /\ (TableApart => TableApart')
      /\ \A i \in DOMAIN jobs' : \E j \in DOMAIN jobs : NextSet(i, j, w)
      /\ flush' \in Seq(Files)
  BY <1>1, WrittenBack
<1>5. DOMAIN work' = DOMAIN work \ {k} /\ \A l \in DOMAIN work' : work'[l] = work[l]
  BY <1>3
<1>6. WorkOK'
  <2> HIDE DEF WorkItem
  <2>1. \A l \in DOMAIN work' : work'[l] \in WorkItem BY <1>2, <1>5, WorkElement
  <2>2. work' \in [DOMAIN work' -> WorkItem] BY <1>3, <2>1
  <2>3. DOMAIN work' \subseteq Nat BY <1>2, <1>5 DEF WorkOK
  <2>4. \A l \in DOMAIN work' : work'[l].e.gen \in 1..gens' BY <1>2, <1>3, <1>5 DEF WorkOK
  <2> QED BY <2>2, <2>3, <2>4 DEF WorkOK
<1>7. PollOK' BY <1>1, <1>3, <1>4 DEF Types, PollOK
<1>8. Types'
  <2>1. DefsOK' /\ StateOK' /\ ClockOK' /\ CountOK' /\ RunsOK' BY <1>1, <1>3, FrameTypes DEF Types
  <2> QED BY <1>4, <1>6, <1>7, <2>1 DEF Types
<1>9. CASE clash BY <1>3, <1>8, <1>9 DEF Inv
<1>10. CASE Apart /\ Once
  <2>1. TableApart /\ FileApart /\ WorkApart /\ SameDef /\ Pending BY <1>10 DEF Apart
  <2>2. AtMostOnce /\ Spent /\ LastRun BY <1>10 DEF Once
  <2>3. FileApart' /\ AtMostOnce' BY <1>3, <2>1, <2>2, FrameApart, FrameOnce
  <2>4. WorkApart' BY <1>5, <2>1 DEF WorkApart
  <2>5. LastRun' BY <1>3, <1>5, <2>2 DEF LastRun
  <2>6. SameDef'
    <3> SUFFICES ASSUME NEW i \in DOMAIN jobs', NEW l \in DOMAIN work', jobs'[i].gen = work'[l].e.gen
                 PROVE  jobs'[i].def = work'[l].e.def
      BY DEF SameDef
    <3>1. PICK j \in DOMAIN jobs : NextSet(i, j, w) BY <1>4
    <3>2. jobs'[i].def = jobs[j].def /\ jobs'[i].gen = jobs[j].gen BY <3>1 DEF NextSet
    <3>3. l \in DOMAIN work /\ work'[l] = work[l] BY <1>5
    <3>4. jobs[j].gen = work[l].e.gen BY <3>2, <3>3
    <3>5. jobs[j].def = work[l].e.def BY <2>1, <3>3, <3>4 DEF SameDef
    <3> QED BY <3>2, <3>3, <3>5
  (* What waits for the item is what it was made from, and only that.      *)
  <2>7. ASSUME NEW j \in DOMAIN jobs, jobs[j].next = PENDING
        PROVE  j \in Waits(w) <=> jobs[j].gen = w.e.gen
    <3>1. PICK l \in DOMAIN work : work[l].e.gen = jobs[j].gen BY <2>1, <2>7 DEF Pending
    <3>2. jobs[j].def = work[l].e.def BY <2>1, <3>1 DEF SameDef
    <3>3. j \in Waits(w) <=> jobs[j].def.id = w.e.def.id
      BY <1>2, <2>1, <2>7, FoundAt DEF Waits, TableApart
    <3>4. work[l].e.def.id = w.e.def.id => l = k BY <2>1 DEF WorkApart
    <3>5. jobs[j].gen = w.e.gen => jobs[j].def = w.e.def BY <2>1 DEF SameDef
    <3> QED BY <3>1, <3>2, <3>3, <3>4, <3>5
  <2>8. \A j \in Waits(w) : j \in DOMAIN jobs /\ jobs[j].next = PENDING BY DEF Waits, IndexOf
  <2>9. NextFire(w) # PENDING
    <3>1. w \in WorkItem BY <1>2, WorkElement
    <3> QED BY <1>1, <3>1, NextFireType DEF Types
  <2>10. Pending'
    <3> SUFFICES ASSUME NEW i \in DOMAIN jobs', jobs'[i].next = PENDING
                 PROVE  \E l \in DOMAIN work' : work'[l].e.gen = jobs'[i].gen
      BY DEF Pending
    <3>1. PICK j \in DOMAIN jobs : NextSet(i, j, w) BY <1>4
    <3>2. jobs[j].next = PENDING /\ j \notin Waits(w) /\ jobs'[i].gen = jobs[j].gen
      BY <1>10, <2>9, <3>1 DEF NextSet
    <3>3. PICK l \in DOMAIN work : work[l].e.gen = jobs[j].gen BY <2>1, <3>2 DEF Pending
    <3>4. l # k BY <2>7, <3>2, <3>3
    <3> QED BY <1>5, <3>2, <3>3, <3>4
  <2>11. Spent'
    <3> SUFFICES ASSUME NEW i \in DOMAIN jobs', jobs'[i].def.kind = "once", jobs'[i].gen \notin excused,
                        \/ runsOf[jobs'[i].gen] > 0
                        \/ \E l \in DOMAIN work \ {k} : work[l].e.gen = jobs'[i].gen /\ work[l].fire
                 PROVE  jobs'[i].next \in {PENDING, DONE} /\ jobs'[i].runs > 0
      BY <1>3, <1>5 DEF Spent, Firing
    <3>1. PICK j \in DOMAIN jobs : NextSet(i, j, w) BY <1>4
    <3>2. jobs[j].def.kind = "once" /\ jobs[j].gen \notin excused /\ jobs'[i].gen = jobs[j].gen
          /\ jobs'[i].runs = jobs[j].runs
      BY <3>1 DEF NextSet
    <3>3. runsOf[jobs[j].gen] > 0 \/ Firing(jobs[j].gen) BY <3>2 DEF Firing
    <3>4. jobs[j].next \in {PENDING, DONE} /\ jobs[j].runs > 0 BY <2>2, <3>2, <3>3 DEF Spent
    <3>5. CASE jobs'[i].next = jobs[j].next BY <3>2, <3>4, <3>5
    <3>6. CASE j \in Waits(w) /\ jobs'[i].next = NextFire(w)
      <4>1. jobs[j].gen = w.e.gen BY <2>7, <2>8, <3>6
      <4>2. \A l \in DOMAIN work \ {k} : work[l].e.gen # w.e.gen BY <2>1 DEF WorkApart
      <4>3. runsOf[w.e.gen] > 0 BY <3>2, <4>1, <4>2
      <4>4. w.e.def = jobs[j].def BY <2>1, <4>1 DEF SameDef
      <4>5. w.last BY <2>2, <3>2, <4>1, <4>3, <4>4 DEF LastRun
      <4>6. NextFire(w) = DONE BY <4>5 DEF NextFire
      <4> QED BY <3>2, <3>4, <3>6, <4>6
    <3> QED BY <3>1, <3>5, <3>6 DEF NextSet
  <2> QED BY <1>4, <1>8, <2>1, <2>3, <2>4, <2>5, <2>6, <2>10, <2>11 DEF Inv, Apart, Once
<1> QED BY <1>9, <1>10 DEF Inv

(***************************************************************************)
(* An added definition is new, and its id is either that of the entry it   *)
(* replaces or no entry's.                                                 *)
(***************************************************************************)
LEMMA DefType ==
  ASSUME NEW d \in Definition, d.kind = "cron" => d.every > 0, NEW id \in Int, id # NoId
  PROVE  [d EXCEPT !.id = id] \in GoodDef /\ [d EXCEPT !.id = id].id = id
BY DEF Definition, GoodDef

LEMMA JobType ==
  ASSUME NEW d \in GoodDef, NEW g \in Nat, NEW t \in Int
  PROVE  LET e == [def |-> d, gen |-> g, enabled |-> TRUE, paused |-> FALSE, runs |-> 0, next |-> t]
         IN  e \in Job /\ e.def = d /\ e.gen = g /\ e.next = t
<1> HIDE DEF GoodDef
<1> QED BY DEF Job

LEMMA Added ==
  ASSUME Types, NEW d \in Definitions, AddJob(d)
  PROVE  \E pos \in Nat \ {0}, e \in Job :
           /\ e.gen = gens + 1 /\ e.next # PENDING
           /\ jobs' \in Seq(Job) /\ pos \in DOMAIN jobs' /\ jobs'[pos] = e
           /\ \A l \in DOMAIN jobs' : l # pos => l \in DOMAIN jobs /\ jobs'[l] = jobs[l]
           /\ ~clash' /\ IdsApart(jobs) => \A l \in DOMAIN jobs : l # pos => jobs[l].def.id # e.def.id
<1> DEFINE pos == IF IndexOf(d.id) = {} THEN Len(jobs) + 1 ELSE CHOOSE i \in IndexOf(d.id) : TRUE
           id == IF d.id = NoId THEN pos - 1 ELSE d.id
           t  == CASE d.kind = "on_event" -> DONE
                   [] clock.valid -> Arm(d, clock.now)
                   [] OTHER -> ARM
           f  == [d EXCEPT !.id = id]
           e  == [def |-> f, gen |-> gens + 1, enabled |-> TRUE, paused |-> FALSE, runs |-> 0, next |-> t]
<1>1. JobsOK /\ ClockOK /\ CountOK BY DEF Types
<1>2. /\ Len(jobs) \in Nat /\ DOMAIN jobs = 1..Len(jobs)
      /\ \A i \in DOMAIN jobs : jobs[i] \in Job /\ jobs[i].def \in GoodDef
  <2> HIDE DEF Job, GoodDef
  <2> QED BY <1>1, JobElement
<1>3. jobs' = Stored(pos, e) /\ clash' = (clash \/ (d.id = NoId /\ IndexOf(id) # {})) BY DEF AddJob
<1>4. d \in Definition /\ (d.kind = "cron" => d.every > 0) BY DEF SchedulerAssumption
<1>5. \A i \in DOMAIN jobs : jobs[i].def.id # NoId BY <1>2 DEF GoodDef
<1>6. IndexOf(d.id) \subseteq DOMAIN jobs /\ \A i \in IndexOf(d.id) : jobs[i].def.id = d.id BY DEF IndexOf
<1>7. \/ pos = Len(jobs) + 1 /\ IndexOf(d.id) = {}
      \/ pos \in IndexOf(d.id) /\ d.id # NoId
  BY <1>5, <1>6
<1>8. pos \in Nat \ {0} BY <1>2, <1>6, <1>7
<1> HIDE DEF pos
<1>9. id \in Int /\ id # NoId BY <1>4, <1>8 DEF NoId, Definition
<1>10. f \in GoodDef /\ f.id = id
  <2> HIDE DEF id
  <2> QED BY <1>4, <1>9, DefType
<1>11. t \in Int /\ t # PENDING
  <2>1. Arm(d, clock.now) \in Int /\ Arm(d, clock.now) # PENDING BY <1>1, <1>4, ArmType DEF ClockOK
  <2>2. t \in {DONE, Arm(d, clock.now), ARM} OBVIOUS
  <2> HIDE DEF t
  <2> QED BY <2>1, <2>2 DEF DONE, ARM, PENDING
<1> HIDE DEF t, f
<1>12. e \in Job /\ e.def = f /\ e.gen = gens + 1 /\ e.next = t
  <2>1. gens + 1 \in Nat BY <1>1 DEF CountOK
  <2> QED BY <1>10, <1>11, <2>1, JobType
<1> HIDE DEF e
<1>13. /\ jobs' \in Seq(Job) /\ pos \in DOMAIN jobs' /\ jobs'[pos] = e
       /\ \A l \in DOMAIN jobs' : l # pos => l \in DOMAIN jobs /\ jobs'[l] = jobs[l]
  <2> HIDE DEF Job
  <2>1. jobs \in Seq(Job) BY <1>1 DEF JobsOK
  <2>2. CASE pos \in DOMAIN jobs
    <3>1. jobs' = [jobs EXCEPT ![pos] = e] BY <1>3, <2>2 DEF Stored
    <3> QED BY <1>12, <2>1, <2>2, <3>1
  <2>3. CASE pos \notin DOMAIN jobs
    <3>1. jobs' = Append(jobs, e) BY <1>3, <2>3 DEF Stored
    <3>2. pos = Len(jobs) + 1 BY <1>6, <1>7, <2>3
    <3> QED BY <1>2, <1>12, <2>1, <3>1, <3>2
  <2> QED BY <2>2, <2>3
<1>14. ASSUME ~clash', IdsApart(jobs), NEW l \in DOMAIN jobs, l # pos PROVE jobs[l].def.id # id
  <2>1. CASE d.id = NoId
    <3>1. IndexOf(id) = {} BY <1>3, <1>14, <2>1
    <3> QED BY <1>1, <1>14, <3>1, FoundAt
  <2>2. CASE d.id # NoId
    <3>1. id = d.id BY <2>2
    <3> QED BY <1>1, <1>7, <1>14, <3>1, FoundAt
  <2> QED BY <2>1, <2>2
<1> QED BY <1>8, <1>10, <1>11, <1>12, <1>13, <1>14

LEMMA AddStep == ASSUME Inv, NEW d \in Definitions, AddJob(d) PROVE Inv'
<1>1. Types BY DEF Inv
<1>2. JobsOK /\ WorkOK /\ DefsOK /\ CountOK /\ RunsOK BY <1>1 DEF Types
<1>3. /\ gens' = gens + 1 /\ calls' = calls + 1 /\ calls < MaxCalls /\ saving' = <<"defs", "state">>
      /\ UNCHANGED work /\ UNCHANGED <<asof, flush>> /\ UNCHANGED disk /\ UNCHANGED clock
      /\ UNCHANGED runsOf /\ UNCHANGED excused /\ (clash => clash')
  BY DEF AddJob, Called, polling
<1>4. PICK pos \in Nat \ {0}, e \in Job :
           /\ e.gen = gens + 1 /\ e.next # PENDING
           /\ jobs' \in Seq(Job) /\ pos \in DOMAIN jobs' /\ jobs'[pos] = e
           /\ \A l \in DOMAIN jobs' : l # pos => l \in DOMAIN jobs /\ jobs'[l] = jobs[l]
           /\ ~clash' /\ IdsApart(jobs) => \A l \in DOMAIN jobs : l # pos => jobs[l].def.id # e.def.id
  BY <1>1, Added
<1>5. 1..gens \subseteq 1..gens' /\ gens + 1 \in 1..MaxCalls /\ gens + 1 \in 1..gens' /\ gens + 1 \notin 1..gens
  BY <1>2, <1>3 DEF CountOK
<1>6. JobsOK'
  <2>1. ASSUME NEW l \in DOMAIN jobs' PROVE jobs'[l].gen \in 1..gens'
    BY <1>2, <1>4, <1>5 DEF JobsOK
  <2> QED BY <1>4, <2>1 DEF JobsOK
<1>7. Types'
  <2>1. WorkOK' BY <1>2, <1>3, <1>5 DEF WorkOK
  <2>2. DefsOK' BY <1>2, <1>3, <1>5 DEF DefsOK
  <2>3. PollOK'
    <3>1. saving' \in Seq(Files) BY <1>3 DEF Files
    <3> QED BY <1>1, <1>3, <3>1 DEF Types, PollOK
  <2>4. CountOK' BY <1>2, <1>3 DEF CountOK
  <2>5. RunsOK' BY <1>2, <1>3 DEF RunsOK, CountOK
  <2>6. StateOK' /\ ClockOK' BY <1>1, <1>3, FrameTypes DEF Types
  <2> QED BY <1>6, <2>1, <2>2, <2>3, <2>4, <2>5, <2>6 DEF Types
<1>8. CASE clash' BY <1>7, <1>8 DEF Inv
<1>9. CASE ~clash'
  <2>1. Apart /\ Once BY <1>3, <1>9 DEF Inv
  <2>2. TableApart /\ FileApart /\ WorkApart /\ SameDef /\ Pending BY <2>1 DEF Apart
  <2>3. AtMostOnce /\ Spent /\ LastRun BY <2>1 DEF Once
  <2>4. FileApart' /\ WorkApart' BY <1>3, <2>2, FrameApart
  <2>5. AtMostOnce' /\ LastRun' BY <1>3, <2>3, FrameOnce
  <2>6. \A l \in DOMAIN jobs : jobs[l].gen \in 1..gens BY <1>2 DEF JobsOK
  <2>7. \A k \in DOMAIN work : work[k].e.gen \in 1..gens BY <1>2 DEF WorkOK
  <2>8. TableApart'
    <3>1. IdsApart(jobs)' BY <1>4, <1>9, <2>2 DEF IdsApart, TableApart
    <3>2. GensApart(jobs)' BY <1>4, <1>5, <2>2, <2>6 DEF GensApart, TableApart
    <3> QED BY <3>1, <3>2 DEF TableApart
  <2>9. SameDef' BY <1>3, <1>4, <1>5, <2>2, <2>7 DEF SameDef
  <2>10. Pending' BY <1>3, <1>4, <2>2 DEF Pending
  <2>11. Spent'
    <3> SUFFICES ASSUME NEW i \in DOMAIN jobs', jobs'[i].def.kind = "once", jobs'[i].gen \notin excused,
                        runsOf[jobs'[i].gen] > 0
                          \/ \E k \in DOMAIN work : work[k].e.gen = jobs'[i].gen /\ work[k].fire
                 PROVE  jobs'[i].next \in {PENDING, DONE} /\ jobs'[i].runs > 0
      BY <1>3 DEF Spent, Firing
    <3>1. CASE i = pos
      <4>1. runsOf[gens + 1] = 0 BY <1>2, <1>5 DEF RunsOK, CountOK
      <4>2. \A k \in DOMAIN work : work[k].e.gen # gens + 1 BY <1>5, <2>7
      <4> QED BY <1>4, <3>1, <4>1, <4>2
    <3>2. CASE i # pos BY <1>4, <2>3, <3>2 DEF Spent, Firing
    <3> QED BY <3>1, <3>2
  <2> QED BY <1>7, <2>4, <2>5, <2>8, <2>9, <2>10, <2>11 DEF Inv, Apart, Once
<1> QED BY <1>8, <1>9

(***************************************************************************)
(* Power is lost: the boot loads what the files hold.                      *)
(***************************************************************************)
LEMMA RunsType ==
  ASSUME NEW s, Readable(s) \in Seq(SavedRuns), NEW id
  PROVE  RunsIn(s, id) \in Nat
<1> DEFINE of   == {i \in DOMAIN Readable(s) : s[i].id = id}
           last == {i \in of : \A j \in of : j <= i}
<1>1. CASE last = {} BY <1>1 DEF RunsIn
<1>2. CASE last # {}
  <2> DEFINE i == CHOOSE i \in last : TRUE
  <2>1. i \in last BY <1>2
  <2>2. RunsIn(s, id) = s[i].runs BY <1>2 DEF RunsIn
  <2> HIDE DEF i
  <2>3. i \in DOMAIN Readable(s) BY <2>1
  <2>4. Readable(s) = s
    <3>1. Readable(s) # <<>> BY <2>3
    <3> QED BY <3>1 DEF Readable
  <2>5. s[i] \in SavedRuns
    <3> HIDE DEF SavedRuns
    <3> QED BY <2>3, <2>4
  <2>6. s[i].runs \in Nat BY <2>5 DEF SavedRuns
  <2> QED BY <2>2, <2>6
<1> QED BY <1>1, <1>2

LEMMA LoadedType ==
  ASSUME NEW d, Readable(d["defs"]) \in Seq(SavedDef), Readable(d["state"]) \in Seq(SavedRuns)
  PROVE  /\ Loaded(d) \in Seq(Job) /\ DOMAIN Loaded(d) = DOMAIN Readable(d["defs"])
         /\ \A i \in DOMAIN Loaded(d) :
              /\ Loaded(d)[i].def = Readable(d["defs"])[i].def
              /\ Loaded(d)[i].gen = Readable(d["defs"])[i].gen
              /\ Loaded(d)[i].next # PENDING
              /\ Loaded(d)[i].def.kind = "once" /\ Loaded(d)[i].runs > 0 => Loaded(d)[i].next = DONE
<1> DEFINE s == Readable(d["defs"])
           r(i) == IF \A j \in 1..(i - 1) : s[j].def.id # s[i].def.id THEN RunsIn(d["state"], s[i].def.id) ELSE 0
           a(i) == Armed(s[i].def, r(i))
           e(i) == [def |-> s[i].def, gen |-> s[i].gen, enabled |-> s[i].enabled, paused |-> FALSE, runs |-> r(i), next |-> a(i)]
<1>1. Loaded(d) = [i \in DOMAIN s |-> e(i)] BY DEF Loaded
<1>2. \A i \in DOMAIN s : r(i) \in Nat BY RunsType
<1>3. \A i \in DOMAIN s : a(i) \in {DONE, ARM} /\ (s[i].def.kind = "once" /\ r(i) > 0 => a(i) = DONE)
  BY DEF Armed
<1> HIDE DEF r, a
<1>4. s \in Seq(SavedDef) OBVIOUS
<1> HIDE DEF s
<1>5. Len(s) \in Nat /\ DOMAIN s = 1..Len(s) BY <1>4
<1>6. \A i \in DOMAIN s : s[i].def \in GoodDef /\ s[i].gen \in Nat /\ s[i].enabled \in BOOLEAN
  <2>1. \A i \in DOMAIN s : s[i] \in SavedDef
    <3> HIDE DEF SavedDef
    <3> QED BY <1>4
  <2> HIDE DEF GoodDef
  <2> QED BY <2>1 DEF SavedDef
<1>7. \A i \in DOMAIN s : e(i) \in Job
  <2> HIDE DEF GoodDef
  <2> QED BY <1>2, <1>3, <1>6 DEF Job, DONE, ARM
<1>8. \A i \in DOMAIN s : e(i).def = s[i].def /\ e(i).gen = s[i].gen /\ e(i).runs = r(i) /\ e(i).next = a(i)
  OBVIOUS
<1> HIDE DEF e
<1>9. Loaded(d) \in Seq(Job)
  <2> HIDE DEF Job
  <2>1. Loaded(d) \in [1..Len(s) -> Job] BY <1>1, <1>5, <1>7
  <2> QED BY <1>5, <2>1
<1>10. DOMAIN Loaded(d) = DOMAIN s /\ \A i \in DOMAIN s : Loaded(d)[i] = e(i) BY <1>1
<1>11. \A i \in DOMAIN s : a(i) # PENDING BY <1>3 DEF DONE, ARM, PENDING
<1> QED BY <1>3, <1>8, <1>9, <1>10, <1>11 DEF s

LEMMA PowerLossStep == ASSUME Inv, PowerLoss PROVE Inv'
<1> DEFINE T == Loaded(disk')
           h == Head(saving)
<1>1. Types BY DEF Inv
<1>2. DefsOK /\ StateOK /\ PollOK /\ CountOK /\ RunsOK /\ ClockOK BY <1>1 DEF Types
<1>3. /\ disk' = disk \/ (saving # <<>> /\ disk' = [disk EXCEPT ![h] = Torn])
      /\ jobs' = T /\ saving' = (IF disk'["defs"] = Torn THEN <<>> ELSE <<"defs">>)
      /\ work' = <<>> /\ asof' = 0 /\ flush' = <<>>
      /\ clock' = [clock EXCEPT !.valid = FALSE]
      /\ excused' = excused \cup Misreported(disk')
      /\ UNCHANGED gens /\ UNCHANGED runsOf /\ UNCHANGED clash /\ UNCHANGED calls
  BY DEF PowerLoss
<1>4. /\ DOMAIN disk' = Files
      /\ Readable(disk'["defs"]) = Readable(disk["defs"]) \/ Readable(disk'["defs"]) = <<>>
      /\ Readable(disk'["state"]) = Readable(disk["state"]) \/ Readable(disk'["state"]) = <<>>
  <2>1. CASE disk' = disk BY <1>2, <2>1 DEF StateOK
  <2>2. CASE saving # <<>> /\ disk' = [disk EXCEPT ![h] = Torn]
    <3>1. h \in Files BY <1>2, <2>2 DEF PollOK
    <3> HIDE DEF h
    <3>2. DOMAIN disk' = Files /\ \A x \in Files : disk'[x] = disk[x] \/ disk'[x] = Torn
      BY <1>2, <2>2, <3>1 DEF StateOK
    <3> QED BY <3>2 DEF Readable, Files
  <2> QED BY <1>3, <2>1, <2>2
<1>5. /\ Readable(disk'["defs"]) \in Seq(SavedDef) /\ Readable(disk'["state"]) \in Seq(SavedRuns)
      /\ \A i \in DOMAIN Readable(disk'["defs"]) : Readable(disk'["defs"])[i].gen \in 1..gens
  <2> DEFINE none == <<>>
  <2>1. none \in Seq(SavedDef) /\ none \in Seq(SavedRuns) /\ DOMAIN none = {} OBVIOUS
  <2>2. /\ Readable(disk'["defs"]) = Readable(disk["defs"]) \/ Readable(disk'["defs"]) = none
        /\ Readable(disk'["state"]) = Readable(disk["state"]) \/ Readable(disk'["state"]) = none
    BY <1>4
  <2> HIDE DEF none, SavedDef, SavedRuns
  <2> QED BY <1>2, <2>1, <2>2 DEF DefsOK, StateOK
<1>6. DefsOK' /\ StateOK' BY <1>3, <1>4, <1>5 DEF DefsOK, StateOK
<1>7. /\ T \in Seq(Job) /\ DOMAIN T = DOMAIN Readable(disk'["defs"])
      /\ \A i \in DOMAIN T :
           /\ T[i].def = Readable(disk'["defs"])[i].def
           /\ T[i].gen = Readable(disk'["defs"])[i].gen
           /\ T[i].next # PENDING
           /\ T[i].def.kind = "once" /\ T[i].runs > 0 => T[i].next = DONE
  BY <1>5, LoadedType
<1>8. \A i \in DOMAIN T : T[i].def.kind = "once" /\ T[i].gen \notin Misreported(disk')
        => (runsOf[T[i].gen] > 0 <=> T[i].runs > 0)
  BY DEF Misreported
<1> HIDE DEF T
<1>9. JobsOK'
  <2>1. \A i \in DOMAIN jobs' : jobs'[i].gen \in 1..gens' BY <1>3, <1>5, <1>7
  <2> QED BY <1>3, <1>7, <2>1 DEF JobsOK
<1>10. Types'
  <2>1. WorkOK' BY <1>3 DEF WorkOK
  <2>2. PollOK'
    <3>1. <<"defs">> \in Seq(Files) BY DEF Files
    <3>2. saving' = <<>> \/ saving' = <<"defs">> BY <1>3
    <3>3. CASE saving' = <<>> BY <1>3, <3>3 DEF PollOK
    <3>4. CASE saving' = <<"defs">> BY <1>3, <3>1, <3>4 DEF PollOK
    <3> QED BY <3>2, <3>3, <3>4
  <2>3. ClockOK' BY <1>2, <1>3 DEF ClockOK
  <2>4. CountOK' /\ RunsOK' BY <1>2, <1>3, FrameTypes
  <2> QED BY <1>6, <1>9, <2>1, <2>2, <2>3, <2>4 DEF Types
<1>11. CASE clash BY <1>3, <1>10, <1>11 DEF Inv
<1>12. CASE Apart /\ Once
  <2>1. FileApart BY <1>12 DEF Apart
  <2>2. AtMostOnce BY <1>12 DEF Once
  <2>3. FileApart'
    <3>1. CASE Readable(disk'["defs"]) = Readable(disk["defs"]) BY <2>1, <3>1 DEF FileApart, IdsApart, GensApart
    <3>2. CASE Readable(disk'["defs"]) = <<>> BY <3>2 DEF FileApart, IdsApart, GensApart
    <3> QED BY <1>4, <3>1, <3>2
  <2>4. TableApart' BY <1>3, <1>7, <2>3 DEF FileApart, TableApart, IdsApart, GensApart
  <2>5. WorkApart' /\ SameDef' /\ LastRun' BY <1>3 DEF WorkApart, SameDef, LastRun
  <2>6. Pending' BY <1>3, <1>7 DEF Pending
  <2>7. AtMostOnce' BY <1>3, <2>2 DEF AtMostOnce
  <2>8. Spent' BY <1>3, <1>7, <1>8 DEF Spent, Firing
  <2> QED BY <1>10, <2>3, <2>4, <2>5, <2>6, <2>7, <2>8 DEF Inv, Apart, Once
<1> QED BY <1>11, <1>12 DEF Inv

(***************************************************************************)
(* The theorems.                                                           *)
(***************************************************************************)
LEMMA NextStep == ASSUME Inv, [Next]_svars PROVE Inv'
<1>1. ASSUME NEW d \in Definitions, AddJob(d) PROVE Inv' BY <1>1, AddStep
<1>2. CASE FireEvent BY <1>2, FireEventStep
<1>3. ASSUME NEW i \in DOMAIN jobs, RemoveJob(i) PROVE Inv' BY <1>3, RemoveStep
<1>4. ASSUME NEW i \in DOMAIN jobs, EnableJob(i) \/ DisableJob(i) \/ PauseJob(i) \/ ResumeJob(i) PROVE Inv'
  BY <1>4, FlagStep
<1>5. CASE Save BY <1>5, SaveStep
<1>6. CASE Scan BY <1>6, ScanStep
<1>7. CASE Flush BY <1>7, FlushStep
<1>8. ASSUME NEW k \in DOMAIN work, Execute(k) PROVE Inv' BY <1>8, ExecuteStep
<1>9. ASSUME NEW k \in DOMAIN work, WriteBack(k) PROVE Inv' BY <1>9, WriteBackStep
<1>10. CASE Tick \/ Sync BY <1>10, TickStep
<1>11. CASE PowerLoss BY <1>11, PowerLossStep
<1>12. CASE UNCHANGED svars
  <2>1. /\ UNCHANGED <<jobs, work, history>> /\ UNCHANGED disk /\ UNCHANGED clock /\ UNCHANGED <<gens, calls>>
        /\ UNCHANGED <<asof, flush, saving>>
    BY <1>12 DEF svars, polling, history
  <2>2. Types BY DEF Inv
  <2>3. DefsOK' /\ StateOK' /\ ClockOK' /\ CountOK' BY <2>1, <2>2, FrameTypes DEF Types
  <2>4. PollOK' BY <2>1, <2>2 DEF Types, PollOK
  <2>5. FileApart /\ TableApart => FileApart' BY <2>1, FrameApart
  <2> QED BY <2>1, <2>3, <2>4, <2>5, FrameAll
<1> QED BY <1>1, <1>2, <1>3, <1>4, <1>5, <1>6, <1>7, <1>8, <1>9, <1>10, <1>11, <1>12 DEF Next, Call, Poll

LEMMA AlwaysInv == Spec => []Inv
<1>1. Init => Inv BY InvInit
<1>2. Inv /\ [Next]_svars => Inv' BY NextStep
<1> QED BY <1>1, <1>2, PTL DEF Spec

(* A once job is executed at most once, whatever calls change the table     *)
(* while the poll task is between its phases and whenever power is lost,   *)
(* unless the files misreport it or it is armed again (execute_action,     *)
(* cap_scheduler.c:672).                                                   *)
THEOREM OnceFiresOnce == Spec => []FiresOnce
<1>1. Inv => FiresOnce
  <2> SUFFICES ASSUME Inv, ~clash, NEW g \in 1..gens, g \notin excused PROVE runsOf[g] <= 1
    BY DEF FiresOnce
  <2>1. AtMostOnce /\ CountOK BY DEF Inv, Types, Once
  <2>2. g \in 1..MaxCalls BY <2>1 DEF CountOK
  <2> QED BY <2>1, <2>2 DEF AtMostOnce
<1> QED BY <1>1, AlwaysInv, PTL

(* An entry marked PENDING always has the work item that writes its next   *)
(* time back (scheduler_task, cap_scheduler.c:687).                        *)
THEOREM PendingAlwaysWork == Spec => []PendingIsWork
<1>1. Inv => PendingIsWork BY DEF Inv, Apart, Pending, PendingIsWork
<1> QED BY <1>1, AlwaysInv, PTL

(***************************************************************************)
(* The Wi-Fi manager.  A connection raises the flag, and while the flag is *)
(* up those that the notifier found, and those that registered since, are  *)
(* told: the flag is taken down whenever the callbacks are forgotten.      *)
(***************************************************************************)
SeenOK   == seen \in [told : SUBSET Callbacks, early : BOOLEAN, manual : Nat] /\ cbs \in SUBSET Callbacks
AllTold  == fired /\ ~seen.early => cbs \subseteq seen.told
Flagged  == state = "connected" => fired
WifiInv  == SeenOK /\ AllTold /\ Flagged

(* What a step does to the flag and to those told. *)
LEMMA FlagStays ==
  ASSUME WifiInv, UNCHANGED <<fired, cbs, seen>>, state' = "connected" => state = "connected"
  PROVE  WifiInv'
BY DEF WifiInv, SeenOK, AllTold, Flagged

LEMMA FlagFalls ==
  ASSUME WifiInv, Wifi!Forgotten, Wifi!Untold, UNCHANGED cbs, state' # "connected"
  PROVE  WifiInv'
BY DEF WifiInv, SeenOK, AllTold, Flagged, Wifi!Forgotten, Wifi!Untold

LEMMA FlagRises ==
  ASSUME WifiInv, NEW h \in {seen, [seen EXCEPT !.early = TRUE]}, Wifi!Notify(h), UNCHANGED cbs
  PROVE  WifiInv'
<1>1. h \in [told : SUBSET Callbacks, early : BOOLEAN, manual : Nat] /\ h.told = seen.told /\ (seen.early => h.early)
  BY DEF WifiInv, SeenOK
<1>2. fired' = TRUE /\ seen' = (IF fired THEN h ELSE [h EXCEPT !.told = cbs])
  BY DEF Wifi!Notify
<1>3. CASE fired
  BY <1>1, <1>2, <1>3 DEF WifiInv, SeenOK, AllTold, Flagged
<1>4. CASE ~fired
  <2>1. seen' \in [told : SUBSET Callbacks, early : BOOLEAN, manual : Nat] /\ seen'.told = cbs
    BY <1>1, <1>2, <1>4 DEF WifiInv, SeenOK
  <2> QED
    BY <1>2, <2>1 DEF WifiInv, SeenOK, AllTold, Flagged
<1> QED
  BY <1>3, <1>4

LEMMA Lost ==
  ASSUME WifiInv, Wifi!Disconnected, UNCHANGED cbs
  PROVE  WifiInv'
<1>1. state' # "connected"
  BY DEF Wifi!Disconnected, Wifi!Down
<1> QED
  BY <1>1, FlagFalls DEF Wifi!Disconnected

LEMMA WifiStep ==
  ASSUME WifiInv, [Wifi!Next]_wifivars
  PROVE  WifiInv'
<1> USE DEF Wifi!own
<1>1. ASSUME NEW cb \in Callbacks, Wifi!Register(cb) PROVE WifiInv'
  <2>1. cbs' \subseteq cbs \cup {cb} /\ cbs' \in SUBSET Callbacks /\ state' = state /\ fired' = fired
    BY <1>1 DEF Wifi!Register, WifiInv, SeenOK
  <2>2. CASE fired
    <3>1. seen' = [seen EXCEPT !.told = seen.told \cup {cb}]
      BY <1>1, <2>2 DEF Wifi!Register
    <3> QED
      BY <2>1, <3>1 DEF WifiInv, SeenOK, AllTold, Flagged
  <2>3. CASE ~fired
    <3>1. seen' = seen
      BY <1>1, <2>3 DEF Wifi!Register
    <3> QED
      BY <2>1, <2>3, <3>1 DEF WifiInv, SeenOK, AllTold, Flagged
  <2> QED
    BY <2>2, <2>3
<1>2. CASE Wifi!Environment \/ Wifi!ApBack \/ Wifi!DhcpAssigned \/ Wifi!Retries \/ Wifi!RetryJoins
  <2>1. CASE Wifi!ApFails \/ Wifi!LeaseLost \/ Wifi!ApBack \/ Wifi!Retries \/ Wifi!RetryJoins
    BY <2>1, FlagStays DEF Wifi!ApFails, Wifi!LeaseLost, Wifi!ApBack, Wifi!Retries, Wifi!RetryStarts, Wifi!RetryFails, Wifi!RetryJoins
  <2>2. CASE Wifi!LinkLost
    BY <2>2, Lost DEF Wifi!LinkLost
  <2>3. CASE Wifi!DhcpAssigned
    BY <2>3, FlagRises DEF Wifi!DhcpAssigned, Wifi!GotAddress
  <2> QED
    BY <1>2, <2>1, <2>2, <2>3 DEF Wifi!Environment
<1>3. CASE Wifi!Manual
  BY <1>3 DEF Wifi!Manual, WifiInv, SeenOK, AllTold, Flagged
<1>4. CASE Wifi!GraceOver
  BY <1>4, FlagStays DEF Wifi!GraceOver
<1>5. CASE Wifi!Manage \/ Wifi!RequestOk
  <2>1. CASE Wifi!StartProvisioning
    BY <2>1, FlagStays DEF Wifi!StartProvisioning
  <2>2. CASE Wifi!StartConnected \/ Wifi!Provisioned \/ Wifi!WatchReconnects \/ Wifi!WatchRequests
    BY <2>2, FlagStays DEF Wifi!StartConnected, Wifi!Provisioned, Wifi!WatchReconnects, Wifi!WatchRequests
  <2>3. CASE Wifi!StartTells
    BY <2>3, FlagRises DEF Wifi!StartTells
  <2>4. CASE Wifi!StartTimeout
    <3>1. CASE net.link = "down"
      BY <2>4, <3>1, FlagStays DEF Wifi!StartTimeout
    <3>2. CASE net.link # "down"
      BY <2>4, <3>2, Lost DEF Wifi!StartTimeout
    <3> QED
      BY <3>1, <3>2
  <2>5. CASE Wifi!RequestFails
    <3>1. state' = "connected" => state = "connected"
      BY <2>5 DEF Wifi!RequestFails, Wifi!Down
    <3> QED
      BY <2>5, <3>1, FlagStays DEF Wifi!RequestFails
  <2>6. CASE Wifi!RequestOk
    BY <2>6, FlagRises DEF Wifi!RequestOk, Wifi!GotAddress
  <2> QED
    BY <1>5, <2>1, <2>2, <2>3, <2>4, <2>5, <2>6 DEF Wifi!Manage
<1>6. ASSUME NEW t \in Wifi!Tasks, Wifi!Connect(t) \/ Wifi!Joins(t) PROVE WifiInv'
  <2>1. CASE Wifi!Attempt(t)
    BY <2>1, FlagStays DEF Wifi!Attempt
  <2>2. CASE Wifi!JoinFails(t)
    <3>1. state' = "connected" => state = "connected"
      BY <2>2 DEF Wifi!JoinFails, Wifi!GivesUp, Wifi!Down
    <3> QED
      BY <2>2, <3>1, FlagStays DEF Wifi!JoinFails
  <2>3. CASE Wifi!Leased(t)
    BY <2>3, FlagStays DEF Wifi!Leased
  <2>4. CASE Wifi!LeaseTimeout(t)
    <3>1. state' # "connected" /\ UNCHANGED cbs
      BY <2>4 DEF Wifi!LeaseTimeout, Wifi!GivesUp, Wifi!Down
    <3>2. CASE net.link = "down"
      BY <2>4, <3>1, <3>2, FlagStays DEF Wifi!LeaseTimeout
    <3>3. CASE net.link # "down"
      BY <2>4, <3>1, <3>3, FlagFalls DEF Wifi!LeaseTimeout
    <3> QED
      BY <3>2, <3>3
  <2>5. CASE Wifi!Joins(t)
    <3>1. CASE net.link = "down"
      BY <2>5, <3>1, FlagStays DEF Wifi!Joins
    <3>2. CASE net.link # "down"
      BY <2>5, <3>2, Lost DEF Wifi!Joins
    <3> QED
      BY <3>1, <3>2
  <2> QED
    BY <1>6, <2>1, <2>2, <2>3, <2>4, <2>5 DEF Wifi!Connect
<1>7. CASE UNCHANGED wifivars
  BY <1>7, FlagStays DEF wifivars
<1> QED
  BY <1>1, <1>2, <1>3, <1>4, <1>5, <1>6, <1>7 DEF Wifi!Next

(* Whatever drops, leases, attempts and tasks come in whatever order, each *)
(* callback of the table is told of each connection, however late it       *)
(* registers (claw_wifi_mgr.c), but for the one that follows a connection  *)
(* lost while the boot was about to tell of it.                            *)
THEOREM ConnectionsAreTold == ServicesSpec => []ConnectionTold
<1>1. ServicesInit => WifiInv
  BY DEF ServicesInit, Wifi!Init, WifiInv, SeenOK, AllTold, Flagged
<1>2. WifiInv /\ [ServicesNext]_allvars => WifiInv'
  <2> SUFFICES ASSUME WifiInv, [ServicesNext]_allvars
               PROVE  WifiInv'
    OBVIOUS
  <2>1. [Wifi!Next]_wifivars
    BY DEF ServicesNext, RunsScheduler, RunsSends, RunsWifi, RunsStream, allvars
  <2> QED
    BY <2>1, WifiStep
<1>3. WifiInv => ConnectionTold
  BY DEF WifiInv, AllTold, Flagged, ConnectionTold, Wifi!ConnectionTold
<1> QED
  BY <1>1, <1>2, <1>3, PTL DEF ServicesSpec

HIDE SchedulerAssumption

(***************************************************************************)
(* The reply of the model provider. The argument has five parts: what the  *)
(* server sends, place by place (a stream in lines, a body in chunks); the *)
(* size of a chunk is read back; the rounds of the three decoders          *)
(* (sse_acc_feed_lines, sse_acc_feed, http_response_decode_chunked) keep   *)
(* what was decoded at a place of the body; what a header says is read of  *)
(* it alone; and the invariant of a connection, kept by every step.        *)
(***************************************************************************)

Symbols == Stream!Symbols

(* What the server may answer.                                             *)
LEMMA ReplyType ==
  ASSUME NEW r \in Stream!ServerReplies
  PROVE  /\ r.stream \in BOOLEAN /\ r.error \in BOOLEAN /\ r.framing \in {"chunked", "length", "close"}
         /\ r.pieces \in Answers /\ r.pieces \in Seq(Stream!Deltas)
         /\ r.stream => r.framing # "length"
<1>1. Answers \subseteq Seq(Stream!Deltas)
  BY ServicesAssumption DEF Stream!StreamAssumption
<1> QED
  BY <1>1 DEF Stream!ServerReplies, Stream!Framings

(* What is a word of the protocol is not a piece, and no digit is either.  *)
LEMMA Kinds ==
  /\ \A w \in Stream!Words : w \in Symbols
  /\ \A d \in Stream!Deltas : d \in Symbols /\ d \notin Stream!Words
  /\ \A i \in 1..Len(Digits) : Digits[i] \in Symbols /\ Digits[i] \notin Stream!Words
<1>1. Digits \in Seq(Range(Digits)) /\ (Stream!Deltas \cup Range(Digits)) \cap Stream!Words = {}
  BY ServicesAssumption DEF Stream!StreamAssumption, Stream!Range, Range
<1>2. \A i \in 1..Len(Digits) : Digits[i] \in Range(Digits)
  BY <1>1
<1>3. Symbols = Stream!Words \cup Stream!Deltas \cup Range(Digits)
  BY DEF Symbols, Stream!Symbols, Stream!Range, Range
<1> QED
  BY <1>1, <1>2, <1>3

(* An event of one word, by its places.                                    *)
LEMMA EventPlaces ==
  ASSUME NEW d \in Symbols
  PROVE  LET e == Stream!Event(<<d>>)
         IN  e \in Seq(Symbols) /\ Len(e) = 4 /\ e[1] = "data:" /\ e[2] = d /\ e[3] = "nl" /\ e[4] = "nl"
<1> DEFINE x == <<"data:">>
           y == <<d>>
           z == <<"nl", "nl">>
<1>1. x \in Seq(Symbols) /\ y \in Seq(Symbols) /\ z \in Seq(Symbols)
  <2>1. "data:" \in Symbols /\ "nl" \in Symbols
    BY Kinds DEF Stream!Words
  <2> QED
    BY <2>1
<1>2. Len(x) = 1 /\ Len(y) = 1 /\ Len(z) = 2 /\ x[1] = "data:" /\ y[1] = d /\ z[1] = "nl" /\ z[2] = "nl"
  OBVIOUS
<1>3. Stream!Event(<<d>>) = (x \o y) \o z
  BY DEF Stream!Event
<1> HIDE DEF x, y, z
<1>4. x \o y \in Seq(Symbols) /\ Len(x \o y) = 2 /\ (x \o y)[1] = "data:" /\ (x \o y)[2] = d
  BY <1>1, <1>2, ConcatProperties
<1> DEFINE u == x \o y
<1> HIDE DEF u
<1>5. u \in Seq(Symbols) /\ Len(u) = 2 /\ u[1] = "data:" /\ u[2] = d
  BY <1>4 DEF u
<1>6. /\ u \o z \in Seq(Symbols) /\ Len(u \o z) = 4
      /\ \A i \in 1..4 : (u \o z)[i] = IF i <= 2 THEN u[i] ELSE z[i - 2]
  <2>1. /\ u \o z \in Seq(Symbols) /\ Len(u \o z) = Len(u) + Len(z)
        /\ \A i \in 1..(Len(u) + Len(z)) : (u \o z)[i] = IF i <= Len(u) THEN u[i] ELSE z[i - Len(u)]
    BY <1>1, <1>5, ConcatProperties
  <2> QED
    BY <1>2, <1>5, <2>1
<1> DEFINE v == u \o z
<1> HIDE DEF v
<1>7. v \in Seq(Symbols) /\ Len(v) = 4 /\ v[1] = u[1] /\ v[2] = u[2] /\ v[3] = z[1] /\ v[4] = z[2]
  BY <1>6 DEF v
<1> QED
  BY <1>2, <1>3, <1>5, <1>7 DEF u, v

(* The body of a stream: an event of four symbols for each piece, then the *)
(* end of the answer or the error.                                         *)
StreamLen(r) == 4 * Len(r.pieces) + (IF r.error THEN 7 ELSE 4)

(* What the body of a stream is, place by place.                           *)
LEMMA StreamBody ==
  ASSUME NEW r \in Stream!ServerReplies, r.stream
  PROVE  LET B == Stream!BodyOf(r)
             K == Len(r.pieces)
         IN  /\ B \in Seq(Symbols) /\ Len(B) = StreamLen(r) /\ K \in Nat
             /\ \A i \in 0..(K - 1) : /\ B[4 * i + 1] = "data:" /\ B[4 * i + 2] = r.pieces[i + 1]
                                     /\ B[4 * i + 3] = "nl" /\ B[4 * i + 4] = "nl"
             /\ ~r.error => /\ B[4 * K + 1] = "data:" /\ B[4 * K + 2] = "[DONE]"
                            /\ B[4 * K + 3] = "nl" /\ B[4 * K + 4] = "nl"
             /\ r.error => /\ B[4 * K + 1] = "event:" /\ B[4 * K + 2] = "error" /\ B[4 * K + 3] = "nl"
                           /\ B[4 * K + 4] = "data:" /\ B[4 * K + 5] = "error"
                           /\ B[4 * K + 6] = "nl" /\ B[4 * K + 7] = "nl"
<1> DEFINE B == Stream!BodyOf(r)
           K == Len(r.pieces)
           q == [i \in DOMAIN r.pieces |-> Stream!Event(<<r.pieces[i]>>)]
           f == FlattenSeq(q)
           h == <<"event:", "error", "nl">>
           e == Stream!Event(<<"error">>)
           d == Stream!Event(<<"[DONE]">>)
           z == IF r.error THEN h \o e ELSE d
<1>1. r.pieces \in Seq(Stream!Deltas) /\ K \in Nat /\ DOMAIN r.pieces = 1..K /\ r.error \in BOOLEAN
  BY ReplyType
<1>2. \A i \in 1..K : r.pieces[i] \in Symbols
  BY <1>1, Kinds
<1>3. B = f \o z
  <2>1. Stream!FlattenSeq(q) = FlattenSeq(q)
    BY DEF Stream!FlattenSeq, FlattenSeq
  <2> QED
    BY <2>1 DEF Stream!BodyOf
<1>4. q \in [1..K -> Seq(Symbols)] /\ \A i \in 1..K : q[i] = Stream!Event(<<r.pieces[i]>>)
  <2>1. \A i \in 1..K : Stream!Event(<<r.pieces[i]>>) \in Seq(Symbols)
    BY <1>2, EventPlaces
  <2> QED
    BY <1>1, <2>1
<1>5. \A i \in 1..K : /\ Len(q[i]) = 4 /\ q[i][1] = "data:" /\ q[i][2] = r.pieces[i]
                      /\ q[i][3] = "nl" /\ q[i][4] = "nl"
  BY <1>2, <1>4, EventPlaces
<1> HIDE DEF B, q
<1> HIDE DEF K
<1>6. f \in Seq(Symbols) /\ \E b \in [0..K -> Nat] : PartPlaces(f, q, K, b)
  BY <1>1, <1>4, Flattened
<1>7. PICK b \in [0..K -> Nat] : PartPlaces(f, q, K, b)
  BY <1>6
<1> HIDE DEF f
<1> USE DEF PartPlaces
<1>8. \A k \in 0..K : b[k] = 4 * k
  <2> DEFINE P == {k \in 0..K : b[k] = 4 * k}
  <2>1. 0 \in P
    BY <1>1, <1>7
  <2>2. ASSUME NEW k \in 1..K, k - 1 \in P PROVE k \in P
    <3>1. b[k] = b[k - 1] + 4 /\ b[k - 1] = 4 * (k - 1)
      BY <1>5, <1>7, <2>2
    <3> QED
      BY <3>1
  <2> HIDE DEF P
  <2>3. \A k \in 0..K : k \in P
    BY <1>1, <2>1, <2>2, EachStep
  <2> QED
    BY <2>3 DEF P
<1>9. ASSUME NEW i \in 0..(K - 1)
      PROVE  f[4 * i + 1] = "data:" /\ f[4 * i + 2] = r.pieces[i + 1] /\ f[4 * i + 3] = "nl" /\ f[4 * i + 4] = "nl"
  <2>1. i + 1 \in 1..K /\ i \in 0..K /\ (i + 1) - 1 = i
    BY <1>1
  <2>2. b[i] = 4 * i
    BY <1>8, <2>1
  <2>3. \A j \in 1..4 : f[b[(i + 1) - 1] + j] = q[i + 1][j]
    <3>1. Len(q[i + 1]) = 4
      BY <1>5, <2>1
    <3>2. \A j \in 1..Len(q[i + 1]) : f[b[(i + 1) - 1] + j] = q[i + 1][j]
      BY <1>7, <2>1
    <3> QED
      BY <3>1, <3>2
  <2>4. \A j \in 1..4 : f[4 * i + j] = q[i + 1][j]
    BY <2>1, <2>2, <2>3
  <2>5. /\ q[i + 1][1] = "data:" /\ q[i + 1][2] = r.pieces[i + 1]
        /\ q[i + 1][3] = "nl" /\ q[i + 1][4] = "nl"
    BY <1>5, <2>1
  <2> QED
    BY <2>4, <2>5
<1>10. Len(f) = 4 * K
  <2>1. K \in 0..K /\ Len(f) = b[K]
    BY <1>1, <1>7
  <2> QED
    BY <1>8, <2>1
<1>11. /\ e \in Seq(Symbols) /\ Len(e) = 4 /\ e[1] = "data:" /\ e[2] = "error" /\ e[3] = "nl" /\ e[4] = "nl"
       /\ d \in Seq(Symbols) /\ Len(d) = 4 /\ d[1] = "data:" /\ d[2] = "[DONE]" /\ d[3] = "nl" /\ d[4] = "nl"
  <2>1. "error" \in Symbols /\ "[DONE]" \in Symbols
    BY Kinds DEF Stream!Words
  <2> QED
    BY <2>1, EventPlaces
<1>12. h \in Seq(Symbols) /\ Len(h) = 3 /\ h[1] = "event:" /\ h[2] = "error" /\ h[3] = "nl"
  <2>1. "error" \in Symbols /\ "event:" \in Symbols /\ "nl" \in Symbols
    BY Kinds DEF Stream!Words
  <2> QED
    BY <2>1
<1> DEFINE g == h \o e
<1> HIDE DEF e, d, h
<1>13. /\ g \in Seq(Symbols) /\ Len(g) = 7
       /\ g[1] = "event:" /\ g[2] = "error" /\ g[3] = "nl"
       /\ g[4] = "data:" /\ g[5] = "error" /\ g[6] = "nl" /\ g[7] = "nl"
  <2>1. /\ g \in Seq(Symbols) /\ Len(g) = Len(h) + Len(e)
        /\ \A i \in 1..Len(h) : g[i] = h[i]
        /\ \A j \in 1..Len(e) : g[Len(h) + j] = e[j]
    <3>1. h \in Seq(Symbols) /\ e \in Seq(Symbols)
      BY <1>11, <1>12
    <3> QED
      BY <3>1, Joined
  <2> HIDE DEF g
  <2>2. g[1] = h[1] /\ g[2] = h[2] /\ g[3] = h[3] /\ g[3 + 1] = e[1] /\ g[3 + 2] = e[2] /\ g[3 + 3] = e[3] /\ g[3 + 4] = e[4]
    BY <1>11, <1>12, <2>1
  <2>3. Len(g) = 7
    BY <1>11, <1>12, <2>1
  <2> QED
    BY <1>11, <1>12, <2>1, <2>2, <2>3
<1> HIDE DEF g
<1>14. z \in Seq(Symbols) /\ Len(z) = (IF r.error THEN 7 ELSE 4) /\ (r.error => z = g) /\ (~r.error => z = d)
  <2>1. z = IF r.error THEN g ELSE d
    BY DEF g
  <2> HIDE DEF z
  <2> QED
    BY <1>1, <1>11, <1>13, <2>1
<1> HIDE DEF z
<1>15. /\ B \in Seq(Symbols) /\ Len(B) = 4 * K + Len(z)
       /\ \A i \in 1..(4 * K) : B[i] = f[i]
       /\ \A j \in 1..Len(z) : B[4 * K + j] = z[j]
  <2>1. /\ B \in Seq(Symbols) /\ Len(B) = Len(f) + Len(z)
        /\ \A i \in 1..Len(f) : B[i] = f[i]
        /\ \A j \in 1..Len(z) : B[Len(f) + j] = z[j]
    <3>1. f \in Seq(Symbols) /\ z \in Seq(Symbols) /\ B = f \o z
      BY <1>3, <1>6, <1>14
    <3> QED
      BY <3>1, Joined
  <2> QED
    BY <1>10, <2>1
<1>16. Len(B) = StreamLen(r)
  BY <1>14, <1>15 DEF StreamLen, K
<1>17. ASSUME NEW i \in 0..(K - 1)
       PROVE  /\ B[4 * i + 1] = "data:" /\ B[4 * i + 2] = r.pieces[i + 1]
              /\ B[4 * i + 3] = "nl" /\ B[4 * i + 4] = "nl"
  <2>1. 4 * i + 1 \in 1..(4 * K) /\ 4 * i + 2 \in 1..(4 * K) /\ 4 * i + 3 \in 1..(4 * K) /\ 4 * i + 4 \in 1..(4 * K)
    BY <1>1
  <2> QED
    BY <1>9, <1>15, <2>1
<1>18. CASE ~r.error
  <2>1. z = d
    BY <1>14, <1>18
  <2>2. \A j \in 1..4 : B[4 * K + j] = d[j]
    BY <1>11, <1>15, <2>1
  <2>3. B[4 * K + 1] = d[1] /\ B[4 * K + 2] = d[2] /\ B[4 * K + 3] = d[3] /\ B[4 * K + 4] = d[4]
    BY <2>2
  <2> QED
    BY <1>1, <1>11, <1>15, <1>16, <1>17, <1>18, <2>3 DEF B, K
<1>19. CASE r.error
  <2>1. z = g
    BY <1>14, <1>19
  <2>2. \A j \in 1..7 : B[4 * K + j] = g[j]
    BY <1>13, <1>15, <2>1
  <2>3. /\ B[4 * K + 1] = g[1] /\ B[4 * K + 2] = g[2] /\ B[4 * K + 3] = g[3] /\ B[4 * K + 4] = g[4]
        /\ B[4 * K + 5] = g[5] /\ B[4 * K + 6] = g[6] /\ B[4 * K + 7] = g[7]
    BY <2>2
  <2> QED
    BY <1>1, <1>13, <1>15, <1>16, <1>17, <1>19, <2>3 DEF B, K
<1> QED
  BY <1>18, <1>19, <1>1 DEF K

(* Where a line starts: after the position s, with n pieces read, and ev   *)
(* if the line before it was "event: error"; and where it ends.            *)
LineAt(r, s, n, ev) ==
  /\ n \in 0..Len(r.pieces)
  /\ \/ s = 4 * n /\ ~ev
     \/ n > 0 /\ s + 1 = 4 * n /\ ~ev
     \/ r.error /\ n = Len(r.pieces) /\ s = 4 * n + 3 /\ ev
EndOf(s, n) == IF s + 1 = 4 * n THEN s + 1 ELSE s + 3

(* The line that starts there ends there, and what it starts with.         *)
LEMMA LineEnds ==
  ASSUME NEW r \in Stream!ServerReplies, r.stream, NEW s \in Nat, NEW n \in Nat, NEW ev \in BOOLEAN, LineAt(r, s, n, ev)
  PROVE  LET B == Stream!BodyOf(r)
             e == EndOf(s, n)
         IN  /\ e \in (s + 1)..Len(B) /\ B[e] = "nl" /\ \A j \in (s + 1)..(e - 1) : B[j] # "nl"
             /\ s = 4 * n /\ n < Len(r.pieces) => B[s + 1] = "data:" /\ B[s + 2] = r.pieces[n + 1]
             /\ s = 4 * n /\ n = Len(r.pieces) /\ ~r.error => B[s + 1] = "data:" /\ B[s + 2] = "[DONE]"
             /\ s = 4 * n /\ n = Len(r.pieces) /\ r.error => B[s + 1] = "event:" /\ B[s + 2] = "error"
             /\ s = 4 * n + 3 /\ ev => B[s + 1] = "data:" /\ B[s + 2] = "error"
<1> DEFINE B == Stream!BodyOf(r)
           K == Len(r.pieces)
           e == EndOf(s, n)
<1>1. /\ B \in Seq(Symbols) /\ Len(B) = StreamLen(r) /\ K \in Nat
      /\ \A i \in 0..(K - 1) : /\ B[4 * i + 1] = "data:" /\ B[4 * i + 2] = r.pieces[i + 1]
                              /\ B[4 * i + 3] = "nl" /\ B[4 * i + 4] = "nl"
      /\ ~r.error => /\ B[4 * K + 1] = "data:" /\ B[4 * K + 2] = "[DONE]"
                     /\ B[4 * K + 3] = "nl" /\ B[4 * K + 4] = "nl"
      /\ r.error => /\ B[4 * K + 1] = "event:" /\ B[4 * K + 2] = "error" /\ B[4 * K + 3] = "nl"
                    /\ B[4 * K + 4] = "data:" /\ B[4 * K + 5] = "error"
                    /\ B[4 * K + 6] = "nl" /\ B[4 * K + 7] = "nl"
  BY StreamBody
<1>2. (r.error /\ Len(B) = 4 * K + 7) \/ (~r.error /\ Len(B) = 4 * K + 4)
  <2>1. Len(B) = 4 * K + (IF r.error THEN 7 ELSE 4)
    BY <1>1 DEF StreamLen
  <2> HIDE DEF B, K
  <2> QED
    BY <2>1
<1>3. \A i \in 0..(K - 1) : r.pieces[i + 1] # "nl"
  <2>1. \A i \in 0..(K - 1) : r.pieces[i + 1] \in Stream!Deltas
    BY <1>1, ReplyType
  <2> QED
    BY <2>1, Kinds DEF Stream!Words
<1>4. n \in 0..K
  BY DEF LineAt
<1> HIDE DEF B, K
<1>5. CASE s = 4 * n /\ ~ev
  <2>1. e = s + 3 /\ ~(s = 4 * n + 3)
    BY <1>5 DEF EndOf
  <2>2. CASE n < K
    <3>1. /\ B[4 * n + 1] = "data:" /\ B[4 * n + 2] = r.pieces[n + 1] /\ B[4 * n + 3] = "nl"
          /\ r.pieces[n + 1] # "nl"
      BY <1>1, <1>3, <1>4, <2>2
    <3>2. \A j \in (s + 1)..(e - 1) : j = s + 1 \/ j = s + 2
      BY <2>1
    <3>3. \A j \in (s + 1)..(e - 1) : B[j] # "nl"
      BY <3>1, <3>2, <1>5
    <3>4. e \in (s + 1)..Len(B) /\ B[e] = "nl"
      <4>1. e = 4 * n + 3 /\ s = 4 * n /\ n \in Nat /\ K \in Nat /\ n < K /\ 4 * K + 4 <= Len(B) /\ Len(B) \in Nat
        BY <1>1, <1>2, <1>4, <1>5, <2>1, <2>2
      <4>2. B[e] = "nl"
        BY <3>1, <4>1
      <4> HIDE DEF e
      <4> QED
        BY <4>1, <4>2
    <3> QED
      BY <1>5, <2>1, <2>2, <3>1, <3>3, <3>4 DEF B, K
  <2>3. CASE n = K /\ ~r.error
    <3>1. B[s + 1] = "data:" /\ B[s + 2] = "[DONE]" /\ B[s + 3] = "nl"
      BY <1>1, <1>5, <2>3
    <3>2. \A j \in (s + 1)..(e - 1) : j = s + 1 \/ j = s + 2
      BY <2>1
    <3>3. \A j \in (s + 1)..(e - 1) : B[j] # "nl"
      BY <3>1, <3>2
    <3>4. e \in (s + 1)..Len(B) /\ B[e] = "nl"
      <4>1. e = s + 3 /\ s = 4 * K /\ K \in Nat /\ 4 * K + 4 <= Len(B) /\ Len(B) \in Nat
        BY <1>1, <1>2, <1>5, <2>1, <2>3
      <4>2. B[e] = "nl"
        BY <2>1, <3>1
      <4> HIDE DEF e
      <4> QED
        BY <4>1, <4>2
    <3> QED
      BY <1>1, <1>5, <2>1, <2>3, <3>1, <3>3, <3>4 DEF B, K
  <2>4. CASE n = K /\ r.error
    <3>1. B[s + 1] = "event:" /\ B[s + 2] = "error" /\ B[s + 3] = "nl"
      BY <1>1, <1>5, <2>4
    <3>2. \A j \in (s + 1)..(e - 1) : j = s + 1 \/ j = s + 2
      BY <2>1
    <3>3. \A j \in (s + 1)..(e - 1) : B[j] # "nl"
      BY <3>1, <3>2
    <3>4. e \in (s + 1)..Len(B) /\ B[e] = "nl"
      <4>1. e = s + 3 /\ s = 4 * K /\ K \in Nat /\ 4 * K + 4 <= Len(B) /\ Len(B) \in Nat
        BY <1>1, <1>2, <1>5, <2>1, <2>4
      <4>2. B[e] = "nl"
        BY <2>1, <3>1
      <4> HIDE DEF e
      <4> QED
        BY <4>1, <4>2
    <3> QED
      BY <1>1, <1>5, <2>1, <2>4, <3>1, <3>3, <3>4 DEF B, K
  <2> QED
    BY <1>1, <1>2, <1>4, <2>2, <2>3, <2>4
<1>6. CASE n > 0 /\ s + 1 = 4 * n /\ ~ev
  <2>1. e = s + 1
    BY <1>6 DEF EndOf
  <2>2. n - 1 \in 0..(K - 1) /\ 4 * (n - 1) + 4 = 4 * n
    <3>1. n \in 0..K /\ n > 0 /\ K \in Nat
      BY <1>1, <1>4, <1>6
    <3> QED
      BY <3>1
  <2>3. B[e] = "nl"
    <3>1. B[4 * (n - 1) + 4] = "nl"
      <4>1. \A i \in 0..(K - 1) : B[4 * i + 4] = "nl"
        BY <1>1
      <4> QED
        BY <2>2, <4>1
    <3> QED
      BY <1>6, <2>1, <2>2, <3>1
  <2>4. e \in (s + 1)..Len(B) /\ \A j \in (s + 1)..(e - 1) : B[j] # "nl"
    <3>1. Len(B) \in Nat /\ 4 * n <= Len(B)
      BY <1>1, <1>2, <1>4
    <3>2. \A j \in (s + 1)..(e - 1) : FALSE
      BY <2>1
    <3> QED
      BY <1>6, <2>1, <3>1, <3>2
  <2>5. s # 4 * n /\ s # 4 * n + 3
    BY <1>6
  <2> QED
    BY <2>3, <2>4, <2>5 DEF B
<1>7. CASE r.error /\ n = K /\ s = 4 * n + 3 /\ ev
  <2>1. e = s + 3 /\ s # 4 * n
    BY <1>7 DEF EndOf
  <2>2. B[s + 1] = "data:" /\ B[s + 2] = "error" /\ B[s + 3] = "nl"
    <3>1. s + 1 = 4 * K + 4 /\ s + 2 = 4 * K + 5 /\ s + 3 = 4 * K + 6
      BY <1>1, <1>7
    <3> QED
      BY <1>1, <1>7, <3>1
  <2>3. \A j \in (s + 1)..(e - 1) : j = s + 1 \/ j = s + 2
    BY <2>1
  <2>4. \A j \in (s + 1)..(e - 1) : B[j] # "nl"
    BY <2>2, <2>3
  <2>5. e \in (s + 1)..Len(B) /\ B[e] = "nl"
    BY <1>1, <1>2, <1>7, <2>1, <2>2
  <2> QED
    BY <2>1, <2>2, <2>4, <2>5 DEF B
<1> QED
  BY <1>5, <1>6, <1>7 DEF LineAt, K

(* A line of two words.                                                    *)
LEMMA TwoWords ==
  ASSUME NEW w \in Seq(Symbols), Len(w) = 2, w[2] # "cr"
  PROVE  w = <<w[1], w[2]>> /\ w # <<>> /\ Tail(w) = <<w[2]>> /\ Stream!WithoutCr(w) = w
<1>1. w[1] \in Symbols /\ w[2] \in Symbols
  <2>1. 1 \in 1..Len(w) /\ 2 \in 1..Len(w)
    OBVIOUS
  <2> QED
    BY <2>1, ElementOfSeq
<1>2. w = <<w[1], w[2]>>
  <2> DEFINE t == <<w[1], w[2]>>
  <2>1. t \in Seq(Symbols) /\ Len(t) = 2 /\ t[1] = w[1] /\ t[2] = w[2]
    BY <1>1
  <2> HIDE DEF t
  <2>2. \A k \in 1..2 : w[k] = t[k]
    <3>1. \A k \in 1..2 : k = 1 \/ k = 2
      OBVIOUS
    <3> QED
      BY <2>1, <3>1
  <2>3. w = t
    BY <2>1, <2>2, SameSeq
  <2> QED
    BY <2>3 DEF t
<1>3. Tail(w) = <<w[2]>>
  <2> DEFINE t == Tail(w)
             u == <<w[2]>>
  <2>1. t \in Seq(Symbols) /\ Len(t) = 1 /\ t[1] = w[2]
    <3>1. w # <<>>
      <4>1. Len(<<>>) = 0 /\ Len(w) # 0
        OBVIOUS
      <4> QED
        BY <4>1
    <3>2. t \in Seq(Symbols) /\ Len(t) = 1 /\ \A i \in 1..Len(t) : t[i] = w[i + 1]
      BY <3>1, HeadTailProperties
    <3> HIDE DEF t
    <3>3. Len(t) = 1 /\ 1 \in 1..Len(t)
      BY <3>2
    <3> QED
      BY <3>2, <3>3
  <2>2. u \in Seq(Symbols) /\ Len(u) = 1 /\ u[1] = w[2]
    BY <1>1
  <2> HIDE DEF t, u
  <2>3. \A k \in 1..Len(t) : t[k] = u[k]
    BY <2>1, <2>2
  <2>4. t = u
    BY <2>1, <2>2, <2>3, SameSeq
  <2> QED
    BY <2>4 DEF t, u
<1>4. Stream!WithoutCr(w) = w
  BY DEF Stream!WithoutCr, Stream!Last
<1> QED
  BY <1>2, <1>3, <1>4

(* What decoding a line leaves alone.                                      *)
SameFrame(x, a) == /\ x.chunked = a.chunked /\ x.hdr = a.hdr
                   /\ x.remaining = a.remaining /\ x.skip = a.skip

(* A stream that was decoded up to the position m of its body, and one     *)
(* that was decoded to its end.                                            *)
InLine(r, a, m) ==
  /\ a \in Stream!Accs /\ ~a.error /\ ~a.done
  /\ \E s \in Nat, n \in Nat :
       /\ LineAt(r, s, n, a.event) /\ s <= m /\ m < EndOf(s, n)
       /\ a.line = SubSeq(Stream!BodyOf(r), s + 1, m)
       /\ a.pieces = SubSeq(r.pieces, 1, n)
StreamOver(r, a) ==
  /\ a \in Stream!Accs /\ a.done
  /\ IF r.error THEN a.error ELSE ~a.error /\ a.pieces = r.pieces

(* The fields of sse_stream_acc_t.                                         *)
LEMMA AccType ==
  ASSUME NEW a \in Stream!Accs
  PROVE  /\ a.chunked \in BOOLEAN /\ a.hdr \in Seq(Symbols) /\ a.remaining \in Nat /\ a.skip \in 0..2
         /\ a.line \in Seq(Symbols) /\ a.event \in BOOLEAN /\ a.pieces \in Seq(Symbols)
         /\ a.error \in BOOLEAN /\ a.done \in BOOLEAN
BY DEF Stream!Accs, Symbols

(* One line more.                                                          *)
LEMMA LineRead ==
  ASSUME NEW r \in Stream!ServerReplies, r.stream, NEW a \in Stream!Accs, ~a.error, ~a.done,
         NEW s \in Nat, NEW n \in Nat, LineAt(r, s, n, a.event), a.pieces = SubSeq(r.pieces, 1, n)
  PROVE  LET w == SubSeq(Stream!BodyOf(r), s + 1, EndOf(s, n) - 1)
             x == Stream!ProcessLine([a EXCEPT !.line = <<>>], Stream!WithoutCr(w))
         IN  SameFrame(x, a) /\ (InLine(r, x, EndOf(s, n)) \/ StreamOver(r, x))
<1> DEFINE B == Stream!BodyOf(r)
           K == Len(r.pieces)
           e == EndOf(s, n)
           w == SubSeq(B, s + 1, e - 1)
           b == [a EXCEPT !.line = <<>>]
           x == Stream!ProcessLine(b, Stream!WithoutCr(w))
<1>1. /\ a.event \in BOOLEAN /\ r.error \in BOOLEAN /\ r.pieces \in Seq(Stream!Deltas) /\ K \in Nat
      /\ a.pieces \in Seq(Symbols)
  <2>1. a.event \in BOOLEAN /\ a.pieces \in Seq(Symbols)
    BY AccType
  <2>2. r.error \in BOOLEAN /\ r.pieces \in Seq(Stream!Deltas)
    BY ReplyType
  <2>3. K \in Nat
    BY <2>2, LenProperties
  <2> QED
    BY <2>1, <2>2, <2>3
<1>2. /\ e \in (s + 1)..Len(B) /\ B[e] = "nl"
      /\ s = 4 * n /\ n < K => B[s + 1] = "data:" /\ B[s + 2] = r.pieces[n + 1]
      /\ s = 4 * n /\ n = K /\ ~r.error => B[s + 1] = "data:" /\ B[s + 2] = "[DONE]"
      /\ s = 4 * n /\ n = K /\ r.error => B[s + 1] = "event:" /\ B[s + 2] = "error"
      /\ s = 4 * n + 3 /\ a.event => B[s + 1] = "data:" /\ B[s + 2] = "error"
  BY <1>1, LineEnds
<1>3. B \in Seq(Symbols) /\ Len(B) \in Nat
  BY StreamBody
<1>4. n \in 0..K
  BY DEF LineAt
<1>5. /\ b \in Stream!Accs /\ b.line = <<>> /\ b.event = a.event /\ b.pieces = a.pieces
      /\ ~b.error /\ ~b.done /\ SameFrame(b, a)
  <2>1. b \in Stream!Accs
    <3>1. <<>> \in Seq(Stream!Symbols)
      OBVIOUS
    <3> QED
      BY <3>1 DEF Stream!Accs
  <2>2. /\ b.line = <<>> /\ b.event = a.event /\ b.pieces = a.pieces /\ b.error = a.error /\ b.done = a.done
        /\ SameFrame(b, a)
    BY DEF Stream!Accs, SameFrame
  <2> QED
    BY <2>1, <2>2
<1>6. SubSeq(B, e + 1, e) = <<>>
  BY <1>2, <1>3, SubSeqEmpty
<1> HIDE DEF B, K, e, b
<1>7. w \in Seq(Symbols) /\ Len(w) = (e - 1) - s /\ \A k \in 1..((e - 1) - s) : w[k] = B[s + k]
  <2>1. e - 1 \in s..Len(B)
    BY <1>2, <1>3
  <2> QED
    BY <1>3, <2>1, PartOf
<1> HIDE DEF w
<1>8. ASSUME e = s + 3, B[s + 2] # "cr"
      PROVE  /\ w = <<B[s + 1], B[s + 2]>> /\ w # <<>> /\ w[1] = B[s + 1] /\ Tail(w) = <<B[s + 2]>>
             /\ Stream!WithoutCr(w) = w
  <2>1. Len(w) = 2 /\ w[1] = B[s + 1] /\ w[2] = B[s + 2]
    BY <1>7, <1>8
  <2> QED
    BY <1>7, <1>8, <2>1, TwoWords
<1>9. ASSUME NEW y \in Stream!Accs, y.line = <<>>, SameFrame(y, b), ~y.error, ~y.done, NEW m \in Nat,
             LineAt(r, e, m, y.event), y.pieces = SubSeq(r.pieces, 1, m), e < EndOf(e, m)
      PROVE  SameFrame(y, a) /\ InLine(r, y, e)
  <2>1. e \in Nat /\ y.line = SubSeq(B, e + 1, e)
    BY <1>2, <1>6, <1>9
  <2>2. /\ LineAt(r, e, m, y.event) /\ e <= e /\ e < EndOf(e, m)
        /\ y.line = SubSeq(B, e + 1, e) /\ y.pieces = SubSeq(r.pieces, 1, m)
    BY <1>9, <2>1
  <2>3. InLine(r, y, e)
    BY <1>9, <2>1, <2>2 DEF InLine, B
  <2> QED
    BY <1>5, <1>9, <2>3 DEF SameFrame
<1>10. CASE s = 4 * n /\ ~a.event
  <2>1. e = s + 3
    BY <1>10 DEF e, EndOf
  <2>2. CASE n < K
    <3>1. B[s + 1] = "data:" /\ B[s + 2] = r.pieces[n + 1]
      BY <1>2, <1>10, <2>2
    <3>2. n + 1 \in 1..K
      BY <1>1, <1>4, <2>2
    <3>3. r.pieces[n + 1] \in Stream!Deltas /\ r.pieces[n + 1] \in Symbols
      BY <1>1, <3>2, Kinds DEF K
    <3>4. B[s + 2] \notin {"cr", "[DONE]"}
      BY <3>1, <3>3, Kinds DEF Stream!Words
    <3>5. w # <<>> /\ w[1] = "data:" /\ Tail(w) = <<r.pieces[n + 1]>> /\ Stream!WithoutCr(w) = w
      BY <1>8, <2>1, <3>1, <3>4
    <3>6. w # <<"data:", "[DONE]">>
      <4>1. w[2] = B[s + 2]
        BY <1>7, <2>1
      <4> QED
        BY <3>4, <4>1
    <3>7. x = [b EXCEPT !.pieces = b.pieces \o <<r.pieces[n + 1]>>]
      BY <1>5, <1>10, <3>5, <3>6 DEF Stream!ProcessLine
    <3>8. b.pieces \o <<r.pieces[n + 1]>> = SubSeq(r.pieces, 1, n + 1)
      <4>1. SubSeq(r.pieces, 1, n + 1) = SubSeq(r.pieces, 1, (n + 1) - 1) \o <<r.pieces[n + 1]>>
        <5>1. 1 \in 1..K /\ n + 1 \in 1..K
          BY <1>1, <3>2
        <5> QED
          BY <1>1, <5>1, SubSeqRecursiveSecond DEF K
      <4> QED
        BY <1>5, <4>1
    <3>9. SubSeq(r.pieces, 1, n + 1) \in Seq(Symbols)
      <4>1. \A i \in 1..(n + 1) : r.pieces[i] \in Symbols
        BY <1>1, <3>2, Kinds DEF K
      <4> QED
        BY <4>1, SubSeqProperties
    <3>10. /\ x \in Stream!Accs /\ x.line = <<>> /\ SameFrame(x, b) /\ ~x.error /\ ~x.done /\ x.event = a.event
           /\ x.pieces = SubSeq(r.pieces, 1, n + 1)
      BY <1>5, <3>7, <3>8, <3>9 DEF Stream!Accs, SameFrame, Symbols
    <3>11. LineAt(r, e, n + 1, a.event) /\ e < EndOf(e, n + 1)
      BY <1>1, <1>4, <1>10, <2>1, <3>2 DEF LineAt, EndOf, K
    <3> HIDE DEF x
    <3>12. InLine(r, x, e) /\ SameFrame(x, a)
      BY <1>9, <3>10, <3>11
    <3> QED
      BY <3>12 DEF x, e, w, b, B
  <2>3. CASE n = K /\ ~r.error
    <3>1. w = <<"data:", "[DONE]">> /\ w # <<>> /\ w[1] = "data:" /\ Stream!WithoutCr(w) = w
      BY <1>2, <1>8, <1>10, <2>1, <2>3
    <3>2. x = [b EXCEPT !.done = TRUE]
      BY <3>1 DEF Stream!ProcessLine
    <3>3. SubSeq(r.pieces, 1, n) = r.pieces
      BY <1>1, <2>3, SubSeqFull DEF K
    <3>4. x \in Stream!Accs /\ x.done /\ ~x.error /\ x.pieces = r.pieces /\ SameFrame(x, a)
      BY <1>5, <3>2, <3>3 DEF Stream!Accs, SameFrame
    <3> QED
      BY <1>1, <2>3, <3>4 DEF StreamOver, x, w, b, B, e
  <2>4. CASE n = K /\ r.error
    <3>1. w # <<"data:", "[DONE]">> /\ w # <<>> /\ w[1] = "event:" /\ Stream!WithoutCr(w) = w
      BY <1>2, <1>8, <1>10, <2>1, <2>4
    <3>2. x = [b EXCEPT !.event = TRUE]
      BY <3>1 DEF Stream!ProcessLine
    <3>3. /\ x \in Stream!Accs /\ x.line = <<>> /\ SameFrame(x, b) /\ ~x.error /\ ~x.done /\ x.event = TRUE
          /\ x.pieces = SubSeq(r.pieces, 1, n)
      BY <1>5, <3>2 DEF Stream!Accs, SameFrame
    <3>4. LineAt(r, e, n, TRUE) /\ e < EndOf(e, n)
      BY <1>1, <1>4, <1>10, <2>1, <2>4 DEF LineAt, EndOf, K
    <3> HIDE DEF x
    <3>5. InLine(r, x, e) /\ SameFrame(x, a)
      BY <1>9, <3>3, <3>4
    <3> QED
      BY <3>5 DEF x, e, w, b, B
  <2> QED
    BY <1>1, <1>4, <2>2, <2>3, <2>4
<1>11. CASE n > 0 /\ s + 1 = 4 * n /\ ~a.event
  <2>1. e = s + 1
    BY <1>11 DEF e, EndOf
  <2>2. w = <<>> /\ Stream!WithoutCr(w) = w
    BY <1>7, <2>1 DEF Stream!WithoutCr
  <2>3. x = [b EXCEPT !.event = FALSE]
    BY <2>2, <<>> # <<"data:", "[DONE]">> DEF Stream!ProcessLine
  <2>4. /\ x \in Stream!Accs /\ x.line = <<>> /\ SameFrame(x, b) /\ ~x.error /\ ~x.done /\ x.event = FALSE
        /\ x.pieces = SubSeq(r.pieces, 1, n)
    BY <1>5, <2>3 DEF Stream!Accs, SameFrame
  <2>5. LineAt(r, e, n, FALSE) /\ e < EndOf(e, n)
    BY <1>1, <1>4, <1>11, <2>1 DEF LineAt, EndOf, K
  <2> HIDE DEF x
  <2>6. InLine(r, x, e) /\ SameFrame(x, a)
    BY <1>9, <2>4, <2>5
  <2> QED
    BY <2>6 DEF x, e, w, b, B
<1>12. CASE r.error /\ n = K /\ s = 4 * n + 3 /\ a.event
  <2>1. e = s + 3
    BY <1>12 DEF e, EndOf
  <2>2. w # <<"data:", "[DONE]">> /\ w # <<>> /\ w[1] = "data:" /\ Stream!WithoutCr(w) = w
    BY <1>2, <1>8, <1>12, <2>1
  <2>3. x = [b EXCEPT !.error = TRUE, !.done = TRUE, !.event = FALSE]
    BY <1>5, <1>12, <2>2 DEF Stream!ProcessLine
  <2>4. x \in Stream!Accs /\ x.done /\ x.error = TRUE /\ SameFrame(x, a)
    BY <1>5, <2>3 DEF Stream!Accs, SameFrame
  <2> QED
    BY <1>1, <1>12, <2>4 DEF StreamOver, x, w, b, B, e
<1> QED
  BY <1>10, <1>11, <1>12 DEF LineAt, K

(* The first end of a line.                                                *)
LEMMA FirstEndIs ==
  ASSUME NEW d \in Seq(Symbols)
  PROVE  LET f == Stream!FirstEnd(d)
         IN  \/ f = 0 /\ \A i \in 1..Len(d) : d[i] # "nl"
             \/ f \in 1..Len(d) /\ d[f] = "nl" /\ \A i \in 1..(f - 1) : d[i] # "nl"
<1> DEFINE I == {i \in 1..Len(d) : d[i] = "nl"}
           f == IF I # {} THEN CHOOSE x \in I : \A y \in I : x <= y ELSE 0
<1>1. Stream!FirstEnd(d) = f
  BY DEF Stream!FirstEnd, Stream!SelectInSeq, Stream!Min
<1>2. CASE I = {}
  BY <1>1, <1>2
<1>3. CASE I # {}
  <2>1. I \in SUBSET Nat
    OBVIOUS
  <2>2. \E x \in I : \A y \in I : x <= y
    BY <1>3, <2>1, LeastNat
  <2>3. f \in I /\ \A y \in I : f <= y
    BY <1>3, <2>2
  <2> HIDE DEF f
  <2>4. f \in 1..Len(d) /\ d[f] = "nl" /\ \A i \in 1..(f - 1) : d[i] # "nl"
    BY <2>3
  <2> QED
    BY <1>1, <2>4
<1> QED
  BY <1>2, <1>3

(* A round of sse_acc_feed_lines.                                          *)
LineStates(r, a, e) ==
  {p \in Stream!Accs \X Seq(Symbols) :
     /\ SameFrame(p[1], a)
     /\ \E m \in 0..e : /\ p[2] = SubSeq(Stream!BodyOf(r), m + 1, e)
                        /\ InLine(r, p[1], m) \/ StreamOver(r, p[1])}

(* A round keeps the accumulator in the stream, and takes something or is  *)
(* over.                                                                   *)
LEMMA TakeLineStep ==
  ASSUME NEW r \in Stream!ServerReplies, r.stream, NEW a, NEW e \in 0..Len(Stream!BodyOf(r)), NEW p \in LineStates(r, a, e)
  PROVE  LET x == Stream!TakeLine(p)
         IN  x \in LineStates(r, a, e) /\ (StreamOver(r, x[1]) \/ Len(x[2]) < Len(p[2]) \/ Len(x[2]) = 0)
<1> DEFINE B == Stream!BodyOf(r)
           b == p[1]
           d == p[2]
           x == Stream!TakeLine(p)
<1>1. B \in Seq(Symbols) /\ Len(B) \in Nat /\ e \in Nat /\ e <= Len(B)
  BY StreamBody
<1>2. b \in Stream!Accs /\ d \in Seq(Symbols) /\ p = <<b, d>> /\ SameFrame(b, a)
  BY DEF LineStates
<1>3. PICK m \in 0..e : d = SubSeq(B, m + 1, e) /\ (InLine(r, b, m) \/ StreamOver(r, b))
  BY DEF LineStates
<1>4. Len(d) = e - m /\ (\A k \in 1..(e - m) : d[k] = B[m + k]) /\ (d = <<>> <=> m = e)
  <2>1. m \in Nat /\ e \in m..Len(B)
    BY <1>1
  <2> HIDE DEF B, d
  <2>2. /\ Len(SubSeq(B, m + 1, e)) = e - m /\ \A k \in 1..(e - m) : SubSeq(B, m + 1, e)[k] = B[m + k]
        /\ SubSeq(B, m + 1, e) = <<>> <=> m = e
    BY <1>1, <2>1, PartOf
  <2> QED
    BY <1>3, <2>2
<1> HIDE DEF B, b, d
<1>5. CASE StreamOver(r, b)
  <2>1. x = p
    BY <1>5 DEF Stream!TakeLine, StreamOver, b
  <2> QED
    BY <1>5, <2>1 DEF b, d
<1>6. CASE ~StreamOver(r, b) /\ d = <<>>
  <2>1. x = p
    BY <1>6 DEF Stream!TakeLine, d
  <2> QED
    BY <1>4, <1>6, <2>1 DEF d
<1>7. CASE ~StreamOver(r, b) /\ d # <<>>
  <2>1. InLine(r, b, m) /\ m < e /\ ~b.done /\ ~b.error
    BY <1>3, <1>4, <1>7 DEF InLine
  <2>2. PICK s \in Nat, n \in Nat :
          /\ LineAt(r, s, n, b.event) /\ s <= m /\ m < EndOf(s, n)
          /\ b.line = SubSeq(B, s + 1, m) /\ b.pieces = SubSeq(r.pieces, 1, n)
    BY <2>1 DEF InLine, B
  <2> DEFINE g == EndOf(s, n)
             f == Stream!FirstEnd(d)
  <2>3. g \in (s + 1)..Len(B) /\ B[g] = "nl" /\ \A j \in (s + 1)..(g - 1) : B[j] # "nl"
    BY <1>2, <2>2, AccType, LineEnds DEF B
  <2>4. \/ f = 0 /\ \A i \in 1..Len(d) : d[i] # "nl"
        \/ f \in 1..Len(d) /\ d[f] = "nl" /\ \A i \in 1..(f - 1) : d[i] # "nl"
    BY <1>2, FirstEndIs
  <2>5. m \in Nat /\ g \in Nat /\ m < g
    BY <1>1, <2>2, <2>3
  <2>6. x = IF f = 0 THEN <<[b EXCEPT !.line = b.line \o d], <<>>>>
            ELSE <<Stream!ProcessLine([b EXCEPT !.line = <<>>], Stream!WithoutCr(b.line \o SubSeq(d, 1, f - 1))),
                   Stream!From(d, f + 1)>>
    BY <1>7, <2>1 DEF Stream!TakeLine, b, d
  <2> HIDE DEF f, g, x
  <2>7. CASE f = 0
    <3>1. e < g
      <4>1. SUFFICES ASSUME g <= e PROVE FALSE
        BY <1>1, <2>5
      <4>2. g - m \in 1..(e - m) /\ m + (g - m) = g
        BY <1>1, <2>5, <4>1
      <4>3. d[g - m] = "nl"
        BY <1>4, <2>3, <4>2
      <4> QED
        BY <1>4, <2>4, <2>7, <4>2, <4>3
    <3>2. b.line \o d = SubSeq(B, s + 1, e)
      <4>1. s + 1 \in 1..(Len(B) + 1) /\ m \in ((s + 1) - 1)..Len(B) /\ e \in m..Len(B)
        BY <1>1, <2>2
      <4> QED
        BY <1>1, <1>3, <2>2, <4>1, ConcatAdjacentSubSeq
    <3> DEFINE y == [b EXCEPT !.line = b.line \o d]
    <3>3. b.line \o d \in Seq(Stream!Symbols)
      BY <1>2, AccType, ConcatProperties DEF Symbols
    <3>4. /\ y \in Stream!Accs /\ y.line = SubSeq(B, s + 1, e) /\ y.event = b.event /\ y.pieces = b.pieces
          /\ ~y.error /\ ~y.done /\ SameFrame(y, a)
      <4>1. y \in Stream!Accs
        BY <1>2, <3>3 DEF Stream!Accs
      <4>2. /\ y.line = b.line \o d /\ y.event = b.event /\ y.pieces = b.pieces
            /\ y.error = b.error /\ y.done = b.done /\ SameFrame(y, b)
        BY <1>2 DEF Stream!Accs, SameFrame
      <4> QED
        BY <1>2, <2>1, <3>2, <4>1, <4>2 DEF SameFrame
    <3> HIDE DEF y
    <3>5. x = <<y, <<>>>>
      BY <2>6, <2>7 DEF y
    <3>6. InLine(r, y, e)
      <4>1. s <= e
        BY <1>1, <2>2, <2>5
      <4>2. \E s1 \in Nat, n1 \in Nat :
              /\ LineAt(r, s1, n1, y.event) /\ s1 <= e /\ e < EndOf(s1, n1)
              /\ y.line = SubSeq(B, s1 + 1, e) /\ y.pieces = SubSeq(r.pieces, 1, n1)
        BY <2>2, <3>1, <3>4, <4>1 DEF g
      <4> QED
        BY <3>4, <4>2 DEF InLine, B
    <3>7. <<>> = SubSeq(B, e + 1, e) /\ e \in 0..e /\ <<>> \in Seq(Symbols) /\ Len(<<>>) = 0
      BY <1>1, SubSeqEmpty
    <3>8. x \in LineStates(r, a, e)
      BY <3>4, <3>5, <3>6, <3>7 DEF LineStates, B
    <3> QED
      BY <3>5, <3>7, <3>8 DEF x, d
  <2>8. CASE f # 0
    <3>1. m + f = g
      <4>1. f \in 1..Len(d) /\ d[f] = "nl" /\ \A i \in 1..(f - 1) : d[i] # "nl"
        BY <2>4, <2>8
      <4>2. B[m + f] = "nl" /\ m + f \in Nat /\ m + f > s
        BY <1>4, <2>2, <2>5, <4>1
      <4>3. ~(m + f < g)
        BY <2>3, <2>5, <4>2
      <4>4. ~(g < m + f)
        <5>1. SUFFICES ASSUME g < m + f PROVE FALSE
          OBVIOUS
        <5>2. g - m \in 1..(f - 1) /\ g - m \in 1..(e - m) /\ m + (g - m) = g
          BY <1>1, <1>4, <2>5, <4>1, <5>1
        <5>3. d[g - m] = "nl"
          BY <1>4, <2>3, <5>2
        <5> QED
          BY <4>1, <5>2, <5>3
      <4> QED
        BY <2>5, <4>2, <4>3, <4>4
    <3>2. f \in 1..(e - m) /\ g <= e
      BY <1>1, <1>4, <2>4, <2>8, <3>1
    <3>3. SubSeq(d, 1, f - 1) = SubSeq(B, m + 1, g - 1)
      <4>1. m \in Nat /\ e \in m..Len(B) /\ 0 \in Nat /\ f - 1 \in 0..(e - m)
        BY <1>1, <3>2
      <4>2. SubSeq(SubSeq(B, m + 1, e), 0 + 1, f - 1) = SubSeq(B, m + 0 + 1, m + (f - 1))
        BY <1>1, <4>1, PartOfPart
      <4> QED
        BY <1>3, <2>5, <3>1, <3>2, <4>2
    <3>4. b.line \o SubSeq(d, 1, f - 1) = SubSeq(B, s + 1, g - 1)
      <4>1. s + 1 \in 1..(Len(B) + 1) /\ m \in ((s + 1) - 1)..Len(B) /\ g - 1 \in m..Len(B)
        BY <1>1, <2>2, <2>3, <2>5
      <4> QED
        BY <1>1, <2>2, <3>3, <4>1, ConcatAdjacentSubSeq
    <3>5. Stream!From(d, f + 1) = SubSeq(B, g + 1, e)
      <4>1. m \in Nat /\ e \in m..Len(B) /\ f \in Nat /\ Len(d) \in f..(e - m)
        BY <1>1, <1>4, <3>2
      <4>2. SubSeq(SubSeq(B, m + 1, e), f + 1, Len(d)) = SubSeq(B, m + f + 1, m + Len(d))
        BY <1>1, <4>1, PartOfPart
      <4> QED
        <5>1. SubSeq(d, f + 1, Len(d)) = SubSeq(B, m + f + 1, m + Len(d))
          BY <1>3, <4>2
        <5>2. m + f + 1 = g + 1 /\ m + Len(d) = e
          BY <1>1, <1>4, <2>5, <3>1, <4>1
        <5> QED
          BY <5>1, <5>2 DEF Stream!From
    <3> DEFINE y == Stream!ProcessLine([b EXCEPT !.line = <<>>], Stream!WithoutCr(SubSeq(B, s + 1, g - 1)))
    <3>6. x = <<y, SubSeq(B, g + 1, e)>>
      BY <2>6, <2>8, <3>4, <3>5
    <3>7. SameFrame(y, b) /\ (InLine(r, y, g) \/ StreamOver(r, y))
      BY <1>2, <2>1, <2>2, LineRead DEF g, B
    <3> HIDE DEF y
    <3>8. g \in 0..e /\ Len(SubSeq(B, g + 1, e)) = e - g /\ SubSeq(B, g + 1, e) \in Seq(Symbols)
      <4>1. g \in Nat /\ e \in g..Len(B)
        BY <1>1, <2>5, <3>2
      <4> QED
        BY <1>1, <4>1, PartOf
    <3>9. y \in Stream!Accs /\ SameFrame(y, a)
      BY <1>2, <3>7 DEF InLine, StreamOver, SameFrame
    <3>10. x \in LineStates(r, a, e)
      BY <3>6, <3>7, <3>8, <3>9 DEF LineStates, B
    <3>11. Len(x[2]) < Len(d)
      BY <1>1, <1>4, <2>5, <3>6, <3>8
    <3> QED
      BY <3>10, <3>11 DEF x, d
  <2> QED
    BY <2>7, <2>8
<1> QED
  BY <1>5, <1>6, <1>7

(* Lines that are cut anywhere.                                            *)
LEMMA LinesFed ==
  ASSUME NEW r \in Stream!ServerReplies, r.stream, NEW a \in Stream!Accs,
         NEW m \in Nat, NEW e \in m..Len(Stream!BodyOf(r)), InLine(r, a, m) \/ StreamOver(r, a)
  PROVE  LET x == Stream!FeedLines(a, SubSeq(Stream!BodyOf(r), m + 1, e))
         IN  SameFrame(x, a) /\ (InLine(r, x, e) \/ StreamOver(r, x))
<1> DEFINE B == Stream!BodyOf(r)
           d == SubSeq(B, m + 1, e)
           n == Len(d)
           p0 == <<a, d>>
           S == LineStates(r, a, e)
           F == [p \in S |-> Stream!TakeLine(p)]
           W == [p \in S |-> IF StreamOver(r, p[1]) THEN 0 ELSE Len(p[2])]
           Step(g, k) == IF k = 0 THEN p0 ELSE Stream!TakeLine(g[k - 1])
           t == CHOOSE g : g = [k \in 0..n |-> Step(g, k)]
<1>1. B \in Seq(Symbols) /\ Len(B) \in Nat /\ e \in Nat /\ e \in 0..Len(B) /\ m \in 0..e
  BY StreamBody
<1>2. d \in Seq(Symbols) /\ n = e - m
  BY <1>1, PartOf
<1>3. p0 \in S
  <2>1. SameFrame(a, a)
    BY DEF SameFrame
  <2> HIDE DEF d
  <2>2. p0[1] = a /\ p0[2] = d
    OBVIOUS
  <2>3. \E k \in 0..e : d = SubSeq(B, k + 1, e) /\ (InLine(r, a, k) \/ StreamOver(r, a))
    BY <1>1 DEF d
  <2> QED
    BY <1>2, <2>1, <2>2, <2>3 DEF LineStates
<1>4. Stream!FeedLines(a, d) = t[n][1]
  BY DEF Stream!FeedLines, Stream!Loop
<1>5. \A p \in S : p \in Stream!Accs \X Seq(Symbols) /\ Len(p[2]) \in Nat
  BY DEF LineStates
<1>6. \A p \in S : /\ Stream!TakeLine(p) \in S
                  /\ \/ StreamOver(r, Stream!TakeLine(p)[1])
                     \/ Len(Stream!TakeLine(p)[2]) < Len(p[2]) \/ Len(Stream!TakeLine(p)[2]) = 0
  BY <1>1, TakeLineStep
<1> HIDE DEF S, p0, B, d, n
<1>7. F \in [S -> S] /\ \A p \in S : F[p] = Stream!TakeLine(p)
  BY <1>6
<1>8. W \in [S -> Nat] /\ \A p \in S : W[p] = IF StreamOver(r, p[1]) THEN 0 ELSE Len(p[2])
  BY <1>5
<1> HIDE DEF F, W
<1>9. \A p \in S : W[F[p]] < W[p] \/ W[F[p]] = 0
  <2> SUFFICES ASSUME NEW p \in S, W[F[p]] # 0 PROVE W[F[p]] < W[p]
    OBVIOUS
  <2>1. F[p] \in S /\ F[p] = Stream!TakeLine(p)
    BY <1>7
  <2>2. ~StreamOver(r, F[p][1]) /\ W[F[p]] = Len(F[p][2]) /\ Len(F[p][2]) # 0
    BY <1>8, <2>1
  <2>3. Len(F[p][2]) < Len(p[2])
    BY <1>6, <2>1, <2>2
  <2>4. CASE StreamOver(r, p[1])
    <3>1. F[p] = p
      <4>1. p[1].done
        BY <2>4 DEF StreamOver
      <4> QED
        BY <2>1, <4>1 DEF Stream!TakeLine
    <3> QED
      BY <2>2, <2>4, <3>1
  <2>5. CASE ~StreamOver(r, p[1])
    BY <1>8, <2>2, <2>3, <2>5
  <2> QED
    BY <2>4, <2>5
<1>10. n \in Nat /\ W[p0] <= n
  <2>1. n \in Nat /\ Len(p0[2]) = n
    BY <1>1, <1>2 DEF p0, n
  <2> QED
    BY <1>3, <1>8, <2>1
<1>11. PICK f \in [0..n -> S] : Iterated(f, n, p0, F) /\ W[f[n]] = 0
  <2>1. n \in Nat /\ p0 \in S /\ F \in [S -> S] /\ W \in [S -> Nat] /\ W[p0] <= n
    BY <1>3, <1>7, <1>8, <1>10
  <2>2. Shrinks(S, F, W)
    BY <1>9 DEF Shrinks
  <2> HIDE DEF Step
  <2> QED
    BY <2>1, <2>2, StepsEnd
<1>12. f = [k \in 0..n |-> Step(f, k)]
  <2>1. ASSUME NEW k \in 0..n PROVE f[k] = Step(f, k)
    <3>1. CASE k = 0
      BY <1>11, <3>1 DEF Iterated
    <3>2. CASE k # 0
      <4>1. k \in 1..n /\ k - 1 \in 0..n
        BY <1>10, <3>2
      <4>2. f[k] = F[f[k - 1]] /\ f[k - 1] \in S
        BY <1>11, <4>1 DEF Iterated
      <4> QED
        BY <1>7, <3>2, <4>2
    <3> QED
      BY <3>1, <3>2
  <2> QED
    BY <2>1
<1>13. t = [k \in 0..n |-> Step(t, k)]
  BY <1>12
<1> HIDE DEF t
<1>14. t[n] = f[n]
  <2>1. Follows(t, n, S, p0, F)
    <3>1. 0 \in 0..n /\ \A k \in 1..n : k \in 0..n /\ k # 0
      BY <1>10
    <3> QED
      BY <1>7, <1>13, <3>1 DEF Follows
  <2>2. n \in Nat /\ p0 \in S /\ F \in [S -> S] /\ f \in [0..n -> S] /\ Iterated(f, n, p0, F)
    BY <1>3, <1>7, <1>10, <1>11
  <2> QED
    BY <2>1, <2>2, StepsAgree
<1> DEFINE x == t[n]
<1>15. x \in S /\ W[x] = 0
  BY <1>10, <1>11, <1>14
<1> HIDE DEF x
<1>16. SameFrame(x[1], a) /\ (InLine(r, x[1], e) \/ StreamOver(r, x[1]))
  <2>1. PICK k \in 0..e : x[2] = SubSeq(B, k + 1, e) /\ (InLine(r, x[1], k) \/ StreamOver(r, x[1]))
    BY <1>15 DEF S, LineStates, B
  <2>2. SameFrame(x[1], a)
    BY <1>15 DEF S, LineStates
  <2>3. CASE StreamOver(r, x[1])
    BY <2>2, <2>3
  <2>4. CASE ~StreamOver(r, x[1])
    <3>1. Len(x[2]) = 0
      BY <1>8, <1>15, <2>4
    <3>2. Len(x[2]) = e - k
      BY <1>1, <2>1, PartOf
    <3>3. k = e
      BY <1>1, <3>1, <3>2
    <3> QED
      BY <2>1, <2>2, <2>4, <3>3
  <2> QED
    BY <2>3, <2>4
<1> QED
  BY <1>4, <1>16 DEF x, d, B

(* The size of a chunk, digit by digit.                                    *)
ValueOf(c)  == (CHOOSE i \in DOMAIN Digits : Digits[i] = c) - 1
Taken(n, c) == IF Stream!Contains(Digits, c) THEN n * Len(Digits) + ValueOf(c) ELSE n

(* No digit stands for two values.                                         *)
LEMMA DigitsType ==
  /\ Digits \in Seq(Symbols) /\ Len(Digits) \in Nat /\ Len(Digits) > 1 /\ DOMAIN Digits = 1..Len(Digits)
  /\ \A i, j \in 1..Len(Digits) : Digits[i] = Digits[j] => i = j
<1>1. Digits \in Seq(Stream!Range(Digits)) /\ Stream!IsInjective(Digits) /\ Len(Digits) > 1
  BY ServicesAssumption DEF Stream!StreamAssumption
<1>2. Len(Digits) \in Nat /\ DOMAIN Digits = 1..Len(Digits)
  BY <1>1
<1>3. Digits \in Seq(Symbols)
  <2>1. Stream!Range(Digits) \subseteq Symbols
    BY DEF Symbols, Stream!Symbols
  <2> QED
    BY <1>1, <2>1, SeqMonotonic
<1> QED
  BY <1>1, <1>2, <1>3 DEF Stream!IsInjective

(* A digit more, or the end of the number.                                 *)
LEMMA TakenIs ==
  ASSUME NEW n \in Nat, NEW c
  PROVE  /\ Taken(n, c) \in Nat
         /\ c \in Stream!Words => Taken(n, c) = n
         /\ \A i \in 1..Len(Digits) : c = Digits[i] => Taken(n, c) = n * Len(Digits) + (i - 1)
<1>1. CASE Stream!Contains(Digits, c)
  <2>1. PICK i \in 1..Len(Digits) : Digits[i] = c
    BY <1>1 DEF Stream!Contains
  <2>2. \A j \in 1..Len(Digits) : Digits[j] = c => j = i
    BY <2>1, DigitsType
  <2>3. (CHOOSE j \in DOMAIN Digits : Digits[j] = c) = i
    BY <2>1, <2>2, DigitsType
  <2>4. Taken(n, c) = n * Len(Digits) + (i - 1)
    BY <1>1, <2>3 DEF Taken, ValueOf
  <2>5. n * Len(Digits) \in Nat /\ i - 1 \in Nat
    BY DigitsType
  <2>6. c \notin Stream!Words
    BY <2>1, Kinds
  <2> QED
    BY <2>1, <2>2, <2>4, <2>5, <2>6
<1>2. CASE ~Stream!Contains(Digits, c)
  <2>1. \A i \in 1..Len(Digits) : c # Digits[i]
    BY <1>2 DEF Stream!Contains
  <2> QED
    BY <1>2, <2>1 DEF Taken
<1> QED
  BY <1>1, <1>2

Counts(v, s) == v[0] = 0 /\ \A k \in 1..Len(s) : v[k] = Taken(v[k - 1], s[k])

(* The size of a chunk's header (sse_acc_feed) is a count digit by digit.  *)
LEMMA SizeIs ==
  ASSUME NEW s \in Seq(Symbols)
  PROVE  \E v \in [0..Len(s) -> Nat] : Counts(v, s) /\ Stream!Size(s) = v[Len(s)]
<1> DEFINE n == Len(s)
           F == [p \in Nat \X (1..n) |-> Taken(p[1], s[p[2]])]
           Step(v, k) == IF k = 0 THEN 0
                         ELSE IF Stream!Contains(Digits, s[k]) THEN v[k - 1] * Len(Digits) + ValueOf(s[k])
                         ELSE v[k - 1]
           t == CHOOSE v : v = [k \in 0..n |-> Step(v, k)]
<1>1. n \in Nat
  OBVIOUS
<1>2. Stream!Size(s) = t[n]
  BY DEF Stream!Size, ValueOf
<1> HIDE DEF n
<1>3. F \in [Nat \X (1..n) -> Nat] /\ \A v \in Nat, k \in 1..n : F[<<v, k>>] = Taken(v, s[k])
  BY TakenIs
<1> HIDE DEF F
<1>4. PICK f \in [0..n -> Nat] : Iterates(f, n, 0, F)
  BY <1>1, <1>3, RecursiveFunction
<1>5. f[0] = 0 /\ \A k \in 1..n : k \in 0..n /\ k - 1 \in 0..n /\ f[k] = Taken(f[k - 1], s[k])
  <2>1. \A k \in 1..n : k \in 0..n /\ k - 1 \in 0..n /\ f[k - 1] \in Nat
    BY <1>1, <1>4
  <2> QED
    BY <1>3, <1>4, <2>1 DEF Iterates
<1>6. f = [k \in 0..n |-> Step(f, k)]
  <2>1. ASSUME NEW k \in 0..n PROVE f[k] = Step(f, k)
    <3>1. CASE k = 0
      BY <1>5, <3>1
    <3>2. CASE k # 0
      <4>1. k \in 1..n
        BY <1>1, <3>2
      <4> QED
        BY <1>5, <3>2, <4>1 DEF Taken
    <3> QED
      BY <3>1, <3>2
  <2> QED
    BY <2>1
<1>7. t = [k \in 0..n |-> Step(t, k)]
  BY <1>6
<1> HIDE DEF t
<1>8. t[0] = 0 /\ \A k \in 1..n : t[k] = Taken(t[k - 1], s[k])
  <2>1. 0 \in 0..n /\ \A k \in 1..n : k \in 0..n /\ k # 0
    BY <1>1
  <2> QED
    BY <1>7, <2>1 DEF Taken
<1>9. t[n] = f[n]
  <2> DEFINE P == {k \in 0..n : t[k] = f[k]}
  <2>1. 0 \in P
    BY <1>1, <1>5, <1>8
  <2>2. ASSUME NEW k \in 1..n, k - 1 \in P PROVE k \in P
    BY <1>5, <1>8, <2>2
  <2> HIDE DEF P
  <2>3. \A k \in 0..n : k \in P
    BY <1>1, <2>1, <2>2, EachStep
  <2>4. n \in P
    BY <1>1, <2>3
  <2> QED
    BY <2>4 DEF P
<1>10. Counts(f, s)
  BY <1>5 DEF Counts, n
<1> QED
  BY <1>2, <1>9, <1>10 DEF n

(* No digit is the size 0.                                                 *)
LEMMA SizeOfNone == Stream!Size(<<>>) = 0
<1>1. <<>> \in Seq(Symbols) /\ Len(<<>>) = 0
  OBVIOUS
<1> QED
  BY <1>1, SizeIs DEF Counts

(* A symbol more.                                                          *)
LEMMA SizeOfMore ==
  ASSUME NEW s \in Seq(Symbols), NEW c \in Symbols
  PROVE  Stream!Size(s) \in Nat /\ Stream!Size(s \o <<c>>) = Taken(Stream!Size(s), c)
<1> DEFINE u == s \o <<c>>
           n == Len(s)
<1>1. u \in Seq(Symbols) /\ Len(u) = n + 1 /\ (\A i \in 1..n : u[i] = s[i]) /\ u[n + 1] = c
  <2>1. <<c>> \in Seq(Symbols) /\ Len(<<c>>) = 1 /\ <<c>>[1] = c
    OBVIOUS
  <2>2. /\ u \in Seq(Symbols) /\ Len(u) = n + Len(<<c>>)
        /\ \A i \in 1..n : u[i] = s[i]
        /\ \A j \in 1..Len(<<c>>) : u[n + j] = <<c>>[j]
    BY <2>1, Joined
  <2> QED
    BY <2>1, <2>2
<1>2. n \in Nat
  OBVIOUS
<1> HIDE DEF u
<1>3. PICK v \in [0..n -> Nat] : Counts(v, s) /\ Stream!Size(s) = v[n]
  BY SizeIs
<1>4. PICK w \in [0..Len(u) -> Nat] : Counts(w, u) /\ Stream!Size(u) = w[Len(u)]
  BY <1>1, SizeIs
<1> DEFINE P == {k \in 0..n : w[k] = v[k]}
<1>5. 0 \in P
  BY <1>2, <1>3, <1>4 DEF Counts
<1>6. ASSUME NEW k \in 1..n, k - 1 \in P PROVE k \in P
  <2>1. v[k] = Taken(v[k - 1], s[k])
    BY <1>3 DEF Counts
  <2>2. w[k] = Taken(w[k - 1], u[k])
    <3>1. k \in 1..Len(u)
      BY <1>1, <1>2
    <3> QED
      BY <1>4, <3>1 DEF Counts
  <2> QED
    BY <1>1, <1>6, <2>1, <2>2
<1>7. w[n] = v[n]
  <2> HIDE DEF P
  <2>1. \A k \in 0..n : k \in P
    BY <1>2, <1>5, <1>6, EachStep
  <2>2. n \in P
    BY <1>2, <2>1
  <2> QED
    BY <2>2 DEF P
<1>8. w[n + 1] = Taken(w[n], c)
  <2>1. n + 1 \in 1..Len(u) /\ (n + 1) - 1 = n
    BY <1>1, <1>2
  <2>2. w[n + 1] = Taken(w[(n + 1) - 1], u[n + 1])
    BY <1>4, <2>1 DEF Counts
  <2> QED
    BY <1>1, <2>1, <2>2
<1>9. v[n] \in Nat
  BY <1>2, <1>3
<1> QED
  BY <1>1, <1>3, <1>4, <1>7, <1>8, <1>9 DEF u

(* The size of a chunk is read as it was written.                          *)
Numbers == {s \in Seq(Symbols) : \A i \in 1..Len(s) : s[i] \notin Stream!Words}

(* A numeral with a digit more.                                            *)
LEMMA OneDigitMore ==
  ASSUME NEW s \in Numbers, NEW i \in 1..Len(Digits)
  PROVE  /\ s \o <<Digits[i]>> \in Numbers
         /\ Stream!Size(s) \in Nat
         /\ Stream!Size(s \o <<Digits[i]>>) = Stream!Size(s) * Len(Digits) + (i - 1)
<1> DEFINE d == Digits[i]
           u == s \o <<d>>
<1>1. d \in Symbols /\ d \notin Stream!Words
  BY Kinds
<1>2. s \in Seq(Symbols) /\ Len(s) \in Nat /\ \A k \in 1..Len(s) : s[k] \notin Stream!Words
  BY DEF Numbers
<1>3. Stream!Size(s) \in Nat /\ Stream!Size(u) = Taken(Stream!Size(s), d)
  BY <1>1, <1>2, SizeOfMore
<1>4. Taken(Stream!Size(s), d) = Stream!Size(s) * Len(Digits) + (i - 1)
  BY <1>3, TakenIs
<1>5. u \in Seq(Symbols) /\ Len(u) = Len(s) + 1 /\ (\A k \in 1..Len(s) : u[k] = s[k]) /\ u[Len(s) + 1] = d
  <2>1. u = Append(s, d)
    BY <1>1, <1>2, AppendIsConcat
  <2> QED
    BY <1>1, <1>2, <2>1, AppendProperties
<1> HIDE DEF u, d
<1>6. \A k \in 1..Len(u) : u[k] \notin Stream!Words
  <2>1. \A k \in 1..Len(u) : k \in 1..Len(s) \/ k = Len(s) + 1
    BY <1>2, <1>5
  <2> QED
    BY <1>1, <1>2, <1>5, <2>1
<1> QED
  BY <1>3, <1>4, <1>5, <1>6 DEF u, d, Numbers

(* A number written in the digits is read back.                            *)
LEMMA NumeralIs ==
  ASSUME NEW n \in Nat
  PROVE  Stream!Numeral(n) \in Numbers /\ Stream!Size(Stream!Numeral(n)) = n
<1> DEFINE base == Len(Digits)
           Num(f, k) == (IF k < base THEN <<>> ELSE f[k \div base]) \o <<Digits[(k % base) + 1]>>
           Recurs(f, m) == f = [k \in 0..m |-> Num(f, k)]
           P == {m \in 0..n : \E f : Recurs(f, m)}
           t == CHOOSE f : f = [k \in 0..n |-> Num(f, k)]
<1>1. base \in Nat /\ base > 1
  BY DigitsType
<1>2. Stream!Numeral(n) = t[n]
  BY DEF Stream!Numeral
<1> HIDE DEF base
<1>3. \A k \in Nat : /\ k \div base \in Nat /\ (k % base) + 1 \in 1..base /\ k = (k \div base) * base + (k % base)
                     /\ k >= base => k \div base < k
                     /\ k < base => k % base = k
  BY <1>1
<1>4. 0 \in P
  <2> DEFINE g == [k \in 0..0 |-> <<Digits[(k % base) + 1]>>]
  <2>1. \A k \in 0..0 : Num(g, k) = <<>> \o <<Digits[(k % base) + 1]>>
    <3>1. \A k \in 0..0 : k < base
      BY <1>1
    <3> QED
      BY <3>1
  <2>2. \A k \in 0..0 : <<>> \o <<Digits[(k % base) + 1]>> = <<Digits[(k % base) + 1]>>
    <3> TAKE k \in 0..0
    <3>1. Digits[(k % base) + 1] \in Symbols
      <4>1. k \in Nat
        OBVIOUS
      <4>2. (k % base) + 1 \in 1..Len(Digits)
        BY <1>3, <4>1 DEF base
      <4> QED
        BY <4>2, Kinds
    <3>2. <<Digits[(k % base) + 1]>> \in Seq(Symbols)
      BY <3>1
    <3> QED
      BY <3>2, ConcatEmptySeq
  <2>3. Recurs(g, 0)
    BY <2>1, <2>2
  <2> HIDE DEF g, Recurs
  <2> QED
    BY <2>3
<1>5. ASSUME NEW m \in 1..n, m - 1 \in P PROVE m \in P
  <2>1. PICK f : Recurs(f, m - 1)
    BY <1>5
  <2> DEFINE g == [k \in 0..m |-> IF k = m THEN Num(f, m) ELSE f[k]]
  <2>2. ASSUME NEW k \in 0..m, k >= base PROVE g[k \div base] = f[k \div base]
    <3>1. k \div base \in 0..m /\ k \div base # m
      BY <1>3, <2>2
    <3> QED
      BY <3>1
  <2>3. ASSUME NEW k \in 0..m PROVE g[k] = Num(g, k)
    <3>1. Num(g, k) = Num(f, k)
      <4>1. CASE k < base
        BY <4>1
      <4>2. CASE ~(k < base)
        <5>1. g[k \div base] = f[k \div base]
          <6>1. k >= base
            BY <1>1, <4>2
          <6> HIDE DEF g
          <6> QED
            BY <2>2, <6>1
        <5> QED
          BY <4>2, <5>1
      <4> QED
        BY <4>1, <4>2
    <3>2. CASE k = m
      BY <3>1, <3>2
    <3>3. CASE k # m
      <4>1. k \in 0..(m - 1)
        BY <3>3
      <4>2. f[k] = Num(f, k)
        BY <2>1, <4>1
      <4> QED
        BY <3>1, <3>3, <4>2
    <3> QED
      BY <3>2, <3>3
  <2>4. Recurs(g, m)
    BY <2>3
  <2> HIDE DEF g, Recurs
  <2>5. m \in 0..n
    OBVIOUS
  <2> QED
    BY <2>4, <2>5
<1>6. \E f : Recurs(f, n)
  <2> HIDE DEF P, Recurs
  <2>1. \A m \in 0..n : m \in P
    BY <1>4, <1>5, EachStep
  <2>2. n \in P
    BY <2>1
  <2> QED
    BY <2>2 DEF P
<1>7. t = [k \in 0..n |-> Num(t, k)]
  BY <1>6
<1> HIDE DEF t, P
<1> DEFINE Q == {m \in 0..n : \A k \in 0..m : t[k] \in Numbers /\ Stream!Size(t[k]) = k}
<1>8. ASSUME NEW m \in 0..n, \A k \in 0..(m - 1) : t[k] \in Numbers /\ Stream!Size(t[k]) = k
      PROVE  t[m] \in Numbers /\ Stream!Size(t[m]) = m
  <2> DEFINE i == (m % base) + 1
  <2>1. i \in 1..base /\ i - 1 = m % base
    BY <1>1, <1>3
  <2>2. t[m] = (IF m < base THEN <<>> ELSE t[m \div base]) \o <<Digits[i]>>
    BY <1>7
  <2> HIDE DEF i
  <2>3. CASE m < base
    <3>1. t[m] = <<>> \o <<Digits[i]>>
      BY <2>2, <2>3
    <3>2. <<>> \in Numbers
      BY DEF Numbers
    <3>3. t[m] \in Numbers /\ Stream!Size(t[m]) = 0 * base + (i - 1)
      BY <2>1, <3>1, <3>2, OneDigitMore, SizeOfNone DEF base
    <3>4. m % base = m
      BY <1>3, <2>3
    <3> QED
      BY <1>1, <2>1, <3>3, <3>4
  <2>4. CASE ~(m < base)
    <3> DEFINE q == m \div base
    <3>1. q \in 0..(m - 1) /\ m = q * base + (m % base)
      BY <1>1, <1>3, <2>4
    <3>2. t[m] = t[q] \o <<Digits[i]>>
      BY <2>2, <2>4
    <3> HIDE DEF q
    <3>3. t[q] \in Numbers /\ Stream!Size(t[q]) = q
      BY <1>8, <3>1
    <3>4. t[m] \in Numbers /\ Stream!Size(t[m]) = q * base + (i - 1)
      BY <2>1, <3>2, <3>3, OneDigitMore DEF base
    <3> QED
      BY <2>1, <3>1, <3>4
  <2> QED
    BY <2>3, <2>4
<1>9. 0 \in Q
  <2>1. t[0] \in Numbers /\ Stream!Size(t[0]) = 0
    BY <1>8
  <2> QED
    BY <2>1
<1>10. ASSUME NEW m \in 1..n, m - 1 \in Q PROVE m \in Q
  <2>1. \A k \in 0..(m - 1) : t[k] \in Numbers /\ Stream!Size(t[k]) = k
    BY <1>10
  <2>2. t[m] \in Numbers /\ Stream!Size(t[m]) = m
    BY <1>8, <2>1
  <2>3. \A k \in 0..m : k = m \/ k \in 0..(m - 1)
    OBVIOUS
  <2> QED
    BY <2>1, <2>2, <2>3
<1>11. n \in Q
  <2> HIDE DEF Q
  <2>1. \A m \in 0..n : m \in Q
    BY <1>9, <1>10, EachStep
  <2> QED
    BY <2>1
<1> QED
  BY <1>2, <1>11

(* The header of a chunk: its size and the end of the line.                *)
LEMMA HeaderSize ==
  ASSUME NEW n \in Nat
  PROVE  Stream!Size(Stream!Numeral(n) \o <<"cr">>) = n
<1>1. Stream!Numeral(n) \in Seq(Symbols) /\ Stream!Size(Stream!Numeral(n)) = n
  BY NumeralIs DEF Numbers
<1>2. "cr" \in Symbols /\ "cr" \in Stream!Words
  BY Kinds DEF Stream!Words
<1>3. Stream!Size(Stream!Numeral(n) \o <<"cr">>) = Taken(Stream!Size(Stream!Numeral(n)), "cr")
  BY <1>1, <1>2, SizeOfMore
<1> QED
  BY <1>1, <1>2, <1>3, TakenIs

(* What a chunk is, place by place.                                        *)
LEMMA ChunkPlaces ==
  ASSUME NEW data \in Seq(Symbols)
  PROVE  LET c == Stream!Chunk(data)
             num == Stream!Numeral(Len(data))
             h == Len(num)
         IN  /\ c \in Seq(Symbols) /\ Len(c) = h + 4 + Len(data) /\ h \in Nat
             /\ \A i \in 1..h : c[i] = num[i]
             /\ c[h + 1] = "cr" /\ c[h + 2] = "nl"
             /\ \A j \in 1..Len(data) : c[h + 2 + j] = data[j]
<1> DEFINE num == Stream!Numeral(Len(data))
           h == Len(num)
           z == <<"cr", "nl">>
           u == num \o z
           v == u \o data
           c == v \o z
<1>1. Len(data) \in Nat /\ num \in Seq(Symbols) /\ h \in Nat
  BY NumeralIs DEF Numbers
<1>2. z \in Seq(Symbols) /\ Len(z) = 2 /\ z[1] = "cr" /\ z[2] = "nl"
  <2>1. "cr" \in Symbols /\ "nl" \in Symbols
    BY Kinds DEF Stream!Words
  <2> QED
    BY <2>1
<1>3. Stream!Chunk(data) = c
  BY DEF Stream!Chunk
<1> HIDE DEF num, z
<1>4. /\ u \in Seq(Symbols) /\ Len(u) = h + Len(z)
      /\ \A i \in 1..h : u[i] = num[i]
      /\ \A j \in 1..Len(z) : u[h + j] = z[j]
  <2>1. num \in Seq(Symbols) /\ z \in Seq(Symbols)
    BY <1>1, <1>2
  <2> QED
    BY <2>1, Joined
<1> HIDE DEF h, u
<1>5. Len(u) = h + 2 /\ u[h + 1] = "cr" /\ u[h + 2] = "nl"
  BY <1>2, <1>4
<1>6. /\ v \in Seq(Symbols) /\ Len(v) = Len(u) + Len(data)
      /\ \A i \in 1..Len(u) : v[i] = u[i]
      /\ \A j \in 1..Len(data) : v[Len(u) + j] = data[j]
  <2>1. u \in Seq(Symbols) /\ data \in Seq(Symbols)
    BY <1>4
  <2> QED
    BY <2>1, Joined
<1> HIDE DEF v
<1>7. /\ c \in Seq(Symbols) /\ Len(c) = Len(v) + Len(z)
      /\ \A i \in 1..Len(v) : c[i] = v[i]
  <2>1. v \in Seq(Symbols) /\ z \in Seq(Symbols)
    BY <1>2, <1>6
  <2> QED
    BY <2>1, Joined
<1> HIDE DEF c
<1>8. Len(c) = h + 4 + Len(data)
  BY <1>1, <1>2, <1>5, <1>6, <1>7
<1>9. \A i \in 1..h : c[i] = num[i]
  <2> TAKE i \in 1..h
  <2>1. i \in 1..Len(u) /\ i \in 1..Len(v)
    BY <1>1, <1>5, <1>6
  <2> QED
    BY <1>4, <1>6, <1>7, <2>1
<1>10. c[h + 1] = "cr" /\ c[h + 2] = "nl"
  <2>1. h + 1 \in 1..Len(u) /\ h + 2 \in 1..Len(u) /\ h + 1 \in 1..Len(v) /\ h + 2 \in 1..Len(v)
    BY <1>1, <1>5, <1>6
  <2> QED
    BY <1>5, <1>6, <1>7, <2>1
<1>11. \A j \in 1..Len(data) : c[h + 2 + j] = data[j]
  <2> TAKE j \in 1..Len(data)
  <2>1. Len(u) + j \in 1..Len(v) /\ Len(u) + j = h + 2 + j
    BY <1>1, <1>5, <1>6
  <2>2. c[Len(u) + j] = v[Len(u) + j] /\ v[Len(u) + j] = data[j]
    BY <1>6, <1>7, <2>1
  <2> QED
    BY <2>1, <2>2
<1> QED
  BY <1>1, <1>3, <1>7, <1>8, <1>9, <1>10, <1>11 DEF h, num

(* The body of a plain reply: its text in braces.                          *)
TextOf(r) == IF r.error THEN <<"error">> ELSE r.pieces

(* What the body of a plain reply is, place by place.                      *)
LEMMA PlainIs ==
  ASSUME NEW r \in Stream!ServerReplies, ~r.stream
  PROVE  LET B == Stream!BodyOf(r)
             t == TextOf(r)
         IN  /\ t \in Seq(Symbols) /\ Len(t) \in Nat /\ \A i \in 1..Len(t) : t[i] # "rbrace"
             /\ B \in Seq(Symbols) /\ Len(B) = Len(t) + 2 /\ B[1] = "lbrace" /\ B[Len(t) + 2] = "rbrace"
             /\ \A i \in 1..Len(t) : B[i + 1] = t[i]
<1> DEFINE B == Stream!BodyOf(r)
           t == TextOf(r)
           x == <<"lbrace">>
           z == <<"rbrace">>
           u == x \o t
<1>1. t \in Seq(Symbols) /\ Len(t) \in Nat /\ \A i \in 1..Len(t) : t[i] # "rbrace"
  <2>1. CASE r.error
    <3>1. "error" \in Symbols
      BY Kinds DEF Stream!Words
    <3> DEFINE v == <<"error">>
    <3>2. t = v
      BY <2>1 DEF TextOf
    <3>3. v \in Seq(Symbols) /\ Len(v) = 1 /\ v[1] = "error"
      BY <3>1
    <3> HIDE DEF t, v
    <3>4. \A i \in 1..Len(t) : i = 1
      BY <3>2, <3>3
    <3>5. t[1] # "rbrace"
      BY <3>2, <3>3
    <3>6. t \in Seq(Symbols) /\ Len(t) \in Nat
      BY <3>2, <3>3
    <3> QED
      BY <3>4, <3>5, <3>6
  <2>2. CASE ~r.error
    <3>1. t = r.pieces /\ t \in Seq(Stream!Deltas)
      BY <2>2, ReplyType DEF TextOf
    <3> HIDE DEF t
    <3>2. \A i \in 1..Len(t) : t[i] \in Stream!Deltas
      BY <3>1
    <3>3. t \in Seq(Symbols)
      <4>1. Stream!Deltas \subseteq Symbols
        BY Kinds
      <4> QED
        BY <3>1, <4>1, SeqMonotonic
    <3>4. \A i \in 1..Len(t) : t[i] # "rbrace"
      BY <3>2, Kinds DEF Stream!Words
    <3>5. Len(t) \in Nat
      BY <3>3, LenProperties
    <3> QED
      BY <3>3, <3>4, <3>5
  <2> QED
    BY <2>1, <2>2
<1>2. x \in Seq(Symbols) /\ z \in Seq(Symbols) /\ Len(x) = 1 /\ Len(z) = 1 /\ x[1] = "lbrace" /\ z[1] = "rbrace"
  <2>1. "lbrace" \in Symbols /\ "rbrace" \in Symbols
    BY Kinds DEF Stream!Words
  <2>2. x \in Seq(Symbols) /\ z \in Seq(Symbols)
    BY <2>1
  <2>3. Len(x) = 1 /\ Len(z) = 1 /\ x[1] = "lbrace" /\ z[1] = "rbrace"
    OBVIOUS
  <2> QED
    BY <2>2, <2>3
<1>3. B = u \o z
  BY DEF Stream!BodyOf, TextOf
<1> HIDE DEF t, x, z, B
<1>4. /\ u \in Seq(Symbols) /\ Len(u) = Len(x) + Len(t)
      /\ \A i \in 1..Len(x) : u[i] = x[i]
      /\ \A j \in 1..Len(t) : u[Len(x) + j] = t[j]
  <2>1. x \in Seq(Symbols) /\ t \in Seq(Symbols)
    BY <1>1, <1>2
  <2> QED
    BY <2>1, Joined
<1> HIDE DEF u
<1>5. /\ B \in Seq(Symbols) /\ Len(B) = Len(u) + Len(z)
      /\ \A i \in 1..Len(u) : B[i] = u[i]
      /\ \A j \in 1..Len(z) : B[Len(u) + j] = z[j]
  <2>1. u \in Seq(Symbols) /\ z \in Seq(Symbols)
    BY <1>2, <1>4
  <2> QED
    BY <1>3, <2>1, Joined
<1>6. Len(u) = Len(t) + 1 /\ Len(B) = Len(t) + 2 /\ B[1] = "lbrace"
  BY <1>1, <1>2, <1>4, <1>5
<1>7. B[Len(t) + 2] = "rbrace"
  <2>1. B[Len(u) + 1] = z[1]
    BY <1>2, <1>5
  <2>2. Len(u) + 1 = Len(t) + 2
    BY <1>1, <1>6
  <2> QED
    BY <1>2, <2>1, <2>2
<1>8. \A i \in 1..Len(t) : B[i + 1] = t[i]
  <2> TAKE i \in 1..Len(t)
  <2>1. i + 1 \in 1..Len(u) /\ Len(x) + i = i + 1
    BY <1>1, <1>2, <1>6
  <2> QED
    BY <1>4, <1>5, <2>1
<1> QED
  BY <1>1, <1>5, <1>6, <1>7, <1>8 DEF t, B

(* A body is never empty.                                                  *)
LEMMA BodyIs ==
  ASSUME NEW r \in Stream!ServerReplies
  PROVE  Stream!BodyOf(r) \in Seq(Symbols) /\ Len(Stream!BodyOf(r)) \in Nat /\ Len(Stream!BodyOf(r)) > 1
<1>1. CASE r.stream
  <2> DEFINE B == Stream!BodyOf(r)
             n == StreamLen(r)
  <2>1. B \in Seq(Symbols) /\ Len(B) = n /\ Len(r.pieces) \in Nat
    BY <1>1, StreamBody
  <2>2. n \in Nat /\ n > 1
    <3>1. CASE r.error
      BY <2>1, <3>1 DEF StreamLen
    <3>2. CASE ~r.error
      BY <2>1, <3>2 DEF StreamLen
    <3> QED
      BY <3>1, <3>2
  <2> HIDE DEF B, n
  <2>3. B \in Seq(Symbols) /\ Len(B) \in Nat /\ Len(B) > 1
    BY <2>1, <2>2
  <2> QED
    BY <2>3 DEF B
<1>2. CASE ~r.stream
  <2> DEFINE B == Stream!BodyOf(r)
             n == Len(TextOf(r))
  <2>1. B \in Seq(Symbols) /\ Len(B) = n + 2 /\ n \in Nat
    BY <1>2, PlainIs
  <2> HIDE DEF B, n
  <2>2. B \in Seq(Symbols) /\ Len(B) \in Nat /\ Len(B) > 1
    BY <2>1
  <2> QED
    BY <2>2 DEF B
<1> QED
  BY <1>1, <1>2

(* Where the chunks of a body end, the last one, of nothing, with it.      *)
EndAt(ends, k)  == IF k = 0 THEN 0 ELSE IF k <= Len(ends) THEN ends[k] ELSE ends[Len(ends)]
SizeAt(ends, k) == EndAt(ends, k) - EndAt(ends, k - 1)
NumAt(ends, k)  == Stream!Numeral(SizeAt(ends, k))

(* The chunks cut the whole body, none of them empty but the last.         *)
LEMMA CutsType ==
  ASSUME NEW r \in Stream!ServerReplies, r.framing = "chunked", NEW ends \in Stream!Cuts(r)
  PROVE  LET N == Len(ends)
             L == Len(Stream!BodyOf(r))
         IN  /\ N \in Nat /\ N > 0 /\ DOMAIN ends = 1..N
             /\ \A k \in 0..(N + 1) : EndAt(ends, k) \in 0..L
             /\ \A k \in 1..N : SizeAt(ends, k) \in Nat /\ SizeAt(ends, k) > 0 /\ EndAt(ends, k) = ends[k]
             /\ EndAt(ends, 0) = 0 /\ EndAt(ends, N) = L /\ EndAt(ends, N + 1) = L /\ SizeAt(ends, N + 1) = 0
<1> DEFINE N == Len(ends)
           L == Len(Stream!BodyOf(r))
<1>1. L \in Nat
  BY BodyIs
<1>2. PICK n \in 1..MaxChunks : /\ ends \in [1..n -> 1..L] /\ ends[n] = L
                                /\ \A i \in 2..n : ends[i - 1] < ends[i]
  BY DEF Stream!Cuts
<1>3. MaxChunks \in Nat
  BY ServicesAssumption DEF Stream!StreamAssumption
<1>4. N = n /\ n \in Nat /\ n > 0 /\ DOMAIN ends = 1..n
  BY <1>2, <1>3
<1> HIDE DEF N, L
<1>5. EndAt(ends, 0) = 0 /\ \A k \in 1..n : EndAt(ends, k) = ends[k] /\ ends[k] \in 1..L
  BY <1>2, <1>4 DEF EndAt, N
<1>6. EndAt(ends, n + 1) = L /\ EndAt(ends, n) = L
  BY <1>2, <1>4, <1>5 DEF EndAt, N
<1>7. \A k \in 0..(n + 1) : EndAt(ends, k) \in 0..L
  <2> TAKE k \in 0..(n + 1)
  <2>1. k = 0 \/ k \in 1..n \/ k = n + 1
    BY <1>4
  <2> QED
    BY <1>1, <1>5, <1>6, <2>1
<1>8. \A k \in 1..n : SizeAt(ends, k) \in Nat /\ SizeAt(ends, k) > 0
  <2> TAKE k \in 1..n
  <2>1. EndAt(ends, k) = ends[k] /\ ends[k] \in 1..L
    BY <1>5
  <2>2. CASE k = 1
    BY <1>1, <1>5, <2>1, <2>2 DEF SizeAt
  <2>3. CASE k # 1
    <3>1. k - 1 \in 1..n /\ k \in 2..n
      BY <1>4, <2>3
    <3>2. EndAt(ends, k - 1) = ends[k - 1] /\ ends[k - 1] \in 1..L /\ ends[k - 1] < ends[k]
      BY <1>2, <1>5, <3>1
    <3> QED
      BY <1>1, <2>1, <3>2 DEF SizeAt
  <2> QED
    BY <2>2, <2>3
<1>9. SizeAt(ends, n + 1) = 0
  <2>1. (n + 1) - 1 = n
    BY <1>4
  <2> QED
    BY <1>1, <1>6, <2>1 DEF SizeAt
<1> QED
  BY <1>4, <1>5, <1>6, <1>7, <1>8, <1>9 DEF N, L

(* The layout of a body in chunks: the k-th ends at the place b[k].        *)
Layout(r, ends, b) ==
  LET B == Stream!BodyOf(r)
      C == Stream!Chunked(B, ends)
      N == Len(ends)
  IN  /\ b \in [0..(N + 1) -> Nat] /\ b[0] = 0 /\ C \in Seq(Symbols) /\ Len(C) = b[N + 1]
      /\ \A k \in 1..(N + 1) :
           LET h == Len(NumAt(ends, k))
           IN  /\ b[k] = b[k - 1] + h + 4 + SizeAt(ends, k) /\ b[k] <= b[N + 1]
               /\ \A i \in 1..h : C[b[k - 1] + i] = NumAt(ends, k)[i]
               /\ C[b[k - 1] + h + 1] = "cr" /\ C[b[k - 1] + h + 2] = "nl"
               /\ \A j \in 1..SizeAt(ends, k) : C[b[k - 1] + h + 2 + j] = B[EndAt(ends, k - 1) + j]

(* Every chunked body has such places.                                     *)
LEMMA ChunkedHasLayout ==
  ASSUME NEW r \in Stream!ServerReplies, r.framing = "chunked", NEW ends \in Stream!Cuts(r)
  PROVE  \E b : Layout(r, ends, b)
<1> DEFINE B == Stream!BodyOf(r)
           C == Stream!Chunked(B, ends)
           N == Len(ends)
           L == Len(B)
           First(i) == IF i = 1 THEN 1 ELSE ends[i - 1] + 1
           q == [i \in DOMAIN ends |-> Stream!Chunk(SubSeq(B, First(i), ends[i]))]
           f == FlattenSeq(q)
           z == Stream!Chunk(<<>>)
<1>1. B \in Seq(Symbols) /\ L \in Nat
  BY BodyIs
<1>2. /\ N \in Nat /\ N > 0 /\ DOMAIN ends = 1..N
      /\ \A k \in 0..(N + 1) : EndAt(ends, k) \in 0..L
      /\ \A k \in 1..N : SizeAt(ends, k) \in Nat /\ SizeAt(ends, k) > 0 /\ EndAt(ends, k) = ends[k]
      /\ EndAt(ends, 0) = 0 /\ SizeAt(ends, N + 1) = 0
  BY CutsType
<1>3. C = f \o z
  <2>1. Stream!FlattenSeq(q) = FlattenSeq(q)
    BY DEF Stream!FlattenSeq, FlattenSeq
  <2> QED
    BY <2>1 DEF Stream!Chunked
<1> DEFINE Share(k) == SubSeq(B, EndAt(ends, k - 1) + 1, EndAt(ends, k))
<1>4. ASSUME NEW k \in 1..N
      PROVE  /\ q[k] = Stream!Chunk(Share(k))
             /\ Share(k) \in Seq(Symbols) /\ Len(Share(k)) = SizeAt(ends, k)
             /\ \A j \in 1..SizeAt(ends, k) : Share(k)[j] = B[EndAt(ends, k - 1) + j]
  <2>1. k - 1 \in 0..(N + 1) /\ k \in 0..(N + 1) /\ (k # 1 => k - 1 \in 1..N)
    BY <1>2
  <2>2. First(k) = EndAt(ends, k - 1) + 1
    <3>1. CASE k = 1
      BY <1>2, <3>1
    <3>2. CASE k # 1
      BY <1>2, <2>1, <3>2
    <3> QED
      BY <3>1, <3>2
  <2>3. q[k] = Stream!Chunk(Share(k))
    BY <1>2, <2>2
  <2> DEFINE s == EndAt(ends, k - 1)
             e == EndAt(ends, k)
  <2>4. s \in 0..L /\ e \in 0..L /\ e - s \in Nat /\ SizeAt(ends, k) = e - s
    BY <1>2, <2>1 DEF SizeAt
  <2> HIDE DEF s, e
  <2>5. s \in Nat /\ e \in s..Len(B)
    BY <1>1, <2>4
  <2>6. /\ SubSeq(B, s + 1, e) \in Seq(Symbols) /\ Len(SubSeq(B, s + 1, e)) = e - s
        /\ \A j \in 1..(e - s) : SubSeq(B, s + 1, e)[j] = B[s + j]
    BY <1>1, <2>5, PartOf
  <2> QED
    BY <2>3, <2>4, <2>6 DEF s, e
<1> HIDE DEF B, C, q, Share, N
<1>5. q \in [1..N -> Seq(Symbols)]
  <2>1. \A k \in 1..N : q[k] \in Seq(Symbols)
    BY <1>4, ChunkPlaces
  <2> QED
    BY <1>2, <2>1 DEF q
<1>6. f \in Seq(Symbols) /\ \E c \in [0..N -> Nat] : PartPlaces(f, q, N, c)
  BY <1>2, <1>5, Flattened
<1>7. PICK c \in [0..N -> Nat] : PartPlaces(f, q, N, c)
  BY <1>6
<1> HIDE DEF f, z
<1>8. /\ z \in Seq(Symbols) /\ Len(z) = Len(NumAt(ends, N + 1)) + 4 /\ Len(NumAt(ends, N + 1)) \in Nat
      /\ \A i \in 1..Len(NumAt(ends, N + 1)) : z[i] = NumAt(ends, N + 1)[i]
      /\ z[Len(NumAt(ends, N + 1)) + 1] = "cr" /\ z[Len(NumAt(ends, N + 1)) + 2] = "nl"
  <2>1. <<>> \in Seq(Symbols) /\ Len(<<>>) = 0 /\ NumAt(ends, N + 1) = Stream!Numeral(Len(<<>>))
    BY <1>2 DEF NumAt
  <2>2. LET num == Stream!Numeral(Len(<<>>))
            h == Len(num)
        IN  /\ z \in Seq(Symbols) /\ Len(z) = h + 4 + Len(<<>>) /\ h \in Nat
            /\ \A i \in 1..h : z[i] = num[i]
            /\ z[h + 1] = "cr" /\ z[h + 2] = "nl"
    BY <2>1, ChunkPlaces DEF z
  <2> QED
    BY <2>1, <2>2
<1>9. /\ C \in Seq(Symbols) /\ Len(C) = Len(f) + Len(z)
      /\ \A i \in 1..Len(f) : C[i] = f[i]
      /\ \A j \in 1..Len(z) : C[Len(f) + j] = z[j]
  <2>1. f \in Seq(Symbols) /\ z \in Seq(Symbols)
    BY <1>6, <1>8
  <2> QED
    BY <1>3, <2>1, Joined
<1> DEFINE b == [k \in 0..(N + 1) |-> IF k <= N THEN c[k] ELSE c[N] + Len(z)]
<1>10. b \in [0..(N + 1) -> Nat] /\ (\A k \in 0..N : b[k] = c[k]) /\ b[N + 1] = c[N] + Len(z)
  <2>1. Len(z) \in Nat
    BY <1>8
  <2> QED
    BY <1>2, <1>7, <2>1
<1> HIDE DEF b
<1>11. /\ c[0] = 0 /\ Len(f) = c[N]
       /\ \A k \in 1..N : /\ c[k] = c[k - 1] + Len(q[k]) /\ c[k] <= c[N]
                          /\ \A j \in 1..Len(q[k]) : f[c[k - 1] + j] = q[k][j]
  BY <1>7 DEF PartPlaces
<1> DEFINE Fits(k) ==
             /\ b[k] = b[k - 1] + Len(NumAt(ends, k)) + 4 + SizeAt(ends, k) /\ b[k] <= b[N + 1]
             /\ \A i \in 1..Len(NumAt(ends, k)) : C[b[k - 1] + i] = NumAt(ends, k)[i]
             /\ C[b[k - 1] + Len(NumAt(ends, k)) + 1] = "cr" /\ C[b[k - 1] + Len(NumAt(ends, k)) + 2] = "nl"
             /\ \A j \in 1..SizeAt(ends, k) : C[b[k - 1] + Len(NumAt(ends, k)) + 2 + j] = B[EndAt(ends, k - 1) + j]
<1>12. ASSUME NEW k \in 1..N PROVE Fits(k)
  <2> DEFINE h == Len(NumAt(ends, k))
             o == c[k - 1]
             s == q[k]
             m == SizeAt(ends, k)
  <2>1. /\ s \in Seq(Symbols) /\ Len(s) = h + 4 + m /\ h \in Nat /\ m \in Nat
        /\ \A i \in 1..h : s[i] = NumAt(ends, k)[i]
        /\ s[h + 1] = "cr" /\ s[h + 2] = "nl"
        /\ \A j \in 1..m : s[h + 2 + j] = Share(k)[j]
    <3>1. Share(k) \in Seq(Symbols) /\ Len(Share(k)) = m /\ s = Stream!Chunk(Share(k)) /\ NumAt(ends, k) = Stream!Numeral(Len(Share(k)))
      BY <1>4 DEF NumAt
    <3>2. LET num == Stream!Numeral(Len(Share(k)))
              g == Len(num)
          IN  /\ s \in Seq(Symbols) /\ Len(s) = g + 4 + Len(Share(k)) /\ g \in Nat
              /\ \A i \in 1..g : s[i] = num[i]
              /\ s[g + 1] = "cr" /\ s[g + 2] = "nl"
              /\ \A j \in 1..Len(Share(k)) : s[g + 2 + j] = Share(k)[j]
      <4> DEFINE d == Share(k)
                 c0 == Stream!Chunk(d)
      <4>1. d \in Seq(Symbols)
        BY <3>1
      <4> HIDE DEF d
      <4>2. LET num == Stream!Numeral(Len(d))
                g == Len(num)
            IN  /\ c0 \in Seq(Symbols) /\ Len(c0) = g + 4 + Len(d) /\ g \in Nat
                /\ \A i \in 1..g : c0[i] = num[i]
                /\ c0[g + 1] = "cr" /\ c0[g + 2] = "nl"
                /\ \A j \in 1..Len(d) : c0[g + 2 + j] = d[j]
        BY <4>1, ChunkPlaces
      <4> HIDE DEF c0
      <4>3. s = c0
        BY <3>1 DEF c0, d
      <4> HIDE DEF s
      <4> QED
        BY <4>2, <4>3 DEF d
    <3> QED
      BY <1>2, <3>1, <3>2
  <2>2. /\ k - 1 \in 0..N /\ k \in 0..N /\ o \in Nat /\ b[k - 1] = o /\ b[k] = c[k]
        /\ c[k] = o + Len(s) /\ c[k] <= Len(f) /\ c[N] \in Nat /\ Len(f) = c[N]
        /\ \A j \in 1..Len(s) : f[o + j] = s[j]
    <3>1. k - 1 \in 0..N /\ k \in 0..N /\ N \in 0..N
      BY <1>2
    <3>2. c[k - 1] \in Nat /\ c[N] \in Nat /\ b[k - 1] = c[k - 1] /\ b[k] = c[k]
      BY <1>7, <1>10, <3>1
    <3>3. /\ c[k] = c[k - 1] + Len(q[k]) /\ c[k] <= c[N] /\ Len(f) = c[N]
          /\ \A j \in 1..Len(q[k]) : f[c[k - 1] + j] = q[k][j]
      BY <1>11
    <3> QED
      BY <3>1, <3>2, <3>3
  <2>3. \A j \in 1..m : Share(k)[j] = B[EndAt(ends, k - 1) + j]
    BY <1>4
  <2> HIDE DEF h, o, s, m
  <2>4. \A j \in 1..(h + 4 + m) : C[o + j] = s[j]
    <3> TAKE j \in 1..(h + 4 + m)
    <3>1. j \in 1..Len(s) /\ o + j \in 1..Len(f)
      BY <2>1, <2>2
    <3> QED
      BY <1>9, <2>2, <3>1
  <2>5. \A i \in 1..h : C[o + i] = NumAt(ends, k)[i]
    <3> TAKE i \in 1..h
    <3>1. i \in 1..(h + 4 + m)
      BY <2>1
    <3> QED
      BY <2>1, <2>4, <3>1
  <2>6. C[o + (h + 1)] = "cr" /\ C[o + (h + 2)] = "nl"
    <3>1. h + 1 \in 1..(h + 4 + m) /\ h + 2 \in 1..(h + 4 + m)
      BY <2>1
    <3> QED
      BY <2>1, <2>4, <3>1
  <2>7. \A j \in 1..m : C[o + (h + 2 + j)] = B[EndAt(ends, k - 1) + j]
    <3> TAKE j \in 1..m
    <3>1. h + 2 + j \in 1..(h + 4 + m)
      BY <2>1
    <3> QED
      BY <2>1, <2>3, <2>4, <3>1
  <2>8. o + (h + 1) = o + h + 1 /\ o + (h + 2) = o + h + 2 /\ \A j \in 1..m : o + (h + 2 + j) = o + h + 2 + j
    BY <2>1, <2>2
  <2>9. b[k] = o + h + 4 + m /\ b[k] <= b[N + 1]
    BY <1>8, <1>10, <2>1, <2>2
  <2>10. \A j \in 1..m : C[o + h + 2 + j] = B[EndAt(ends, k - 1) + j]
    BY <2>7, <2>8
  <2> QED
    BY <2>2, <2>5, <2>6, <2>8, <2>9, <2>10 DEF h, m
<1>13. Fits(N + 1)
  <2> DEFINE h == Len(NumAt(ends, N + 1))
             o == c[N]
  <2>1. (N + 1) - 1 = N /\ N \in 0..N /\ o \in Nat /\ b[N] = o /\ b[N + 1] = o + Len(z) /\ Len(f) = o
    BY <1>2, <1>7, <1>10, <1>11
  <2>2. Len(z) = h + 4 /\ h \in Nat /\ (\A i \in 1..h : z[i] = NumAt(ends, N + 1)[i]) /\ z[h + 1] = "cr" /\ z[h + 2] = "nl"
    BY <1>8
  <2> HIDE DEF h, o
  <2>3. \A j \in 1..(h + 4) : C[o + j] = z[j]
    BY <1>9, <2>1, <2>2
  <2>4. \A i \in 1..h : C[o + i] = NumAt(ends, N + 1)[i]
    <3> TAKE i \in 1..h
    <3>1. i \in 1..(h + 4)
      BY <2>2
    <3> QED
      BY <2>2, <2>3, <3>1
  <2>5. C[o + (h + 1)] = "cr" /\ C[o + (h + 2)] = "nl"
    <3>1. h + 1 \in 1..(h + 4) /\ h + 2 \in 1..(h + 4)
      BY <2>2
    <3> QED
      BY <2>2, <2>3, <3>1
  <2>6. o + (h + 1) = o + h + 1 /\ o + (h + 2) = o + h + 2
    BY <2>1, <2>2
  <2>7. b[N + 1] = o + h + 4 + 0 /\ b[N + 1] <= b[N + 1] /\ SizeAt(ends, N + 1) = 0
    BY <1>2, <2>1, <2>2
  <2>8. b[(N + 1) - 1] = o
    BY <2>1
  <2>9. C[o + h + 1] = "cr" /\ C[o + h + 2] = "nl"
    BY <2>5, <2>6
  <2> QED
    BY <2>4, <2>7, <2>8, <2>9 DEF h
<1>14. \A k \in 1..(N + 1) : Fits(k)
  <2> TAKE k \in 1..(N + 1)
  <2>1. k \in 1..N \/ k = N + 1
    BY <1>2
  <2> QED
    BY <1>12, <1>13, <2>1
<1>15. b[0] = 0 /\ Len(C) = b[N + 1]
  <2>1. 0 \in 0..N
    BY <1>2
  <2> QED
    BY <1>9, <1>10, <1>11, <2>1
<1>16. Layout(r, ends, b)
  BY <1>9, <1>10, <1>14, <1>15 DEF Layout, B, C, N
<1> QED
  BY <1>16

(* What a reply's body looks like on the wire.                             *)
OnWire(r, ends) == IF r.framing = "chunked" THEN Stream!Chunked(Stream!BodyOf(r), ends) ELSE Stream!BodyOf(r)

(* A stream that was decoded up to the position q of the wire, while the   *)
(* k-th chunk is read: its header, its data or its end.                    *)
AtHeader(r, ends, b, a, q, k) ==
  /\ b[k - 1] <= q /\ q < b[k - 1] + Len(NumAt(ends, k)) + 2
  /\ a.hdr = SubSeq(Stream!Chunked(Stream!BodyOf(r), ends), b[k - 1] + 1, q)
  /\ a.remaining = 0 /\ a.skip = 0 /\ InLine(r, a, EndAt(ends, k - 1))
AtData(r, ends, b, a, q, k) ==
  /\ a.hdr = <<>> /\ a.skip = 0 /\ a.remaining > 0 /\ a.remaining <= SizeAt(ends, k)
  /\ q + a.remaining = b[k - 1] + Len(NumAt(ends, k)) + 2 + SizeAt(ends, k)
  /\ InLine(r, a, EndAt(ends, k) - a.remaining)
AtEnd(r, ends, b, a, q, k) ==
  /\ a.hdr = <<>> /\ a.remaining = 0 /\ a.skip > 0 /\ q + a.skip = b[k]
  /\ InLine(r, a, EndAt(ends, k))

DecodedTo(r, ends, b, a, q) ==
  IF r.framing = "chunked"
  THEN a.chunked /\ \E k \in 1..Len(ends) :
         AtHeader(r, ends, b, a, q, k) \/ AtData(r, ends, b, a, q, k) \/ AtEnd(r, ends, b, a, q, k)
  ELSE ~a.chunked /\ InLine(r, a, q)

(* The end of the body is not within a line.                               *)
LEMMA NotAtTheEnd ==
  ASSUME NEW r \in Stream!ServerReplies, r.stream, NEW a, NEW m \in Nat, InLine(r, a, m)
  PROVE  m < Len(Stream!BodyOf(r)) /\ a \in Stream!Accs /\ ~a.done /\ ~a.error
<1>1. /\ a \in Stream!Accs /\ ~a.error /\ ~a.done
      /\ \E s \in Nat, n \in Nat : LineAt(r, s, n, a.event) /\ s <= m /\ m < EndOf(s, n)
  BY DEF InLine
<1>2. PICK s \in Nat, n \in Nat : LineAt(r, s, n, a.event) /\ s <= m /\ m < EndOf(s, n)
  BY <1>1
<1>3. a.event \in BOOLEAN
  BY <1>1, AccType
<1> DEFINE e == EndOf(s, n)
           l == Len(Stream!BodyOf(r))
<1>4. e \in (s + 1)..l
  BY <1>2, <1>3, LineEnds
<1>5. l \in Nat
  BY BodyIs
<1>6. m < e
  BY <1>2
<1> HIDE DEF e, l
<1>7. m < l
  BY <1>4, <1>5, <1>6
<1> QED
  BY <1>1, <1>7 DEF l

(* What the decoder of lines does not look at.                             *)
LEMMA InLineStill ==
  ASSUME NEW r, NEW a, NEW x \in Stream!Accs, NEW m, InLine(r, a, m),
         x.line = a.line, x.event = a.event, x.pieces = a.pieces, x.error = a.error, x.done = a.done
  PROVE  InLine(r, x, m)
<1>1. ~x.error /\ ~x.done
  BY DEF InLine
<1>2. PICK s \in Nat, n \in Nat :
        /\ LineAt(r, s, n, a.event) /\ s <= m /\ m < EndOf(s, n)
        /\ a.line = SubSeq(Stream!BodyOf(r), s + 1, m)
        /\ a.pieces = SubSeq(r.pieces, 1, n)
  BY DEF InLine
<1>3. /\ LineAt(r, s, n, x.event) /\ s <= m /\ m < EndOf(s, n)
      /\ x.line = SubSeq(Stream!BodyOf(r), s + 1, m)
      /\ x.pieces = SubSeq(r.pieces, 1, n)
  BY <1>2
<1>4. \E s1 \in Nat, n1 \in Nat :
        /\ LineAt(r, s1, n1, x.event) /\ s1 <= m /\ m < EndOf(s1, n1)
        /\ x.line = SubSeq(Stream!BodyOf(r), s1 + 1, m)
        /\ x.pieces = SubSeq(r.pieces, 1, n1)
  BY <1>3
<1> QED
  BY <1>1, <1>4 DEF InLine

(* A round of sse_acc_feed.                                                *)
PartStates(r, ends, b, e) ==
  {p \in Stream!Accs \X Seq(Symbols) :
     \E q \in 0..e : /\ p[2] = SubSeq(OnWire(r, ends), q + 1, e)
                     /\ DecodedTo(r, ends, b, p[1], q) \/ StreamOver(r, p[1])}

(* The header of a chunk, a symbol at a time.                              *)
LEMMA HeaderStep ==
  ASSUME NEW r \in Stream!ServerReplies, r.stream, r.framing = "chunked", NEW ends \in Stream!Cuts(r),
         NEW b, Layout(r, ends, b), NEW a \in Stream!Accs, a.chunked, NEW q \in Nat,
         NEW k \in 1..Len(ends), AtHeader(r, ends, b, a, q, k)
  PROVE  LET c == OnWire(r, ends)[q + 1]
             x == IF c # "nl" THEN [a EXCEPT !.hdr = Append(a.hdr, c)]
                  ELSE [a EXCEPT !.hdr = <<>>, !.remaining = Stream!Size(a.hdr), !.done = Stream!Size(a.hdr) = 0]
         IN  x \in Stream!Accs /\ DecodedTo(r, ends, b, x, q + 1)
<1> DEFINE C == Stream!Chunked(Stream!BodyOf(r), ends)
           c == C[q + 1]
           h == Len(NumAt(ends, k))
           o == b[k - 1]
           z == SizeAt(ends, k)
           num == NumAt(ends, k)
           E0 == EndAt(ends, k - 1)
           E1 == EndAt(ends, k)
           N == Len(ends)
<1>1. /\ N \in Nat /\ z \in Nat /\ z > 0 /\ E0 \in Nat /\ E1 \in Nat /\ E1 - z = E0
  <2>1. k \in 0..(N + 1) /\ k - 1 \in 0..(N + 1) /\ N \in Nat
    BY CutsType
  <2>2. E0 \in Nat /\ E1 \in Nat
    <3>1. E0 \in 0..Len(Stream!BodyOf(r)) /\ E1 \in 0..Len(Stream!BodyOf(r))
      BY <2>1, CutsType
    <3> QED
      BY <3>1
  <2>3. z \in Nat /\ z > 0 /\ z = E1 - E0
    BY CutsType DEF SizeAt
  <2> HIDE DEF z, E0, E1
  <2> QED
    BY <2>1, <2>2, <2>3
<1>2. /\ b \in [0..(N + 1) -> Nat] /\ C \in Seq(Symbols) /\ Len(C) = b[N + 1]
      /\ b[k] = o + h + 4 + z /\ b[k] <= b[N + 1]
      /\ \A i \in 1..h : C[o + i] = num[i]
      /\ C[o + h + 1] = "cr" /\ C[o + h + 2] = "nl"
  <2>1. k \in 1..(N + 1)
    BY <1>1
  <2> QED
    BY <2>1 DEF Layout
<1>3. num \in Seq(Symbols) /\ h \in Nat /\ (\A i \in 1..h : num[i] \notin Stream!Words) /\ Stream!Size(num \o <<"cr">>) = z
  <2>1. num = Stream!Numeral(z)
    BY DEF NumAt
  <2>2. num \in Numbers /\ Stream!Size(num \o <<"cr">>) = z
    BY <1>1, <2>1, NumeralIs, HeaderSize
  <2> QED
    BY <2>2 DEF Numbers
<1>4. /\ o <= q /\ q < o + h + 2 /\ a.hdr = SubSeq(C, o + 1, q)
      /\ a.remaining = 0 /\ a.skip = 0 /\ InLine(r, a, E0)
  BY DEF AtHeader
<1>5. o \in Nat /\ b[N + 1] \in Nat /\ b[k] \in Nat
  <2>1. k - 1 \in 0..(N + 1) /\ N + 1 \in 0..(N + 1) /\ k \in 0..(N + 1)
    BY <1>1
  <2> QED
    BY <1>2, <2>1
<1>6. ~a.done /\ ~a.error
  BY <1>4 DEF InLine
<1>7. OnWire(r, ends) = C
  BY DEF OnWire
<1> HIDE DEF C, h, o, z, num, E0, E1, N
<1>8. q \in o..Len(C) /\ q + 1 \in o..Len(C) /\ q + 1 \in 1..Len(C)
  <2> DEFINE y == b[k]
             l == Len(C)
  <2>1. y = o + h + 4 + z /\ y <= l /\ l \in Nat
    BY <1>2, <1>5
  <2>2. o \in Nat /\ h \in Nat /\ z \in Nat /\ o <= q /\ q < o + h + 2
    BY <1>1, <1>3, <1>4, <1>5
  <2> HIDE DEF y, l
  <2>3. q \in o..l /\ q + 1 \in o..l /\ q + 1 \in 1..l
    BY <2>1, <2>2
  <2> QED
    BY <2>3 DEF l
<1>9. c \in Symbols
  BY <1>2, <1>8
<1>10. CASE c # "nl"
  <2> DEFINE x == [a EXCEPT !.hdr = Append(a.hdr, c)]
  <2>1. q + 1 < o + h + 2
    <3>1. q + 1 # o + h + 2
      BY <1>2, <1>10
    <3> QED
      BY <1>3, <1>4, <1>5, <3>1
  <2>2. Append(a.hdr, c) = SubSeq(C, o + 1, q + 1)
    <3>1. q + 1 \in (o + 1)..Len(C)
      BY <1>4, <1>5, <1>8
    <3>2. SubSeq(C, o + 1, q + 1) = Append(SubSeq(C, o + 1, q), C[q + 1])
      <4>1. C \in Seq(Symbols) /\ o \in Nat /\ q \in o..Len(C) /\ q + 1 \in o..Len(C)
        <5>1. C \in Seq(Symbols)
          BY <1>2
        <5>2. o \in Nat
          BY <1>5
        <5> QED
          BY <1>8, <5>1, <5>2
      <4>2. \A e \in o..Len(C) : /\ SubSeq(C, o + 1, e) \in Seq(Symbols) /\ Len(SubSeq(C, o + 1, e)) = e - o
                                /\ \A i \in 1..(e - o) : SubSeq(C, o + 1, e)[i] = C[o + i]
        <5> HIDE DEF x, c
        <5> QED
          BY <4>1, PartOf
      <4> DEFINE u == Append(SubSeq(C, o + 1, q), C[q + 1])
                 v == SubSeq(C, o + 1, q + 1)
                 w == SubSeq(C, o + 1, q)
      <4>3. w \in Seq(Symbols) /\ Len(w) = q - o /\ \A i \in 1..(q - o) : w[i] = C[o + i]
        BY <4>1, <4>2
      <4>4. v \in Seq(Symbols) /\ Len(v) = (q + 1) - o /\ \A i \in 1..((q + 1) - o) : v[i] = C[o + i]
        BY <4>1, <4>2
      <4> HIDE DEF w
      <4>5. u \in Seq(Symbols) /\ Len(u) = Len(w) + 1 /\ (\A i \in 1..Len(w) : u[i] = w[i]) /\ u[Len(w) + 1] = C[q + 1]
        BY <1>9, <4>3, AppendProperties DEF w
      <4> HIDE DEF u, v
      <4>6. \A i \in 1..Len(v) : v[i] = u[i]
        <5> TAKE i \in 1..Len(v)
        <5>1. CASE i <= q - o
          <6>1. i \in 1..(q - o) /\ i \in 1..((q + 1) - o) /\ i \in 1..Len(w)
            BY <1>4, <1>5, <4>3, <4>4, <5>1
          <6> QED
            BY <4>3, <4>4, <4>5, <6>1
        <5>2. CASE ~(i <= q - o)
          <6>1. i = (q + 1) - o /\ o + i = q + 1 /\ i = Len(w) + 1 /\ i \in 1..((q + 1) - o)
            BY <1>4, <1>5, <4>3, <4>4, <5>2
          <6> QED
            BY <4>4, <4>5, <6>1
        <5> QED
          BY <5>1, <5>2
      <4>7. Len(v) = Len(u)
        BY <1>4, <1>5, <4>3, <4>4, <4>5
      <4>8. v = u
        BY <4>4, <4>5, <4>6, <4>7, SameSeq
      <4> QED
        BY <4>8 DEF u, v, w
    <3> QED
      BY <1>4, <3>2
  <2>3. x \in Stream!Accs
    <3>1. Append(a.hdr, c) \in Seq(Stream!Symbols)
      BY <1>9, AccType, AppendProperties DEF Symbols
    <3> QED
      BY <3>1 DEF Stream!Accs
  <2>4. /\ x.hdr = Append(a.hdr, c) /\ x.chunked = a.chunked /\ x.remaining = a.remaining /\ x.skip = a.skip
        /\ x.line = a.line /\ x.event = a.event /\ x.pieces = a.pieces /\ x.error = a.error /\ x.done = a.done
    BY DEF Stream!Accs
  <2> HIDE DEF x
  <2>5. InLine(r, x, E0)
    BY <1>4, <2>3, <2>4, InLineStill
  <2>6. AtHeader(r, ends, b, x, q + 1, k)
    <3>1. o <= q + 1
      BY <1>4, <1>5
    <3> QED
      BY <1>4, <2>1, <2>2, <2>4, <2>5, <3>1 DEF AtHeader, o, h, C, E0
  <2>7. DecodedTo(r, ends, b, x, q + 1)
    BY <2>4, <2>6 DEF DecodedTo
  <2> QED
    BY <1>7, <1>10, <2>3, <2>7 DEF x
<1>11. CASE c = "nl"
  <2> DEFINE n == Stream!Size(a.hdr)
             x == [a EXCEPT !.hdr = <<>>, !.remaining = n, !.done = n = 0]
  <2>1. q + 1 = o + h + 2
    <3>1. "nl" \in Stream!Words /\ "cr" # "nl"
      BY DEF Stream!Words
    <3>2. CASE q + 1 <= o + h
      <4>1. (q + 1) - o \in 1..h /\ o + ((q + 1) - o) = q + 1
        BY <1>3, <1>4, <1>5, <3>2
      <4>2. c = num[(q + 1) - o]
        BY <1>2, <4>1
      <4> QED
        BY <1>3, <1>11, <3>1, <4>1, <4>2
    <3>3. CASE q + 1 = o + h + 1
      BY <1>2, <1>11, <3>1, <3>3
    <3> QED
      BY <1>3, <1>4, <1>5, <3>2, <3>3
  <2>2. a.hdr = num \o <<"cr">>
    <3> DEFINE u == num \o <<"cr">>
               w == SubSeq(C, o + 1, q)
    <3>1. w \in Seq(Symbols) /\ Len(w) = q - o /\ \A i \in 1..(q - o) : w[i] = C[o + i]
      BY <1>2, <1>5, <1>8, PartOf
    <3>2. u \in Seq(Symbols) /\ Len(u) = h + 1 /\ (\A i \in 1..h : u[i] = num[i]) /\ u[h + 1] = "cr"
      <4>1. "cr" \in Symbols
        BY Kinds DEF Stream!Words
      <4> DEFINE v == <<"cr">>
      <4>2. v \in Seq(Symbols) /\ Len(v) = 1 /\ v[1] = "cr"
        BY <4>1
      <4>3. u = num \o v /\ h = Len(num)
        BY DEF h, num
      <4> HIDE DEF v
      <4>4. /\ num \o v \in Seq(Symbols) /\ Len(num \o v) = Len(num) + Len(v)
            /\ \A i \in 1..Len(num) : (num \o v)[i] = num[i]
            /\ \A j \in 1..Len(v) : (num \o v)[Len(num) + j] = v[j]
        BY <1>3, <4>2, Joined
      <4> HIDE DEF u
      <4> QED
        BY <4>2, <4>3, <4>4
    <3> HIDE DEF u, w
    <3>3. Len(w) = Len(u) /\ q - o = h + 1
      BY <1>3, <1>4, <1>5, <2>1, <3>1, <3>2
    <3>4. \A i \in 1..Len(w) : w[i] = u[i]
      <4> TAKE i \in 1..Len(w)
      <4>1. i \in 1..(q - o) /\ (i \in 1..h \/ i = h + 1)
        BY <1>3, <3>1, <3>3
      <4>2. w[i] = C[o + i]
        BY <3>1, <4>1
      <4>3. CASE i \in 1..h
        BY <1>2, <3>2, <4>2, <4>3
      <4>4. CASE i = h + 1
        <5>1. o + (h + 1) = o + h + 1
          BY <1>3, <1>5
        <5> QED
          BY <1>2, <3>2, <4>2, <4>4, <5>1
      <4> QED
        BY <4>1, <4>3, <4>4
    <3>5. w = u
      BY <3>1, <3>2, <3>3, <3>4, SameSeq
    <3> QED
      BY <1>4, <3>5 DEF u, w
  <2>3. n = z /\ n \in Nat /\ n > 0
    BY <1>1, <1>3, <2>2
  <2> HIDE DEF n
  <2>4. x \in Stream!Accs
    <3>1. <<>> \in Seq(Stream!Symbols) /\ (n = 0) \in BOOLEAN
      OBVIOUS
    <3> QED
      BY <2>3, <3>1 DEF Stream!Accs
  <2>5. /\ x.hdr = <<>> /\ x.remaining = n /\ x.chunked = a.chunked /\ x.skip = a.skip
        /\ x.line = a.line /\ x.event = a.event /\ x.pieces = a.pieces /\ x.error = a.error
    BY DEF Stream!Accs
  <2>6. x.done = FALSE
    <3>1. x.done = (n = 0)
      BY DEF Stream!Accs
    <3>2. n # 0
      BY <2>3
    <3> QED
      BY <3>1, <3>2, Zenon
  <2>7. a.done = FALSE
    BY <1>6, AccType
  <2> HIDE DEF x
  <2>8. InLine(r, x, E0)
    BY <1>4, <2>4, <2>5, <2>6, <2>7, InLineStill
  <2>9. AtData(r, ends, b, x, q + 1, k)
    <3>1. (q + 1) + x.remaining = o + h + 2 + z /\ x.remaining > 0 /\ x.remaining <= z /\ E1 - x.remaining = E0 /\ x.skip = 0
      BY <1>1, <1>3, <1>4, <1>5, <2>1, <2>3, <2>5
    <3> QED
      BY <2>5, <2>8, <3>1 DEF AtData, o, h, z, E0, E1
  <2>10. DecodedTo(r, ends, b, x, q + 1)
    BY <2>5, <2>9 DEF DecodedTo
  <2> QED
    BY <1>7, <1>11, <2>4, <2>10 DEF x, n
<1> QED
  BY <1>10, <1>11

(* The data of a chunk, as much as came of it.                             *)
LEMMA DataStep ==
  ASSUME NEW r \in Stream!ServerReplies, r.stream, r.framing = "chunked", NEW ends \in Stream!Cuts(r),
         NEW b, Layout(r, ends, b), NEW a \in Stream!Accs, a.chunked, NEW q \in Nat,
         NEW e \in (q + 1)..Len(OnWire(r, ends)), NEW k \in 1..Len(ends), AtData(r, ends, b, a, q, k)
  PROVE  LET x == Stream!InChunk(a, SubSeq(OnWire(r, ends), q + 1, e))
         IN  /\ x[1] \in Stream!Accs /\ x = <<x[1], x[2]>>
             /\ \E n \in 1..(e - q) : /\ x[2] = SubSeq(OnWire(r, ends), q + n + 1, e)
                                      /\ DecodedTo(r, ends, b, x[1], q + n) \/ StreamOver(r, x[1])
<1> DEFINE B == Stream!BodyOf(r)
           C == Stream!Chunked(B, ends)
           h == Len(NumAt(ends, k))
           o == b[k - 1]
           z == SizeAt(ends, k)
           E0 == EndAt(ends, k - 1)
           E1 == EndAt(ends, k)
           N == Len(ends)
           d == SubSeq(C, q + 1, e)
           R == a.remaining
           n == IF R < e - q THEN R ELSE e - q
           m == E1 - R
           y == Stream!FeedLines(a, SubSeq(d, 1, n))
           s == IF R = n THEN 2 ELSE 0
           v == [y EXCEPT !.remaining = y.remaining - n, !.skip = s]
           x == Stream!InChunk(a, d)
<1>1. B \in Seq(Symbols) /\ Len(B) \in Nat
  BY BodyIs
<1>2. /\ N \in Nat /\ z \in Nat /\ E0 \in 0..Len(B) /\ E1 \in 0..Len(B) /\ z = E1 - E0
  <2>1. k \in 0..(N + 1) /\ k - 1 \in 0..(N + 1) /\ N \in Nat
    BY CutsType
  <2>2. E0 \in 0..Len(B) /\ E1 \in 0..Len(B)
    BY <2>1, CutsType
  <2>3. z \in Nat /\ z = E1 - E0
    BY CutsType DEF SizeAt
  <2> QED
    BY <2>1, <2>2, <2>3
<1>3. /\ b \in [0..(N + 1) -> Nat] /\ C \in Seq(Symbols) /\ Len(C) = b[N + 1]
      /\ b[k] = o + h + 4 + z /\ b[k] <= b[N + 1]
      /\ \A j \in 1..z : C[o + h + 2 + j] = B[E0 + j]
  <2>1. k \in 1..(N + 1)
    BY <1>2
  <2> QED
    BY <2>1 DEF Layout
<1>4. h \in Nat
  <2>1. NumAt(ends, k) \in Seq(Symbols)
    BY <1>2, NumeralIs DEF NumAt, Numbers
  <2> QED
    BY <2>1, LenProperties
<1>5. o \in Nat /\ b[k] \in Nat /\ b[N + 1] \in Nat
  <2>1. k - 1 \in 0..(N + 1) /\ k \in 0..(N + 1) /\ N + 1 \in 0..(N + 1)
    BY <1>2
  <2> QED
    BY <1>3, <2>1
<1>6. /\ a.hdr = <<>> /\ a.skip = 0 /\ R > 0 /\ R <= z /\ q + R = o + h + 2 + z /\ InLine(r, a, m)
  BY DEF AtData
<1>7. R \in Nat
  BY AccType
<1>8. OnWire(r, ends) = C
  BY DEF OnWire
<1> HIDE DEF B, C, h, o, z, E0, E1, N, d, R
<1>9. e \in (q + 1)..Len(C) /\ e \in Nat /\ Len(C) \in Nat
  BY <1>3, <1>5, <1>8
<1>10. d \in Seq(Symbols) /\ Len(d) = e - q
  <2>1. e \in q..Len(C)
    BY <1>9
  <2> QED
    BY <1>3, <2>1, PartOf DEF d
<1>11. n \in 1..(e - q) /\ n <= R /\ (n = R \/ n = e - q)
  BY <1>6, <1>7, <1>9
<1>12. m \in Nat /\ m + n \in m..Len(B) /\ m + n = E1 - (R - n)
  BY <1>1, <1>2, <1>6, <1>7, <1>11
<1>13. x = <<v, Stream!From(d, n + 1)>>
  BY <1>10 DEF Stream!InChunk, R
<1> HIDE DEF n
<1>14. Stream!From(d, n + 1) = SubSeq(C, q + n + 1, e)
  <2>1. e \in q..Len(C) /\ n \in Nat /\ Len(d) \in n..(e - q)
    BY <1>9, <1>10, <1>11
  <2>2. SubSeq(SubSeq(C, q + 1, e), n + 1, Len(d)) = SubSeq(C, q + n + 1, q + Len(d))
    BY <1>3, <2>1, PartOfPart
  <2>3. q + Len(d) = e
    BY <1>9, <1>10
  <2> QED
    BY <2>2, <2>3 DEF Stream!From, d
<1>15. SubSeq(d, 1, n) = SubSeq(B, m + 1, m + n)
  <2>1. e \in q..Len(C) /\ 0 \in Nat /\ n \in 0..(e - q) /\ n \in Nat
    BY <1>9, <1>10, <1>11
  <2>2. SubSeq(SubSeq(C, q + 1, e), 0 + 1, n) = SubSeq(C, q + 0 + 1, q + n)
    BY <1>3, <2>1, PartOfPart
  <2>3. q + 0 + 1 = q + 1 /\ 0 + 1 = 1
    OBVIOUS
  <2>4. SubSeq(C, q + 1, q + n) = SubSeq(B, m + 1, m + n)
    <3>1. q + n <= Len(C) /\ m + n <= Len(B)
      BY <1>1, <1>9, <1>11, <1>12
    <3>2. \A j \in 1..n : C[q + j] = B[m + j]
      <4> TAKE j \in 1..n
      <4> DEFINE g == q - (o + h + 2)
      <4>0. g = z - R /\ g \in Nat
        <5>1. q + R = o + h + 2 + z /\ R <= z
          BY <1>6
        <5> QED
          BY <1>2, <1>4, <1>5, <1>7, <5>1
      <4>1. g + j \in 1..z
        <5>1. j \in Nat /\ 1 <= j /\ j <= R
          BY <1>7, <1>9, <1>11
        <5> HIDE DEF g
        <5> QED
          BY <1>2, <1>7, <4>0, <5>1
      <4>2. o + h + 2 + ((q - (o + h + 2)) + j) = q + j /\ E0 + ((q - (o + h + 2)) + j) = m + j
        BY <1>2, <1>4, <1>5, <1>6, <1>7, <1>11
      <4> QED
        BY <1>3, <4>1, <4>2
    <3>3. B \in Seq(Symbols) /\ C \in Seq(Symbols) /\ m \in Nat /\ n \in Nat
      BY <1>1, <1>3, <1>12, <2>1
    <3>4. Alike(C, q, B, m, n)
      BY <3>1, <3>2 DEF Alike
    <3> HIDE DEF m
    <3> QED
      BY <3>3, <3>4, PartsEqual
  <2> QED
    BY <2>2, <2>3, <2>4 DEF d
<1>16. SameFrame(y, a) /\ (InLine(r, y, m + n) \/ StreamOver(r, y))
  <2>1. y = Stream!FeedLines(a, SubSeq(B, m + 1, m + n))
    BY <1>15
  <2> QED
    BY <1>6, <1>12, <2>1, LinesFed DEF B
<1> HIDE DEF y, x, m
<1>17. y \in Stream!Accs /\ y.chunked /\ y.hdr = <<>> /\ y.remaining = R /\ R - n \in Nat
  BY <1>6, <1>7, <1>11, <1>16 DEF SameFrame, InLine, StreamOver, R
<1> HIDE DEF s
<1>18. s \in 0..2 /\ (n = R => s = 2) /\ (n # R => s = 0)
  BY DEF s
<1>19. /\ v \in Stream!Accs /\ v.chunked /\ v.hdr = <<>> /\ v.remaining = R - n /\ v.skip = s
       /\ v.line = y.line /\ v.event = y.event /\ v.pieces = y.pieces /\ v.error = y.error /\ v.done = y.done
  <2>1. y.remaining - n \in Nat /\ y.remaining - n = R - n
    BY <1>17
  <2>2. v \in Stream!Accs
    BY <1>17, <1>18, <2>1 DEF Stream!Accs
  <2>3. /\ v.chunked = y.chunked /\ v.hdr = y.hdr /\ v.remaining = y.remaining - n /\ v.skip = s
        /\ v.line = y.line /\ v.event = y.event /\ v.pieces = y.pieces /\ v.error = y.error /\ v.done = y.done
    BY <1>17 DEF Stream!Accs
  <2> QED
    BY <1>17, <2>1, <2>2, <2>3
<1> HIDE DEF v
<1>20. DecodedTo(r, ends, b, v, q + n) \/ StreamOver(r, v)
  <2>1. CASE StreamOver(r, y)
    <3>1. StreamOver(r, v)
      BY <1>19, <2>1 DEF StreamOver
    <3> QED
      BY <3>1
  <2>2. CASE InLine(r, y, m + n)
    <3>1. InLine(r, v, m + n)
      BY <1>19, <2>2, InLineStill
    <3>2. CASE n = R
      <4>1. v.remaining = 0 /\ v.skip > 0 /\ (q + n) + v.skip = b[k] /\ m + n = E1
        BY <1>2, <1>3, <1>4, <1>5, <1>6, <1>7, <1>12, <1>18, <1>19, <3>2
      <4>2. AtEnd(r, ends, b, v, q + n, k)
        BY <1>19, <3>1, <4>1 DEF AtEnd, E1
      <4> QED
        BY <1>19, <4>2 DEF DecodedTo
    <3>3. CASE n # R
      <4>1. /\ v.skip = 0 /\ v.remaining > 0 /\ v.remaining <= z /\ (q + n) + v.remaining = o + h + 2 + z
            /\ m + n = E1 - v.remaining
        <5>1. v.skip = 0 /\ v.remaining = R - n /\ R - n > 0
          BY <1>7, <1>11, <1>18, <1>19, <3>3
        <5>2. R - n <= z /\ (q + n) + (R - n) = o + h + 2 + z
          BY <1>2, <1>4, <1>5, <1>6, <1>7, <1>11
        <5>3. m + n = E1 - (R - n)
          BY <1>12
        <5> QED
          BY <5>1, <5>2, <5>3
      <4>2. AtData(r, ends, b, v, q + n, k)
        BY <1>19, <3>1, <4>1 DEF AtData, E1, o, h, z
      <4> QED
        BY <1>19, <4>2 DEF DecodedTo
    <3> QED
      BY <3>2, <3>3
  <2> QED
    BY <1>16, <2>1, <2>2
<1>21. x = <<v, SubSeq(C, q + n + 1, e)>>
  BY <1>13, <1>14
<1>22. x[1] = v /\ x[2] = SubSeq(C, q + n + 1, e) /\ x = <<x[1], x[2]>>
  BY <1>21
<1>23. x = Stream!InChunk(a, SubSeq(OnWire(r, ends), q + 1, e))
  BY <1>8 DEF x, d
<1> HIDE DEF x
<1>24. \E i \in 1..(e - q) : /\ x[2] = SubSeq(OnWire(r, ends), q + i + 1, e)
                             /\ DecodedTo(r, ends, b, x[1], q + i) \/ StreamOver(r, x[1])
  BY <1>8, <1>11, <1>20, <1>22
<1> QED
  BY <1>19, <1>22, <1>23, <1>24

(* The end of a chunk, a symbol at a time.                                 *)
LEMMA EndStep ==
  ASSUME NEW r \in Stream!ServerReplies, r.stream, r.framing = "chunked", NEW ends \in Stream!Cuts(r),
         NEW b, Layout(r, ends, b), NEW a \in Stream!Accs, a.chunked, NEW q \in Nat,
         NEW k \in 1..Len(ends), AtEnd(r, ends, b, a, q, k)
  PROVE  LET x == [a EXCEPT !.skip = a.skip - 1]
         IN  x \in Stream!Accs /\ DecodedTo(r, ends, b, x, q + 1)
<1> DEFINE B == Stream!BodyOf(r)
           C == Stream!Chunked(B, ends)
           N == Len(ends)
           E1 == EndAt(ends, k)
           x == [a EXCEPT !.skip = a.skip - 1]
<1>1. /\ a.hdr = <<>> /\ a.remaining = 0 /\ a.skip \in 1..2 /\ q + a.skip = b[k] /\ InLine(r, a, E1)
  BY AccType DEF AtEnd
<1>2. /\ x \in Stream!Accs /\ x.skip = a.skip - 1 /\ x.hdr = <<>> /\ x.remaining = 0 /\ x.chunked
      /\ x.line = a.line /\ x.event = a.event /\ x.pieces = a.pieces /\ x.error = a.error /\ x.done = a.done
  <2>1. a.skip - 1 \in 0..2
    BY <1>1
  <2>2. x \in Stream!Accs
    BY <2>1 DEF Stream!Accs
  <2>3. /\ x.skip = a.skip - 1 /\ x.hdr = a.hdr /\ x.remaining = a.remaining /\ x.chunked = a.chunked
        /\ x.line = a.line /\ x.event = a.event /\ x.pieces = a.pieces /\ x.error = a.error /\ x.done = a.done
    BY DEF Stream!Accs
  <2> QED
    BY <1>1, <2>2, <2>3
<1> HIDE DEF x
<1>3. InLine(r, x, E1)
  BY <1>1, <1>2, InLineStill
<1>4. /\ N \in Nat /\ E1 \in Nat /\ (k = N => E1 = Len(B))
  <2>1. k \in 0..(N + 1) /\ N \in Nat
    BY CutsType
  <2>2. E1 \in 0..Len(B) /\ (k = N => E1 = Len(B))
    BY <2>1, CutsType
  <2> QED
    BY <2>1, <2>2
<1>5. k # N
  <2>1. E1 < Len(B)
    BY <1>3, <1>4, NotAtTheEnd
  <2> QED
    BY <1>4, <2>1
<1>6. CASE a.skip = 1
  <2>1. k + 1 \in 1..N /\ (k + 1) - 1 = k /\ k + 1 \in 1..(N + 1) /\ k \in 0..(N + 1)
    BY <1>4, <1>5
  <2>2. b[k] \in Nat /\ q + 1 = b[k] /\ C \in Seq(Symbols) /\ b[k] <= Len(C)
    <3>1. b \in [0..(N + 1) -> Nat] /\ C \in Seq(Symbols) /\ Len(C) = b[N + 1] /\ k \in 1..(N + 1) /\ b[k] <= b[N + 1]
      BY <1>4 DEF Layout
    <3> QED
      BY <1>1, <1>6, <2>1, <3>1
  <2>3. Len(NumAt(ends, k + 1)) \in Nat
    <3>1. SizeAt(ends, k + 1) \in Nat
      BY <2>1, CutsType
    <3>2. NumAt(ends, k + 1) \in Seq(Symbols)
      BY <3>1, NumeralIs DEF NumAt, Numbers
    <3> QED
      BY <3>2, LenProperties
  <2>4. SubSeq(C, b[k] + 1, b[k]) = <<>>
    BY <2>2, SubSeqEmpty
  <2>5. AtHeader(r, ends, b, x, q + 1, k + 1)
    <3>1. b[k] <= q + 1 /\ q + 1 < b[k] + Len(NumAt(ends, k + 1)) + 2 /\ x.skip = 0
      BY <1>2, <1>6, <2>2, <2>3
    <3> QED
      BY <1>2, <1>3, <2>1, <2>2, <2>4, <3>1 DEF AtHeader
  <2>6. DecodedTo(r, ends, b, x, q + 1)
    BY <1>2, <2>1, <2>5 DEF DecodedTo
  <2> QED
    BY <1>2, <2>6 DEF x
<1>7. CASE a.skip = 2
  <2>1. x.skip = 1 /\ (q + 1) + x.skip = b[k]
    BY <1>1, <1>2, <1>7
  <2>2. AtEnd(r, ends, b, x, q + 1, k)
    BY <1>2, <1>3, <2>1 DEF AtEnd
  <2>3. DecodedTo(r, ends, b, x, q + 1)
    BY <1>2, <2>2 DEF DecodedTo
  <2> QED
    BY <1>2, <2>3 DEF x
<1> QED
  BY <1>1, <1>6, <1>7

(* What follows the header on the wire.                                    *)
LEMMA WireType ==
  ASSUME NEW r \in Stream!ServerReplies, NEW ends \in Stream!Cuts(r),
         NEW b, r.framing = "chunked" => Layout(r, ends, b)
  PROVE  OnWire(r, ends) \in Seq(Symbols) /\ Len(OnWire(r, ends)) \in Nat
<1>1. OnWire(r, ends) \in Seq(Symbols)
  <2>1. CASE r.framing = "chunked"
    BY <2>1 DEF OnWire, Layout
  <2>2. CASE r.framing # "chunked"
    BY <2>2, BodyIs DEF OnWire
  <2> QED
    BY <2>1, <2>2
<1> QED
  BY <1>1, LenProperties

(* A stream that is not over has more to come.                             *)
LEMMA MoreToCome ==
  ASSUME NEW r \in Stream!ServerReplies, r.stream, NEW ends \in Stream!Cuts(r),
         NEW b, r.framing = "chunked" => Layout(r, ends, b),
         NEW a \in Stream!Accs, NEW q \in Nat, DecodedTo(r, ends, b, a, q)
  PROVE  /\ q < Len(OnWire(r, ends)) /\ ~a.done /\ ~a.error
         /\ \E n \in 0..Len(r.pieces) : a.pieces = SubSeq(r.pieces, 1, n)
<1>1. ASSUME NEW m, InLine(r, a, m)
      PROVE  ~a.done /\ ~a.error /\ \E n \in 0..Len(r.pieces) : a.pieces = SubSeq(r.pieces, 1, n)
  <2>1. /\ ~a.error /\ ~a.done
        /\ \E s \in Nat, n \in Nat : LineAt(r, s, n, a.event) /\ a.pieces = SubSeq(r.pieces, 1, n)
    BY <1>1 DEF InLine
  <2>2. PICK s \in Nat, n \in Nat : LineAt(r, s, n, a.event) /\ a.pieces = SubSeq(r.pieces, 1, n)
    BY <2>1
  <2>3. n \in 0..Len(r.pieces)
    BY <2>2 DEF LineAt
  <2> QED
    BY <2>1, <2>2, <2>3
<1>2. CASE r.framing # "chunked"
  <2>1. InLine(r, a, q)
    BY <1>2 DEF DecodedTo
  <2>2. q < Len(OnWire(r, ends))
    BY <1>2, <2>1, NotAtTheEnd DEF OnWire
  <2> QED
    BY <1>1, <2>1, <2>2
<1>3. CASE r.framing = "chunked"
  <2> DEFINE C == Stream!Chunked(Stream!BodyOf(r), ends)
             N == Len(ends)
  <2>1. PICK k \in 1..N : AtHeader(r, ends, b, a, q, k) \/ AtData(r, ends, b, a, q, k) \/ AtEnd(r, ends, b, a, q, k)
    BY <1>3 DEF DecodedTo
  <2> DEFINE h == Len(NumAt(ends, k))
             z == SizeAt(ends, k)
  <2>2. N \in Nat /\ z \in Nat
    BY <1>3, CutsType
  <2>3. h \in Nat
    <3>1. NumAt(ends, k) \in Seq(Symbols)
      BY <2>2, NumeralIs DEF NumAt, Numbers
    <3> QED
      BY <3>1, LenProperties
  <2>4. /\ b \in [0..(N + 1) -> Nat] /\ Len(C) = b[N + 1]
        /\ b[k] = b[k - 1] + h + 4 + z /\ b[k] <= b[N + 1]
    <3>1. k \in 1..(N + 1)
      BY <2>2
    <3> QED
      BY <1>3, <3>1 DEF Layout
  <2>5. b[k] \in Nat /\ b[k - 1] \in Nat /\ b[N + 1] \in Nat
    <3>1. k - 1 \in 0..(N + 1) /\ k \in 0..(N + 1) /\ N + 1 \in 0..(N + 1)
      BY <2>2
    <3> QED
      BY <2>4, <3>1
  <2>6. OnWire(r, ends) = C
    BY <1>3 DEF OnWire
  <2> HIDE DEF C, N, h, z
  <2> DEFINE x == b[k - 1]
             y == b[k]
             l == Len(C)
  <2>7. x \in Nat /\ y \in Nat /\ l \in Nat /\ y = x + h + 4 + z /\ y <= l
    BY <2>4, <2>5
  <2> HIDE DEF x, y, l
  <2>8. CASE AtHeader(r, ends, b, a, q, k)
    <3>1. q < x + h + 2 /\ InLine(r, a, EndAt(ends, k - 1))
      BY <2>8 DEF AtHeader, h, x
    <3>2. q < l
      BY <2>2, <2>3, <2>7, <3>1
    <3> QED
      BY <1>1, <2>6, <3>1, <3>2 DEF l
  <2>9. CASE AtData(r, ends, b, a, q, k)
    <3>1. q + a.remaining = x + h + 2 + z /\ a.remaining \in Nat /\ InLine(r, a, EndAt(ends, k) - a.remaining)
      BY <2>9, AccType DEF AtData, h, z, x
    <3>2. q < l
      BY <2>2, <2>3, <2>7, <3>1
    <3> QED
      BY <1>1, <2>6, <3>1, <3>2 DEF l
  <2>10. CASE AtEnd(r, ends, b, a, q, k)
    <3>1. q + a.skip = y /\ a.skip > 0 /\ a.skip \in 0..2 /\ InLine(r, a, EndAt(ends, k))
      BY <2>10, AccType DEF AtEnd, y
    <3>2. q < l
      BY <2>2, <2>3, <2>7, <3>1
    <3> QED
      BY <1>1, <2>6, <3>1, <3>2 DEF l
  <2> QED
    BY <2>1, <2>8, <2>9, <2>10
<1> QED
  BY <1>2, <1>3

(* A round keeps the accumulator where the stream is, and takes something  *)
(* or is over.                                                             *)
LEMMA TakePartStep ==
  ASSUME NEW r \in Stream!ServerReplies, r.stream, NEW ends \in Stream!Cuts(r),
         NEW b, r.framing = "chunked" => Layout(r, ends, b),
         NEW e \in 0..Len(OnWire(r, ends)), NEW p \in PartStates(r, ends, b, e)
  PROVE  LET x == Stream!TakePart(p)
         IN  x \in PartStates(r, ends, b, e) /\ (StreamOver(r, x[1]) \/ Len(x[2]) < Len(p[2]) \/ Len(x[2]) = 0)
<1> DEFINE C == OnWire(r, ends)
           a == p[1]
           d == p[2]
           x == Stream!TakePart(p)
<1>1. C \in Seq(Symbols) /\ Len(C) \in Nat /\ e \in Nat /\ e <= Len(C)
  BY WireType
<1>2. a \in Stream!Accs /\ d \in Seq(Symbols) /\ p = <<a, d>>
  BY DEF PartStates
<1>3. PICK q \in 0..e : d = SubSeq(C, q + 1, e) /\ (DecodedTo(r, ends, b, a, q) \/ StreamOver(r, a))
  BY DEF PartStates
<1>4. q \in Nat /\ e \in q..Len(C)
  BY <1>1
<1>5. Len(d) = e - q /\ (d = <<>> <=> q = e)
  <2> HIDE DEF C, d
  <2>0. C \in Seq(Symbols) /\ q \in Nat /\ e \in q..Len(C)
    BY <1>1, <1>4
  <2>1. Len(SubSeq(C, q + 1, e)) = e - q /\ (SubSeq(C, q + 1, e) = <<>> <=> q = e)
    BY <2>0, PartOf
  <2> QED
    BY <1>3, <2>1
<1> HIDE DEF C, a, d, x
<1>6. ASSUME NEW v, NEW w, x = <<v, w>>, v \in Stream!Accs, NEW i \in 1..(e - q), w = SubSeq(C, q + i + 1, e),
             DecodedTo(r, ends, b, v, q + i) \/ StreamOver(r, v)
      PROVE  x \in PartStates(r, ends, b, e) /\ Len(x[2]) < Len(d)
  <2>1. q + i \in 0..e /\ q + i \in Nat /\ e \in (q + i)..Len(C)
    BY <1>1, <1>4
  <2>2. w \in Seq(Symbols) /\ Len(w) = e - (q + i)
    BY <1>1, <1>6, <2>1, PartOf
  <2>3. x[1] = v /\ x[2] = w /\ x \in Stream!Accs \X Seq(Symbols)
    BY <1>6, <2>2
  <2>4. Len(x[2]) < Len(d)
    BY <1>1, <1>4, <1>5, <2>2, <2>3
  <2>5. \E j \in 0..e : /\ x[2] = SubSeq(C, j + 1, e)
                        /\ DecodedTo(r, ends, b, x[1], j) \/ StreamOver(r, x[1])
    BY <1>6, <2>1, <2>3
  <2> QED
    BY <2>3, <2>4, <2>5 DEF PartStates, C
<1>7. CASE StreamOver(r, a)
  <2>1. x = p
    BY <1>7 DEF Stream!TakePart, StreamOver, a, x
  <2> QED
    BY <1>7, <2>1 DEF a, d, x
<1>8. CASE ~StreamOver(r, a) /\ d = <<>>
  <2>1. x = p
    BY <1>8 DEF Stream!TakePart, d, x
  <2> QED
    BY <1>4, <1>5, <1>8, <2>1 DEF d, x
<1>9. CASE ~StreamOver(r, a) /\ d # <<>>
  <2>1. DecodedTo(r, ends, b, a, q) /\ q < e /\ ~a.done
    <3>1. DecodedTo(r, ends, b, a, q)
      BY <1>3, <1>9
    <3>2. ~a.done
      BY <1>2, <1>4, <3>1, MoreToCome
    <3>3. q < e
      BY <1>1, <1>4, <1>5, <1>9
    <3> QED
      BY <3>1, <3>2, <3>3
  <2>2. Head(d) = C[q + 1] /\ Tail(d) = SubSeq(C, q + 1 + 1, e)
    <3>1. e \in (q + 1)..Len(C) /\ q + 1 + 1 = q + 2
      BY <1>1, <1>4, <2>1
    <3> QED
      BY <1>1, <1>3, <1>4, <3>1, PartHead
  <2>3. 1 \in 1..(e - q)
    BY <1>1, <1>4, <2>1
  <2>4. CASE r.framing # "chunked"
    <3>1. ~a.chunked /\ InLine(r, a, q) /\ C = Stream!BodyOf(r)
      BY <2>1, <2>4 DEF DecodedTo, C, OnWire
    <3> DEFINE y == Stream!FeedLines(a, d)
    <3>2. x = <<y, <<>>>>
      BY <1>9, <2>1, <3>1 DEF Stream!TakePart, x, a, d
    <3>3. SameFrame(y, a) /\ (InLine(r, y, e) \/ StreamOver(r, y))
      BY <1>2, <1>3, <1>4, <3>1, LinesFed
    <3> HIDE DEF y
    <3>4. y \in Stream!Accs /\ ~y.chunked
      BY <3>1, <3>3 DEF SameFrame, InLine, StreamOver
    <3>5. DecodedTo(r, ends, b, y, e) \/ StreamOver(r, y)
      BY <2>4, <3>3, <3>4 DEF DecodedTo
    <3>6. e - q \in 1..(e - q) /\ q + (e - q) = e /\ <<>> = SubSeq(C, q + (e - q) + 1, e)
      <4>1. <<>> = SubSeq(C, e + 1, e)
        BY <1>1, SubSeqEmpty
      <4>2. e - q \in 1..(e - q) /\ q + (e - q) = e
        BY <1>1, <1>4, <2>1
      <4> QED
        BY <4>1, <4>2
    <3> QED
      BY <1>6, <3>2, <3>4, <3>5, <3>6 DEF x, d
  <2>5. CASE r.framing = "chunked"
    <3>1. PICK k \in 1..Len(ends) : AtHeader(r, ends, b, a, q, k) \/ AtData(r, ends, b, a, q, k) \/ AtEnd(r, ends, b, a, q, k)
      BY <2>1, <2>5 DEF DecodedTo
    <3>2. a.chunked /\ Layout(r, ends, b)
      BY <2>1, <2>5 DEF DecodedTo
    <3>3. a.skip \in 0..2 /\ a.remaining \in Nat
      BY <1>2, AccType
    <3>4. x = IF a.skip > 0 THEN <<[a EXCEPT !.skip = a.skip - 1], Tail(d)>>
              ELSE IF a.remaining > 0 THEN Stream!InChunk(a, d)
              ELSE IF Head(d) # "nl" THEN <<[a EXCEPT !.hdr = Append(a.hdr, Head(d))], Tail(d)>>
              ELSE <<[a EXCEPT !.hdr = <<>>, !.remaining = Stream!Size(a.hdr), !.done = Stream!Size(a.hdr) = 0], Tail(d)>>
      BY <1>9, <2>1, <3>2 DEF Stream!TakePart, x, a, d
    <3>5. CASE AtHeader(r, ends, b, a, q, k)
      <4> DEFINE c == C[q + 1]
                 v == IF c # "nl" THEN [a EXCEPT !.hdr = Append(a.hdr, c)]
                      ELSE [a EXCEPT !.hdr = <<>>, !.remaining = Stream!Size(a.hdr), !.done = Stream!Size(a.hdr) = 0]
      <4>1. ~(a.skip > 0) /\ ~(a.remaining > 0)
        BY <3>5 DEF AtHeader
      <4>2. x = <<v, Tail(d)>>
        BY <2>2, <3>4, <4>1
      <4>3. v \in Stream!Accs /\ DecodedTo(r, ends, b, v, q + 1)
        BY <1>2, <1>4, <2>5, <3>2, <3>5, HeaderStep DEF C
      <4> HIDE DEF v
      <4> QED
        BY <1>6, <2>2, <2>3, <4>2, <4>3 DEF x, d
    <3>6. CASE AtData(r, ends, b, a, q, k)
      <4>1. ~(a.skip > 0) /\ a.remaining > 0
        BY <3>6 DEF AtData
      <4>2. x = Stream!InChunk(a, SubSeq(C, q + 1, e))
        BY <1>3, <3>4, <4>1
      <4>3. e \in (q + 1)..Len(OnWire(r, ends))
        BY <1>1, <1>4, <2>1 DEF C
      <4> DEFINE v == Stream!InChunk(a, SubSeq(C, q + 1, e))
      <4>4. /\ v[1] \in Stream!Accs /\ v = <<v[1], v[2]>>
            /\ \E n \in 1..(e - q) : /\ v[2] = SubSeq(C, q + n + 1, e)
                                     /\ DecodedTo(r, ends, b, v[1], q + n) \/ StreamOver(r, v[1])
        BY <1>2, <1>4, <2>5, <3>2, <3>6, <4>3, DataStep DEF C
      <4> HIDE DEF v
      <4>5. PICK n \in 1..(e - q) : v[2] = SubSeq(C, q + n + 1, e) /\ (DecodedTo(r, ends, b, v[1], q + n) \/ StreamOver(r, v[1]))
        BY <4>4
      <4>6. x = <<v[1], v[2]>>
        BY <4>2, <4>4 DEF v
      <4> QED
        BY <1>6, <4>4, <4>5, <4>6 DEF x, d
    <3>7. CASE AtEnd(r, ends, b, a, q, k)
      <4> DEFINE v == [a EXCEPT !.skip = a.skip - 1]
      <4>1. a.skip > 0
        BY <3>7 DEF AtEnd
      <4>2. x = <<v, Tail(d)>>
        BY <3>4, <4>1
      <4>3. v \in Stream!Accs /\ DecodedTo(r, ends, b, v, q + 1)
        BY <1>2, <1>4, <2>5, <3>2, <3>7, EndStep
      <4> HIDE DEF v
      <4> QED
        BY <1>6, <2>2, <2>3, <4>2, <4>3 DEF x, d
    <3> QED
      BY <3>1, <3>5, <3>6, <3>7
  <2> QED
    BY <2>4, <2>5
<1> QED
  BY <1>7, <1>8, <1>9

(* A stream in parts that are cut anywhere.                                *)
LEMMA PartsFed ==
  ASSUME NEW r \in Stream!ServerReplies, r.stream, NEW ends \in Stream!Cuts(r),
         NEW b, r.framing = "chunked" => Layout(r, ends, b), NEW a \in Stream!Accs,
         NEW q \in Nat, NEW e \in q..Len(OnWire(r, ends)), DecodedTo(r, ends, b, a, q)
  PROVE  LET x == Stream!Feed(a, SubSeq(OnWire(r, ends), q + 1, e))
         IN  x \in Stream!Accs /\ (DecodedTo(r, ends, b, x, e) \/ StreamOver(r, x))
<1> DEFINE C == OnWire(r, ends)
           d == SubSeq(C, q + 1, e)
           n == Len(d)
           p0 == <<a, d>>
           S == PartStates(r, ends, b, e)
           F == [p \in S |-> Stream!TakePart(p)]
           W == [p \in S |-> IF StreamOver(r, p[1]) THEN 0 ELSE Len(p[2])]
           Step(g, k) == IF k = 0 THEN p0 ELSE Stream!TakePart(g[k - 1])
           t == CHOOSE g : g = [k \in 0..n |-> Step(g, k)]
<1>1. C \in Seq(Symbols) /\ Len(C) \in Nat /\ e \in Nat /\ e \in 0..Len(C) /\ q \in 0..e
  <2>1. C \in Seq(Symbols) /\ Len(C) \in Nat
    BY WireType
  <2> QED
    BY <2>1
<1>2. d \in Seq(Symbols) /\ n = e - q
  BY <1>1, PartOf
<1>3. p0 \in S
  <2> HIDE DEF d
  <2>1. p0[1] = a /\ p0[2] = d
    OBVIOUS
  <2>2. \E k \in 0..e : d = SubSeq(C, k + 1, e) /\ (DecodedTo(r, ends, b, a, k) \/ StreamOver(r, a))
    BY <1>1 DEF d
  <2> QED
    BY <1>2, <2>1, <2>2 DEF PartStates
<1>4. Stream!Feed(a, d) = t[n][1]
  BY DEF Stream!Feed, Stream!Loop
<1>5. \A p \in S : p \in Stream!Accs \X Seq(Symbols) /\ Len(p[2]) \in Nat
  BY DEF PartStates
<1>6. \A p \in S : /\ Stream!TakePart(p) \in S
                   /\ \/ StreamOver(r, Stream!TakePart(p)[1])
                      \/ Len(Stream!TakePart(p)[2]) < Len(p[2]) \/ Len(Stream!TakePart(p)[2]) = 0
  BY <1>1, TakePartStep
<1> HIDE DEF S, p0, C, d, n
<1>7. F \in [S -> S] /\ \A p \in S : F[p] = Stream!TakePart(p)
  BY <1>6
<1>8. W \in [S -> Nat] /\ \A p \in S : W[p] = IF StreamOver(r, p[1]) THEN 0 ELSE Len(p[2])
  BY <1>5
<1> HIDE DEF F, W
<1>9. \A p \in S : W[F[p]] < W[p] \/ W[F[p]] = 0
  <2> SUFFICES ASSUME NEW p \in S, W[F[p]] # 0 PROVE W[F[p]] < W[p]
    OBVIOUS
  <2>1. F[p] \in S /\ F[p] = Stream!TakePart(p)
    BY <1>7
  <2>2. ~StreamOver(r, F[p][1]) /\ W[F[p]] = Len(F[p][2]) /\ Len(F[p][2]) # 0
    BY <1>8, <2>1
  <2>3. Len(F[p][2]) < Len(p[2])
    BY <1>6, <2>1, <2>2
  <2>4. CASE StreamOver(r, p[1])
    <3>1. F[p] = p
      <4>1. p[1].done
        BY <2>4 DEF StreamOver
      <4> QED
        BY <2>1, <4>1 DEF Stream!TakePart
    <3> QED
      BY <2>2, <2>4, <3>1
  <2>5. CASE ~StreamOver(r, p[1])
    BY <1>8, <2>2, <2>3, <2>5
  <2> QED
    BY <2>4, <2>5
<1>10. n \in Nat /\ W[p0] <= n
  <2>1. n \in Nat /\ Len(p0[2]) = n
    BY <1>1, <1>2 DEF p0, n
  <2> QED
    BY <1>3, <1>8, <2>1
<1>11. PICK f \in [0..n -> S] : Iterated(f, n, p0, F) /\ W[f[n]] = 0
  <2>1. n \in Nat /\ p0 \in S /\ F \in [S -> S] /\ W \in [S -> Nat] /\ W[p0] <= n
    BY <1>3, <1>7, <1>8, <1>10
  <2>2. Shrinks(S, F, W)
    BY <1>9 DEF Shrinks
  <2> HIDE DEF Step
  <2> QED
    BY <2>1, <2>2, StepsEnd
<1>12. f = [k \in 0..n |-> Step(f, k)]
  <2>1. ASSUME NEW k \in 0..n PROVE f[k] = Step(f, k)
    <3>1. CASE k = 0
      BY <1>11, <3>1 DEF Iterated
    <3>2. CASE k # 0
      <4>1. k \in 1..n /\ k - 1 \in 0..n
        BY <1>10, <3>2
      <4>2. f[k] = F[f[k - 1]] /\ f[k - 1] \in S
        BY <1>11, <4>1 DEF Iterated
      <4> QED
        BY <1>7, <3>2, <4>2
    <3> QED
      BY <3>1, <3>2
  <2> QED
    BY <2>1
<1>13. t = [k \in 0..n |-> Step(t, k)]
  BY <1>12
<1> HIDE DEF t
<1>14. t[n] = f[n]
  <2>1. Follows(t, n, S, p0, F)
    <3>1. 0 \in 0..n /\ \A k \in 1..n : k \in 0..n /\ k # 0
      BY <1>10
    <3> QED
      BY <1>7, <1>13, <3>1 DEF Follows
  <2>2. n \in Nat /\ p0 \in S /\ F \in [S -> S] /\ f \in [0..n -> S] /\ Iterated(f, n, p0, F)
    BY <1>3, <1>7, <1>10, <1>11
  <2> QED
    BY <2>1, <2>2, StepsAgree
<1> DEFINE x == t[n]
<1>15. x \in S /\ W[x] = 0
  BY <1>10, <1>11, <1>14
<1> HIDE DEF x
<1>16. x[1] \in Stream!Accs /\ (DecodedTo(r, ends, b, x[1], e) \/ StreamOver(r, x[1]))
  <2>1. PICK k \in 0..e : x[2] = SubSeq(C, k + 1, e) /\ (DecodedTo(r, ends, b, x[1], k) \/ StreamOver(r, x[1]))
    BY <1>15 DEF S, PartStates, C
  <2>2. x[1] \in Stream!Accs
    BY <1>5, <1>15
  <2>3. CASE StreamOver(r, x[1])
    BY <2>2, <2>3
  <2>4. CASE ~StreamOver(r, x[1])
    <3>1. Len(x[2]) = 0
      BY <1>8, <1>15, <2>4
    <3>2. Len(x[2]) = e - k
      BY <1>1, <2>1, PartOf
    <3>3. k = e
      BY <1>1, <3>1, <3>2
    <3> QED
      BY <2>1, <2>2, <2>4, <3>3
  <2> QED
    BY <2>3, <2>4
<1> QED
  BY <1>4, <1>16 DEF x, d, C

(* A stream starts before its body.                                        *)
LEMMA StreamStarts ==
  ASSUME NEW r \in Stream!ServerReplies, r.stream, NEW ends \in Stream!Cuts(r),
         NEW b, r.framing = "chunked" => Layout(r, ends, b), NEW c \in BOOLEAN, c <=> r.framing = "chunked"
  PROVE  Stream!NewAcc(c) \in Stream!Accs /\ DecodedTo(r, ends, b, Stream!NewAcc(c), 0)
<1> DEFINE a == Stream!NewAcc(c)
<1>1. /\ a \in Stream!Accs /\ a.hdr = <<>> /\ a.remaining = 0 /\ a.skip = 0 /\ a.line = <<>> /\ a.event = FALSE
      /\ a.pieces = <<>> /\ a.error = FALSE /\ a.done = FALSE /\ a.chunked = c
  BY DEF Stream!NewAcc, Stream!Accs
<1> HIDE DEF a
<1>2. Stream!BodyOf(r) \in Seq(Symbols) /\ r.pieces \in Seq(Stream!Deltas) /\ Len(r.pieces) \in Nat
  BY BodyIs, ReplyType
<1>3. InLine(r, a, 0)
  <2>1. LineAt(r, 0, 0, a.event)
    BY <1>1, <1>2 DEF LineAt
  <2>2. 0 < EndOf(0, 0)
    BY DEF EndOf
  <2>3. a.line = SubSeq(Stream!BodyOf(r), 0 + 1, 0) /\ a.pieces = SubSeq(r.pieces, 1, 0)
    BY <1>1, <1>2, SubSeqEmpty
  <2>4. ~a.error /\ ~a.done
    BY <1>1
  <2> QED
    BY <1>1, <2>1, <2>2, <2>3, <2>4 DEF InLine
<1>4. CASE r.framing # "chunked"
  <2>1. ~a.chunked
    BY <1>1, <1>4
  <2> QED
    BY <1>1, <1>3, <1>4, <2>1 DEF DecodedTo, a
<1>5. CASE r.framing = "chunked"
  <2> DEFINE N == Len(ends)
             C == Stream!Chunked(Stream!BodyOf(r), ends)
             h == Len(NumAt(ends, 1))
  <2>1. 1 \in 1..N /\ EndAt(ends, 0) = 0 /\ SizeAt(ends, 1) \in Nat
    BY <1>5, CutsType
  <2>2. h \in Nat
    <3>1. NumAt(ends, 1) \in Seq(Symbols)
      BY <2>1, NumeralIs DEF NumAt, Numbers
    <3> QED
      BY <3>1, LenProperties
  <2>3. b[0] = 0 /\ C \in Seq(Symbols)
    BY <1>5 DEF Layout
  <2>4. SubSeq(C, 0 + 1, 0) = <<>>
    BY <2>3, SubSeqEmpty
  <2>5. AtHeader(r, ends, b, a, 0, 1)
    <3>1. 1 - 1 = 0 /\ 0 < 0 + h + 2
      BY <2>2
    <3> QED
      BY <1>1, <1>3, <2>1, <2>3, <2>4, <3>1 DEF AtHeader
  <2>6. a.chunked
    BY <1>1, <1>5
  <2>7. DecodedTo(r, ends, b, a, 0)
    BY <1>5, <2>1, <2>5, <2>6 DEF DecodedTo
  <2> QED
    BY <1>1, <2>7 DEF a
<1> QED
  BY <1>4, <1>5

(* What a body may hold: nothing that reads as a word of the header.       *)
HeaderWords == {"event-stream", "json", "chunked", "length", "close", "end"}
Unheaded       == Symbols \ HeaderWords

(* Which symbols those are.                                                *)
LEMMA QuietKinds ==
  /\ \A w \in {"cr", "nl", "data:", "event:", "error", "[DONE]", "lbrace", "rbrace"} : w \in Unheaded
  /\ Stream!Deltas \subseteq Unheaded /\ \A i \in 1..Len(Digits) : Digits[i] \in Unheaded
<1>1. HeaderWords \subseteq Stream!Words
  BY DEF HeaderWords, Stream!Words
<1>2. \A w \in {"cr", "nl", "data:", "event:", "error", "[DONE]", "lbrace", "rbrace"} : w \in Stream!Words /\ w \notin HeaderWords
  BY DEF HeaderWords, Stream!Words
<1> QED
  BY <1>1, <1>2, Kinds DEF Unheaded

(* An event has no word of the header,                                     *)
LEMMA QuietEvent ==
  ASSUME NEW d \in Unheaded
  PROVE  Stream!Event(<<d>>) \in Seq(Unheaded)
<1> DEFINE x == <<"data:">>
           y == <<d>>
           z == <<"nl", "nl">>
           u == x \o y
<1>1. "data:" \in Unheaded /\ "nl" \in Unheaded
  BY QuietKinds
<1>2. x \in Seq(Unheaded) /\ y \in Seq(Unheaded) /\ z \in Seq(Unheaded)
  BY <1>1
<1>3. Stream!Event(<<d>>) = u \o z
  BY DEF Stream!Event
<1> HIDE DEF x, y, z
<1>4. u \in Seq(Unheaded)
  BY <1>2, Joined
<1> HIDE DEF u
<1>5. u \o z \in Seq(Unheaded)
  BY <1>2, <1>4, Joined
<1> QED
  BY <1>3, <1>5

(* nor has a body,                                                         *)
LEMMA QuietBody ==
  ASSUME NEW r \in Stream!ServerReplies
  PROVE  Stream!BodyOf(r) \in Seq(Unheaded)
<1> DEFINE K == Len(r.pieces)
           q == [i \in DOMAIN r.pieces |-> Stream!Event(<<r.pieces[i]>>)]
           f == FlattenSeq(q)
           h == <<"event:", "error", "nl">>
           e == Stream!Event(<<"error">>)
           d == Stream!Event(<<"[DONE]">>)
           z == IF r.error THEN h \o e ELSE d
           x == <<"lbrace">>
           y == <<"rbrace">>
           t == IF r.error THEN <<"error">> ELSE r.pieces
<1>1. r.pieces \in Seq(Stream!Deltas) /\ K \in Nat /\ DOMAIN r.pieces = 1..K
  BY ReplyType
<1>2. r.pieces \in Seq(Unheaded) /\ \A i \in 1..K : r.pieces[i] \in Unheaded
  <2>1. r.pieces \in Seq(Unheaded)
    BY <1>1, QuietKinds, SeqMonotonic
  <2> QED
    BY <2>1
<1>3. "event:" \in Unheaded /\ "error" \in Unheaded /\ "nl" \in Unheaded /\ "[DONE]" \in Unheaded /\ "lbrace" \in Unheaded /\ "rbrace" \in Unheaded
  BY QuietKinds
<1>4. CASE r.stream
  <2>1. Stream!BodyOf(r) = f \o z
    <3>1. Stream!FlattenSeq(q) = FlattenSeq(q)
      BY DEF Stream!FlattenSeq, FlattenSeq
    <3> QED
      BY <1>4, <3>1 DEF Stream!BodyOf
  <2>2. q \in [1..K -> Seq(Unheaded)]
    <3>1. \A i \in 1..K : Stream!Event(<<r.pieces[i]>>) \in Seq(Unheaded)
      BY <1>2, QuietEvent
    <3> QED
      BY <1>1, <3>1
  <2>3. e \in Seq(Unheaded) /\ d \in Seq(Unheaded) /\ h \in Seq(Unheaded)
    BY <1>3, QuietEvent
  <2> HIDE DEF q, h, e, d, K
  <2>4. f \in Seq(Unheaded)
    BY <1>1, <2>2, Flattened
  <2>5. h \o e \in Seq(Unheaded)
    BY <2>3, Joined
  <2>6. z \in Seq(Unheaded)
    BY <2>3, <2>5
  <2> HIDE DEF f, z
  <2>7. f \o z \in Seq(Unheaded)
    BY <2>4, <2>6, Joined
  <2> QED
    BY <2>1, <2>7
<1>5. CASE ~r.stream
  <2>1. Stream!BodyOf(r) = (x \o t) \o y
    BY <1>5 DEF Stream!BodyOf
  <2>2. x \in Seq(Unheaded) /\ y \in Seq(Unheaded) /\ <<"error">> \in Seq(Unheaded)
    BY <1>3
  <2>3. t \in Seq(Unheaded)
    BY <1>2, <2>2
  <2> HIDE DEF x, y, t
  <2>4. x \o t \in Seq(Unheaded)
    BY <2>2, <2>3, Joined
  <2> DEFINE u == x \o t
  <2> HIDE DEF u
  <2>5. u \in Seq(Unheaded)
    BY <2>4 DEF u
  <2>6. u \o y \in Seq(Unheaded)
    BY <2>2, <2>5, Joined
  <2> QED
    BY <2>1, <2>6 DEF u
<1> QED
  BY <1>4, <1>5

(* nor a chunk,                                                            *)
LEMMA QuietChunk ==
  ASSUME NEW data \in Seq(Unheaded)
  PROVE  Stream!Chunk(data) \in Seq(Unheaded)
<1> DEFINE num == Stream!Numeral(Len(data))
           z == <<"cr", "nl">>
           u == num \o z
           v == u \o data
<1>1. num \in Seq(Unheaded)
  <2>1. Len(data) \in Nat
    OBVIOUS
  <2>2. num \in Seq(Symbols) /\ \A i \in 1..Len(num) : num[i] \notin Stream!Words
    BY <2>1, NumeralIs DEF Numbers
  <2>3. HeaderWords \subseteq Stream!Words
    BY DEF HeaderWords, Stream!Words
  <2> HIDE DEF num
  <2>4. \A i \in 1..Len(num) : num[i] \in Unheaded
    BY <2>2, <2>3 DEF Unheaded
  <2> QED
    BY <2>2, <2>4
<1>2. z \in Seq(Unheaded)
  <2>1. "cr" \in Unheaded /\ "nl" \in Unheaded
    BY QuietKinds
  <2> QED
    BY <2>1
<1>3. Stream!Chunk(data) = v \o z
  BY DEF Stream!Chunk
<1> HIDE DEF num, z
<1>4. u \in Seq(Unheaded)
  BY <1>1, <1>2, Joined
<1> HIDE DEF u
<1>5. v \in Seq(Unheaded)
  BY <1>4, Joined
<1> HIDE DEF v
<1>6. v \o z \in Seq(Unheaded)
  BY <1>2, <1>5, Joined
<1> QED
  BY <1>3, <1>6

(* nor all that follows the header.                                        *)
LEMMA QuietWire ==
  ASSUME NEW r \in Stream!ServerReplies, NEW ends \in Stream!Cuts(r)
  PROVE  OnWire(r, ends) \in Seq(Unheaded)
<1> DEFINE B == Stream!BodyOf(r)
<1>1. B \in Seq(Unheaded) /\ Len(B) \in Nat
  <2>1. B \in Seq(Unheaded)
    BY QuietBody
  <2> QED
    BY <2>1, LenProperties
<1>2. CASE r.framing # "chunked"
  BY <1>1, <1>2 DEF OnWire
<1>3. CASE r.framing = "chunked"
  <2> DEFINE N == Len(ends)
             First(i) == IF i = 1 THEN 1 ELSE ends[i - 1] + 1
             q == [i \in DOMAIN ends |-> Stream!Chunk(SubSeq(B, First(i), ends[i]))]
             f == FlattenSeq(q)
             z == Stream!Chunk(<<>>)
  <2>1. OnWire(r, ends) = f \o z
    <3>1. Stream!FlattenSeq(q) = FlattenSeq(q)
      BY DEF Stream!FlattenSeq, FlattenSeq
    <3> QED
      BY <1>3, <3>1 DEF OnWire, Stream!Chunked
  <2>2. /\ N \in Nat /\ DOMAIN ends = 1..N
        /\ \A i \in 1..N : ends[i] \in 0..Len(B)
    <3>1. N \in Nat /\ DOMAIN ends = 1..N
      BY <1>3, CutsType
    <3>2. ASSUME NEW i \in 1..N PROVE ends[i] \in 0..Len(B)
      <4>1. i \in 0..(N + 1) /\ EndAt(ends, i) = ends[i]
        BY <1>3, <3>1, CutsType
      <4> QED
        BY <1>3, <4>1, CutsType
    <3> QED
      BY <3>1, <3>2
  <2> HIDE DEF N, B
  <2>3. q \in [1..N -> Seq(Unheaded)]
    <3>1. ASSUME NEW i \in 1..N PROVE Stream!Chunk(SubSeq(B, First(i), ends[i])) \in Seq(Unheaded)
      <4>1. First(i) \in Nat /\ First(i) > 0 /\ ends[i] \in 0..Len(B)
        <5>1. i # 1 => i - 1 \in 1..N
          BY <2>2
        <5> QED
          BY <1>1, <2>2, <5>1
      <4> HIDE DEF First
      <4>2. SubSeq(B, First(i), ends[i]) \in Seq(Unheaded)
        <5>1. \A j \in First(i)..ends[i] : j \in 1..Len(B) /\ B[j] \in Unheaded
          BY <1>1, <4>1
        <5> QED
          BY <1>1, <4>1, <5>1, SubSeqProperties
      <4> QED
        BY <4>2, QuietChunk
    <3> QED
      BY <2>2, <3>1
  <2>4. z \in Seq(Unheaded)
    <3>1. <<>> \in Seq(Unheaded)
      OBVIOUS
    <3> QED
      BY <3>1, QuietChunk
  <2> HIDE DEF q, z
  <2>5. f \in Seq(Unheaded)
    BY <2>2, <2>3, Flattened
  <2> HIDE DEF f
  <2>6. f \o z \in Seq(Unheaded)
    BY <2>4, <2>5, Joined
  <2> QED
    BY <2>1, <2>6
<1> QED
  BY <1>2, <1>3

(* What has come of a reply: its header, and from the fourth symbol on its *)
(* body.                                                                   *)
LEMMA SentPlaces ==
  ASSUME NEW r \in Stream!ServerReplies, NEW ends \in Stream!Cuts(r)
  PROVE  LET S == Stream!Sent(r, ends)
             C == OnWire(r, ends)
         IN  /\ S \in Seq(Symbols) /\ Len(S) = Len(C) + 3 /\ Len(C) \in Nat
             /\ S[1] = (IF r.stream THEN "event-stream" ELSE "json") /\ S[2] = r.framing /\ S[3] = "end"
             /\ \A i \in 1..Len(C) : S[i + 3] = C[i] /\ C[i] \in Unheaded
<1> DEFINE S == Stream!Sent(r, ends)
           C == OnWire(r, ends)
           w == IF r.stream THEN "event-stream" ELSE "json"
           h == <<w, r.framing, "end">>
<1>1. C \in Seq(Unheaded)
  BY QuietWire
<1>2. C \in Seq(Symbols) /\ Len(C) \in Nat /\ \A i \in 1..Len(C) : C[i] \in Unheaded
  <2>1. Unheaded \subseteq Symbols
    BY DEF Unheaded
  <2> HIDE DEF C
  <2>2. C \in Seq(Symbols)
    BY <1>1, <2>1, SeqMonotonic
  <2> QED
    BY <1>1, <2>2
<1>3. S = h \o C
  BY DEF Stream!Sent, OnWire
<1>4. h \in Seq(Symbols) /\ Len(h) = 3 /\ h[1] = w /\ h[2] = r.framing /\ h[3] = "end"
  <2>1. r.framing \in {"chunked", "length", "close"}
    BY ReplyType
  <2>2. w \in Stream!Words /\ r.framing \in Stream!Words /\ "end" \in Stream!Words
    BY <2>1 DEF Stream!Words
  <2> HIDE DEF w
  <2>3. w \in Symbols /\ r.framing \in Symbols /\ "end" \in Symbols
    BY <2>2, Kinds
  <2> QED
    BY <2>3
<1> HIDE DEF S, C, h, w
<1>5. /\ S \in Seq(Symbols) /\ Len(S) = 3 + Len(C)
      /\ \A i \in 1..3 : S[i] = h[i]
      /\ \A j \in 1..Len(C) : S[3 + j] = C[j]
  <2>1. /\ S \in Seq(Symbols) /\ Len(S) = Len(h) + Len(C)
        /\ \A i \in 1..Len(h) : S[i] = h[i]
        /\ \A j \in 1..Len(C) : S[Len(h) + j] = C[j]
    <3>1. h \in Seq(Symbols) /\ C \in Seq(Symbols)
      BY <1>2, <1>4
    <3> QED
      BY <1>3, <3>1, Joined
  <2> QED
    BY <1>4, <2>1
<1>6. S[1] = w /\ S[2] = r.framing /\ S[3] = "end"
  BY <1>4, <1>5
<1>7. \A i \in 1..Len(C) : S[i + 3] = C[i] /\ C[i] \in Unheaded
  BY <1>2, <1>5
<1>8. Len(S) = Len(C) + 3
  BY <1>2, <1>5
<1> QED
  BY <1>2, <1>5, <1>6, <1>7, <1>8 DEF S, C, w

(* What is known of a reply once its header is read, and what follows is   *)
(* the body.                                                               *)
LEMMA HeaderRead ==
  ASSUME NEW r \in Stream!ServerReplies, NEW ends \in Stream!Cuts(r), NEW q \in 0..Len(Stream!Sent(r, ends))
  PROVE  LET b == SubSeq(Stream!Sent(r, ends), 1, q)
         IN  /\ b \in Seq(Symbols) /\ Len(b) = q /\ Stream!HasHeader(b) = (q >= 3)
             /\ q >= 3 => /\ Stream!Contains(b, "event-stream") = r.stream
                          /\ Stream!Contains(b, "chunked") = (r.framing = "chunked")
                          /\ Stream!Contains(b, "length") = (r.framing = "length")
                          /\ q - 3 \in 0..Len(OnWire(r, ends))
                          /\ Stream!Body(b) = SubSeq(OnWire(r, ends), 1, q - 3)
<1> DEFINE S == Stream!Sent(r, ends)
           C == OnWire(r, ends)
           w == IF r.stream THEN "event-stream" ELSE "json"
           b == SubSeq(S, 1, q)
<1>1. /\ S \in Seq(Symbols) /\ Len(S) = Len(C) + 3 /\ Len(C) \in Nat
      /\ S[1] = w /\ S[2] = r.framing /\ S[3] = "end"
      /\ \A i \in 1..Len(C) : S[i + 3] = C[i] /\ C[i] \in Unheaded
  BY SentPlaces
<1>2. r.framing \in {"chunked", "length", "close"} /\ r.stream \in BOOLEAN
  BY ReplyType
<1>3. w \in {"event-stream", "json"} /\ (w = "event-stream") = r.stream
  BY <1>2
<1> HIDE DEF S, C, w, b
<1>4. q \in Nat /\ q <= Len(S)
  BY <1>1 DEF S
<1>5. b \in Seq(Symbols) /\ Len(b) = q /\ \A i \in 1..q : b[i] = S[i]
  <2>1. q \in 0..Len(S) /\ 0 \in Nat /\ q - 0 = q /\ \A i \in 1..q : 0 + i = i
    BY <1>1, <1>4
  <2>2. /\ SubSeq(S, 0 + 1, q) \in Seq(Symbols) /\ Len(SubSeq(S, 0 + 1, q)) = q - 0
        /\ \A i \in 1..(q - 0) : SubSeq(S, 0 + 1, q)[i] = S[0 + i]
    BY <1>1, <2>1, PartOf
  <2>3. 0 + 1 = 1
    OBVIOUS
  <2> QED
    BY <2>1, <2>2, <2>3 DEF b
<1>6. \A i \in 1..q : i = 1 \/ i = 2 \/ i = 3 \/ (i > 3 /\ b[i] \in Unheaded)
  <2> TAKE i \in 1..q
  <2>1. CASE i > 3
    <3>1. i - 3 \in 1..Len(C) /\ (i - 3) + 3 = i
      BY <1>1, <1>4, <2>1
    <3> DEFINE j == i - 3
    <3>2. j \in 1..Len(C) /\ S[j + 3] = S[i] /\ b[i] = S[i]
      BY <1>5, <3>1
    <3> HIDE DEF j
    <3>3. S[j + 3] \in Unheaded
      <4>1. S[j + 3] = C[j] /\ C[j] \in Unheaded
        BY <1>1, <3>2
      <4> QED
        BY <4>1
    <3> QED
      BY <2>1, <3>2, <3>3
  <2> QED
    BY <1>4, <2>1
<1>7. Stream!HasHeader(b) = (q >= 3)
  <2>1. CASE q >= 3
    <3>1. 3 \in 1..Len(b) /\ b[3] = "end"
      BY <1>1, <1>4, <1>5, <2>1
    <3> QED
      BY <2>1, <3>1 DEF Stream!HasHeader, Stream!Contains
  <2>2. CASE ~(q >= 3)
    <3>1. \A i \in 1..Len(b) : b[i] # "end"
      <4>1. \A i \in 1..Len(b) : i = 1 \/ i = 2
        BY <1>4, <1>5, <2>2
      <4> QED
        BY <1>1, <1>2, <1>3, <1>5, <4>1
    <3>2. ~Stream!HasHeader(b) /\ Stream!HasHeader(b) \in BOOLEAN
      BY <3>1 DEF Stream!HasHeader, Stream!Contains
    <3> QED
      BY <1>4, <2>2, <3>2
  <2> QED
    BY <2>1, <2>2
<1>8. ASSUME q >= 3
      PROVE  /\ Stream!Contains(b, "event-stream") = r.stream
             /\ Stream!Contains(b, "chunked") = (r.framing = "chunked")
             /\ Stream!Contains(b, "length") = (r.framing = "length")
             /\ q - 3 \in 0..Len(C)
             /\ Stream!Body(b) = SubSeq(C, 1, q - 3)
  <2>1. 1 \in 1..q /\ 2 \in 1..q /\ 3 \in 1..q /\ b[1] = w /\ b[2] = r.framing /\ b[3] = "end"
    BY <1>1, <1>4, <1>5, <1>8
  <2>2. ASSUME NEW c \in {"event-stream", "chunked", "length"}
        PROVE  Stream!Contains(b, c) <=> (w = c \/ r.framing = c)
    <3>1. c \notin Unheaded /\ c # "end"
      BY DEF Unheaded, HeaderWords
    <3>2. \A i \in 1..q : b[i] = c => i = 1 \/ i = 2
      BY <1>6, <2>1, <3>1
    <3>3. Stream!Contains(b, c) <=> \E i \in 1..q : b[i] = c
      BY <1>5 DEF Stream!Contains
    <3> QED
      BY <2>1, <3>2, <3>3
  <2>3. Stream!Contains(b, "event-stream") = r.stream
    <3>1. Stream!Contains(b, "event-stream") <=> w = "event-stream"
      BY <1>2, <2>2
    <3>2. Stream!Contains(b, "event-stream") \in BOOLEAN
      BY DEF Stream!Contains
    <3> QED
      BY <1>2, <1>3, <3>1, <3>2
  <2>4. /\ Stream!Contains(b, "chunked") = (r.framing = "chunked")
        /\ Stream!Contains(b, "length") = (r.framing = "length")
    <3>1. /\ Stream!Contains(b, "chunked") <=> r.framing = "chunked"
          /\ Stream!Contains(b, "length") <=> r.framing = "length"
      BY <1>3, <2>2
    <3>2. Stream!Contains(b, "chunked") \in BOOLEAN /\ Stream!Contains(b, "length") \in BOOLEAN
      BY DEF Stream!Contains
    <3> QED
      BY <3>1, <3>2
  <2>5. q - 3 \in 0..Len(C)
    BY <1>1, <1>4, <1>8
  <2>6. Stream!Body(b) = SubSeq(b, 4, q)
    <3> DEFINE I == {i \in 1..Len(b) : b[i] = "end"}
               f == IF I # {} THEN CHOOSE x \in I : \A y \in I : x <= y ELSE 0
    <3>1. Stream!Body(b) = SubSeq(b, f + 1, q)
      BY <1>5 DEF Stream!Body, Stream!From, Stream!SelectInSeq, Stream!Min
    <3>2. 3 \in I /\ \A y \in I : 3 <= y
      <4>1. \A y \in I : y # 1 /\ y # 2
        BY <1>2, <1>3, <2>1
      <4> QED
        BY <1>5, <2>1, <4>1
    <3>3. \A x \in I : (\A y \in I : x <= y) => x = 3
      BY <3>2, <1>5
    <3>4. f = 3
      BY <3>2, <3>3
    <3> HIDE DEF f
    <3> QED
      BY <3>1, <3>4
  <2>7. SubSeq(b, 4, q) = SubSeq(C, 1, q - 3)
    <3> DEFINE n == q - 3
    <3>1. n \in Nat /\ 3 + n = q /\ 0 + n = n /\ 3 + 1 = 4 /\ 0 + 1 = 1
      BY <1>4, <1>8
    <3>2. Alike(b, 3, C, 0, n)
      <4>1. 3 + n <= Len(b) /\ 0 + n <= Len(C)
        BY <1>5, <2>5, <3>1
      <4>2. \A k \in 1..n : b[3 + k] = C[0 + k]
        <5> TAKE k \in 1..n
        <5>1. 3 + k \in 1..q /\ k \in 1..Len(C) /\ 3 + k = k + 3 /\ 0 + k = k
          BY <1>1, <2>5, <3>1
        <5> QED
          BY <1>1, <1>5, <5>1
      <4> QED
        BY <4>1, <4>2 DEF Alike
    <3>3. C \in Seq(Unheaded)
      BY QuietWire DEF C
    <3> HIDE DEF n
    <3> DEFINE three == 3
               none  == 0
    <3>4. three \in Nat /\ none \in Nat /\ Alike(b, three, C, none, n)
      BY <3>2
    <3> HIDE DEF three, none
    <3>5. SubSeq(b, three + 1, three + n) = SubSeq(C, none + 1, none + n)
      <4>1. b \in Seq(Symbols) /\ n \in Nat
        BY <1>5, <3>1
      <4> QED
        BY <3>3, <3>4, <4>1, PartsEqual
    <3>6. three + 1 = 4 /\ three + n = q /\ none + 1 = 1 /\ none + n = n
      BY <3>1 DEF three, none
    <3>7. SubSeq(b, 4, q) = SubSeq(C, 1, n)
      BY <3>5, <3>6
    <3> QED
      BY <3>7 DEF n
  <2> QED
    BY <2>3, <2>4, <2>5, <2>6, <2>7
<1> QED
  BY <1>5, <1>7, <1>8 DEF b, S, C

(* A part of a plain body that parses is all of it.                        *)
LEMMA OnlyWholeParses ==
  ASSUME NEW r \in Stream!ServerReplies, ~r.stream, NEW m \in 0..Len(Stream!BodyOf(r)),
         Stream!Parses(SubSeq(Stream!BodyOf(r), 1, m)), ~Stream!Contains(SubSeq(Stream!BodyOf(r), 1, m), "error")
  PROVE  ~r.error /\ Stream!Front(Tail(SubSeq(Stream!BodyOf(r), 1, m))) = r.pieces
<1> DEFINE B == Stream!BodyOf(r)
           t == TextOf(r)
           K == Len(t)
           d == SubSeq(B, 1, m)
<1>1. /\ t \in Seq(Symbols) /\ K \in Nat /\ \A i \in 1..K : t[i] # "rbrace"
      /\ B \in Seq(Symbols) /\ Len(B) = K + 2 /\ B[1] = "lbrace" /\ B[K + 2] = "rbrace"
      /\ \A i \in 1..K : B[i + 1] = t[i]
  BY PlainIs
<1>2. Stream!Parses(d) /\ ~Stream!Contains(d, "error")
  OBVIOUS
<1> HIDE DEF B, K, d
<1>3. m \in 0..(K + 2)
  BY <1>1 DEF B
<1> HIDE DEF t
<1>4. d \in Seq(Symbols) /\ Len(d) = m /\ \A i \in 1..m : d[i] = B[i]
  <2>1. m \in 0..Len(B) /\ 0 \in Nat /\ m - 0 = m /\ \A i \in 1..m : 0 + i = i
    BY <1>1, <1>3
  <2>2. /\ SubSeq(B, 0 + 1, m) \in Seq(Symbols) /\ Len(SubSeq(B, 0 + 1, m)) = m - 0
        /\ \A i \in 1..(m - 0) : SubSeq(B, 0 + 1, m)[i] = B[0 + i]
    BY <1>1, <2>1, PartOf
  <2>3. 0 + 1 = 1
    OBVIOUS
  <2> QED
    BY <2>1, <2>2, <2>3 DEF d
<1>5. m = K + 2
  <2> DEFINE I == {i \in 1..Len(d) : d[i] = "rbrace"}
             f == IF I # {} THEN CHOOSE x \in I : \A y \in I : x <= y ELSE 0
  <2>1. m >= 2 /\ f = m
    BY <1>2, <1>4 DEF Stream!Parses, Stream!SelectInSeq, Stream!Min
  <2>2. I # {}
    BY <2>1
  <2>3. PICK i \in 1..m : d[i] = "rbrace"
    BY <1>4, <2>2
  <2>4. B[i] = "rbrace"
    BY <1>4, <2>3
  <2>5. i = K + 2
    <3>1. CASE i = 1
      BY <1>1, <2>4, <3>1
    <3>2. CASE i # 1 /\ i # K + 2
      <4>1. i - 1 \in 1..K /\ (i - 1) + 1 = i
        BY <1>1, <1>3, <3>2
      <4>2. B[i] = t[i - 1]
        BY <1>1, <4>1
      <4> QED
        BY <1>1, <2>4, <4>1, <4>2
    <3> QED
      BY <3>1, <3>2
  <2> QED
    BY <1>1, <1>3, <2>3, <2>5
<1>6. ~r.error
  <2>1. SUFFICES ASSUME r.error PROVE FALSE
    OBVIOUS
  <2> DEFINE w == <<"error">>
  <2>2. t = w /\ Len(w) = 1 /\ w[1] = "error"
    BY <2>1 DEF t, TextOf
  <2> HIDE DEF w
  <2>3. K = 1 /\ 1 \in 1..K /\ t[1] = "error"
    BY <2>2 DEF K
  <2>4. B[1 + 1] = "error"
    BY <1>1, <2>3
  <2>5. 1 + 1 \in 1..m /\ d[1 + 1] = B[1 + 1]
    BY <1>4, <1>5, <2>3
  <2>6. Stream!Contains(d, "error")
    <3>1. \E i \in 1..Len(d) : d[i] = "error"
      BY <1>4, <2>4, <2>5
    <3> QED
      BY <3>1 DEF Stream!Contains
  <2> QED
    BY <1>2, <2>6
<1>7. Stream!Front(Tail(d)) = t
  <2> DEFINE v == Tail(d)
             u == SubSeq(v, 1, Len(v) - 1)
  <2>1. v \in Seq(Symbols) /\ Len(v) = K + 1 /\ \A i \in 1..Len(v) : v[i] = d[i + 1]
    <3>1. d # <<>>
      BY <1>1, <1>4, <1>5
    <3>2. v \in Seq(Symbols) /\ Len(v) = Len(d) - 1 /\ \A i \in 1..Len(v) : v[i] = d[i + 1]
      BY <1>4, <3>1, HeadTailProperties
    <3> HIDE DEF v
    <3> QED
      BY <1>1, <1>4, <1>5, <3>2
  <2>2. Stream!Front(v) = u
    BY DEF Stream!Front
  <2> HIDE DEF v
  <2>3. u \in Seq(Symbols) /\ Len(u) = K /\ \A i \in 1..K : u[i] = v[i]
    <3>1. Len(v) - 1 = K /\ K \in 0..Len(v) /\ 0 \in Nat /\ K - 0 = K /\ \A i \in 1..K : 0 + i = i
      BY <1>1, <2>1
    <3>2. /\ SubSeq(v, 0 + 1, K) \in Seq(Symbols) /\ Len(SubSeq(v, 0 + 1, K)) = K - 0
          /\ \A i \in 1..(K - 0) : SubSeq(v, 0 + 1, K)[i] = v[0 + i]
      BY <2>1, <3>1, PartOf
    <3>3. 0 + 1 = 1
      OBVIOUS
    <3> QED
      BY <3>1, <3>2, <3>3
  <2> HIDE DEF u
  <2>4. \A i \in 1..K : u[i] = t[i]
    <3> TAKE i \in 1..K
    <3>1. i \in 1..Len(v) /\ i + 1 \in 1..m
      BY <1>1, <1>5, <2>1
    <3> QED
      BY <1>1, <1>4, <2>1, <2>3, <3>1
  <2>5. u = t
    <3>1. Len(u) = Len(t) /\ \A i \in 1..Len(u) : u[i] = t[i]
      BY <2>3, <2>4 DEF K
    <3> QED
      BY <1>1, <2>3, <3>1, SameSeq
  <2> QED
    BY <2>2, <2>5 DEF v
<1>8. t = r.pieces
  BY <1>6 DEF t, TextOf
<1> QED
  BY <1>6, <1>7, <1>8 DEF d, B

(* A round of http_response_decode_chunked.                                *)
ChunkStates(r, ends, b, e) ==
  {p \in Seq(Symbols) \X Seq(Symbols) :
     \/ \E k \in 0..Len(ends) : /\ b[k] <= e /\ p[1] = SubSeq(Stream!BodyOf(r), 1, EndAt(ends, k))
                                /\ p[2] = SubSeq(Stream!Chunked(Stream!BodyOf(r), ends), b[k] + 1, e)
     \/ p[2] = <<>> /\ \E m \in 0..Len(Stream!BodyOf(r)) : p[1] = SubSeq(Stream!BodyOf(r), 1, m)}

(* A round gives a part of the body, or stops with one.                    *)
LEMMA TakeChunkStep ==
  ASSUME NEW r \in Stream!ServerReplies, r.framing = "chunked", NEW ends \in Stream!Cuts(r),
         NEW b, Layout(r, ends, b), NEW e \in 0..Len(Stream!Chunked(Stream!BodyOf(r), ends)),
         NEW p \in ChunkStates(r, ends, b, e)
  PROVE  Stream!TakeChunk(p) \in ChunkStates(r, ends, b, e)
<1> DEFINE B == Stream!BodyOf(r)
           C == Stream!Chunked(B, ends)
           N == Len(ends)
           x == Stream!TakeChunk(p)
           u == p[1]
           d == p[2]
           f == Stream!FirstEnd(d)
           rest == Stream!From(d, f + 1)
           n == Stream!Size(SubSeq(d, 1, f - 1))
<1> SUFFICES x \in ChunkStates(r, ends, b, e)
  OBVIOUS
<1>1. B \in Seq(Symbols) /\ Len(B) \in Nat
  BY BodyIs
<1>2. C \in Seq(Symbols) /\ Len(C) \in Nat /\ e \in Nat /\ e <= Len(C)
  <2>1. C \in Seq(Symbols)
    BY DEF Layout
  <2>2. Len(C) \in Nat
    BY <2>1, LenProperties
  <2> QED
    BY <2>1, <2>2
<1>3. u \in Seq(Symbols) /\ d \in Seq(Symbols)
  BY DEF ChunkStates
<1>4. x = IF f = 0 \/ n = 0 THEN <<u, <<>>>>
          ELSE IF n >= Len(rest) THEN <<u \o rest, <<>>>>
          ELSE <<u \o SubSeq(rest, 1, n), Stream!From(rest, n + 3)>>
  BY DEF Stream!TakeChunk
<1>5. \/ f = 0 /\ \A i \in 1..Len(d) : d[i] # "nl"
      \/ f \in 1..Len(d) /\ d[f] = "nl" /\ \A i \in 1..(f - 1) : d[i] # "nl"
  BY <1>3, FirstEndIs
<1>6. \/ \E k \in 0..N : b[k] <= e /\ u = SubSeq(B, 1, EndAt(ends, k)) /\ d = SubSeq(C, b[k] + 1, e)
      \/ d = <<>> /\ \E m \in 0..Len(B) : u = SubSeq(B, 1, m)
  BY DEF ChunkStates
<1> HIDE DEF B, C, N, x, u, d, f, rest, n
<1> DEFINE IsPart(v) == \E m \in 0..Len(B) : v = SubSeq(B, 1, m)
<1>7. ASSUME NEW v, IsPart(v), x = <<v, <<>>>> PROVE x \in ChunkStates(r, ends, b, e)
  <2>0. PICK m \in 0..Len(B) : v = SubSeq(B, 1, m)
    BY <1>7
  <2>1. v \in Seq(Symbols) /\ <<>> \in Seq(Symbols)
    <3>1. SubSeq(B, 0 + 1, m) \in Seq(Symbols) /\ 0 + 1 = 1
      BY <1>1, PartOf
    <3> QED
      BY <2>0, <3>1
  <2>2. x[1] = SubSeq(B, 1, m) /\ x[2] = <<>> /\ x \in Seq(Symbols) \X Seq(Symbols)
    BY <1>7, <2>0, <2>1
  <2> QED
    BY <2>2 DEF ChunkStates, B
<1> HIDE DEF IsPart
<1>8. CASE f = 0
  <2>1. x = <<u, <<>>>>
    BY <1>4, <1>8
  <2>2. IsPart(u)
    <3>1. \A k \in 0..N : EndAt(ends, k) \in 0..Len(B)
      <4>1. N \in Nat /\ \A k \in 0..(N + 1) : EndAt(ends, k) \in 0..Len(B)
        BY CutsType DEF B, N
      <4> QED
        BY <4>1
    <3> QED
      BY <1>6, <3>1 DEF IsPart
  <2> QED
    BY <1>7, <2>1, <2>2
<1>9. CASE f # 0
  <2>1. f \in 1..Len(d) /\ d[f] = "nl" /\ \A i \in 1..(f - 1) : d[i] # "nl"
    BY <1>5, <1>9
  <2>2. d # <<>>
    BY <1>3, <2>1
  <2>3. PICK k0 \in 0..N : b[k0] <= e /\ u = SubSeq(B, 1, EndAt(ends, k0)) /\ d = SubSeq(C, b[k0] + 1, e)
    BY <1>6, <2>2
  <2> DEFINE k == k0 + 1
             o == b[k0]
             h == Len(NumAt(ends, k))
             num == NumAt(ends, k)
             z == SizeAt(ends, k)
             E0 == EndAt(ends, k0)
  <2>4. /\ N \in Nat /\ k \in 1..(N + 1) /\ k - 1 = k0 /\ z \in Nat /\ E0 \in 0..Len(B) /\ E0 + z \in 0..Len(B)
        /\ k \in 1..N => z > 0
        /\ k = N + 1 => z = 0
        /\ EndAt(ends, k) = E0 + z
    <3>1. /\ N \in Nat /\ \A j \in 0..(N + 1) : EndAt(ends, j) \in 0..Len(B)
          /\ \A j \in 1..N : SizeAt(ends, j) \in Nat /\ SizeAt(ends, j) > 0
          /\ SizeAt(ends, N + 1) = 0
      BY CutsType DEF B, N
    <3>2. k \in 1..(N + 1) /\ k - 1 = k0 /\ k \in 0..(N + 1) /\ k0 \in 0..(N + 1) /\ (k \in 1..N \/ k = N + 1)
      BY <3>1
    <3>3. z = EndAt(ends, k) - E0
      BY <3>2 DEF SizeAt
    <3> QED
      BY <1>1, <3>1, <3>2, <3>3
  <2>5. /\ b \in [0..(N + 1) -> Nat] /\ Len(C) = b[N + 1]
        /\ b[k] = o + h + 4 + z /\ b[k] <= b[N + 1]
        /\ \A i \in 1..h : C[o + i] = num[i]
        /\ C[o + h + 1] = "cr" /\ C[o + h + 2] = "nl"
        /\ \A j \in 1..z : C[o + h + 2 + j] = B[E0 + j]
    <3>1. /\ b[k] = b[k - 1] + h + 4 + z /\ b[k] <= b[N + 1]
          /\ \A i \in 1..h : C[b[k - 1] + i] = num[i]
          /\ C[b[k - 1] + h + 1] = "cr" /\ C[b[k - 1] + h + 2] = "nl"
          /\ \A j \in 1..z : C[b[k - 1] + h + 2 + j] = B[EndAt(ends, k - 1) + j]
      BY <2>4 DEF Layout, B, C, N
    <3>2. b \in [0..(N + 1) -> Nat] /\ Len(C) = b[N + 1]
      BY DEF Layout, B, C, N
    <3> QED
      BY <2>4, <3>1, <3>2
  <2>6. num \in Seq(Symbols) /\ h \in Nat /\ (\A i \in 1..h : num[i] \notin Stream!Words) /\ Stream!Size(num \o <<"cr">>) = z
    <3>1. num = Stream!Numeral(z)
      BY DEF NumAt
    <3>2. num \in Numbers /\ Stream!Size(num \o <<"cr">>) = z
      BY <2>4, <3>1, NumeralIs, HeaderSize
    <3> QED
      BY <3>2 DEF Numbers
  <2>7. o \in Nat /\ b[k] \in Nat /\ b[N + 1] \in Nat
    <3>1. k0 \in 0..(N + 1) /\ k \in 0..(N + 1) /\ N + 1 \in 0..(N + 1)
      BY <2>4
    <3> QED
      BY <2>5, <3>1
  <2> HIDE DEF k, o, h, num, z, E0
  <2>8. Len(d) = e - o /\ \A i \in 1..(e - o) : d[i] = C[o + i]
    <3>1. e \in o..Len(C) /\ d = SubSeq(C, o + 1, e)
      BY <1>2, <2>3, <2>7 DEF o
    <3> QED
      BY <1>2, <2>7, <3>1, PartOf
  <2>9. f = h + 2
    <3>1. f \in 1..(e - o) /\ C[o + f] = "nl"
      BY <2>1, <2>8
    <3>2. "nl" \in Stream!Words /\ "cr" # "nl"
      BY DEF Stream!Words
    <3>3. ~(f <= h)
      <4>1. SUFFICES ASSUME f <= h PROVE FALSE
        OBVIOUS
      <4>2. f \in 1..h
        BY <2>6, <3>1, <4>1
      <4> QED
        BY <2>5, <2>6, <3>1, <3>2, <4>2
    <3>4. f # h + 1
      <4>1. SUFFICES ASSUME f = h + 1 PROVE FALSE
        OBVIOUS
      <4>2. o + f = o + h + 1
        BY <2>6, <2>7, <4>1
      <4> QED
        BY <2>5, <3>1, <3>2, <4>2
    <3>5. ~(f > h + 2)
      <4>1. SUFFICES ASSUME f > h + 2 PROVE FALSE
        OBVIOUS
      <4>2. h + 2 \in 1..(f - 1) /\ h + 2 \in 1..(e - o) /\ o + (h + 2) = o + h + 2
        BY <2>6, <2>7, <3>1, <4>1
      <4>3. d[h + 2] = "nl"
        BY <2>5, <2>8, <4>2
      <4> QED
        BY <2>1, <4>2, <4>3
    <3> QED
      BY <2>6, <3>1, <3>3, <3>4, <3>5
  <2>10. n = z
    <3> DEFINE v == SubSeq(d, 1, f - 1)
               w == num \o <<"cr">>
    <3>1. v \in Seq(Symbols) /\ Len(v) = h + 1 /\ \A i \in 1..(h + 1) : v[i] = d[i]
      <4>1. f - 1 = h + 1 /\ h + 1 \in 0..Len(d) /\ 0 \in Nat /\ (h + 1) - 0 = h + 1 /\ \A i \in 1..(h + 1) : 0 + i = i
        BY <2>1, <2>6, <2>9
      <4>2. /\ SubSeq(d, 0 + 1, h + 1) \in Seq(Symbols) /\ Len(SubSeq(d, 0 + 1, h + 1)) = (h + 1) - 0
            /\ \A i \in 1..((h + 1) - 0) : SubSeq(d, 0 + 1, h + 1)[i] = d[0 + i]
        BY <1>3, <4>1, PartOf
      <4>3. 0 + 1 = 1
        OBVIOUS
      <4> QED
        BY <4>1, <4>2, <4>3
    <3>2. w \in Seq(Symbols) /\ Len(w) = h + 1 /\ (\A i \in 1..h : w[i] = num[i]) /\ w[h + 1] = "cr"
      <4> DEFINE c == <<"cr">>
      <4>1. "cr" \in Symbols
        BY Kinds DEF Stream!Words
      <4>2. c \in Seq(Symbols) /\ Len(c) = 1 /\ c[1] = "cr" /\ h = Len(num)
        BY <4>1 DEF h, num
      <4>3. w = num \o c
        OBVIOUS
      <4> HIDE DEF c
      <4>4. /\ num \o c \in Seq(Symbols) /\ Len(num \o c) = Len(num) + Len(c)
            /\ \A i \in 1..Len(num) : (num \o c)[i] = num[i]
            /\ \A j \in 1..Len(c) : (num \o c)[Len(num) + j] = c[j]
        <5>1. num \in Seq(Symbols) /\ c \in Seq(Symbols)
          BY <2>6, <4>2
        <5> QED
          BY <5>1, Joined
      <4> HIDE DEF w
      <4> QED
        BY <4>2, <4>3, <4>4
    <3> HIDE DEF v, w
    <3>3. \A i \in 1..Len(v) : v[i] = w[i]
      <4> TAKE i \in 1..Len(v)
      <4>1. i \in 1..(h + 1) /\ i \in 1..(e - o)
        BY <2>1, <2>6, <2>8, <2>9, <3>1
      <4>2. v[i] = C[o + i]
        BY <2>8, <3>1, <4>1
      <4>3. CASE i \in 1..h
        BY <2>5, <3>2, <4>2, <4>3
      <4>4. CASE i = h + 1
        <5>1. o + (h + 1) = o + h + 1
          BY <2>6, <2>7
        <5> QED
          BY <2>5, <3>2, <4>2, <4>4, <5>1
      <4> QED
        BY <2>6, <4>1, <4>3, <4>4
    <3>4. v = w
      BY <3>1, <3>2, <3>3, SameSeq
    <3> QED
      BY <2>6, <3>4 DEF n, v, w
  <2>11. u = SubSeq(B, 1, E0)
    BY <2>3 DEF E0
  <2>12. CASE z = 0
    <3>1. x = <<u, <<>>>>
      BY <1>4, <2>10, <2>12
    <3>2. IsPart(u)
      BY <2>4, <2>11 DEF IsPart
    <3> QED
      BY <1>7, <3>1, <3>2
  <2>13. CASE z # 0
    <3> DEFINE g == o + h + 2
    <3>1. k \in 1..N
      <4>1. k # N + 1
        BY <2>4, <2>13
      <4> QED
        BY <2>4, <4>1
    <3>2. g \in Nat /\ g <= e /\ g \in 0..e
      BY <1>2, <2>1, <2>6, <2>7, <2>8, <2>9
    <3>3. rest = SubSeq(C, g + 1, e) /\ rest \in Seq(Symbols) /\ Len(rest) = e - g
      <4>1. o \in Nat /\ e \in o..Len(C) /\ f \in Nat /\ Len(d) \in f..(e - o) /\ d = SubSeq(C, o + 1, e)
        <5>1. o <= e /\ d = SubSeq(C, o + 1, e)
          BY <2>3 DEF o
        <5> QED
          BY <1>2, <2>1, <2>7, <2>8, <5>1
      <4>2. SubSeq(SubSeq(C, o + 1, e), f + 1, Len(d)) = SubSeq(C, o + f + 1, o + Len(d))
        BY <1>2, <4>1, PartOfPart
      <4>3. o + f + 1 = g + 1 /\ o + Len(d) = e
        BY <1>2, <2>6, <2>7, <2>8, <2>9
      <4>4. rest = SubSeq(C, g + 1, e)
        BY <4>1, <4>2, <4>3 DEF rest, Stream!From
      <4>5. e \in g..Len(C)
        BY <1>2, <3>2
      <4> HIDE DEF g
      <4>6. SubSeq(C, g + 1, e) \in Seq(Symbols) /\ Len(SubSeq(C, g + 1, e)) = e - g
        BY <1>2, <3>2, <4>5, PartOf
      <4> QED
        BY <4>4, <4>6
    <3>0. b[k] = g + z + 2 /\ g + z + 2 \in Nat /\ b[k] <= Len(C) /\ e <= Len(C) /\ e \in Nat /\ n = z
      <4>1. b[k] = o + h + 4 + z /\ b[k] <= Len(C) /\ n = z
        BY <2>5, <2>10
      <4>2. o \in Nat /\ h \in Nat /\ z \in Nat /\ e \in Nat /\ e <= Len(C)
        BY <1>2, <2>4, <2>6, <2>7
      <4> QED
        BY <4>1, <4>2
    <3> HIDE DEF g
    <3>4. \A j \in 1..z : C[g + j] = B[E0 + j]
      BY <2>5 DEF g
    <3> DEFINE Grows(i) == u \o SubSeq(C, g + 1, g + i) = SubSeq(B, 1, E0 + i) /\ E0 + i \in 0..Len(B)
    <3>5. ASSUME NEW i \in Nat, i <= z, i <= e - g
          PROVE  Grows(i)
      <4>1. E0 \in Nat /\ E0 + i <= Len(B) /\ g + i <= Len(C)
        BY <1>1, <1>2, <2>4, <3>2, <3>5
      <4>2. Alike(C, g, B, E0, i)
        BY <2>4, <3>4, <3>5, <4>1 DEF Alike
      <4>3. SubSeq(C, g + 1, g + i) = SubSeq(B, E0 + 1, E0 + i)
        BY <1>1, <1>2, <3>2, <4>1, <4>2, PartsEqual
      <4>4. 1 \in 1..(Len(B) + 1) /\ E0 \in (1 - 1)..Len(B) /\ E0 + i \in E0..Len(B)
        BY <1>1, <4>1
      <4>5. SubSeq(B, 1, E0) \o SubSeq(B, E0 + 1, E0 + i) = SubSeq(B, 1, E0 + i)
        BY <1>1, <4>4, ConcatAdjacentSubSeq
      <4>6. u \o SubSeq(C, g + 1, g + i) = SubSeq(B, 1, E0) \o SubSeq(B, E0 + 1, E0 + i)
        BY <2>11, <4>3
      <4>7. E0 + i \in 0..Len(B)
        BY <1>1, <4>1
      <4> QED
        BY <4>5, <4>6, <4>7
    <3> HIDE DEF Grows
    <3>6. CASE n >= Len(rest)
      <4> DEFINE i == e - g
      <4>1. i \in Nat /\ i <= z /\ g + i = e /\ i <= e - g
        BY <1>2, <2>4, <2>10, <3>2, <3>3, <3>6
      <4>2. x = <<u \o rest, <<>>>>
        BY <1>4, <1>9, <2>10, <2>13, <3>6
      <4> HIDE DEF i
      <4>3. u \o SubSeq(C, g + 1, g + i) = SubSeq(B, 1, E0 + i) /\ E0 + i \in 0..Len(B)
        BY <3>5, <4>1 DEF Grows
      <4>4. x = <<SubSeq(B, 1, E0 + i), <<>>>>
        BY <3>3, <4>1, <4>2, <4>3
      <4>5. IsPart(SubSeq(B, 1, E0 + i))
        BY <4>3 DEF IsPart
      <4> QED
        BY <1>7, <4>4, <4>5
    <3>7. CASE ~(n >= Len(rest))
      <4> DEFINE y == Stream!From(rest, n + 3)
      <4>1. z < e - g
        BY <1>2, <2>4, <2>10, <3>2, <3>3, <3>7
      <4>2. x = <<u \o SubSeq(rest, 1, z), y>>
        BY <1>4, <1>9, <2>10, <2>13, <3>7
      <4>3. SubSeq(rest, 1, z) = SubSeq(C, g + 1, g + z)
        <5>1. e \in g..Len(C) /\ 0 \in Nat /\ z \in 0..(e - g)
          BY <1>2, <2>4, <3>2, <4>1
        <5>2. SubSeq(SubSeq(C, g + 1, e), 0 + 1, z) = SubSeq(C, g + 0 + 1, g + z)
          BY <1>2, <3>2, <5>1, PartOfPart
        <5>3. 0 + 1 = 1 /\ g + 0 + 1 = g + 1
          BY <3>2
        <5> QED
          BY <3>3, <5>2, <5>3
      <4>4. u \o SubSeq(C, g + 1, g + z) = SubSeq(B, 1, E0 + z) /\ E0 + z \in 0..Len(B)
        <5>1. Grows(z)
          <6>1. z \in Nat /\ z <= z /\ z <= e - g
            BY <1>2, <2>4, <3>2, <4>1
          <6> QED
            BY <3>5, <6>1
        <5> QED
          BY <5>1 DEF Grows
      <4>5. CASE b[k] <= e
        <5>1. y = SubSeq(C, b[k] + 1, e)
          <6>1. e \in g..Len(C) /\ z + 2 \in Nat /\ Len(rest) \in (z + 2)..(e - g)
            <7>1. g + z + 2 <= e
              BY <3>0, <4>5
            <7> QED
              BY <1>2, <2>4, <3>0, <3>2, <3>3, <7>1
          <6> DEFINE j == z + 2
                     l == Len(rest)
          <6> HIDE DEF j, l
          <6>2. SubSeq(SubSeq(C, g + 1, e), j + 1, l) = SubSeq(C, g + j + 1, g + l)
            <7>1. j \in Nat /\ l \in j..(e - g) /\ g \in Nat /\ e \in g..Len(C)
              BY <3>2, <6>1 DEF j, l
            <7> QED
              BY <1>2, <7>1, PartOfPart
          <6>3. j + 1 = n + 3 /\ g + j + 1 = b[k] + 1 /\ g + l = e
            <7>1. l = e - g /\ j = z + 2 /\ n = z /\ b[k] = g + z + 2
              BY <3>0, <3>3 DEF j, l
            <7> QED
              BY <2>4, <3>0, <3>2, <7>1
          <6> QED
            BY <3>3, <6>2, <6>3 DEF Stream!From, l
        <5> HIDE DEF y
        <5>2. y \in Seq(Symbols)
          <6> DEFINE j == b[k]
          <6>1. j \in Nat /\ e \in j..Len(C)
            BY <1>2, <2>7, <4>5
          <6> HIDE DEF j
          <6>2. SubSeq(C, j + 1, e) \in Seq(Symbols)
            BY <1>2, <6>1, PartOf
          <6> QED
            BY <5>1, <6>2 DEF j
        <5>3. SubSeq(B, 1, E0 + z) \in Seq(Symbols)
          <6>1. SubSeq(B, 0 + 1, E0 + z) \in Seq(Symbols) /\ 0 + 1 = 1
            BY <1>1, <4>4, PartOf
          <6> QED
            BY <6>1
        <5>4. x = <<SubSeq(B, 1, E0 + z), y>>
          BY <4>2, <4>3, <4>4
        <5>5. x \in Seq(Symbols) \X Seq(Symbols) /\ x[1] = SubSeq(B, 1, E0 + z) /\ x[2] = y
          BY <5>2, <5>3, <5>4
        <5>6. x[1] = SubSeq(B, 1, EndAt(ends, k)) /\ x[2] = SubSeq(C, b[k] + 1, e)
          BY <2>4, <5>1, <5>5
        <5>7. k \in 0..N
          BY <2>4, <3>1
        <5>8. \E j \in 0..N : b[j] <= e /\ x[1] = SubSeq(B, 1, EndAt(ends, j)) /\ x[2] = SubSeq(C, b[j] + 1, e)
          BY <4>5, <5>6, <5>7
        <5> QED
          BY <5>5, <5>8 DEF ChunkStates, B, C, N
      <4>6. CASE ~(b[k] <= e)
        <5>1. Len(rest) < n + 3 /\ n + 3 \in Nat
          <6>1. ~(g + z + 2 <= e) /\ Len(rest) = e - g /\ n = z
            BY <3>0, <3>3, <4>6
          <6> QED
            BY <2>4, <3>0, <3>2, <6>1
        <5>2. y = <<>>
          BY <3>3, <5>1, SubSeqEmpty DEF Stream!From
        <5>3. x = <<SubSeq(B, 1, E0 + z), <<>>>>
          BY <4>2, <4>3, <4>4, <5>2
        <5>4. IsPart(SubSeq(B, 1, E0 + z))
          BY <4>4 DEF IsPart
        <5> QED
          BY <1>7, <5>3, <5>4
      <4> QED
        BY <4>5, <4>6
    <3> QED
      BY <3>6, <3>7
  <2> QED
    BY <2>12, <2>13
<1> QED
  BY <1>8, <1>9

(* What is decoded of a chunked body is a part of it.                      *)
LEMMA DechunkedIsPart ==
  ASSUME NEW r \in Stream!ServerReplies, r.framing = "chunked", NEW ends \in Stream!Cuts(r),
         NEW b, Layout(r, ends, b), NEW e \in 0..Len(Stream!Chunked(Stream!BodyOf(r), ends))
  PROVE  \E m \in 0..Len(Stream!BodyOf(r)) :
           Stream!Dechunked(SubSeq(Stream!Chunked(Stream!BodyOf(r), ends), 1, e)) = SubSeq(Stream!BodyOf(r), 1, m)
<1> DEFINE B == Stream!BodyOf(r)
           C == Stream!Chunked(B, ends)
           N == Len(ends)
           d == SubSeq(C, 1, e)
           n == Len(d)
           p0 == <<<<>>, d>>
           S == ChunkStates(r, ends, b, e)
           F == [p \in S |-> Stream!TakeChunk(p)]
           Step(g, k) == IF k = 0 THEN p0 ELSE Stream!TakeChunk(g[k - 1])
           t == CHOOSE g : g = [k \in 0..n |-> Step(g, k)]
<1>1. B \in Seq(Symbols) /\ Len(B) \in Nat
  BY BodyIs
<1>2. /\ b[0] = 0 /\ C \in Seq(Symbols) /\ N \in Nat /\ EndAt(ends, 0) = 0
      /\ \A k \in 0..(N + 1) : EndAt(ends, k) \in 0..Len(B)
  <2>1. b[0] = 0 /\ C \in Seq(Symbols)
    BY DEF Layout
  <2> QED
    BY <2>1, CutsType
<1>3. d \in Seq(Symbols) /\ n \in Nat
  <2>1. SubSeq(C, 0 + 1, e) \in Seq(Symbols) /\ 0 + 1 = 1
    BY <1>2, PartOf
  <2>2. d \in Seq(Symbols)
    BY <2>1
  <2> QED
    BY <2>2, LenProperties
<1>4. p0 \in S
  <2>1. <<>> = SubSeq(B, 1, 0) /\ <<>> \in Seq(Symbols)
    BY <1>1, SubSeqEmpty
  <2> HIDE DEF d
  <2>2. p0 \in Seq(Symbols) \X Seq(Symbols) /\ p0[1] = <<>> /\ p0[2] = d
    BY <1>3, <2>1
  <2>3. 0 \in 0..N /\ b[0] <= e /\ p0[1] = SubSeq(B, 1, EndAt(ends, 0)) /\ p0[2] = SubSeq(C, b[0] + 1, e)
    <3>1. e \in Nat /\ b[0] + 1 = 1
      BY <1>2
    <3> QED
      BY <1>2, <2>1, <2>2, <3>1 DEF d
  <2> QED
    BY <2>2, <2>3 DEF ChunkStates
<1>5. Stream!Dechunked(d) = t[n][1]
  BY DEF Stream!Dechunked, Stream!Loop
<1>6. \A p \in S : Stream!TakeChunk(p) \in S
  BY TakeChunkStep
<1> HIDE DEF S, p0, B, C, d, n, N
<1>7. F \in [S -> S] /\ \A p \in S : F[p] = Stream!TakeChunk(p)
  BY <1>6
<1> HIDE DEF F
<1>8. PICK f \in [0..n -> S] : Iterated(f, n, p0, F)
  BY <1>3, <1>4, <1>7, Repeating
<1>9. f = [k \in 0..n |-> Step(f, k)]
  <2>1. ASSUME NEW k \in 0..n PROVE f[k] = Step(f, k)
    <3>1. CASE k = 0
      BY <1>8, <3>1 DEF Iterated
    <3>2. CASE k # 0
      <4>1. k \in 1..n /\ k - 1 \in 0..n
        BY <1>3, <3>2
      <4>2. f[k] = F[f[k - 1]] /\ f[k - 1] \in S
        BY <1>8, <4>1 DEF Iterated
      <4> QED
        BY <1>7, <3>2, <4>2
    <3> QED
      BY <3>1, <3>2
  <2> QED
    BY <2>1
<1>10. t = [k \in 0..n |-> Step(t, k)]
  BY <1>9
<1> HIDE DEF t
<1>11. t[n] = f[n]
  <2>1. Follows(t, n, S, p0, F)
    <3>1. 0 \in 0..n /\ \A k \in 1..n : k \in 0..n /\ k # 0
      BY <1>3
    <3> QED
      BY <1>7, <1>10, <3>1 DEF Follows
  <2>2. n \in Nat /\ p0 \in S /\ F \in [S -> S] /\ f \in [0..n -> S] /\ Iterated(f, n, p0, F)
    BY <1>3, <1>4, <1>7, <1>8
  <2> QED
    BY <2>1, <2>2, StepsAgree
<1>12. t[n] \in S
  BY <1>3, <1>8, <1>11
<1>13. \E m \in 0..Len(B) : t[n][1] = SubSeq(B, 1, m)
  <2>1. \/ \E k \in 0..N : t[n][1] = SubSeq(B, 1, EndAt(ends, k))
        \/ \E m \in 0..Len(B) : t[n][1] = SubSeq(B, 1, m)
    BY <1>12 DEF S, ChunkStates, B, N
  <2>2. \A k \in 0..N : EndAt(ends, k) \in 0..Len(B)
    BY <1>2
  <2> QED
    BY <2>1, <2>2
<1> QED
  BY <1>5, <1>13 DEF d, B, C

(***************************************************************************)
(* The inductive invariant of a connection: what was read and what is on   *)
(* its way make up what the server sends, cut somewhere; a plain reply, or *)
(* a stream whose header is not read, is kept; a stream is decoded as far  *)
(* as it was read, or is over.                                             *)
(***************************************************************************)
PlaceOf(r, ends) == CHOOSE b : Layout(r, ends, b)

Came(ends, q) ==
  /\ wire = SubSeq(Stream!Sent(reply, ends), q + 1, Len(Stream!Sent(reply, ends)))
  /\ IF acc = NoStream
     THEN buf = SubSeq(Stream!Sent(reply, ends), 1, q) /\ (reply.stream => q < 3)
     ELSE /\ reply.stream /\ q >= 3 /\ acc \in Stream!Accs
          /\ DecodedTo(reply, ends, PlaceOf(reply, ends), acc, q - 3) \/ StreamOver(reply, acc)

WireInv ==
  /\ stage \in {"read", "ended"} =>
       /\ reply \in Stream!ServerReplies
       /\ \E ends \in Stream!Cuts(reply) : \E q \in 0..Len(Stream!Sent(reply, ends)) : Came(ends, q)
  /\ stage = "read"  => ended = "done" /\ (acc # NoStream => ~acc.done)
  /\ stage = "ended" => /\ ended \in {"done", "closed", "failed", "timeout"}
                        /\ ended = "done" /\ acc # NoStream => acc.done
  /\ Stream!AnswerIsReply

(* The places chosen are the ends of the chunks.                           *)
LEMMA PlaceIsLayout ==
  ASSUME NEW r \in Stream!ServerReplies, NEW ends \in Stream!Cuts(r)
  PROVE  r.framing = "chunked" => Layout(r, ends, PlaceOf(r, ends))
<1> SUFFICES ASSUME r.framing = "chunked" PROVE Layout(r, ends, PlaceOf(r, ends))
  OBVIOUS
<1>1. \E b : Layout(r, ends, b)
  BY ChunkedHasLayout
<1> QED
  BY <1>1 DEF PlaceOf

(* What a read leaves on its way, and adds to what came.                   *)
LEMMA ReadParts ==
  ASSUME NEW T, NEW s \in Seq(T), NEW q \in 0..Len(s), NEW n \in Nat,
         n <= Len(SubSeq(s, q + 1, Len(s)))
  PROVE  LET w == SubSeq(s, q + 1, Len(s))
         IN  /\ q + n \in 0..Len(s) /\ SubSeq(w, 1, n) = SubSeq(s, q + 1, q + n)
             /\ Stream!From(w, n + 1) = SubSeq(s, (q + n) + 1, Len(s))
             /\ SubSeq(s, 1, q) \o SubSeq(w, 1, n) = SubSeq(s, 1, q + n)
<1> DEFINE L == Len(s)
           w == SubSeq(s, q + 1, L)
<1>1. L \in Nat
  OBVIOUS
<1>2. q \in Nat /\ L \in q..Len(s)
  BY <1>1
<1>3. w \in Seq(T) /\ Len(w) = L - q
  BY <1>2, PartOf
<1>4. q + n \in 0..L /\ n \in 0..(L - q) /\ L - q \in n..(L - q)
  BY <1>1, <1>2, <1>3
<1> HIDE DEF L
<1>5. SubSeq(w, 1, n) = SubSeq(s, q + 1, q + n)
  <2>1. SubSeq(SubSeq(s, q + 1, L), 0 + 1, n) = SubSeq(s, q + 0 + 1, q + n)
    <3>1. q \in Nat /\ L \in q..Len(s) /\ 0 \in Nat /\ n \in 0..(L - q)
      BY <1>2, <1>4
    <3> QED
      BY <3>1, PartOfPart
  <2>2. 0 + 1 = 1 /\ q + 0 + 1 = q + 1
    BY <1>2
  <2> QED
    BY <2>1, <2>2
<1>6. Stream!From(w, n + 1) = SubSeq(s, (q + n) + 1, L)
  <2> DEFINE l == L - q
  <2>1. q \in Nat /\ L \in q..Len(s) /\ l \in n..(L - q) /\ q + n + 1 = (q + n) + 1 /\ q + l = L
    BY <1>1, <1>2, <1>4
  <2> HIDE DEF l
  <2>2. SubSeq(SubSeq(s, q + 1, L), n + 1, l) = SubSeq(s, q + n + 1, q + l)
    BY <2>1, PartOfPart
  <2>3. Len(w) = l
    BY <1>3 DEF l
  <2> QED
    BY <2>1, <2>2, <2>3 DEF Stream!From
<1>7. SubSeq(s, 1, q) \o SubSeq(w, 1, n) = SubSeq(s, 1, q + n)
  <2>1. 1 \in 1..(Len(s) + 1) /\ q \in (1 - 1)..Len(s) /\ q + n \in q..Len(s)
    BY <1>1, <1>2, <1>4 DEF L
  <2> HIDE DEF w
  <2>2. SubSeq(s, 1, q) \o SubSeq(s, q + 1, q + n) = SubSeq(s, 1, q + n)
    BY <2>1, ConcatAdjacentSubSeq
  <2> QED
    BY <1>5, <2>2
<1> QED
  BY <1>4, <1>5, <1>6, <1>7 DEF L

(* A read: the header, more of the body, or an end of it.                  *)
LEMMA ReadKept ==
  ASSUME WireInv, NEW n \in 1..ReadSize, Stream!Read(n)
  PROVE  WireInv'
<1> DEFINE r == reply
<1>1. /\ stage = "read" /\ n <= Len(wire) /\ reply' = reply /\ ended' = ended /\ answer' = answer
      /\ wire' = Stream!From(wire, n + 1)
      /\ stage' = IF Stream!Complete(acc', buf') THEN "ended" ELSE "read"
  BY DEF Stream!Read
<1>2. /\ reply \in Stream!ServerReplies /\ ended = "done" /\ (acc # NoStream => ~acc.done)
      /\ \E ends \in Stream!Cuts(reply) : \E q \in 0..Len(Stream!Sent(reply, ends)) : Came(ends, q)
  BY <1>1 DEF WireInv
<1>3. PICK ends \in Stream!Cuts(reply) : \E q \in 0..Len(Stream!Sent(reply, ends)) : Came(ends, q)
  BY <1>2
<1>4. PICK q \in 0..Len(Stream!Sent(reply, ends)) : Came(ends, q)
  BY <1>3
<1> DEFINE S == Stream!Sent(reply, ends)
           C == OnWire(reply, ends)
           b == PlaceOf(reply, ends)
<1>5. reply.framing = "chunked" => Layout(reply, ends, b)
  BY <1>2, PlaceIsLayout
<1>6. S \in Seq(Symbols) /\ Len(S) = Len(C) + 3 /\ Len(C) \in Nat
  BY <1>2, SentPlaces
<1>7. n \in Nat /\ n > 0
  <2>1. ReadSize \in Nat
    BY ServicesAssumption DEF Stream!StreamAssumption
  <2> QED
    BY <2>1
<1>8. wire = SubSeq(S, q + 1, Len(S))
  BY <1>4 DEF Came
<1> HIDE DEF S
<1>9. /\ q + n \in 0..Len(S) /\ SubSeq(wire, 1, n) = SubSeq(S, q + 1, q + n)
      /\ wire' = SubSeq(S, (q + n) + 1, Len(S))
      /\ SubSeq(S, 1, q) \o SubSeq(wire, 1, n) = SubSeq(S, 1, q + n)
  <2>1. n <= Len(SubSeq(S, q + 1, Len(S))) /\ q \in 0..Len(S)
    BY <1>1, <1>8 DEF S
  <2>2. S \in Seq(Symbols) /\ n \in Nat
    BY <1>6, <1>7
  <2> DEFINE w == SubSeq(S, q + 1, Len(S))
  <2>3. /\ q + n \in 0..Len(S) /\ SubSeq(w, 1, n) = SubSeq(S, q + 1, q + n)
        /\ Stream!From(w, n + 1) = SubSeq(S, (q + n) + 1, Len(S))
        /\ SubSeq(S, 1, q) \o SubSeq(w, 1, n) = SubSeq(S, 1, q + n)
    BY <2>1, <2>2, ReadParts
  <2>4. wire = w
    BY <1>8
  <2> HIDE DEF w
  <2> QED
    BY <1>1, <2>3, <2>4
<1> DEFINE p == q + n
<1>10. q \in Nat /\ p \in Nat /\ p > q /\ p \in 0..Len(S)
  <2>1. q \in 0..Len(S)
    BY DEF S
  <2> QED
    BY <1>6, <1>7, <1>9, <2>1
<1>11. /\ Len(SubSeq(S, 1, p)) = p /\ Stream!HasHeader(SubSeq(S, 1, p)) = (p >= 3)
       /\ p >= 3 => /\ Stream!Contains(SubSeq(S, 1, p), "event-stream") = reply.stream
                    /\ Stream!Contains(SubSeq(S, 1, p), "chunked") = (reply.framing = "chunked")
                    /\ p - 3 \in 0..Len(C)
                    /\ Stream!Body(SubSeq(S, 1, p)) = SubSeq(C, 1, p - 3)
  BY <1>2, <1>10, HeaderRead DEF S
<1>12. NoStream \notin Stream!Accs
  BY ServicesAssumption DEF Stream!StreamAssumption
<1> HIDE DEF C, b, p
<1>13. IF acc' = NoStream
       THEN buf' = SubSeq(S, 1, p) /\ (reply.stream => p < 3)
       ELSE /\ reply.stream /\ p >= 3 /\ acc' \in Stream!Accs
            /\ DecodedTo(reply, ends, b, acc', p - 3) \/ StreamOver(reply, acc')
  <2>1. CASE acc = NoStream
    <3> DEFINE d == SubSeq(S, 1, p)
    <3>1. buf = SubSeq(S, 1, q)
      BY <1>4, <2>1 DEF Came, S
    <3>2. Stream!Received(d)
      BY <1>9, <2>1, <3>1 DEF Stream!Read, p
    <3>3. CASE reply.stream /\ p >= 3
      <4> DEFINE c == Stream!Contains(d, "chunked")
                 a == Stream!NewAcc(c)
                 x == Stream!Feed(a, SubSeq(C, 0 + 1, p - 3))
      <4>1. acc' = Stream!Feed(a, Stream!Body(d))
        BY <1>11, <3>2, <3>3 DEF Stream!Received
      <4>2. Stream!Body(d) = SubSeq(C, 0 + 1, p - 3) /\ p - 3 \in 0..Len(C)
        BY <1>11, <3>3
      <4>3. c \in BOOLEAN /\ (c <=> reply.framing = "chunked")
        BY <1>11, <3>3
      <4> HIDE DEF c
      <4>4. a \in Stream!Accs /\ DecodedTo(reply, ends, b, a, 0)
        BY <1>2, <1>5, <3>3, <4>3, StreamStarts
      <4> HIDE DEF a
      <4>5. x \in Stream!Accs /\ (DecodedTo(reply, ends, b, x, p - 3) \/ StreamOver(reply, x))
        <5>1. 0 \in Nat /\ p - 3 \in 0..Len(OnWire(reply, ends))
          BY <4>2 DEF C
        <5> QED
          BY <1>2, <1>5, <3>3, <4>4, <5>1, PartsFed DEF C
      <4>6. acc' = x
        BY <4>1, <4>2
      <4> HIDE DEF x
      <4> QED
        BY <1>12, <3>3, <4>5, <4>6
    <3>4. CASE ~(reply.stream /\ p >= 3)
      <4>1. acc' = NoStream /\ buf' = d
        <5>1. ~(Stream!HasHeader(d) /\ Stream!Contains(d, "event-stream"))
          BY <1>11, <3>4
        <5> QED
          BY <3>2, <5>1 DEF Stream!Received
      <4>2. reply.stream => p < 3
        BY <1>10, <3>4
      <4> QED
        BY <4>1, <4>2
    <3> QED
      BY <3>3, <3>4
  <2>2. CASE acc # NoStream
    <3>1. /\ reply.stream /\ q >= 3 /\ acc \in Stream!Accs
          /\ DecodedTo(reply, ends, b, acc, q - 3) \/ StreamOver(reply, acc)
      BY <1>4, <2>2 DEF Came, b
    <3>2. DecodedTo(reply, ends, b, acc, q - 3)
      BY <1>2, <2>2, <3>1 DEF StreamOver
    <3> DEFINE m == q - 3
               e == p - 3
               x == Stream!Feed(acc, SubSeq(C, m + 1, e))
    <3>3. m \in Nat /\ e \in m..Len(C) /\ p >= 3
      BY <1>6, <1>10, <3>1
    <3>4. acc' = Stream!Feed(acc, SubSeq(wire, 1, n))
      BY <2>2 DEF Stream!Read
    <3>5. SubSeq(S, q + 1, p) = SubSeq(C, m + 1, e)
      <4>1. Alike(S, q, C, m, n)
        <5>1. q + n <= Len(S) /\ m + n <= Len(C)
          BY <1>6, <1>10, <3>1 DEF p
        <5>2. \A k \in 1..n : S[q + k] = C[m + k]
          <6> TAKE k \in 1..n
          <6>1. m + k \in 1..Len(C) /\ (m + k) + 3 = q + k
            BY <1>6, <1>7, <1>10, <3>1, <5>1
          <6>2. \A i \in 1..Len(C) : S[i + 3] = C[i]
            BY <1>2, SentPlaces DEF S, C
          <6> HIDE DEF m
          <6> QED
            BY <6>1, <6>2
        <5> QED
          BY <5>1, <5>2 DEF Alike
      <4>2. C \in Seq(Symbols)
        BY <1>2, <1>5, WireType DEF C
      <4>3. m + n = e /\ q + n = p
        BY <1>7, <1>10 DEF p
      <4> HIDE DEF m, e
      <4>4. SubSeq(S, q + 1, q + n) = SubSeq(C, m + 1, m + n)
        BY <1>6, <1>7, <1>10, <3>3, <4>1, <4>2, PartsEqual
      <4> QED
        BY <4>3, <4>4
    <3>6. acc' = x
      <4>1. SubSeq(wire, 1, n) = SubSeq(S, q + 1, p)
        BY <1>9 DEF p
      <4> QED
        BY <3>4, <3>5, <4>1
    <3> HIDE DEF m, e
    <3>7. x \in Stream!Accs /\ (DecodedTo(reply, ends, b, x, e) \/ StreamOver(reply, x))
      BY <1>2, <1>5, <3>1, <3>2, <3>3, PartsFed DEF C, m
    <3> HIDE DEF x
    <3> QED
      BY <1>12, <3>1, <3>3, <3>6, <3>7 DEF e
  <2> QED
    BY <2>1, <2>2
<1>14. stage' \in {"read", "ended"} /\ (acc' # NoStream => (stage' = "ended" <=> acc'.done))
  <2>1. acc' # NoStream => acc' \in Stream!Accs
    BY <1>13
  <2>2. CASE acc' # NoStream
    <3>1. Stream!Complete(acc', buf') = acc'.done /\ acc'.done \in BOOLEAN
      BY <2>1, <2>2, AccType DEF Stream!Complete
    <3> QED
      BY <1>1, <3>1
  <2>3. CASE acc' = NoStream
    BY <1>1, <2>3
  <2> QED
    BY <2>2, <2>3
<1>15. Came(ends, p)'
  BY <1>1, <1>9, <1>13 DEF Came, S, b, p
<1>16. \E e1 \in Stream!Cuts(reply') : \E q1 \in 0..Len(Stream!Sent(reply', e1)) : Came(e1, q1)'
  BY <1>1, <1>10, <1>15 DEF S
<1>17. Stream!AnswerIsReply'
  BY <1>14 DEF Stream!AnswerIsReply
<1> QED
  BY <1>1, <1>2, <1>14, <1>16, <1>17 DEF WireInv

(* A new connection.                                                       *)
LEMMA ConnectKept ==
  ASSUME NEW r \in Stream!ServerReplies, Stream!Connect(r)
  PROVE  WireInv'
<1>1. /\ stage' = "read" /\ reply' = r /\ buf' = <<>> /\ acc' = NoStream /\ ended' = "done"
      /\ \E ends \in Stream!Cuts(r) : wire' = Stream!Sent(r, ends)
  BY DEF Stream!Connect
<1>2. PICK ends \in Stream!Cuts(r) : wire' = Stream!Sent(r, ends)
  BY <1>1
<1> DEFINE S == Stream!Sent(r, ends)
<1>3. S \in Seq(Symbols) /\ Len(S) \in Nat
  <2>1. S \in Seq(Symbols)
    BY SentPlaces
  <2> QED
    BY <2>1, LenProperties
<1>4. SubSeq(S, 1, 0) = <<>> /\ SubSeq(S, 1, Len(S)) = S
  <2> HIDE DEF S
  <2> QED
    BY <1>3, SubSeqEmpty, SubSeqFull
<1>5. Came(ends, 0)'
  <2>1. 0 + 1 = 1
    OBVIOUS
  <2> QED
    BY <1>1, <1>2, <1>4, <2>1 DEF Came
<1>6. 0 \in 0..Len(S)
  BY <1>3
<1>7. \E e1 \in Stream!Cuts(reply') : \E q1 \in 0..Len(Stream!Sent(reply', e1)) : Came(e1, q1)'
  BY <1>1, <1>5, <1>6
<1>8. Stream!AnswerIsReply'
  BY <1>1 DEF Stream!AnswerIsReply
<1> QED
  BY <1>1, <1>7, <1>8 DEF WireInv

(* The end of reading.                                                     *)
LEMMA EndKept ==
  ASSUME WireInv, NEW how \in {"closed", "failed", "timeout"}, Stream!ReadEnds(how)
  PROVE  WireInv'
<1>1. stage = "read" /\ stage' = "ended" /\ ended' = how /\ UNCHANGED <<reply, wire, buf, acc, answer>>
  BY DEF Stream!ReadEnds
<1>2. /\ reply \in Stream!ServerReplies
      /\ \E ends \in Stream!Cuts(reply) : \E q \in 0..Len(Stream!Sent(reply, ends)) : Came(ends, q)
  BY <1>1 DEF WireInv
<1>3. ASSUME NEW ends, NEW q, Came(ends, q) PROVE Came(ends, q)'
  BY <1>1, <1>3 DEF Came
<1>4. \E e1 \in Stream!Cuts(reply') : \E q1 \in 0..Len(Stream!Sent(reply', e1)) : Came(e1, q1)'
  BY <1>1, <1>2, <1>3
<1>5. Stream!AnswerIsReply'
  BY <1>1 DEF Stream!AnswerIsReply
<1> QED
  BY <1>1, <1>2, <1>4, <1>5 DEF WireInv

(* What is read of an answer.                                              *)
LEMMA AnswerKept ==
  ASSUME WireInv, Stream!Understand
  PROVE  WireInv'
<1>1. CASE ~(Stream!Returned = 0 /\ ~Stream!IsError)
  <2>1. stage' \in {"connect", "failed"}
    BY <1>1 DEF Stream!Understand, Stream!AskAgain
  <2> QED
    BY <2>1 DEF WireInv, Stream!AnswerIsReply
<1>2. CASE Stream!Returned = 0 /\ ~Stream!IsError
  <2>1. /\ stage = "ended" /\ stage' = "answered" /\ answer' = Stream!Pieces
        /\ UNCHANGED <<reply, wire, buf, acc, ended>>
    BY <1>2 DEF Stream!Understand
  <2>2. /\ reply \in Stream!ServerReplies /\ ended \in {"done", "closed", "failed", "timeout"}
        /\ ended = "done" /\ acc # NoStream => acc.done
        /\ \E ends \in Stream!Cuts(reply) : \E q \in 0..Len(Stream!Sent(reply, ends)) : Came(ends, q)
    BY <2>1 DEF WireInv
  <2>3. PICK ends \in Stream!Cuts(reply) : \E q \in 0..Len(Stream!Sent(reply, ends)) : Came(ends, q)
    BY <2>2
  <2>4. PICK q \in 0..Len(Stream!Sent(reply, ends)) : Came(ends, q)
    BY <2>3
  <2> DEFINE S == Stream!Sent(reply, ends)
             C == OnWire(reply, ends)
             b == PlaceOf(reply, ends)
  <2>5. reply.framing = "chunked" => Layout(reply, ends, b)
    BY <2>2, PlaceIsLayout
  <2>6. S \in Seq(Symbols) /\ Len(S) = Len(C) + 3 /\ Len(C) \in Nat
    BY <2>2, SentPlaces
  <2>7. q \in Nat /\ q <= Len(S)
    BY <2>6
  <2>8. /\ reply.stream \in BOOLEAN /\ reply.error \in BOOLEAN /\ reply.pieces \in Seq(Stream!Deltas)
    BY <2>2, ReplyType
  <2>9. (Stream!Whole \/ (Stream!CutOff /\ Stream!IsPrefix(answer, reply.pieces)))'
    <3>1. CASE acc = NoStream
      <4> DEFINE T == Stream!PlainBody
                 B == Stream!BodyOf(reply)
      <4>1. Stream!HasHeader(buf) /\ Stream!Parses(T) /\ ~Stream!Contains(T, "error") /\ answer' = Stream!Front(Tail(T))
        <5>1. Stream!HasHeader(buf)
          BY <1>2, <3>1 DEF Stream!Returned
        <5>2. Stream!Parses(T) /\ ~Stream!Contains(T, "error")
          BY <1>2, <3>1 DEF Stream!IsError
        <5>3. answer' = Stream!Front(Tail(T))
          BY <2>1, <3>1 DEF Stream!Pieces
        <5> QED
          BY <5>1, <5>2, <5>3
      <4>2. buf = SubSeq(S, 1, q) /\ (reply.stream => q < 3)
        BY <2>4, <3>1 DEF Came
      <4>3. /\ Stream!HasHeader(buf) = (q >= 3)
            /\ q >= 3 => /\ Stream!Contains(buf, "chunked") = (reply.framing = "chunked")
                         /\ q - 3 \in 0..Len(C)
                         /\ Stream!Body(buf) = SubSeq(C, 1, q - 3)
        BY <2>2, <4>2, HeaderRead
      <4>4. q >= 3 /\ ~reply.stream
        <5>1. q >= 3
          BY <4>1, <4>3
        <5>2. ~(q < 3)
          BY <2>7, <5>1
        <5> QED
          BY <2>8, <4>2, <5>1, <5>2
      <4>5. \E m \in 0..Len(B) : T = SubSeq(B, 1, m)
        <5>1. CASE reply.framing = "chunked"
          <6>1. T = Stream!Dechunked(SubSeq(C, 1, q - 3)) /\ q - 3 \in 0..Len(C)
            BY <4>3, <4>4, <5>1 DEF Stream!PlainBody
          <6>2. C = Stream!Chunked(B, ends)
            BY <5>1 DEF OnWire
          <6> QED
            <7>1. Layout(reply, ends, b) /\ q - 3 \in 0..Len(Stream!Chunked(B, ends))
              BY <2>5, <5>1, <6>1, <6>2
            <7>2. \E m \in 0..Len(B) : Stream!Dechunked(SubSeq(Stream!Chunked(B, ends), 1, q - 3)) = SubSeq(B, 1, m)
              BY <2>2, <5>1, <7>1, DechunkedIsPart
            <7> QED
              BY <6>1, <6>2, <7>2
        <5>2. CASE reply.framing # "chunked"
          <6>1. T = SubSeq(C, 1, q - 3) /\ q - 3 \in 0..Len(C)
            BY <4>3, <4>4, <5>2 DEF Stream!PlainBody
          <6>2. C = B
            BY <5>2 DEF OnWire
          <6> QED
            BY <6>1, <6>2
        <5> QED
          BY <5>1, <5>2
      <4>6. PICK m \in 0..Len(B) : T = SubSeq(B, 1, m)
        BY <4>5
      <4>7. ~reply.error /\ Stream!Front(Tail(T)) = reply.pieces
        BY <2>2, <4>1, <4>4, <4>6, OnlyWholeParses
      <4> QED
        BY <2>1, <4>1, <4>7 DEF Stream!Whole
    <3>2. CASE acc # NoStream
      <4>1. /\ reply.stream /\ q >= 3 /\ acc \in Stream!Accs
            /\ DecodedTo(reply, ends, b, acc, q - 3) \/ StreamOver(reply, acc)
        BY <2>4, <3>2 DEF Came
      <4>2. ~acc.error /\ answer' = acc.pieces /\ (ended = "timeout" => acc.done)
        <5>1. ~acc.error
          BY <1>2, <3>2 DEF Stream!IsError
        <5>2. answer' = acc.pieces
          BY <2>1, <3>2 DEF Stream!Pieces
        <5>3. ended = "timeout" => acc.done
          BY <1>2, <3>2 DEF Stream!Returned
        <5> QED
          BY <5>1, <5>2, <5>3
      <4>3. CASE StreamOver(reply, acc)
        <5>1. ~reply.error /\ acc.pieces = reply.pieces
          BY <4>2, <4>3 DEF StreamOver
        <5> QED
          BY <2>1, <4>2, <5>1 DEF Stream!Whole
      <4>4. CASE DecodedTo(reply, ends, b, acc, q - 3)
        <5>1. q - 3 \in Nat
          BY <2>7, <4>1
        <5>2. q - 3 < Len(C) /\ ~acc.done /\ \E n \in 0..Len(reply.pieces) : acc.pieces = SubSeq(reply.pieces, 1, n)
          BY <2>2, <2>5, <4>1, <4>4, <5>1, MoreToCome
        <5>3. wire # <<>>
          <6> HIDE DEF S, C
          <6>1. q < Len(S) /\ Len(S) \in q..Len(S)
            BY <2>6, <2>7, <5>1, <5>2
          <6>2. wire = SubSeq(S, q + 1, Len(S))
            BY <2>4 DEF Came, S
          <6>3. SubSeq(S, q + 1, Len(S)) = <<>> <=> q = Len(S)
            <7> DEFINE l == Len(S)
            <7>1. S \in Seq(Symbols) /\ q \in Nat /\ l \in q..Len(S)
              BY <2>6, <2>7, <6>1
            <7> HIDE DEF l
            <7>2. SubSeq(S, q + 1, l) = <<>> <=> q = l
              BY <7>1, PartOf
            <7> QED
              BY <7>2 DEF l
          <6> QED
            BY <2>7, <6>1, <6>2, <6>3
        <5>4. ended \in {"closed", "failed"}
          BY <2>2, <3>2, <4>2, <5>2
        <5>5. PICK n \in 0..Len(reply.pieces) : acc.pieces = SubSeq(reply.pieces, 1, n)
          BY <5>2
        <5>6. Stream!IsPrefix(answer', reply.pieces)
          <6> DEFINE s == SubSeq(reply.pieces, 1, n)
          <6>1. Len(s) = n
            <7>1. n \in 0..Len(reply.pieces) /\ 0 \in Nat /\ n - 0 = n /\ 0 + 1 = 1
              BY <2>8
            <7>2. Len(SubSeq(reply.pieces, 0 + 1, n)) = n - 0
              BY <2>8, <7>1, PartOf
            <7> QED
              BY <7>1, <7>2
          <6>2. n <= Len(reply.pieces)
            BY <2>8
          <6> QED
            BY <4>2, <5>5, <6>1, <6>2 DEF Stream!IsPrefix
        <5>7. Stream!CutOff'
          BY <2>1, <4>1, <5>3, <5>4 DEF Stream!CutOff
        <5> QED
          BY <2>1, <5>6, <5>7
      <4> QED
        BY <4>1, <4>3, <4>4
    <3> QED
      BY <3>1, <3>2
  <2> QED
    BY <2>1, <2>9 DEF WireInv, Stream!AnswerIsReply
<1> QED
  BY <1>1, <1>2

(* Every step of a request keeps the invariant.                            *)
LEMMA WireStep ==
  ASSUME WireInv, [Stream!Next]_replyvars
  PROVE  WireInv'
<1>1. ASSUME NEW r \in Stream!ServerReplies, Stream!Connect(r) PROVE WireInv'
  BY <1>1, ConnectKept
<1>2. ASSUME NEW n \in 1..ReadSize, Stream!Read(n) PROVE WireInv'
  BY <1>2, ReadKept
<1>3. ASSUME NEW how \in {"closed", "failed", "timeout"}, Stream!ReadEnds(how) PROVE WireInv'
  BY <1>3, EndKept
<1>4. CASE Stream!ConnectFails \/ Stream!Reconnect
  <2>1. stage' \in {"connect", "failed"}
    BY <1>4 DEF Stream!ConnectFails, Stream!AskAgain, Stream!Reconnect
  <2> QED
    BY <2>1 DEF WireInv, Stream!AnswerIsReply
<1>5. CASE Stream!Understand
  BY <1>5, AnswerKept
<1>6. CASE UNCHANGED replyvars
  BY <1>6 DEF replyvars, WireInv, Came, Stream!AnswerIsReply, Stream!Whole, Stream!CutOff
<1> QED
  BY <1>1, <1>2, <1>3, <1>4, <1>5, <1>6 DEF Stream!Next

(* However a reply is cut into chunks and reads and whatever failed before *)
(* (llm_agent_http.c, claw_agent_llm.c), what is handed on as an answer is *)
(* the whole of it, or what came of a stream whose connection was lost.    *)
THEOREM AnswersAreReplies == ServicesSpec => []AnswerIsReply
<1>1. ServicesInit => WireInv
  BY DEF ServicesInit, Stream!Init, WireInv, Stream!AnswerIsReply
<1>2. WireInv /\ [ServicesNext]_allvars => WireInv'
  <2> SUFFICES ASSUME WireInv, [ServicesNext]_allvars
               PROVE  WireInv'
    OBVIOUS
  <2>1. [Stream!Next]_replyvars
    BY DEF ServicesNext, RunsScheduler, RunsSends, RunsWifi, RunsStream, allvars
  <2> QED
    BY <2>1, WireStep
<1>3. WireInv => AnswerIsReply
  BY DEF WireInv, AnswerIsReply
<1> QED
  BY <1>1, <1>2, <1>3, PTL DEF ServicesSpec

=============================================================================
