-------------------------- MODULE SessionMapProofs --------------------------
(***************************************************************************)
(* Two facts of the chat map, for every set of aliases and tasks: a map    *)
(* that can be read lists its current session and no session twice,        *)
(* whoever writes the file and the shared .tmp and whatever fails; and for *)
(* one task, whose maps fit in the bytes that are read, every call edits   *)
(* the map at once or leaves it.                                           *)
(***************************************************************************)
EXTENDS SessionMap, SeqLemmas

USE ChatMapAssumption, SessionMapAssumption

Good   == {m \in ChatMap : m.current \in Range(m.sessions) /\ IsInjective(m.sessions)}
OnFile == Good \cup {Absent}

LEMMA GoodType ==
  ASSUME NEW m \in Good
  PROVE  /\ m \in ChatMap /\ m # Absent /\ Consistent(m)
         /\ m.current \in Aliases /\ m.sessions \in Seq(Aliases)
BY DEF Good, ChatMap, Consistent

LEMMA OnFileType ==
  ASSUME NEW m \in OnFile
  PROVE  m \in ChatMap \cup {Absent} /\ Consistent(m)
BY GoodType DEF OnFile, Consistent

(* create_default_chat_map. *)
LEMMA DefaultGood == DefaultMap \in Good
<1>1. <<Default>> \in Seq(Aliases) /\ Range(<<Default>>) = {Default} /\ IsInjective(<<Default>>)
  BY DEF Range, IsInjective
<1> QED BY <1>1 DEF DefaultMap, Good, ChatMap

(* cap_session_mgr_new: the alias is appended only if it was not listed.   *)
LEMMA CreatedGood ==
  ASSUME NEW m \in Good, NEW a \in Aliases, a \notin Range(m.sessions)
  PROVE  Created(m, a) \in Good
<1>1. m.sessions \in Seq(Aliases) /\ IsInjective(m.sessions)
  BY DEF Good, ChatMap
<1> DEFINE s == Append(m.sessions, a)
<1>2. s \in Seq(Aliases) /\ a \in Range(s) /\ IsInjective(s)
  BY <1>1, AppendRange
<1>3. Created(m, a) = [current |-> a, sessions |-> s]
  BY DEF Created
<1> HIDE DEF s
<1> QED BY <1>2, <1>3 DEF Good, ChatMap

(* cap_session_mgr_rename and _rename_alias: one alias takes the place of  *)
(* another, and current follows it.                                        *)
LEMMA RenamedGood ==
  ASSUME NEW m \in Good, NEW a \in Range(m.sessions), NEW b \in Aliases, b \notin Range(m.sessions)
  PROVE  Renamed(m, a, b) \in Good
<1> DEFINE s == m.sessions
           r == [i \in DOMAIN s |-> IF s[i] = a THEN b ELSE s[i]]
           c == IF m.current = a THEN b ELSE m.current
<1>1. s \in Seq(Aliases) /\ IsInjective(s) /\ m.current \in Range(s) /\ m.current \in Aliases
  BY DEF Good, ChatMap
<1>2. DOMAIN s = 1..Len(s) /\ Len(s) \in Nat /\ \A i \in DOMAIN s : s[i] \in Aliases /\ s[i] # b
  BY <1>1 DEF Range
<1> HIDE DEF s
<1>3. r \in [1..Len(s) -> Aliases] /\ DOMAIN r = DOMAIN s
  BY <1>2
<1>4. \A i \in DOMAIN s : r[i] = IF s[i] = a THEN b ELSE s[i]
  OBVIOUS
<1>5. Renamed(m, a, b) = [current |-> c, sessions |-> r]
  BY DEF Renamed, s
<1> HIDE DEF r
<1>6. r \in Seq(Aliases)
  BY <1>2, <1>3
<1>7. IsInjective(r)
  <2> SUFFICES ASSUME NEW i \in DOMAIN r, NEW k \in DOMAIN r, r[i] = r[k] PROVE i = k
    BY DEF IsInjective
  <2>1. s[i] = s[k]
    BY <1>2, <1>3, <1>4
  <2> QED BY <2>1, <1>1, <1>3 DEF IsInjective
<1>8. c \in Range(r)
  <2>1. PICK i \in DOMAIN s : s[i] = m.current
    BY <1>1 DEF Range
  <2>2. r[i] = c
    BY <2>1, <1>4
  <2> QED BY <2>1, <2>2, <1>3 DEF Range
<1>9. c \in Aliases
  BY <1>1
<1> HIDE DEF c
<1> QED BY <1>5, <1>6, <1>7, <1>8, <1>9 DEF Good, ChatMap

(* cap_session_mgr_resume. *)
LEMMA ResumedGood ==
  ASSUME NEW m \in Good, NEW a \in Range(m.sessions)
  PROVE  [m EXCEPT !.current = a] \in Good
<1>1. m.sessions \in Seq(Aliases) /\ IsInjective(m.sessions) /\ a \in Aliases
  BY RangeType DEF Good, ChatMap
<1>2. [m EXCEPT !.current = a] = [current |-> a, sessions |-> m.sessions]
  BY DEF Good, ChatMap
<1> QED BY <1>1, <1>2 DEF Good, ChatMap

(* cap_session_mgr_delete: if current goes, the first that remains takes   *)
(* its place; if none remains there is no map.                             *)
LEMMA DeletedOnFile ==
  ASSUME NEW m \in Good, NEW a \in Range(m.sessions)
  PROVE  Deleted(m, a) \in OnFile
<1> DEFINE s == m.sessions
           i == CHOOSE k \in DOMAIN s : s[k] = a
           r == Without(m, a)
<1>1. s \in Seq(Aliases) /\ IsInjective(s) /\ m.current \in Range(s) /\ m.current \in Aliases
  BY DEF Good, ChatMap
<1>2. i \in DOMAIN s /\ s[i] = a
  BY DEF Range
<1>3. r = RemoveAt(s, i)
  BY DEF Without
<1> HIDE DEF s, i, r
<1>4. r \in Seq(Aliases) /\ Range(r) = Range(s) \ {a} /\ IsInjective(r)
  BY <1>1, <1>2, <1>3, RemoveAtRange
<1>5. CASE r = <<>>
  BY <1>5 DEF Deleted, OnFile, r
<1>6. CASE r # <<>>
  <2> DEFINE c == IF m.current = a THEN Head(r) ELSE m.current
  <2>1. c \in Aliases /\ c \in Range(r)
    BY <1>1, <1>4, <1>6, TailRange
  <2>2. Deleted(m, a) = [current |-> c, sessions |-> r]
    BY <1>6 DEF Deleted, r
  <2> HIDE DEF c
  <2> QED BY <2>1, <2>2, <1>4 DEF Good, ChatMap, OnFile
<1> QED BY <1>5, <1>6

(* Every call that accepts a consistent map writes a consistent one.       *)
LEMMA EditedOnFile ==
  ASSUME NEW m \in OnFile, NEW op \in MapOps, Accepts(op, m)
  PROVE  Edited(op, m) \in OnFile
<1>1. CASE op \in NewOps
  <2>1. op.kind = "new" /\ op.to \in Aliases /\ op.to \notin Shown(m)
    BY <1>1 DEF NewOps, Accepts
  <2>2. CASE m = Absent
    <3>1. op.to \notin Range(DefaultMap.sessions)
      BY <2>1, <2>2 DEF Shown, DefaultMap, Range
    <3>2. Edited(op, m) = Created(DefaultMap, op.to)
      BY <2>1, <2>2 DEF Edited
    <3> QED BY <2>1, <3>1, <3>2, DefaultGood, CreatedGood DEF OnFile
  <2>3. CASE m # Absent
    <3>1. Edited(op, m) = Created(m, op.to) /\ op.to \notin Range(m.sessions) /\ m \in Good
      BY <2>1, <2>3 DEF Edited, Shown, Listed, OnFile
    <3> QED BY <2>1, <3>1, CreatedGood DEF OnFile
  <2> QED BY <2>2, <2>3
<1>2. CASE op \in RenameOps
  <2>1. op.kind = "rename" /\ op.to \in Aliases
    BY <1>2 DEF RenameOps
  <2>2. m \in Good /\ m.current \in Range(m.sessions) /\ op.to \notin Range(m.sessions)
    BY <2>1 DEF Accepts, Listed, OnFile
  <2>3. Edited(op, m) = Renamed(m, m.current, op.to)
    BY <2>1 DEF Edited
  <2> QED BY <2>1, <2>2, <2>3, RenamedGood DEF OnFile
<1>3. CASE op \in AliasOps
  <2>1. op.kind = "rename_alias" /\ op.to \in Aliases
    BY <1>3 DEF AliasOps
  <2>2. m \in Good /\ op.from \in Range(m.sessions) /\ op.to \notin Range(m.sessions)
    BY <2>1 DEF Accepts, Listed, OnFile
  <2>3. Edited(op, m) = Renamed(m, op.from, op.to)
    BY <2>1 DEF Edited
  <2> QED BY <2>1, <2>2, <2>3, RenamedGood DEF OnFile
<1>4. CASE op \in ResumeOps
  <2>1. op.kind = "resume"
    BY <1>4 DEF ResumeOps
  <2>2. m \in Good /\ op.from \in Range(m.sessions)
    BY <2>1 DEF Accepts, Listed, OnFile
  <2>3. Edited(op, m) = [m EXCEPT !.current = op.from]
    BY <2>1 DEF Edited
  <2> QED BY <2>2, <2>3, ResumedGood DEF OnFile
<1>5. CASE op \in DeleteOps
  <2>1. op.kind = "delete"
    BY <1>5 DEF DeleteOps
  <2>2. m \in Good /\ op.from \in Range(m.sessions)
    BY <2>1 DEF Accepts, Listed, OnFile
  <2>3. Edited(op, m) = Deleted(m, op.from)
    BY <2>1 DEF Edited
  <2> QED BY <2>2, <2>3, DeletedOnFile
<1>6. CASE op = BuildOp
  <2>1. Edited(op, m) = DefaultMap
    BY <1>6 DEF BuildOp, Edited
  <2> QED BY <2>1, DefaultGood DEF OnFile
<1> QED BY <1>1, <1>2, <1>3, <1>4, <1>5, <1>6 DEF MapOps
-----------------------------------------------------------------------------
(* The inductive invariant: the file, the .tmp and every pending copy are  *)
(* consistent maps or nothing, and a task that writes has a map to write.  *)
FileInv == map \in OnFile /\ tmp \in OnFile

TaskInv ==
  /\ todo \in [Tasks -> Seq(Calls)] /\ copy \in [Tasks -> OnFile]
  /\ pc \in [Tasks -> {"idle", "write", "rename", "remove", "clear"}]
  /\ \A t \in Tasks : pc[t] # "idle" => todo[t] # <<>>

EngineInv == history \subseteq Aliases /\ running \subseteq Aliases /\ calls \in 0..MaxCalls

MapInv == FileInv /\ TaskInv /\ EngineInv

(* The calls name aliases. *)
LEMMA CallType ==
  ASSUME NEW op \in Calls
  PROVE  op.from \in Aliases /\ op.to \in Aliases
BY DEF Calls, MapOps, NewOps, RenameOps, AliasOps, ResumeOps, DeleteOps, BuildOp, Ask, Clear, ClearCurrent

LEMMA ProgramType ==
  ASSUME NEW p \in AllPrograms
  PROVE  p \in Seq(Calls)
<1>1. ASSUME NEW op \in Calls, p = <<op>> PROVE p \in Seq(Calls)
  BY <1>1
<1>2. ASSUME NEW a \in Aliases, p = Route(a) PROVE p \in Seq(Calls)
  <2>1. \A x, y, z \in Calls : <<x, y, z>> \in Seq(Calls)
    OBVIOUS
  <2>2. /\ [kind |-> "new", from |-> Default, to |-> a] \in NewOps
        /\ [kind |-> "resume", from |-> a, to |-> Default] \in ResumeOps
    BY DEF NewOps, ResumeOps
  <2>3. /\ [kind |-> "new", from |-> Default, to |-> a] \in Calls
        /\ [kind |-> "resume", from |-> a, to |-> Default] \in Calls
        /\ Ask(a) \in Calls
    BY <2>2 DEF Calls, MapOps
  <2> QED BY <1>2, <2>1, <2>3 DEF Route
<1>3. /\ \A a \in Aliases : Clear(a) \in Calls
      /\ ClearCurrent \in Calls /\ MapOps \subseteq Calls
  BY DEF Calls
<1> QED BY <1>1, <1>2, <1>3 DEF AllPrograms

LEMMA CurrentType ==
  ASSUME NEW m \in OnFile
  PROVE  Current(m) \in Aliases
BY GoodType DEF OnFile, Current

LEMMA MapInvInit == Init => MapInv
BY DEF Init, MapInv, FileInv, TaskInv, EngineInv, OnFile

(* The end of a call: the task takes its next one.                         *)
LEMMA OverInv ==
  ASSUME TaskInv, EngineInv, NEW t \in Tasks, todo[t] # <<>>, NEW m \in OnFile, Over(t, m)
  PROVE  TaskInv' /\ running' \subseteq Aliases
<1>1. todo[t] \in Seq(Calls)
  BY DEF TaskInv
<1>2. Head(todo[t]) \in Calls /\ Tail(todo[t]) \in Seq(Calls)
  BY <1>1
<1>3. todo' \in [Tasks -> Seq(Calls)] /\ \A u \in Tasks : u # t => todo'[u] = todo[u]
  BY <1>2 DEF Over, TaskInv
<1>4. /\ pc' \in [Tasks -> {"idle", "write", "rename", "remove", "clear"}] /\ pc'[t] = "idle"
      /\ \A u \in Tasks : u # t => pc'[u] = pc[u]
  BY DEF Over, TaskInv
<1>5. copy' \in [Tasks -> OnFile]
  BY DEF Over, TaskInv, OnFile
<1>6. TaskInv'
  BY <1>3, <1>4, <1>5 DEF TaskInv
<1>7. running' \subseteq running \cup {Current(m), Head(todo[t]).from}
  BY DEF Over
<1> QED BY <1>2, <1>6, <1>7, CallType, CurrentType DEF EngineInv

(* The end of the file operations of a call.                               *)
LEMMA SucceedsInv ==
  ASSUME TaskInv, EngineInv, NEW t \in Tasks, todo[t] # <<>>, Succeeds(t)
  PROVE  TaskInv' /\ running' \subseteq Aliases
<1>1. CASE Over(t, Absent)
  BY <1>1, OverInv DEF OnFile
<1>2. CASE pc' = [pc EXCEPT ![t] = "clear"] /\ UNCHANGED <<todo, copy, running>>
  BY <1>2 DEF TaskInv, EngineInv
<1> QED BY <1>1, <1>2 DEF Succeeds

LEMMA ReadType ==
  ASSUME FileInv, NEW m \in ReadResults
  PROVE  m \in OnFile
BY DEF FileInv, ReadResults, OnFile

LEMMA MapInvNext == MapInv /\ [Next]_vars => MapInv'
<1> SUFFICES ASSUME MapInv, [Next]_vars PROVE MapInv'
  OBVIOUS
<1>1. CASE PowerLoss
  BY <1>1 DEF PowerLoss, MapInv, FileInv, TaskInv, EngineInv, OnFile
<1>2. ASSUME NEW t \in Tasks, Step(t) PROVE MapInv'
  <2>1. ASSUME NEW p \in Programs[t], Start(t, p) PROVE MapInv'
    <3>1. p \in Seq(Calls)
      BY ProgramType
    <3>2. pc[t] = "idle"  \/ p # <<>>
      BY DEF AllPrograms, Route
    <3>3. TaskInv'
      BY <2>1, <3>1, <3>2 DEF Start, MapInv, TaskInv
    <3>4. FileInv' /\ EngineInv'
      BY <2>1 DEF Start, MapInv, FileInv, EngineInv
    <3> QED BY <3>3, <3>4 DEF MapInv
  <2>2. CASE ReadMap(t)
    <3> DEFINE op == Head(todo[t])
    <3>1. PICK m \in ReadResults :
            /\ Clears(op, m)
            /\ IF op \in MapOps /\ Accepts(op, m)
                 THEN /\ pc' = [pc EXCEPT ![t] = IF Edited(op, m) = Absent THEN "remove" ELSE "write"]
                      /\ copy' = [copy EXCEPT ![t] = Edited(op, m)]
                      /\ UNCHANGED <<todo, running>>
                 ELSE Over(t, m)
      BY <2>2 DEF ReadMap
    <3>2. m \in OnFile /\ todo[t] # <<>> /\ map' = map /\ tmp' = tmp /\ calls' = calls
      BY <2>2, ReadType DEF ReadMap, MapInv
    <3>3. history' \subseteq Aliases
      BY <3>1 DEF Clears, MapInv, EngineInv
    <3>4. TaskInv' /\ running' \subseteq Aliases
      <4>1. CASE op \in MapOps /\ Accepts(op, m)
        <5>1. Edited(op, m) \in OnFile
          BY <3>2, <4>1, EditedOnFile
        <5> HIDE DEF op
        <5> QED BY <3>1, <3>2, <4>1, <5>1 DEF MapInv, TaskInv, EngineInv
      <4>2. CASE Over(t, m)
        BY <3>2, <4>2, OverInv DEF MapInv
      <4> QED BY <3>1, <4>1, <4>2
    <3> QED BY <3>2, <3>3, <3>4 DEF MapInv, FileInv, EngineInv
  <2>3. CASE NoMemory(t)
    <3>1. TaskInv' /\ running' \subseteq Aliases
      BY <2>3, OverInv DEF NoMemory, MapInv, OnFile
    <3> QED BY <2>3, <3>1 DEF NoMemory, MapInv, FileInv, EngineInv
  <2>4. CASE WriteTmp(t)
    <3>1. FileInv'
      BY <2>4 DEF WriteTmp, MapInv, FileInv, TaskInv
    <3>2. TaskInv' /\ EngineInv'
      BY <2>4 DEF WriteTmp, MapInv, TaskInv, EngineInv
    <3> QED BY <3>1, <3>2 DEF MapInv
  <2>5. CASE WriteTmpFails(t)
    <3>1. todo[t] # <<>> /\ Over(t, Absent)
      BY <2>5 DEF WriteTmpFails, MapInv, TaskInv
    <3>2. TaskInv' /\ running' \subseteq Aliases
      BY <3>1, OverInv DEF MapInv, OnFile
    <3> QED BY <2>5, <3>2 DEF WriteTmpFails, MapInv, FileInv, EngineInv, OnFile
  <2>6. CASE RenameTmp(t)
    <3>1. todo[t] # <<>> /\ Succeeds(t)
      BY <2>6 DEF RenameTmp, MapInv, TaskInv
    <3>2. TaskInv' /\ running' \subseteq Aliases
      BY <3>1, SucceedsInv DEF MapInv
    <3> QED BY <2>6, <3>2 DEF RenameTmp, MapInv, FileInv, EngineInv, OnFile
  <2>7. CASE RenameTmpFails(t)
    <3>1. todo[t] # <<>> /\ Over(t, Absent)
      BY <2>7 DEF RenameTmpFails, MapInv, TaskInv
    <3>2. TaskInv' /\ running' \subseteq Aliases
      BY <3>1, OverInv DEF MapInv, OnFile
    <3> QED BY <2>7, <3>2 DEF RenameTmpFails, MapInv, FileInv, EngineInv
  <2>8. CASE RemoveMap(t)
    <3>1. todo[t] # <<>> /\ Succeeds(t)
      BY <2>8 DEF RemoveMap, MapInv, TaskInv
    <3>2. TaskInv' /\ running' \subseteq Aliases
      BY <3>1, SucceedsInv DEF MapInv
    <3> QED BY <2>8, <3>2 DEF RemoveMap, MapInv, FileInv, EngineInv, OnFile
  <2>9. CASE ClearHistory(t)
    <3>1. todo[t] # <<>> /\ Over(t, Absent)
      BY <2>9 DEF ClearHistory, MapInv, TaskInv
    <3>2. TaskInv' /\ running' \subseteq Aliases
      BY <3>1, OverInv DEF MapInv, OnFile
    <3> QED BY <2>9, <3>2 DEF ClearHistory, MapInv, FileInv, EngineInv
  <2> QED BY <1>2, <2>1, <2>2, <2>3, <2>4, <2>5, <2>6, <2>7, <2>8, <2>9 DEF Step
<1>3. ASSUME NEW a \in Aliases, SaveTurn(a) PROVE MapInv'
  BY <1>3 DEF SaveTurn, MapInv, FileInv, TaskInv, EngineInv
<1>4. CASE UNCHANGED vars
  BY <1>4 DEF vars, MapInv, FileInv, TaskInv, EngineInv
<1> QED BY <1>1, <1>2, <1>3, <1>4 DEF Next

(* The files and the pending copies hold chat maps or nothing, and every   *)
(* task is at a known place of a call it has begun.                        *)
THEOREM MapTypeCorrect == Spec => []TypeOK
<1>1. MapInv => TypeOK
  BY OnFileType DEF MapInv, FileInv, TaskInv, EngineInv, TypeOK
<1> QED BY <1>1, MapInvInit, MapInvNext, PTL DEF Spec

LEMMA MapInvConsistent == MapInv => MapConsistent
BY OnFileType DEF MapInv, FileInv, TaskInv, MapConsistent

(* Whatever the tasks of the dispatcher and the HTTP server do to one      *)
(* chat's map, through one .tmp path and without a lock over the file, and *)
(* whatever fails, the map lists its current session and no session twice. *)
THEOREM MapAlwaysConsistent == Spec => []MapConsistent
<1> QED BY MapInvConsistent, MapInvInit, MapInvNext, PTL DEF Spec
-----------------------------------------------------------------------------
(* One task: the copy and the .tmp are the map edited by the call.         *)
Pending(t) ==
  LET op == Head(todo[t])
  IN  op \in MapOps /\ Accepts(op, map) /\ copy[t] = Edited(op, map)

CallInv ==
  \A t \in Tasks :
    /\ pc[t] \in {"write", "rename", "remove"} => Pending(t)
    /\ pc[t] = "rename" => tmp = copy[t]
    /\ pc[t] = "remove" => copy[t] = Absent

(* The operators of the abstract map are those of the code.                *)
LEMMA SameMaps ==
  ASSUME NEW op, NEW m
  PROVE  /\ Store!Accepts(op, m) = Accepts(op, m) /\ Store!Edited(op, m) = Edited(op, m)
         /\ Store!MapOps = MapOps
<1>1. Store!Listed(m) = Listed(m) /\ Store!Shown(m) = Shown(m) /\ Store!DefaultMap = DefaultMap
  BY DEF Store!Listed, Listed, Store!Range, Range, Store!Shown, Shown, Store!DefaultMap, DefaultMap
<1>2. Store!Accepts(op, m) = Accepts(op, m)
  BY <1>1 DEF Store!Accepts, Accepts
<1>3. /\ Store!Created(m, op.to) = Created(m, op.to)
      /\ Store!Created(DefaultMap, op.to) = Created(DefaultMap, op.to)
  BY DEF Store!Created, Created
<1>4. /\ Store!Renamed(m, m.current, op.to) = Renamed(m, m.current, op.to)
      /\ Store!Renamed(m, op.from, op.to) = Renamed(m, op.from, op.to)
  BY DEF Store!Renamed, Renamed
<1>5. Store!Without(m, op.from) = Without(m, op.from)
  BY DEF Store!Without, Without, Store!RemoveAt, RemoveAt
<1>6. Store!Deleted(m, op.from) = Deleted(m, op.from)
  BY <1>5 DEF Store!Deleted, Deleted
<1>7. Store!Edited(op, m) = Edited(op, m)
  BY <1>1, <1>3, <1>4, <1>6 DEF Store!Edited, Edited
<1>8. Store!MapOps = MapOps
  BY DEF Store!MapOps, MapOps, Store!NewOps, NewOps, Store!RenameOps, RenameOps, Store!AliasOps, AliasOps,
         Store!ResumeOps, ResumeOps, Store!DeleteOps, DeleteOps, Store!BuildOp, BuildOp
<1> QED BY <1>2, <1>7, <1>8

(* One task, no allocation that fails, maps that fit in what is read: the  *)
(* invariant is kept, and each step edits the map at once or leaves it.    *)
LEMMA CallStep ==
  ASSUME \A t, u \in Tasks : t = u, "read" \notin Faults,
         \A m \in Good : Len(m.sessions) <= ReadLimit,
         MapInv, CallInv, [Next]_vars
  PROVE  CallInv' /\ [Store!Next]_map
<1>1. CASE PowerLoss
  BY <1>1 DEF PowerLoss, CallInv
<1>2. ASSUME NEW t \in Tasks, Step(t) PROVE CallInv' /\ [Store!Next]_map
  <2>0. /\ Tasks = {t} /\ pc \in [Tasks -> {"idle", "write", "rename", "remove", "clear"}]
        /\ copy \in [Tasks -> OnFile] /\ todo \in [Tasks -> Seq(Calls)]
    BY DEF MapInv, TaskInv
  <2>1. ASSUME NEW p \in Programs[t], Start(t, p) PROVE CallInv' /\ [Store!Next]_map
    <3>1. map' = map /\ pc' = pc /\ todo[t] = <<>>
      BY <2>1 DEF Start
    <3>2. pc[t] = "idle"
      BY <3>1 DEF MapInv, TaskInv
    <3> QED BY <2>0, <3>1, <3>2 DEF CallInv
  <2>2. CASE ReadMap(t)
    <3> DEFINE op == Head(todo[t])
    <3>1. PICK m \in ReadResults :
            IF op \in MapOps /\ Accepts(op, m)
              THEN /\ pc' = [pc EXCEPT ![t] = IF Edited(op, m) = Absent THEN "remove" ELSE "write"]
                   /\ copy' = [copy EXCEPT ![t] = Edited(op, m)]
                   /\ UNCHANGED <<todo, running>>
              ELSE Over(t, m)
      BY <2>2 DEF ReadMap
    <3>2. m = map /\ map' = map
      BY <2>2 DEF ReadMap, ReadResults, MapInv, FileInv, OnFile
    <3>3. CASE op \in MapOps /\ Accepts(op, m)
      <4>1. /\ pc'[t] = IF Edited(op, m) = Absent THEN "remove" ELSE "write"
            /\ copy'[t] = Edited(op, map) /\ todo' = todo
        BY <2>0, <3>1, <3>2, <3>3
      <4>2. Pending(t)'
        BY <3>2, <3>3, <4>1 DEF Pending
      <4> QED BY <2>0, <3>2, <4>1, <4>2 DEF CallInv
    <3>4. CASE Over(t, m)
      <4>1. pc'[t] = "idle"
        BY <2>0, <3>4 DEF Over
      <4> QED BY <2>0, <3>2, <4>1 DEF CallInv
    <3> QED BY <3>1, <3>3, <3>4
  <2>3. CASE NoMemory(t)
    BY <2>3 DEF NoMemory
  <2>4. CASE WriteTmp(t)
    <3>1. /\ tmp' = copy[t] /\ pc[t] = "write" /\ pc'[t] = "rename"
          /\ map' = map /\ todo' = todo /\ copy' = copy
      BY <2>0, <2>4 DEF WriteTmp
    <3>2. Pending(t)'
      BY <3>1 DEF CallInv, Pending
    <3> QED BY <2>0, <3>1, <3>2 DEF CallInv
  <2>5. CASE WriteTmpFails(t) \/ RenameTmpFails(t) \/ ClearHistory(t)
    <3>1. map' = map /\ pc'[t] = "idle"
      BY <2>0, <2>5 DEF WriteTmpFails, RenameTmpFails, ClearHistory, Over
    <3> QED BY <2>0, <3>1 DEF CallInv
  <2>6. CASE RenameTmp(t) \/ RemoveMap(t)
    <3>1. pc'[t] \in {"idle", "clear"} /\ pc[t] \in {"rename", "remove"} /\ map' = copy[t]
      BY <2>0, <2>6 DEF RenameTmp, RemoveMap, Succeeds, Over, CallInv
    <3>2. Head(todo[t]) \in MapOps /\ Accepts(Head(todo[t]), map) /\ map' = Edited(Head(todo[t]), map)
      BY <3>1 DEF CallInv, Pending
    <3>3. Store!Next
      BY <3>2, SameMaps DEF Store!Next
    <3>4. CallInv'
      BY <2>0, <3>1 DEF CallInv
    <3> QED BY <3>3, <3>4
  <2> QED BY <1>2, <2>1, <2>2, <2>3, <2>4, <2>5, <2>6 DEF Step
<1>3. ASSUME NEW a \in Aliases, SaveTurn(a) PROVE CallInv' /\ [Store!Next]_map
  BY <1>3 DEF SaveTurn, CallInv, Pending
<1>4. CASE UNCHANGED vars
  BY <1>4 DEF vars, CallInv, Pending
<1> QED BY <1>1, <1>2, <1>3, <1>4 DEF Next

(* With one task, maps no longer than what is read, and any failure of a   *)
(* write, a rename or the power, the chat map implements the abstract one: *)
(* "Write ... atomically: write to .tmp then rename" (write_chat_map_str). *)
THEOREM OneCallerIsAtomic ==
  ASSUME \A t, u \in Tasks : t = u, "read" \notin Faults,
         \A m \in Good : Len(m.sessions) <= ReadLimit
  PROVE  Spec => AtomicMap
<1>1. Init => CallInv /\ Store!Init
  BY DEF Init, CallInv, Store!Init
<1>2. MapInv /\ CallInv /\ [Next]_vars => (MapInv /\ CallInv)' /\ [Store!Next]_map
  BY MapInvNext, CallStep
<1> QED BY <1>1, <1>2, MapInvInit, PTL DEF Spec, AtomicMap, Store!Spec
-----------------------------------------------------------------------------
(* One task: a delete that goes on to clear a history has taken its        *)
(* session out of the map.                                                 *)
DeletedInv == \A t \in Tasks : pc[t] = "clear" => Head(todo[t]).from \notin Listed(map)

(* What a delete leaves does not list the session.                         *)
LEMMA DeletedIsGone ==
  ASSUME NEW m \in OnFile, NEW op \in MapOps, op.kind = "delete", Accepts(op, m)
  PROVE  op.from \notin Listed(Edited(op, m))
<1>1. m \in Good /\ op.from \in Range(m.sessions)
  BY DEF Accepts, Listed, OnFile
<1>2. Edited(op, m) = Deleted(m, op.from)
  BY DEF Edited
<1> DEFINE s == m.sessions
           i == CHOOSE k \in DOMAIN s : s[k] = op.from
           r == Without(m, op.from)
<1>3. s \in Seq(Aliases) /\ IsInjective(s)
  BY <1>1 DEF Good, ChatMap
<1>4. i \in DOMAIN s /\ s[i] = op.from
  BY <1>1 DEF Range
<1>5. r = RemoveAt(s, i)
  BY DEF Without
<1> HIDE DEF s, i, r
<1>6. Range(r) = Range(s) \ {op.from}
  BY <1>3, <1>4, <1>5, RemoveAtRange
<1>7. Deleted(m, op.from) = Absent \/ Deleted(m, op.from).sessions = r
  BY DEF Deleted, r
<1> QED BY <1>2, <1>6, <1>7 DEF Listed

(* A step removes a history only where its call names it, or where the map *)
(* no longer lists it.                                                     *)
LEMMA HistoryStep ==
  ASSUME \A t, u \in Tasks : t = u, "read" \notin Faults,
         \A m \in Good : Len(m.sessions) <= ReadLimit,
         MapInv, CallInv, DeletedInv, [Next]_vars
  PROVE  /\ DeletedInv'
         /\ \A a \in (history \ history') \cap Listed(map') :
              \E t \in Tasks : todo[t] # <<>> /\ ClearNames(Head(todo[t]), a)
<1> DEFINE Kept == \A a \in (history \ history') \cap Listed(map') :
                     \E t \in Tasks : todo[t] # <<>> /\ ClearNames(Head(todo[t]), a)
<1>1. CASE PowerLoss
  BY <1>1 DEF PowerLoss, DeletedInv
<1>2. ASSUME NEW t \in Tasks, Step(t) PROVE DeletedInv' /\ Kept
  <2>0. /\ Tasks = {t} /\ pc \in [Tasks -> {"idle", "write", "rename", "remove", "clear"}]
        /\ todo \in [Tasks -> Seq(Calls)]
    BY DEF MapInv, TaskInv
  <2>1. ASSUME NEW p \in Programs[t], Start(t, p) PROVE DeletedInv' /\ Kept
    <3>1. pc' = pc /\ pc[t] = "idle" /\ history' = history
      BY <2>1 DEF Start, MapInv, TaskInv
    <3> QED BY <2>0, <3>1 DEF DeletedInv
  <2>2. CASE ReadMap(t)
    <3> DEFINE op == Head(todo[t])
    <3>1. PICK m \in ReadResults :
            /\ Clears(op, m)
            /\ IF op \in MapOps /\ Accepts(op, m)
                 THEN /\ pc' = [pc EXCEPT ![t] = IF Edited(op, m) = Absent THEN "remove" ELSE "write"]
                      /\ copy' = [copy EXCEPT ![t] = Edited(op, m)]
                      /\ UNCHANGED <<todo, running>>
                 ELSE Over(t, m)
      BY <2>2 DEF ReadMap
    <3>2. m = map /\ todo[t] # <<>>
      BY <2>2 DEF ReadMap, ReadResults, MapInv, FileInv, OnFile
    <3>3. pc'[t] # "clear"
      BY <2>0, <3>1 DEF Over
    <3>4. ASSUME NEW a \in history \ history' PROVE ClearNames(op, a)
      BY <3>1, <3>2, <3>4 DEF Clears, ClearNames
    <3> QED BY <2>0, <3>2, <3>3, <3>4 DEF DeletedInv
  <2>3. CASE NoMemory(t)
    BY <2>3 DEF NoMemory
  <2>4. CASE WriteTmp(t)
    <3>1. pc'[t] = "rename" /\ history' = history
      BY <2>0, <2>4 DEF WriteTmp
    <3> QED BY <2>0, <3>1 DEF DeletedInv
  <2>5. CASE WriteTmpFails(t) \/ RenameTmpFails(t)
    <3>1. pc'[t] = "idle" /\ history' = history
      BY <2>0, <2>5 DEF WriteTmpFails, RenameTmpFails, Over
    <3> QED BY <2>0, <3>1 DEF DeletedInv
  <2>6. CASE RenameTmp(t) \/ RemoveMap(t)
    <3> DEFINE op == Head(todo[t])
    <3>1. pc[t] \in {"rename", "remove"} /\ map' = copy[t] /\ history' = history
      BY <2>0, <2>6 DEF RenameTmp, RemoveMap, CallInv
    <3>2. op \in MapOps /\ Accepts(op, map) /\ map' = Edited(op, map) /\ map \in OnFile
      BY <3>1 DEF CallInv, Pending, MapInv, FileInv
    <3>3. pc'[t] = "clear" => op.kind = "delete" /\ todo' = todo
      BY <2>0, <2>6 DEF RenameTmp, RemoveMap, Succeeds, Over
    <3>4. pc'[t] = "clear" => op.from \notin Listed(map')
      BY <3>2, <3>3, DeletedIsGone
    <3>5. pc'[t] = "clear" => Head(todo'[t]).from \notin Listed(map')
      BY <3>3, <3>4
    <3>6. DeletedInv'
      BY <2>0, <3>5 DEF DeletedInv, Listed
    <3> QED BY <3>1, <3>6
  <2>7. CASE ClearHistory(t)
    <3>1. pc[t] = "clear" /\ pc'[t] = "idle" /\ map' = map /\ history' = history \ {Head(todo[t]).from}
      BY <2>0, <2>7 DEF ClearHistory, Over
    <3>2. Kept
      BY <3>1 DEF DeletedInv
    <3> QED BY <2>0, <3>1, <3>2 DEF DeletedInv
  <2> QED BY <1>2, <2>1, <2>2, <2>3, <2>4, <2>5, <2>6, <2>7 DEF Step
<1>3. ASSUME NEW a \in Aliases, SaveTurn(a) PROVE DeletedInv' /\ Kept
  BY <1>3 DEF SaveTurn, DeletedInv, Listed
<1>4. CASE UNCHANGED vars
  BY <1>4 DEF vars, DeletedInv, Listed
<1> QED BY <1>1, <1>2, <1>3, <1>4 DEF Next

(* With one task, and the same conditions, a session that stays listed     *)
(* loses its history only to a call that clears it by name: a delete that  *)
(* cannot write the map or put it in place clears nothing.                 *)
THEOREM ListedKeepsHistory ==
  ASSUME \A t, u \in Tasks : t = u, "read" \notin Faults,
         \A m \in Good : Len(m.sessions) <= ReadLimit
  PROVE  Spec => HistoryKept
<1>1. Init => CallInv /\ DeletedInv
  BY DEF Init, CallInv, DeletedInv
<1>2. MapInv /\ CallInv /\ DeletedInv /\ [Next]_vars => (MapInv /\ CallInv /\ DeletedInv)'
  BY MapInvNext, CallStep, HistoryStep
<1> DEFINE Kept == \A a \in (history \ history') \cap Listed(map') :
                     \E t \in Tasks : todo[t] # <<>> /\ ClearNames(Head(todo[t]), a)
<1>3. MapInv /\ CallInv /\ DeletedInv /\ [Next]_vars => [Kept]_vars
  BY HistoryStep
<1> QED BY <1>1, <1>2, <1>3, MapInvInit, PTL DEF Spec, HistoryKept
=============================================================================
