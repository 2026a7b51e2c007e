---------------------------- MODULE MemoryProofs ----------------------------
(***************************************************************************)
(* Theorems about the memory, for any limits, sessions and numbers of      *)
(* requests: the ids and the backup of the long-term store, whoever        *)
(* writes it and whatever fails; what compaction deletes from a session's  *)
(* history, whatever happens while it waits for the model; and the table   *)
(* of the sessions that wait for it.                                       *)
(***************************************************************************)
EXTENDS MCMemory, SeqLemmas, SequenceTheorems, TLAPS

(***************************************************************************)
(* The history of a session.                                               *)
(***************************************************************************)
(* The turns are those of ever later requests, up to the n-th.             *)
InOrder(f, n) ==
  /\ \A i \in DOMAIN f.turns : f.turns[i].user <= f.turns[i].by /\ f.turns[i].by <= n
  /\ \A i, k \in DOMAIN f.turns : i < k => f.turns[i].by < f.turns[k].user

(* If no two turns share their reply, they are later than the summarised.  *)
AfterSummary(f, n) ==
  Notes = {} => \A s \in f.summary : s < n /\ \A i \in DOMAIN f.turns : s < f.turns[i].user

(* A turn of this boot (after the b-th request) is of one request, and an  *)
(* id below r, the last request's, tells that it is an earlier one.        *)
OneRequest(f, n, b, r, e) ==
  \A i \in DOMAIN f.turns :
    /\ f.turns[i].user > b => /\ f.turns[i].by = f.turns[i].user /\ f.turns[i].req <= r
                              /\ f.turns[i].user < n => f.turns[i].req < r
    /\ f.turns[i].by = n /\ e # "idle" => f.turns[i].req = r

(* Then a reply tells its turn.                                            *)
OwnReplies(f) ==
  Notes = {} => \A i \in DOMAIN f.turns : f.turns[i].reply \in {f.turns[i].by, None}

Good(f, n, b, r, e) ==
  History!Parsed(f) => /\ f \in History!Contents
                         /\ InOrder(f, n) /\ AfterSummary(f, n) /\ OneRequest(f, n, b, r, e) /\ OwnReplies(f)

(* What window A may take as the mark, and the requests it showed.         *)
Marks == ({"assistant"} \X History!Replied) \cup ({"user"} \X History!Requests)
Shown(j) == j.older \cup j.prev

(* Up to the k-th turn, where the cut will be, or none, they were shown to *)
(* the summariser.                                                         *)
CutAt(f, j, k) ==
  /\ \A i \in DOMAIN f.turns : i > k => \A s \in Shown(j) : s < f.turns[i].user
  /\ j.mark = None => k <= j.count
  /\ j.mark # None /\ k > 0 => History!Bears(f.turns[k], j.mark)
Fits(f, j) == Notes = {} /\ History!Parsed(f) => \E k \in 0..History!OlderCount(f.turns) : CutAt(f, j, k)

GoodJob(j, n) ==
  /\ j.count \in Nat /\ j.older \in SUBSET History!Requests /\ j.prev \in SUBSET History!Requests
  /\ j.mark \in Marks \cup {None}
  /\ j.mark # None /\ j.mark[1] = "assistant" => j.mark[2] # None
  /\ Notes = {} => \A s \in Shown(j) : s < n

(* The file, its backup, the copy of an append and the next content are    *)
(* good; where the two tasks are; and the job under way fits.              *)
FilesInv ==
  /\ Good(file, serial, since, reqId, epc) /\ Good(backup, serial, since, reqId, epc)
  /\ Good(snap, serial, since, reqId, epc) /\ Good(next, serial, since, reqId, epc)

StepInv ==
  /\ since \in 0..serial /\ serial \in 0..MaxRequests /\ reqId \in 0..MaxRequests
  /\ epc \in {"idle", "request", "building"} /\ cpc \in {"idle", "llm", "renamed", "written"}
  /\ epc # "idle" => since < serial /\ reqId > 0
  /\ held <=> cpc \in {"renamed", "written"}
  /\ queued \in BOOLEAN /\ held \in BOOLEAN
  /\ queued => cpc = "idle"
  /\ queued /\ epc = "building" => file \in {snap, Absent}
  /\ epc # "building" => snap = Absent

JobInv == cpc = "llm" => GoodJob(job, serial) /\ Fits(file, job) /\ Fits(snap, job)

HistoryInv == StepInv /\ FilesInv /\ JobInv

LEMMA HistConstants ==
  ASSUME MemoryAssumption
  PROVE  /\ MaxTurns \in Nat \ {0} /\ ProtectLast \in Nat \ {0} /\ MaxRequests \in Nat \ {0}
         /\ Notes \cap Nat = {} /\ None \notin Notes /\ None \notin {"assistant", "user"} \X History!Replied
         /\ Absent \notin History!Contents /\ Torn \notin History!Contents
BY DEF MemoryAssumption, History!SessionHistoryAssumption

LEMMA TurnIs ==
  ASSUME NEW ts \in Seq(History!Turn)
  PROVE  /\ Len(ts) \in Nat /\ DOMAIN ts = 1..Len(ts)
         /\ \A i \in DOMAIN ts : /\ ts[i] \in History!Turn /\ ts[i].user \in History!Requests /\ ts[i].by \in History!Requests
                                 /\ ts[i].req \in History!Requests /\ ts[i].reply \in History!Replied \cup {None}
<1>1. Len(ts) \in Nat /\ DOMAIN ts = 1..Len(ts) /\ \A i \in DOMAIN ts : ts[i] \in History!Turn
  OBVIOUS
<1>2. \A t \in History!Turn : /\ t.user \in History!Requests /\ t.by \in History!Requests
                            /\ t.req \in History!Requests /\ t.reply \in History!Replied \cup {None}
  BY DEF History!Turn
<1> QED BY <1>1, <1>2

(* The saved turns are the last ones of ts and one that is added or that   *)
(* replaces the last; the first d are gone.                                *)
Saved(ts, new, d, n, r, reply) ==
  /\ d \in Nat /\ new \in Seq(History!Turn) /\ Len(new) > 0
  /\ \A i \in 1..(Len(new) - 1) : i + d \in 1..Len(ts) /\ new[i] = ts[i + d]
  /\ LET e == new[Len(new)] IN
       /\ e.by = n /\ e.req = r /\ e.reply = reply
       /\ \/ /\ ts # <<>> /\ ts[Len(ts)].req = r
             /\ Len(new) + d = Len(ts) /\ e.user = ts[Len(ts)].user
          \/ /\ ts # <<>> => ts[Len(ts)].req # r
             /\ Len(new) + d = Len(ts) + 1 /\ e.user = n

LEMMA SavedTurns ==
  ASSUME MemoryAssumption, serial \in History!Requests, reqId \in History!Requests,
         NEW ts \in Seq(History!Turn), NEW reply \in History!Replied \cup {None},
         NEW new \in History!Sheds(History!WithTurn(ts, reply))
  PROVE  \E d \in Nat : Saved(ts, new, d, serial, reqId, reply)
<1> DEFINE n == Len(ts)
           t == [user |-> serial, by |-> serial, req |-> reqId, reply |-> reply]
           w == History!WithTurn(ts, reply)
<1>1. /\ n \in Nat /\ DOMAIN ts = 1..n /\ t \in History!Turn
      /\ MaxTurns \in Nat \ {0} /\ ProtectLast \in Nat \ {0}
  BY HistConstants DEF History!Turn
<1>2. CASE History!Upserts(ts)
  <2> DEFINE e == [t EXCEPT !.user = ts[n].user]
  <2>1. ts # <<>> /\ n > 0 /\ ts[n].req = reqId /\ ts[n] \in History!Turn
    BY <1>1, <1>2 DEF History!Upserts, History!Last
  <2>2. /\ e \in History!Turn /\ e.user = ts[n].user /\ e.by = serial /\ e.req = reqId /\ e.reply = reply
    BY <1>1, <2>1 DEF History!Turn
  <2>3. w = SubSeq(ts, 1, n - 1) \o <<e>>
    BY <1>2 DEF History!WithTurn, History!Front, History!Last
  <2> HIDE DEF e
  <2> DEFINE u == SubSeq(ts, 1, n - 1)
  <2>a. u \in Seq(History!Turn) /\ Len(u) = n - 1 /\ \A i \in 1..(n - 1) : u[i] = ts[i]
    BY <1>1, <2>1
  <2> HIDE DEF u
  <2>b. w = u \o <<e>>
    BY <2>3 DEF u
  <2> HIDE DEF w
  <2>c. w = Append(u, e)
    BY <2>a, <2>b, <2>2
  <2>4. /\ w \in Seq(History!Turn) /\ Len(w) = n
        /\ \A i \in 1..(n - 1) : w[i] = ts[i]
        /\ w[n] = e
    <3>1. n \in Nat /\ n > 0 /\ (n - 1) + 1 = n /\ e \in History!Turn
      BY <1>1, <2>1, <2>2
    <3> HIDE DEF n
    <3>2. w \in Seq(History!Turn) /\ Len(w) = Len(u) + 1 /\ w[Len(u) + 1] = e /\ \A i \in 1..Len(u) : w[i] = u[i]
      BY <2>a, <2>c, <3>1
    <3> QED BY <2>a, <3>1, <3>2
  <2>5. PICK k \in 0..(n - 1) : new = SubSeq(w, k + 1, n)
    BY <1>1, <2>1, <2>4 DEF History!Sheds, w
  <2>6. new \in Seq(History!Turn) /\ Len(new) = n - k /\ \A i \in 1..(n - k) : new[i] = w[i + k]
    BY <1>1, <2>1, <2>4, <2>5
  <2>7. \A i \in 1..(Len(new) - 1) : i + k \in 1..(n - 1) /\ new[i] = ts[i + k]
    BY <1>1, <2>4, <2>6
  <2>8. new[Len(new)] = e
    BY <1>1, <2>4, <2>6
  <2>9. k \in Nat /\ n - k > 0 /\ Len(new) + k = n
    BY <1>1, <2>1, <2>6
  <2>10. Saved(ts, new, k, serial, reqId, reply)
    BY <1>1, <2>1, <2>2, <2>6, <2>7, <2>8, <2>9 DEF Saved
  <2> QED BY <2>9, <2>10
<1>3. CASE ~History!Upserts(ts)
  <2> DEFINE d0 == IF n >= MaxTurns THEN n - MaxTurns + 1 ELSE 0
             u == History!RingTrim(ts)
  <2>1. d0 \in 0..n /\ u \in Seq(History!Turn) /\ Len(u) = n - d0 /\ \A i \in 1..(n - d0) : u[i] = ts[i + d0]
    <3>1. CASE n >= MaxTurns
      <4>1. u = SubSeq(ts, d0 + 1, n) /\ d0 = n - MaxTurns + 1
        BY <1>1, <3>1 DEF History!RingTrim
      <4>2. d0 \in 0..n
        BY <1>1, <3>1
      <4> HIDE DEF d0, u
      <4> QED BY <1>1, <4>1, <4>2
    <3>2. CASE ~(n >= MaxTurns)
      BY <1>1, <3>2 DEF History!RingTrim
    <3> QED BY <3>1, <3>2
  <2>2. w = Append(u, t)
    BY <1>3 DEF History!WithTurn
  <2> HIDE DEF d0, u
  <2>3. w \in Seq(History!Turn) /\ Len(w) = n - d0 + 1 /\ (\A i \in 1..(n - d0) : w[i] = ts[i + d0]) /\ w[n - d0 + 1] = t
    BY <1>1, <2>1, <2>2
  <2> HIDE DEF w
  <2>4. PICK k \in 0..(n - d0) : new = SubSeq(w, k + 1, n - d0 + 1)
    BY <1>1, <2>1, <2>3 DEF History!Sheds, w
  <2>5. new \in Seq(History!Turn) /\ Len(new) = n - d0 + 1 - k /\ \A i \in 1..(n - d0 + 1 - k) : new[i] = w[i + k]
    BY SMTT(40), <1>1, <2>1, <2>3, <2>4
  <2> DEFINE d == d0 + k
  <2>6. d \in Nat /\ Len(new) + d = n + 1 /\ Len(new) \in Nat /\ Len(new) > 0
    BY <1>1, <2>1, <2>5
  <2>7. ASSUME NEW i \in 1..(Len(new) - 1) PROVE i + d \in 1..n /\ new[i] = ts[i + d]
    <3>1. i \in 1..(n - d0 + 1 - k) /\ i + k \in 1..(n - d0) /\ i + k + d0 = i + d /\ i + d \in 1..n
      BY <1>1, <2>1, <2>5
    <3>2. new[i] = w[i + k] /\ w[i + k] = ts[i + k + d0]
      BY <2>3, <2>5, <3>1
    <3> QED BY <3>1, <3>2
  <2>8. new[Len(new)] = t
    <3>1. Len(new) \in 1..(n - d0 + 1 - k) /\ Len(new) + k = n - d0 + 1
      BY <1>1, <2>1, <2>5
    <3>2. new[Len(new)] = w[Len(new) + k]
      BY <2>5, <3>1
    <3> QED BY <2>3, <3>1, <3>2
  <2>9. ts # <<>> => ts[Len(ts)].req # reqId
    BY <1>3 DEF History!Upserts, History!Last
  <2>10. t.user = serial /\ t.by = serial /\ t.req = reqId /\ t.reply = reply
    OBVIOUS
  <2> HIDE DEF d, t, n
  <2>11. Saved(ts, new, d, serial, reqId, reply)
    BY <2>5, <2>6, <2>7, <2>8, <2>9, <2>10 DEF Saved, n
  <2> QED BY <2>6, <2>11
<1> QED BY <1>2, <1>3

(* A save keeps the content good.                                          *)
LEMMA GoodWrite ==
  ASSUME MemoryAssumption, NEW n \in History!Requests, NEW b \in 0..(n - 1), NEW r \in History!Requests,
         NEW base \in History!Contents, History!Parsed(base), Good(base, n, b, r, "building"),
         NEW new, NEW d, NEW reply, Saved(base.turns, new, d, n, r, reply), Notes = {} => reply \in {n, None}
  PROVE  Good([base EXCEPT !.turns = new], n, b, r, "building")
<1> DEFINE ts == base.turns
           f == [base EXCEPT !.turns = new]
           m == Len(new)
<1>1. /\ f \in History!Contents /\ f.turns = new /\ f.summary = base.summary
      /\ ts \in Seq(History!Turn) /\ new \in Seq(History!Turn) /\ m \in Nat /\ m > 0 /\ d \in Nat
      /\ base.summary \in SUBSET History!Requests
  <2>1. new \in Seq(History!Turn) /\ Len(new) \in Nat /\ Len(new) > 0 /\ d \in Nat
    BY DEF Saved
  <2>2. base.turns \in Seq(History!Turn) /\ base.summary \in SUBSET History!Requests
    BY DEF History!Contents
  <2>3. f \in History!Contents /\ f.turns = new /\ f.summary = base.summary
    BY <2>1 DEF History!Contents
  <2> QED BY <2>1, <2>2, <2>3
<1>2. /\ InOrder(base, n) /\ AfterSummary(base, n) /\ OneRequest(base, n, b, r, "building") /\ OwnReplies(base)
      /\ n \in Nat /\ b \in Nat /\ b < n /\ r \in Nat
  BY HistConstants DEF Good, History!Requests
<1>3. /\ Len(ts) \in Nat /\ DOMAIN ts = 1..Len(ts)
      /\ \A i \in 1..Len(ts) : ts[i].user \in Nat /\ ts[i].by \in Nat /\ ts[i].req \in Nat
  BY SMTT(40), <1>1, TurnIs, HistConstants DEF History!Requests
<1>4. /\ DOMAIN new = 1..m
      /\ \A i \in 1..(m - 1) : i + d \in 1..Len(ts) /\ new[i] = ts[i + d]
      /\ new[m].by = n /\ new[m].req = r /\ new[m].reply = reply
      /\ \/ Len(ts) > 0 /\ ts[Len(ts)].req = r /\ m + d = Len(ts) /\ new[m].user = ts[Len(ts)].user
         \/ (Len(ts) > 0 => ts[Len(ts)].req # r) /\ m + d = Len(ts) + 1 /\ new[m].user = n
  BY <1>1, <1>3 DEF Saved
<1>5. Notes = {} => \A s \in base.summary : s \in Nat /\ s < n /\ \A i \in 1..Len(ts) : s < ts[i].user
  BY <1>1, <1>2, <1>3, HistConstants DEF AfterSummary, History!Requests
<1>6. /\ \A i \in 1..Len(ts) : ts[i].user <= ts[i].by /\ ts[i].by <= n
      /\ \A i, k \in 1..Len(ts) : i < k => ts[i].by < ts[k].user
  BY <1>2, <1>3 DEF InOrder
<1>7. \A i \in 1..Len(ts) :
        /\ ts[i].user > b => /\ ts[i].by = ts[i].user /\ ts[i].req <= r
                             /\ ts[i].user < n => ts[i].req < r
        /\ ts[i].by = n => ts[i].req = r
  BY <1>2, <1>3 DEF OneRequest
<1> HIDE DEF ts, m, f
<1>8. /\ new[m].user <= n /\ new[m].user \in Nat
      /\ Notes = {} => \A s \in base.summary : s < new[m].user
      /\ new[m].user > b => new[m].user = n
  BY <1>2, <1>3, <1>4, <1>5, <1>6, <1>7
<1>9. \A i \in 1..(m - 1) : new[i].by < new[m].user
  <2> SUFFICES ASSUME NEW i \in 1..(m - 1) PROVE new[i].by < new[m].user
    OBVIOUS
  <2>1. i + d \in 1..Len(ts) /\ new[i] = ts[i + d] /\ i + d < m + d
    BY <1>1, <1>4
  <2>2. CASE m + d = Len(ts) /\ new[m].user = ts[Len(ts)].user
    BY <1>3, <1>6, <2>1, <2>2
  <2>3. CASE (Len(ts) > 0 => ts[Len(ts)].req # r) /\ new[m].user = n
    <3>1. ts[Len(ts)].by # n /\ Len(ts) \in 1..Len(ts)
      BY <1>3, <1>7, <2>1, <2>3
    <3>2. ts[Len(ts)].by < n
      BY <1>2, <1>3, <1>6, <3>1
    <3>3. CASE i + d = Len(ts)
      BY <2>1, <2>3, <3>2, <3>3
    <3>4. CASE i + d < Len(ts)
      <4>1. ts[i + d].by < ts[Len(ts)].user /\ ts[Len(ts)].user <= ts[Len(ts)].by
        BY <1>6, <2>1, <3>1, <3>4
      <4> QED BY <1>2, <1>3, <2>1, <2>3, <3>1, <3>2, <4>1
    <3> QED BY <1>3, <2>1, <3>3, <3>4
  <2> QED BY <1>4, <2>2, <2>3
<1>10. InOrder(f, n)
  <2>1. ASSUME NEW i \in 1..m PROVE new[i].user <= new[i].by /\ new[i].by <= n
    <3>1. CASE i = m
      BY <1>2, <1>4, <1>8, <3>1
    <3>2. CASE i < m
      <4>1. i \in 1..(m - 1) /\ i + d \in 1..Len(ts) /\ new[i] = ts[i + d]
        BY <1>1, <1>4, <3>2
      <4> QED BY <1>6, <4>1
    <3> QED BY <1>1, <3>1, <3>2
  <2>2. ASSUME NEW i \in 1..m, NEW k \in 1..m, i < k PROVE new[i].by < new[k].user
    <3>1. CASE k = m
      BY <1>1, <1>9, <2>2, <3>1
    <3>2. CASE k < m
      <4>1. i + d \in 1..Len(ts) /\ k + d \in 1..Len(ts) /\ new[i] = ts[i + d] /\ new[k] = ts[k + d]
        BY <1>1, <1>4, <2>2, <3>2
      <4> QED BY <1>1, <1>6, <2>2, <4>1
    <3> QED BY <1>1, <3>1, <3>2
  <2> QED BY <1>1, <1>4, <2>1, <2>2 DEF InOrder
<1>13. AfterSummary(f, n)
  <2>1. ASSUME Notes = {}, NEW s \in base.summary PROVE s < n /\ \A i \in 1..m : s < new[i].user
    <3>1. ASSUME NEW i \in 1..m PROVE s < new[i].user
      <4>1. CASE i = m
        BY <1>8, <2>1, <4>1
      <4>2. CASE i < m
        BY SMTT(40), <1>1, <1>4, <1>5, <2>1, <4>2
      <4> QED BY <1>1, <4>1, <4>2
    <3> QED BY <1>5, <2>1, <3>1
  <2> QED BY <1>1, <1>4, <2>1 DEF AfterSummary
<1>11. OneRequest(f, n, b, r, "building")
  <2> SUFFICES ASSUME NEW i \in 1..m
               PROVE  /\ new[i].user > b => /\ new[i].by = new[i].user /\ new[i].req <= r
                                            /\ new[i].user < n => new[i].req < r
                      /\ new[i].by = n => new[i].req = r
    BY <1>1, <1>4 DEF OneRequest
  <2>1. CASE i = m
    BY <1>2, <1>4, <1>8, <2>1
  <2>2. CASE i < m
    <3>1. i \in 1..(m - 1) /\ i + d \in 1..Len(ts) /\ new[i] = ts[i + d]
      BY <1>1, <1>4, <2>2
    <3> QED BY <1>7, <3>1
  <2> QED BY <1>1, <2>1, <2>2
<1>12. OwnReplies(f)
  <2> SUFFICES ASSUME Notes = {}, NEW i \in 1..m PROVE new[i].reply \in {new[i].by, None}
    BY <1>1, <1>4 DEF OwnReplies
  <2>0. Notes = {}
    OBVIOUS
  <2>1. CASE i = m
    BY <1>4, <2>1
  <2>2. CASE i < m
    <3>1. i \in 1..(m - 1) /\ i + d \in 1..Len(ts) /\ new[i] = ts[i + d]
      BY <1>1, <1>4, <2>2
    <3>2. ts[i + d].reply \in {ts[i + d].by, None}
      BY <1>2, <1>3, <2>0, <3>1 DEF OwnReplies, ts
    <3> QED BY <3>1, <3>2
  <2> QED BY <1>1, <2>1, <2>2
<1> QED BY <1>1, <1>10, <1>11, <1>12, <1>13 DEF Good, f

(* Another request, the end of one, and another boot. *)
LEMMA GoodLater ==
  ASSUME MemoryAssumption, NEW n \in Nat, NEW b \in 0..n, NEW r \in Nat, NEW e, NEW f, Good(f, n, b, r, e)
  PROVE  /\ \A id \in Nat : id > r => Good(f, n + 1, b, id, "request")
         /\ \A e2 : e2 = "idle" \/ e # "idle" => Good(f, n, b, r, e2)
         /\ Good(f, n, n, 0, "idle")
<1> SUFFICES ASSUME History!Parsed(f)
             PROVE  /\ \A id \in Nat : id > r => Good(f, n + 1, b, id, "request")
                    /\ \A e2 : e2 = "idle" \/ e # "idle" => Good(f, n, b, r, e2)
                    /\ Good(f, n, n, 0, "idle")
  BY DEF Good
<1>1. /\ f \in History!Contents /\ InOrder(f, n) /\ AfterSummary(f, n) /\ OneRequest(f, n, b, r, e) /\ OwnReplies(f)
      /\ f.turns \in Seq(History!Turn) /\ f.summary \in SUBSET Nat
  BY HistConstants DEF Good, History!Contents, History!Requests
<1>2. \A i \in DOMAIN f.turns : f.turns[i].user \in Nat /\ f.turns[i].by \in Nat /\ f.turns[i].req \in Nat
  BY <1>1, TurnIs, HistConstants DEF History!Requests
<1>3. InOrder(f, n + 1) /\ AfterSummary(f, n + 1)
  BY <1>1, <1>2 DEF InOrder, AfterSummary
<1>4. ASSUME NEW id \in Nat, id > r PROVE OneRequest(f, n + 1, b, id, "request")
  BY <1>1, <1>2, <1>4 DEF OneRequest, InOrder
<1>5. OneRequest(f, n, n, 0, "idle")
  BY <1>1, <1>2 DEF OneRequest, InOrder
<1>6. ASSUME NEW e2, e2 = "idle" \/ e # "idle" PROVE OneRequest(f, n, b, r, e2)
  BY <1>1, <1>6 DEF OneRequest
<1> QED BY <1>1, <1>3, <1>4, <1>5, <1>6 DEF Good

LEMMA GoodFresh ==
  ASSUME NEW n, NEW b, NEW r, NEW e PROVE Good(History!Fresh, n, b, r, e) /\ History!Fresh \in History!Contents
<1>1. History!Fresh.turns = <<>> /\ History!Fresh.summary = {} /\ History!Fresh \in History!Contents
  BY DEF History!Fresh, History!Contents
<1> QED BY <1>1 DEF Good, InOrder, AfterSummary, OneRequest, OwnReplies

(* Without shared replies at most one turn bears a mark.                   *)
LEMMA OneBearer ==
  ASSUME MemoryAssumption, Notes = {}, NEW n \in Nat, NEW f \in History!Contents, InOrder(f, n), OwnReplies(f),
         NEW mark \in Marks, mark[1] = "assistant" => mark[2] # None,
         NEW i \in DOMAIN f.turns, NEW k \in DOMAIN f.turns,
         History!Bears(f.turns[i], mark), History!Bears(f.turns[k], mark)
  PROVE  i = k
<1>1. f.turns \in Seq(History!Turn)
  BY DEF History!Contents
<1>2. \A h \in DOMAIN f.turns : f.turns[h].user \in Nat /\ f.turns[h].by \in Nat /\ h \in Nat
  BY <1>1, TurnIs, HistConstants DEF History!Requests
<1>3. f.turns[i].by = f.turns[k].by \/ f.turns[i].user = f.turns[k].user
  BY DEF Marks, History!Bears, OwnReplies
<1>4. ~(i < k) /\ ~(k < i)
  BY <1>2, <1>3 DEF InOrder
<1> QED BY <1>2, <1>4

(* What is left after a cut.                                               *)
LEMMA GoodSuffix ==
  ASSUME MemoryAssumption, NEW n \in Nat, NEW b \in Nat, NEW r \in Nat, NEW e, NEW f, History!Parsed(f), Good(f, n, b, r, e),
         NEW cut \in 0..Len(f.turns), NEW sum \in SUBSET History!Requests, NEW g \in Nat,
         Notes = {} => \A s \in sum : s < n /\ \A i \in DOMAIN f.turns : i > cut => s < f.turns[i].user
  PROVE  /\ Good([turns |-> SubSeq(f.turns, cut + 1, Len(f.turns)), summary |-> sum, gen |-> g], n, b, r, e)
         /\ [turns |-> SubSeq(f.turns, cut + 1, Len(f.turns)), summary |-> sum, gen |-> g] \in History!Contents
<1> DEFINE ts == f.turns
           m == Len(ts) - cut
           u == SubSeq(ts, cut + 1, Len(ts))
           h == [turns |-> u, summary |-> sum, gen |-> g]
<1>1. /\ f \in History!Contents /\ InOrder(f, n) /\ AfterSummary(f, n) /\ OneRequest(f, n, b, r, e) /\ OwnReplies(f)
      /\ ts \in Seq(History!Turn) /\ Len(ts) \in Nat /\ DOMAIN ts = 1..Len(ts) /\ m \in Nat
  BY DEF Good, History!Contents
<1>2. /\ u \in Seq(History!Turn) /\ DOMAIN u = 1..m
      /\ \A i \in 1..m : i + cut \in 1..Len(ts) /\ i + cut > cut /\ u[i] = ts[i + cut]
  BY <1>1
<1>3. h.turns = u /\ h.summary = sum /\ h.gen = g
  OBVIOUS
<1> HIDE DEF u
<1>4. h \in History!Contents
  BY <1>2 DEF History!Contents
<1> HIDE DEF ts, m, h
<1>5. InOrder(h, n)
  <2>1. ASSUME NEW i \in 1..m PROVE u[i].user <= u[i].by /\ u[i].by <= n
    BY <1>1, <1>2 DEF InOrder, ts
  <2>2. ASSUME NEW i \in 1..m, NEW k \in 1..m, i < k PROVE u[i].by < u[k].user
    <3>1. i + cut < k + cut /\ i + cut \in 1..Len(ts) /\ k + cut \in 1..Len(ts)
      BY <1>1, <1>2, <2>2
    <3> QED BY <1>1, <1>2, <3>1 DEF InOrder, ts
  <2> QED BY <1>2, <1>3, <2>1, <2>2 DEF InOrder
<1>6. AfterSummary(h, n)
  BY <1>1, <1>2, <1>3 DEF AfterSummary, ts
<1>7. OneRequest(h, n, b, r, e)
  <2> SUFFICES ASSUME NEW i \in 1..m
               PROVE  /\ u[i].user > b => /\ u[i].by = u[i].user /\ u[i].req <= r
                                          /\ u[i].user < n => u[i].req < r
                      /\ u[i].by = n /\ e # "idle" => u[i].req = r
    BY <1>2, <1>3 DEF OneRequest
  <2>1. i + cut \in DOMAIN f.turns /\ u[i] = f.turns[i + cut]
    BY <1>1, <1>2 DEF ts
  <2> QED BY <1>1, <2>1 DEF OneRequest
<1>8. OwnReplies(h)
  BY <1>1, <1>2, <1>3 DEF OwnReplies, ts
<1> QED BY <1>4, <1>5, <1>6, <1>7, <1>8 DEF Good, h, u, ts

LEMMA OlderIs ==
  ASSUME MemoryAssumption, NEW ts \in Seq(History!Turn)
  PROVE  /\ History!OlderCount(ts) \in 0..Len(ts)
         /\ ts # <<>> => History!OlderCount(ts) < Len(ts)
         /\ \A k \in Nat : k > 0 /\ k <= History!OlderCount(ts) <=> k > 0 /\ k + ProtectLast <= Len(ts)
<1>1. Len(ts) \in Nat /\ ProtectLast \in Nat \ {0} /\ (ts # <<>> => Len(ts) > 0)
  BY HistConstants
<1> QED BY <1>1 DEF History!OlderCount

(* The cut is among the turns.                                             *)
LEMMA CutBelow ==
  ASSUME MemoryAssumption, NEW ts \in Seq(History!Turn), job.count \in Nat
  PROVE  History!CutPoint(ts) \in 0..Len(ts)
<1> DEFINE limit == History!OlderCount(ts)
           matches == {i \in 1..limit : History!Bears(ts[i], job.mark)}
<1>1. Len(ts) \in Nat /\ limit \in 0..Len(ts)
  BY OlderIs
<1>2. matches # {} => History!Min(matches) \in matches
  <2>1. matches \in SUBSET Nat
    BY <1>1
  <2> HIDE DEF matches
  <2> QED BY <2>1, LeastNat DEF History!Min
<1>3. History!Min({job.count, limit}) \in {job.count, limit} /\ History!Min({job.count, limit}) <= limit
  <2>1. {job.count, limit} \in SUBSET Nat
    BY <1>1
  <2> QED BY <2>1, LeastNat DEF History!Min
<1>4. matches \in SUBSET (0..Len(ts))
  BY <1>1
<1>5. History!CutPoint(ts) \in {limit, 0} \cup matches \/ History!CutPoint(ts) = History!Min({job.count, limit})
  BY <1>2 DEF History!CutPoint
<1> HIDE DEF limit, matches
<1>6. History!Min({job.count, limit}) \in 0..Len(ts)
  BY <1>1, <1>3
<1>7. limit \in 0..Len(ts) /\ 0 \in 0..Len(ts)
  BY <1>1 DEF limit
<1> QED BY <1>4, <1>5, <1>6, <1>7

(* The cut is behind the last turn that was shown to the summariser.       *)
LEMMA CutBehind ==
  ASSUME MemoryAssumption, NEW n \in Nat, NEW f \in History!Contents, InOrder(f, n), OwnReplies(f), GoodJob(job, n),
         NEW k \in 0..History!OlderCount(f.turns), CutAt(f, job, k)
  PROVE  /\ History!CutPoint(f.turns) \in 0..Len(f.turns)
         /\ Notes = {} => k <= History!CutPoint(f.turns)
<1> DEFINE ts == f.turns
           limit == History!OlderCount(ts)
           matches == {i \in 1..limit : History!Bears(ts[i], job.mark)}
<1>1. ts \in Seq(History!Turn) /\ Len(ts) \in Nat /\ limit \in 0..Len(ts) /\ DOMAIN ts = 1..Len(ts) /\ job.count \in Nat
  BY OlderIs DEF History!Contents, GoodJob
<1>2. CASE job.mark = None
  <2>1. {job.count, limit} \in SUBSET Nat
    BY <1>1
  <2>2. History!CutPoint(ts) = History!Min({job.count, limit})
    BY <1>2 DEF History!CutPoint
  <2>3. History!Min({job.count, limit}) \in {job.count, limit} /\ History!Min({job.count, limit}) <= limit
    BY <2>1, LeastNat DEF History!Min
  <2> HIDE DEF limit
  <2> QED BY <1>1, <1>2, <2>2, <2>3 DEF CutAt, limit
<1>3. CASE job.mark # None
  <2>1. matches \in SUBSET Nat /\ \A i \in matches : i \in 1..Len(ts)
    BY <1>1
  <2>2. matches # {} => /\ History!Min(matches) \in matches
                        /\ \A i \in matches : History!Min(matches) <= i
    <3> HIDE DEF matches
    <3> QED BY <2>1, LeastNat DEF History!Min
  <2>3. k > 0 => k \in matches
    BY <1>1, <1>3 DEF CutAt
  <2>4. Notes = {} => \A i, h \in matches : i = h
    <3>1. job.mark \in Marks /\ (job.mark[1] = "assistant" => job.mark[2] # None)
      BY <1>3 DEF GoodJob
    <3> QED BY <1>1, <2>1, <3>1, OneBearer
  <2>5. History!CutPoint(ts) = IF limit \in matches THEN limit
                               ELSE IF matches = {} THEN 0 ELSE History!Min(matches)
    BY <1>3 DEF History!CutPoint
  <2> HIDE DEF matches, limit
  <2>6. CASE limit \in matches
    BY <1>1, <2>5, <2>6 DEF limit
  <2>7. CASE limit \notin matches /\ matches = {}
    BY <1>1, <2>3, <2>5, <2>7
  <2>8. CASE limit \notin matches /\ matches # {}
    <3>1. PICK c \in matches : History!CutPoint(ts) = c
      BY <2>2, <2>5, <2>8
    <3>2. c \in 1..Len(ts) /\ k \in Nat
      BY <1>1, <2>1, <3>1
    <3>3. Notes = {} /\ k > 0 => k = c
      BY <2>3, <2>4, <3>1
    <3> QED BY <1>1, <3>1, <3>2, <3>3
  <2> QED BY <2>6, <2>7, <2>8
<1> QED BY <1>2, <1>3

(* A save leaves room for the cut. *)
LEMMA FitsWrite ==
  ASSUME MemoryAssumption, NEW n \in History!Requests, NEW base \in History!Contents, History!Parsed(base),
         NEW j, GoodJob(j, n), Fits(base, j),
         NEW r, NEW new, NEW d, NEW reply, Saved(base.turns, new, d, n, r, reply)
  PROVE  Fits([base EXCEPT !.turns = new], j)
<1> SUFFICES ASSUME Notes = {} PROVE \E k \in 0..History!OlderCount(new) : CutAt([base EXCEPT !.turns = new], j, k)
  BY DEF Fits, History!Contents
<1> DEFINE ts == base.turns
           m == Len(new)
           f == [base EXCEPT !.turns = new]
<1>1. /\ f.turns = new /\ ts \in Seq(History!Turn) /\ Len(ts) \in Nat /\ DOMAIN ts = 1..Len(ts)
      /\ new \in Seq(History!Turn) /\ m \in Nat /\ m > 0 /\ DOMAIN new = 1..m /\ d \in Nat
  BY DEF Saved, History!Contents
<1>2. PICK k \in 0..History!OlderCount(ts) : CutAt(base, j, k)
  BY DEF Fits
<1>3. k \in 0..Len(ts) /\ (k > 0 => k + ProtectLast <= Len(ts)) /\ ProtectLast \in Nat \ {0}
  BY <1>1, <1>2, OlderIs, HistConstants
<1>4. /\ \A i \in 1..(m - 1) : i + d \in 1..Len(ts) /\ new[i] = ts[i + d]
      /\ \/ Len(ts) > 0 /\ m + d = Len(ts) /\ new[m].user = ts[Len(ts)].user
         \/ m + d = Len(ts) + 1 /\ new[m].user = n
  BY <1>1 DEF Saved
<1>5. \A s \in Shown(j) : s < n /\ \A i \in 1..Len(ts) : i > k => s < ts[i].user
  BY <1>1, <1>2 DEF GoodJob, CutAt
<1> HIDE DEF ts, m, f
<1>6. ASSUME NEW i \in 1..m, i + d > k, NEW s \in Shown(j) PROVE s < new[i].user
  <2>1. CASE i < m
    <3>1. i \in 1..(m - 1)
      BY <1>1, <2>1
    <3>2. i + d \in 1..Len(ts) /\ new[i] = ts[i + d]
      BY <1>4, <3>1
    <3> QED BY <1>5, <1>6, <3>2
  <2>2. CASE i = m
    <3>1. Len(ts) > 0 /\ m + d = Len(ts) => Len(ts) \in 1..Len(ts) /\ Len(ts) > k
      BY <1>1, <1>3
    <3> QED BY <1>4, <1>5, <2>2, <3>1
  <2> QED BY <1>1, <2>1, <2>2
<1>7. CASE k <= d
  <2>1. 0 \in 0..History!OlderCount(new)
    BY <1>1, OlderIs
  <2>2. \A i \in 1..m : i + d > k
    BY <1>1, <1>3, <1>7
  <2>3. CutAt(f, j, 0)
    BY <1>1, <1>6, <2>2 DEF CutAt, GoodJob
  <2> QED BY <2>1, <2>3 DEF f
<1>8. CASE k > d
  <2> DEFINE q == k - d
  <2>0. m + d >= Len(ts)
    <3>1. m + d = Len(ts) \/ m + d = Len(ts) + 1
      BY <1>4
    <3>2. m \in Nat /\ d \in Nat /\ Len(ts) \in Nat
      BY <1>1
    <3>3. \A x, y, z \in Nat : x + y = z \/ x + y = z + 1 => x + y >= z
      OBVIOUS
    <3> QED BY <3>1, <3>2, <3>3
  <2>1. q \in Nat /\ q > 0 /\ q + d = k /\ q + ProtectLast <= m /\ q \in 1..(m - 1) /\ q <= k
    BY <1>1, <1>3, <1>8, <2>0
  <2> HIDE DEF q
  <2>2. q \in 0..History!OlderCount(new)
    <3>1. q <= History!OlderCount(new)
      BY <1>1, <2>1, OlderIs DEF m
    <3>2. History!OlderCount(new) \in Int
      BY <1>1, OlderIs DEF m
    <3> QED BY <2>1, <3>1, <3>2
  <2>3. new[q] = ts[k]
    BY <1>4, <2>1
  <2>4. \A i \in 1..m : i > q => i + d > k
    BY <1>1, <2>1
  <2>5. j.mark = None => q <= j.count
    BY <1>2, <1>3, <2>1 DEF CutAt, GoodJob
  <2>6. CutAt(f, j, q)
    BY <1>1, <1>2, <1>3, <1>6, <2>1, <2>3, <2>4, <2>5 DEF CutAt, ts
  <2> QED BY <2>2, <2>6 DEF f
<1> QED BY <1>1, <1>3, <1>7, <1>8

(* Window A: the turns that are not protected are shown.                   *)
LEMMA GoodStart ==
  ASSUME MemoryAssumption, NEW n \in 0..MaxRequests, NEW f \in History!Contents,
         InOrder(f, n), AfterSummary(f, n), OwnReplies(f), NEW h, h = History!OlderCount(f.turns), h > 0,
         NEW mark \in {History!Mark(f.turns[h])} \cup {None}, NEW j,
         j = [count |-> h, older |-> History!Authors(SubSeq(f.turns, 1, h)), prev |-> f.summary, mark |-> mark]
  PROVE  GoodJob(j, n) /\ (Notes = {} => CutAt(f, j, h))
<1> DEFINE ts == f.turns
<1>1. /\ ts \in Seq(History!Turn) /\ Len(ts) \in Nat /\ h \in Nat /\ h < Len(ts) /\ DOMAIN ts = 1..Len(ts)
      /\ f.summary \in SUBSET History!Requests
  BY OlderIs DEF History!Contents
<1>2. \A i \in 1..Len(ts) : /\ ts[i].user \in Nat /\ ts[i].by \in Nat /\ ts[i].reply \in History!Replied \cup {None}
                            /\ ts[i].user \in History!Requests /\ ts[i].by \in History!Requests
  BY <1>1, TurnIs, HistConstants DEF History!Requests
<1> DEFINE u == SubSeq(ts, 1, h)
<1>3. u \in Seq(History!Turn) /\ DOMAIN u = 1..h /\ \A i \in 1..h : u[i] = ts[i]
  BY <1>1
<1>4. /\ j.count = h /\ j.older = History!Authors(u) /\ j.prev = f.summary /\ j.mark = mark
  OBVIOUS
<1> HIDE DEF u
<1>5. \A s \in j.older : \E i \in 1..h : s \in {ts[i].user, ts[i].by}
  <2> SUFFICES ASSUME NEW s \in j.older PROVE \E i \in 1..h : s \in {ts[i].user, ts[i].by}
    OBVIOUS
  <2>1. PICK i \in DOMAIN u : s \in {u[i].user, u[i].by}
    BY <1>4 DEF History!Authors
  <2> QED BY <1>3, <2>1
<1>6. j.older \in SUBSET History!Requests
  BY <1>1, <1>2, <1>5
<1>7. ASSUME NEW s \in j.older, NEW i \in 1..Len(ts), i > h PROVE s < ts[i].user
  <2>1. PICK k \in 1..h : s \in {ts[k].user, ts[k].by}
    BY <1>5
  <2>2. k \in 1..Len(ts) /\ k < i /\ ts[k].user <= ts[k].by /\ ts[k].by < ts[i].user
    BY <1>1, <1>7 DEF InOrder
  <2> QED BY <1>2, <2>1, <2>2
<1>8. \A s \in j.older : s < n
  <2>1. Len(ts) \in 1..Len(ts) /\ Len(ts) > h /\ ts[Len(ts)].user <= ts[Len(ts)].by /\ ts[Len(ts)].by <= n /\ n \in Nat
    BY <1>1, HistConstants DEF InOrder
  <2> QED BY <1>2, <1>6, <1>7, <2>1, HistConstants DEF History!Requests
<1>9. h \in 1..Len(ts) /\ mark \in Marks \cup {None} /\ (mark # None => History!Bears(ts[h], mark))
      /\ (mark # None /\ mark[1] = "assistant" => mark[2] # None)
  BY <1>1, <1>2 DEF Marks, History!Mark, History!Bears
<1>10. GoodJob(j, n)
  BY <1>1, <1>4, <1>6, <1>8, <1>9 DEF GoodJob, Shown, AfterSummary
<1>11. Notes = {} => CutAt(f, j, h)
  BY <1>1, <1>4, <1>7, <1>9 DEF CutAt, Shown, AfterSummary
<1> QED BY <1>10, <1>11

LEMMA HistoryInvInit ==
  ASSUME MemoryAssumption, History!Init PROVE HistoryInv
<1>1. \A n, b, r, e : Good(Absent, n, b, r, e) /\ ~History!Parsed(Absent)
  BY DEF Good, History!Parsed
<1>2. FilesInv
  BY <1>1 DEF History!Init, FilesInv
<1>3. StepInv
  <2>1. 0 \in 0..MaxRequests /\ 0 \in 0..0
    BY HistConstants
  <2> QED BY <2>1 DEF History!Init, StepInv
<1>4. JobInv
  BY DEF History!Init, JobInv
<1> QED BY <1>2, <1>3, <1>4 DEF HistoryInv

LEMMA HistoryTypes ==
  ASSUME MemoryAssumption, HistoryInv
  PROVE  /\ serial \in Nat /\ since \in Nat /\ reqId \in Nat /\ since \in 0..serial
         /\ epc # "idle" => serial \in History!Requests /\ since \in 0..(serial - 1) /\ reqId \in History!Requests
<1> USE HistConstants
<1>1. serial \in 0..MaxRequests /\ since \in 0..serial /\ reqId \in 0..MaxRequests
  BY DEF HistoryInv, StepInv
<1>2. epc # "idle" => since < serial /\ reqId > 0
  BY DEF HistoryInv, StepInv
<1> QED BY <1>1, <1>2 DEF History!Requests

LEMMA AbsentIsGood ==
  /\ \A n, b, r, e : Good(Absent, n, b, r, e) /\ Good(Torn, n, b, r, e)
  /\ ~History!Parsed(Absent) /\ ~History!Parsed(Torn)
  /\ \A j : Fits(Absent, j) /\ Fits(Torn, j)
BY DEF Good, Fits, History!Parsed

(* The save of the turns.                                                  *)
LEMMA WriteTurnsInv ==
  ASSUME MemoryAssumption, HistoryInv, NEW final \in BOOLEAN, History!WriteTurns(final)
  PROVE  HistoryInv'
<1> DEFINE base == IF History!Parsed(snap) THEN snap ELSE History!Fresh
<1>0. PICK reply \in History!Replies(final) :
        \E ts \in History!Sheds(History!WithTurn(base.turns, reply)) : file' = [base EXCEPT !.turns = ts]
  BY DEF History!WriteTurns
<1>1. PICK ts \in History!Sheds(History!WithTurn(base.turns, reply)) : file' = [base EXCEPT !.turns = ts]
  BY <1>0
<1>2. /\ epc = "building" /\ ~held /\ snap' = Absent /\ epc' \in {"idle", "request"}
      /\ UNCHANGED <<backup, held, starts, since, serial, reqId, cpc, job, next>>
      /\ queued' = (queued \/ cpc = "idle") \/ UNCHANGED queued
  BY DEF History!WriteTurns
<1>3. serial \in History!Requests /\ since \in 0..(serial - 1) /\ reqId \in History!Requests /\ serial \in Nat
  BY <1>2, HistoryTypes
<1>4. /\ base \in History!Contents /\ History!Parsed(base) /\ Good(base, serial, since, reqId, "building")
      /\ base.turns \in Seq(History!Turn)
  <2>1. History!Fresh \in History!Contents /\ History!Parsed(History!Fresh)
    BY GoodFresh, HistConstants DEF History!Parsed
  <2>2. Good(base, serial, since, reqId, "building") /\ base \in History!Contents /\ History!Parsed(base)
    BY <1>2, <2>1, GoodFresh DEF HistoryInv, FilesInv, Good
  <2> QED BY <2>2 DEF History!Contents
<1>5. reply \in History!Replied \cup {None} /\ (Notes = {} => reply \in {serial, None})
  BY <1>3 DEF History!Replies, History!Replied
<1> HIDE DEF base
<1>6. PICK d \in Nat : Saved(base.turns, ts, d, serial, reqId, reply)
  BY <1>1, <1>3, <1>4, <1>5, SavedTurns
<1>7. Good(file', serial, since, reqId, "building")
  BY <1>1, <1>3, <1>4, <1>5, <1>6, GoodWrite
<1>8. /\ Good(file', serial, since, reqId, epc') /\ Good(backup, serial, since, reqId, epc')
      /\ Good(next, serial, since, reqId, epc')
  <2>1. ASSUME NEW f, Good(f, serial, since, reqId, "building") PROVE Good(f, serial, since, reqId, epc')
    <3>1. since \in 0..serial /\ reqId \in Nat
      BY HistoryTypes
    <3> QED BY <1>2, <1>3, <2>1, <3>1, GoodLater
  <2> QED BY <1>2, <1>7, <2>1 DEF HistoryInv, FilesInv
<1>9. FilesInv'
  BY <1>2, <1>8, AbsentIsGood DEF FilesInv
<1>10. StepInv'
  <2>1. queued \in BOOLEAN /\ (queued => cpc = "idle")
    BY DEF HistoryInv, StepInv
  <2>2. queued' \in BOOLEAN /\ (queued' => cpc = "idle")
    <3>1. (queued' = (queued \/ cpc = "idle")) \/ queued' = queued
      BY <1>2
    <3>2. (queued \/ cpc = "idle") \in BOOLEAN /\ ((queued \/ cpc = "idle") => cpc = "idle")
      BY <2>1
    <3>3. CASE queued' = (queued \/ cpc = "idle")
      BY <3>2, <3>3, Zenon
    <3>4. CASE queued' = queued
      BY <2>1, <3>4
    <3> QED BY <3>1, <3>3, <3>4
  <2> QED BY <1>2, <2>2 DEF HistoryInv, StepInv
<1>11. JobInv'
  <2> SUFFICES ASSUME cpc = "llm" PROVE GoodJob(job, serial) /\ Fits(file', job) /\ Fits(Absent, job)
    BY <1>2 DEF JobInv
  <2>1. GoodJob(job, serial) /\ Fits(snap, job)
    BY DEF HistoryInv, JobInv
  <2>2. Fits(base, job)
    <3>1. CASE base = snap
      BY <2>1, <3>1
    <3>2. CASE base = History!Fresh
      <4>1. base.turns = <<>>
        BY <3>2 DEF History!Fresh
      <4>2. History!OlderCount(base.turns) \in Nat
        BY <1>4, OlderIs
      <4>3. CutAt(base, job, 0) /\ 0 \in 0..History!OlderCount(base.turns)
        BY <2>1, <4>1, <4>2 DEF CutAt, GoodJob
      <4> QED BY <4>3 DEF Fits
    <3> QED BY <3>1, <3>2 DEF base
  <2>3. Fits([base EXCEPT !.turns = ts], job)
    BY <1>3, <1>4, <1>6, <2>1, <2>2, FitsWrite
  <2> QED BY <1>1, <2>1, <2>3, AbsentIsGood
<1> QED BY <1>9, <1>10, <1>11 DEF HistoryInv

(* Window A: the mark it takes fits the file and the copy of an append.    *)
LEMMA WindowAInv ==
  ASSUME MemoryAssumption, HistoryInv, History!WindowA
  PROVE  HistoryInv'
<1>1. /\ cpc = "idle" /\ queued /\ ~held /\ queued' = FALSE
      /\ UNCHANGED <<file, backup, held, since, serial, reqId, epc, snap, next>>
  BY DEF History!WindowA, History!engineVars
<1>2. CASE History!Parsed(file) /\ History!OlderCount(file.turns) >= 2
  <2> DEFINE h == History!OlderCount(file.turns)
  <2>1. PICK mark \in {History!Mark(file.turns[h])} \cup {None} :
          job' = [count |-> h, older |-> History!Authors(SubSeq(file.turns, 1, h)), prev |-> file.summary, mark |-> mark]
    BY <1>2 DEF History!WindowA
  <2>2. cpc' = "llm"
    BY <1>2 DEF History!WindowA
  <2>3. /\ file \in History!Contents /\ InOrder(file, serial) /\ AfterSummary(file, serial) /\ OwnReplies(file)
        /\ file.turns \in Seq(History!Turn)
    BY <1>2 DEF HistoryInv, FilesInv, Good, History!Contents
  <2>4. h > 0 /\ h \in Nat /\ serial \in 0..MaxRequests
    BY <1>2, <2>3, OlderIs DEF HistoryInv, StepInv
  <2>5. PICK j : j = job'
    OBVIOUS
  <2>6. GoodJob(j, serial) /\ (Notes = {} => CutAt(file, j, h))
    <3> HIDE DEF h
    <3>1. h = History!OlderCount(file.turns)
      BY DEF h
    <3> QED BY <2>1, <2>3, <2>4, <2>5, <3>1, GoodStart
  <2>7. Fits(file, j)
    BY <2>4, <2>6 DEF Fits
  <2>8. snap \in {file, Absent}
    BY <1>1, <1>2, AbsentIsGood DEF HistoryInv, StepInv
  <2>9. JobInv'
    BY <1>1, <2>5, <2>6, <2>7, <2>8, AbsentIsGood DEF JobInv
  <2> QED BY <1>1, <2>2, <2>9 DEF HistoryInv, StepInv, FilesInv
<1>3. CASE ~(History!Parsed(file) /\ History!OlderCount(file.turns) >= 2)
  <2>1. UNCHANGED <<cpc, job>>
    BY <1>3 DEF History!WindowA
  <2> QED BY <1>1, <2>1 DEF HistoryInv, StepInv, FilesInv, JobInv
<1> QED BY <1>2, <1>3

(* Window C: the file it builds is a good one, by the mark.                *)
LEMMA WindowCInv ==
  ASSUME MemoryAssumption, HistoryInv, History!WindowC
  PROVE  HistoryInv'
<1>1. cpc = "llm" /\ ~held /\ UNCHANGED <<since, serial, reqId, epc, snap, queued>>
  BY DEF History!WindowC, History!engineVars
<1>2. CASE History!Parsed(file)
  <2> DEFINE cut == History!CutPoint(file.turns)
  <2>1. /\ next' = [turns   |-> SubSeq(file.turns, cut + 1, Len(file.turns)),
                    summary |-> job.prev \cup job.older, gen |-> file.gen + 1]
        /\ backup' = file /\ file' = Absent /\ held' = TRUE /\ cpc' = "renamed"
    BY <1>2 DEF History!WindowC
  <2>2. /\ file \in History!Contents /\ InOrder(file, serial) /\ AfterSummary(file, serial) /\ OwnReplies(file)
        /\ Good(file, serial, since, reqId, epc) /\ file.turns \in Seq(History!Turn) /\ file.gen + 1 \in Nat
        /\ DOMAIN file.turns = 1..Len(file.turns) /\ Len(file.turns) \in Nat
    BY <1>2 DEF HistoryInv, FilesInv, Good, History!Contents
  <2>3. GoodJob(job, serial) /\ Fits(file, job)
    BY <1>1 DEF HistoryInv, JobInv
  <2>4. serial \in Nat /\ since \in Nat /\ reqId \in Nat
    BY HistoryTypes
  <2>5. cut \in 0..Len(file.turns)
        /\ (Notes = {} => \A s \in job.prev \cup job.older : s < serial /\ \A i \in DOMAIN file.turns : i > cut => s < file.turns[i].user)
    <3>1. CASE Notes = {}
      <4>1. PICK k \in 0..History!OlderCount(file.turns) : CutAt(file, job, k)
        BY <1>2, <2>3, <3>1 DEF Fits
      <4>2. cut \in 0..Len(file.turns) /\ k <= cut /\ k \in Nat
        BY <2>2, <2>3, <2>4, <3>1, <4>1, CutBehind
      <4> HIDE DEF cut
      <4>3. \A i \in DOMAIN file.turns : i > cut => i > k
        BY <2>2, <4>2
      <4> QED BY <2>3, <3>1, <4>1, <4>2, <4>3 DEF CutAt, GoodJob, Shown
    <3>2. CASE Notes # {}
      BY <2>2, <2>3, <3>2, CutBelow DEF GoodJob
    <3> QED BY <3>1, <3>2
  <2>6. job.prev \cup job.older \in SUBSET History!Requests
    BY <2>3 DEF GoodJob
  <2> HIDE DEF cut
  <2>7. Good(next', serial, since, reqId, epc)
    BY <1>2, <2>1, <2>2, <2>4, <2>5, <2>6, GoodSuffix
  <2> QED BY <1>1, <2>1, <2>2, <2>7, AbsentIsGood DEF HistoryInv, StepInv, FilesInv, JobInv
<1>3. CASE ~History!Parsed(file)
  <2>1. cpc' = "idle" /\ UNCHANGED <<file, backup, held, next>>
    BY <1>3 DEF History!WindowC
  <2> QED BY <1>1, <2>1 DEF HistoryInv, StepInv, FilesInv, JobInv
<1> QED BY <1>2, <1>3

(* Every step of the history keeps its invariant.                          *)
LEMMA HistoryInvNext ==
  ASSUME MemoryAssumption, HistoryInv, [History!Next]_historyvars
  PROVE  HistoryInv'
<1>1. ASSUME NEW id \in History!Requests, History!BeginRequest(id) PROVE HistoryInv'
  <2>1. /\ epc = "idle" /\ serial < MaxRequests /\ id > reqId /\ reqId' = id /\ serial' = serial + 1 /\ epc' = "request"
        /\ UNCHANGED <<file, backup, held, since, snap, queued, cpc, job, next>>
    BY <1>1 DEF History!BeginRequest, History!compactVars
  <2>2. /\ serial \in Nat /\ since \in 0..serial /\ reqId \in Nat /\ id \in Nat /\ id \in 0..MaxRequests /\ id > 0
        /\ MaxRequests \in Nat
    BY HistoryTypes, HistConstants DEF History!Requests
  <2>3. ASSUME NEW f, Good(f, serial, since, reqId, epc) PROVE Good(f, serial + 1, since, id, "request")
    BY <2>1, <2>2, <2>3, GoodLater
  <2>4. FilesInv'
    BY <2>1, <2>3 DEF HistoryInv, FilesInv
  <2>5. StepInv'
    BY <2>1, <2>2 DEF HistoryInv, StepInv
  <2>6. GoodJob(job, serial) => GoodJob(job, serial + 1)
    BY <2>2, HistConstants DEF GoodJob, Shown, History!Requests
  <2>7. JobInv'
    BY <2>1, <2>6 DEF HistoryInv, JobInv
  <2> QED BY <2>4, <2>5, <2>7 DEF HistoryInv
<1>2. CASE History!EndRequest
  <2>1. /\ epc = "request" /\ epc' = "idle"
        /\ UNCHANGED <<file, backup, held, since, serial, reqId, snap, queued, cpc, job, next>>
    BY <1>2 DEF History!EndRequest, History!compactVars
  <2>2. ASSUME NEW f, Good(f, serial, since, reqId, epc) PROVE Good(f, serial, since, reqId, "idle")
    BY <2>2, HistoryTypes, GoodLater
  <2> QED BY <2>1, <2>2 DEF HistoryInv, StepInv, FilesInv, JobInv
<1>3. CASE History!ReadTurns
  <2>1. /\ epc = "request" /\ epc' = "building" /\ snap' = file /\ ~held
        /\ UNCHANGED <<file, backup, held, since, serial, reqId, queued, cpc, job, next>>
    BY <1>3 DEF History!ReadTurns, History!compactVars
  <2>2. ASSUME NEW f, Good(f, serial, since, reqId, epc) PROVE Good(f, serial, since, reqId, "building")
    BY <2>1, <2>2, HistoryTypes, GoodLater
  <2> QED BY <2>1, <2>2 DEF HistoryInv, StepInv, FilesInv, JobInv
<1>4. ASSUME NEW final \in BOOLEAN, History!WriteTurns(final) PROVE HistoryInv'
  BY <1>4, WriteTurnsInv
<1>5. CASE History!WriteTurnsFails
  <2>1. /\ epc = "building" /\ epc' = "request" /\ snap' = Absent /\ file' = Torn /\ ~held
        /\ UNCHANGED <<backup, held, since, serial, reqId, queued, cpc, job, next>>
    BY <1>5 DEF History!WriteTurnsFails, History!compactVars
  <2>2. ASSUME NEW f, Good(f, serial, since, reqId, epc) PROVE Good(f, serial, since, reqId, "request")
    BY <2>1, <2>2, HistoryTypes, GoodLater
  <2> QED BY <2>1, <2>2, AbsentIsGood DEF HistoryInv, StepInv, FilesInv, JobInv
<1>6. CASE History!ClearSession
  <2>1. file' = Absent /\ UNCHANGED <<backup, held, since, serial, reqId, epc, snap, queued, cpc, job, next>>
    BY <1>6 DEF History!ClearSession, History!compactVars, History!engineVars
  <2> QED BY <2>1, AbsentIsGood DEF HistoryInv, StepInv, FilesInv, JobInv
<1>7. CASE History!WindowA
  BY <1>7, WindowAInv
<1>8. CASE History!SummaryFails
  <2>1. cpc = "llm" /\ cpc' = "idle" /\ UNCHANGED <<file, backup, held, since, serial, reqId, epc, snap, queued, next>>
    BY <1>8 DEF History!SummaryFails, History!engineVars
  <2> QED BY <2>1 DEF HistoryInv, StepInv, FilesInv, JobInv
<1>9. CASE History!WindowC
  BY <1>9, WindowCInv
<1>10. CASE History!CommitCompaction
  <2>1. /\ cpc = "renamed" /\ cpc' = "written" /\ file' = next
        /\ UNCHANGED <<backup, held, since, serial, reqId, epc, snap, queued, next>>
    BY <1>10 DEF History!CommitCompaction, History!engineVars
  <2> QED BY <2>1 DEF HistoryInv, StepInv, FilesInv, JobInv
<1>11. CASE History!CommitFails \/ History!RemoveBackup
  <2>1. /\ cpc \in {"renamed", "written"} /\ cpc' = "idle" /\ held' = FALSE /\ next' = Absent
        /\ file' \in {file, backup, Torn} /\ backup' \in {backup, Absent}
        /\ UNCHANGED <<since, serial, reqId, epc, snap, queued>>
    BY <1>11 DEF History!CommitFails, History!RemoveBackup, History!CompactionEnds, History!engineVars
  <2> QED BY <2>1, AbsentIsGood DEF HistoryInv, StepInv, FilesInv, JobInv
<1>12. CASE History!PowerLoss
  <2>1. /\ since' = serial /\ serial' = serial /\ reqId' = 0 /\ epc' = "idle" /\ snap' = Absent /\ next' = Absent
        /\ backup' = Absent /\ held' = FALSE /\ queued' = FALSE /\ cpc' = "idle"
        /\ file' \in {file, backup, Torn}
    BY <1>12 DEF History!PowerLoss, History!Recovered
  <2>2. ASSUME NEW f, Good(f, serial, since, reqId, epc) PROVE Good(f, serial, serial, 0, "idle")
    BY <2>2, HistoryTypes, GoodLater
  <2>3. FilesInv'
    BY <2>1, <2>2, AbsentIsGood DEF HistoryInv, FilesInv
  <2>4. StepInv'
    <3>1. serial' \in 0..MaxRequests /\ since' \in 0..serial' /\ reqId' \in 0..MaxRequests
      BY <2>1, HistoryTypes, HistConstants DEF HistoryInv, StepInv
    <3> QED BY <2>1, <3>1 DEF StepInv
  <2> QED BY <2>1, <2>3, <2>4 DEF HistoryInv, JobInv
<1>13. CASE UNCHANGED historyvars
  BY <1>13 DEF HistoryInv, StepInv, FilesInv, JobInv, historyvars
<1> QED BY <1>1, <1>2, <1>3, <1>4, <1>5, <1>6, <1>7, <1>8, <1>9, <1>10, <1>11, <1>12, <1>13 DEF History!Next

LEMMA HistoryInvHolds == MemorySpec => []HistoryInv
<1>1. MemoryInit => HistoryInv
  BY HistoryInvInit, MemoryAssumption DEF MemoryInit
<1>2. HistoryInv /\ [MemoryNext]_allvars => HistoryInv'
  <2> SUFFICES ASSUME HistoryInv, [MemoryNext]_allvars PROVE HistoryInv'
    OBVIOUS
  <2>1. [History!Next]_historyvars
    BY DEF MemoryNext, RunsFacts, RunsHistory, RunsTasks, allvars
  <2> QED BY <2>1, HistoryInvNext, MemoryAssumption
<1> QED BY <1>1, <1>2, PTL DEF MemorySpec

(* Only the turn of a request before this boot may carry the reply of a    *)
(* later one: within a boot the request id of the last turn tells its      *)
(* request from every other, whatever compaction, eviction, clears, failed *)
(* writes and power losses do to the file in between.                      *)
THEOREM TurnsAreOneRequest == MemorySpec => []TurnIsOneRequest
<1>1. HistoryInv => TurnIsOneRequest
  <2> SUFFICES ASSUME HistoryInv, History!Parsed(file), NEW i \in DOMAIN file.turns,
                      file.turns[i].user # file.turns[i].by
               PROVE  file.turns[i].user <= since
    BY DEF TurnIsOneRequest, History!TurnIsOneRequest
  <2>1. /\ file.turns \in Seq(History!Turn) /\ OneRequest(file, serial, since, reqId, epc)
    BY DEF HistoryInv, FilesInv, Good, History!Contents
  <2>2. ~(file.turns[i].user > since) /\ file.turns[i].user \in Nat /\ since \in Nat
    BY <2>1, TurnIs, HistConstants, HistoryTypes, MemoryAssumption DEF OneRequest, History!Requests
  <2> QED BY <2>2
<1> QED BY <1>1, HistoryInvHolds, PTL

(* If no two turns share their reply text, the summary is of requests      *)
(* before all the replayed turns, and those are in order: the mark finds   *)
(* the cut whatever was appended, evicted or cleared while window B talked *)
(* to the model, and however power and writes fail.  With a shared text it *)
(* need not hold: see the README.                                          *)
THEOREM SummaryIsOlder == Notes = {} => (MemorySpec => []SummaryThenTurns)
<1> SUFFICES ASSUME Notes = {} PROVE MemorySpec => []SummaryThenTurns
  OBVIOUS
<1>1. HistoryInv => SummaryThenTurns
  <2> SUFFICES ASSUME HistoryInv, History!Parsed(file) PROVE SummaryThenTurns
    BY DEF SummaryThenTurns, History!SummaryThenTurns
  <2>1. /\ file.turns \in Seq(History!Turn) /\ InOrder(file, serial) /\ AfterSummary(file, serial)
    BY DEF HistoryInv, FilesInv, Good, History!Contents
  <2>2. \A i \in DOMAIN file.turns : file.turns[i].user \in Nat /\ file.turns[i].by \in Nat
    BY <2>1, TurnIs, HistConstants, MemoryAssumption DEF History!Requests
  <2>3. \A i, k \in DOMAIN file.turns : i < k => file.turns[i].user < file.turns[k].user
    BY <2>1, <2>2 DEF InOrder
  <2> QED BY <2>1, <2>3 DEF SummaryThenTurns, History!SummaryThenTurns, AfterSummary
<1> QED BY <1>1, HistoryInvHolds, PTL

(***************************************************************************)
(* Nothing saved is forgotten.                                             *)
(***************************************************************************)
(* Distinct replies, a mark for every job, a write power does not cut      *)
(* short, and a rename that replaces a file (LittleFS).                    *)
Lossless == Notes = {} /\ ~AllocFails /\ TornWrites = {} /\ RenameReplaces

(* Saved, and not known to be gone.                                        *)
Due == done \ (evicted \cup cleared)

(* What the cut may delete was shown to the summariser. *)
Covers(j, f) ==
  History!Parsed(f) =>
    /\ f.summary \subseteq Shown(j)
    /\ \A k \in DOMAIN f.turns : History!Bears(f.turns[k], j.mark) =>
         k < Len(f.turns) /\ \A i \in 1..k : {f.turns[i].user, f.turns[i].by} \subseteq Shown(j)

CoverInv == cpc = "llm" => job.mark # None /\ job.mark[2] \in Shown(job) /\ Covers(job, file) /\ Covers(job, snap)

(* What is due is in whatever a reader, a reboot or the next write finds.  *)
KeptInv ==
  /\ ~held => backup = Absent
  /\ held => /\ Due \subseteq History!Known(backup) /\ Due \subseteq History!Known(next)
             /\ History!Parsed(backup) /\ History!Parsed(next)
  /\ cpc = "renamed" => file = Absent
  /\ cpc = "written" => file = next \/ (file = Absent /\ Due = {})
  /\ Due \subseteq History!Known(History!Visible)
  /\ epc = "building" => Due \subseteq History!Known(snap)
  /\ CoverInv

LosslessInv == HistoryInv /\ KeptInv

LEMMA KnownIs ==
  ASSUME MemoryAssumption
  PROVE  /\ History!Known(Absent) = {} /\ History!Known(Torn) = {}
         /\ \A f \in History!Contents : History!Parsed(f) /\ f # Absent /\ History!Known(f) = History!Authors(f.turns) \cup f.summary
BY HistConstants DEF History!Known, History!Parsed

LEMMA AuthorsAre ==
  ASSUME NEW ts PROVE \A x : x \in History!Authors(ts) <=> \E i \in DOMAIN ts : x \in {ts[i].user, ts[i].by}
BY DEF History!Authors

(* The save of the turns loses none but the evicted, and covers as before. *)
LEMMA WriteTurnsKeeps ==
  ASSUME MemoryAssumption, Lossless, LosslessInv, NEW final \in BOOLEAN, History!WriteTurns(final)
  PROVE  KeptInv'
<1> DEFINE base == IF History!Parsed(snap) THEN snap ELSE History!Fresh
<1>0. PICK reply \in History!Replies(final) :
        \E ts \in History!Sheds(History!WithTurn(base.turns, reply)) :
          /\ file' = [base EXCEPT !.turns = ts]
          /\ evicted' = evicted \cup (History!Authors(base.turns) \ History!Authors(ts))
  BY DEF History!WriteTurns
<1>1. PICK ts \in History!Sheds(History!WithTurn(base.turns, reply)) :
        /\ file' = [base EXCEPT !.turns = ts]
        /\ evicted' = evicted \cup (History!Authors(base.turns) \ History!Authors(ts))
  BY <1>0
<1>2. /\ epc = "building" /\ ~held /\ snap' = Absent /\ epc' \in {"idle", "request"} /\ done' \in {done, done \cup {serial}}
      /\ UNCHANGED <<backup, held, serial, cpc, job, next, cleared>>
  BY DEF History!WriteTurns
<1>3. serial \in History!Requests /\ since \in 0..(serial - 1) /\ reqId \in History!Requests /\ serial \in Nat
  BY <1>2, HistoryTypes DEF LosslessInv
<1>4. base \in History!Contents /\ base.turns \in Seq(History!Turn)
  <2>1. base \in History!Contents
    BY GoodFresh DEF LosslessInv, HistoryInv, FilesInv, Good
  <2> QED BY <2>1 DEF History!Contents
<1>5. reply \in History!Replied \cup {None} /\ reply \in {serial, None}
  BY <1>3 DEF History!Replies, History!Replied, Lossless
<1> HIDE DEF base
<1>6. PICK d \in Nat : Saved(base.turns, ts, d, serial, reqId, reply)
  BY <1>1, <1>3, <1>4, <1>5, SavedTurns
<1>7. /\ ts \in Seq(History!Turn) /\ Len(ts) \in DOMAIN ts /\ ts[Len(ts)].by = serial /\ ts[Len(ts)].reply = reply
      /\ DOMAIN ts = 1..Len(ts) /\ Len(ts) \in Nat
  BY <1>6 DEF Saved
<1>8. file' \in History!Contents /\ file'.turns = ts /\ file'.summary = base.summary
  BY <1>1, <1>4, <1>7 DEF History!Contents
<1>9. Due' \subseteq History!Known(file')
  <2>1. Due \subseteq History!Authors(base.turns) \cup base.summary
    <3>1. CASE History!Parsed(snap)
      BY <1>2, <3>1 DEF LosslessInv, KeptInv, base, History!Known
    <3>2. CASE ~History!Parsed(snap)
      BY <1>2, <3>2 DEF LosslessInv, KeptInv, base, History!Known
    <3> QED BY <3>1, <3>2
  <2>2. serial \in History!Authors(ts)
    BY <1>7, AuthorsAre
  <2>3. Due' \subseteq (Due \cup {serial}) \ (History!Authors(base.turns) \ History!Authors(ts))
    BY <1>1, <1>2 DEF Due
  <2>4. Due' \subseteq History!Authors(ts) \cup base.summary
    BY <2>1, <2>2, <2>3
  <2> QED BY <1>8, <2>4, KnownIs
<1>10. CoverInv'
  <2> SUFFICES ASSUME cpc = "llm" PROVE job.mark # None /\ job.mark[2] \in Shown(job) /\ Covers(job, file') /\ Covers(job, Absent)
    BY <1>2 DEF CoverInv
  <2>1. job.mark # None /\ job.mark[2] \in Shown(job) /\ Covers(job, snap) /\ GoodJob(job, serial)
    BY DEF LosslessInv, HistoryInv, JobInv, KeptInv, CoverInv
  <2>2. /\ base.summary \subseteq Shown(job)
        /\ \A k \in DOMAIN base.turns : History!Bears(base.turns[k], job.mark) =>
             k < Len(base.turns) /\ \A i \in 1..k : {base.turns[i].user, base.turns[i].by} \subseteq Shown(job)
    <3>1. CASE History!Parsed(snap)
      BY <2>1, <3>1 DEF Covers, base
    <3>2. CASE ~History!Parsed(snap)
      <4>1. base.turns = <<>> /\ base.summary = {}
        BY <3>2 DEF base, History!Fresh
      <4> QED BY <4>1
    <3> QED BY <3>1, <3>2
  <2> DEFINE b == base.turns
             m == Len(ts)
  <2>3. /\ Len(b) \in Nat /\ DOMAIN b = 1..Len(b) /\ m \in Nat /\ m > 0
        /\ \A i \in 1..(m - 1) : i + d \in 1..Len(b) /\ ts[i] = b[i + d]
    BY <1>4, <1>6, <1>7 DEF Saved
  <2>4. /\ \A s \in Shown(job) : s < serial
        /\ job.mark \in Marks /\ (job.mark[1] = "assistant" => job.mark[2] # None)
    BY <2>1 DEF GoodJob, Lossless
  <2> HIDE DEF b, m
  <2>5. ~History!Bears(ts[m], job.mark)
    <3> SUFFICES ASSUME History!Bears(ts[m], job.mark) PROVE FALSE
      OBVIOUS
    <3>1. job.mark[2] # serial
      BY <1>3, <2>1, <2>4
    <3>2. job.mark[1] = "user" /\ ts[m].user = job.mark[2]
      BY <1>5, <1>7, <2>4, <3>1 DEF History!Bears, m
    <3>3. Len(b) > 0 /\ ts[m].user = b[Len(b)].user
      BY <1>6, <2>3, <3>1, <3>2 DEF Saved, m, b
    <3>4. Len(b) \in DOMAIN b /\ History!Bears(b[Len(b)], job.mark)
      BY <2>3, <3>2, <3>3 DEF History!Bears
    <3> QED BY <2>2, <2>3, <3>4 DEF b
  <2>6. ASSUME NEW k \in 1..m, History!Bears(ts[k], job.mark)
        PROVE  k < m /\ \A i \in 1..k : {ts[i].user, ts[i].by} \subseteq Shown(job)
    <3>1. k \in 1..(m - 1)
      BY <2>3, <2>5, <2>6
    <3>2. k + d \in DOMAIN b /\ History!Bears(b[k + d], job.mark)
      BY <2>3, <2>6, <3>1
    <3>3. \A i \in 1..(k + d) : {b[i].user, b[i].by} \subseteq Shown(job)
      BY <2>2, <3>2 DEF b
    <3>4. ASSUME NEW i \in 1..k PROVE {ts[i].user, ts[i].by} \subseteq Shown(job)
      <4>1. i \in 1..(m - 1) /\ i + d \in 1..(k + d)
        BY <1>6, <2>3, <3>1
      <4>2. ts[i] = b[i + d]
        BY <2>3, <4>1
      <4> QED BY <3>3, <4>1, <4>2
    <3> QED BY <2>3, <3>1, <3>4
  <2>7. Covers(job, file')
    BY <1>7, <1>8, <2>2, <2>6 DEF Covers, m
  <2> QED BY <2>1, <2>7, AbsentIsGood DEF Covers
<1>11. backup = Absent /\ cpc \notin {"renamed", "written"}
  BY <1>2 DEF LosslessInv, KeptInv, HistoryInv, StepInv
<1>12. History!Visible' = file'
  BY <1>8, KnownIs DEF History!Visible
<1> QED BY <1>2, <1>9, <1>10, <1>11, <1>12 DEF KeptInv

(* What window A marks was shown to the summariser.                        *)
LEMMA WindowAKeeps ==
  ASSUME MemoryAssumption, Lossless, LosslessInv, History!WindowA
  PROVE  KeptInv'
<1>1. /\ cpc = "idle" /\ queued /\ ~held
      /\ UNCHANGED <<file, backup, held, serial, epc, snap, next, done, evicted, cleared>>
  BY DEF History!WindowA, History!engineVars, History!historyVars
<1>2. Due' = Due /\ History!Visible' = History!Visible
  BY <1>1 DEF Due, History!Visible
<1>3. CASE History!Parsed(file) /\ History!OlderCount(file.turns) >= 2
  <2> DEFINE h == History!OlderCount(file.turns)
             ts == file.turns
  <2>1. /\ job' = [count |-> h, older |-> History!Authors(SubSeq(ts, 1, h)), prev |-> file.summary,
                   mark |-> History!Mark(ts[h])]
        /\ cpc' = "llm"
    BY <1>3 DEF History!WindowA, Lossless
  <2>2. /\ file \in History!Contents /\ InOrder(file, serial) /\ OwnReplies(file) /\ ts \in Seq(History!Turn)
    BY <1>3 DEF LosslessInv, HistoryInv, FilesInv, Good, History!Contents
  <2>3. h \in 1..Len(ts) /\ h < Len(ts) /\ Len(ts) \in Nat /\ DOMAIN ts = 1..Len(ts) /\ serial \in Nat
    BY <1>3, <2>2, OlderIs, HistoryTypes DEF LosslessInv
  <2> DEFINE u == SubSeq(ts, 1, h)
             mark == History!Mark(ts[h])
  <2>4. u \in Seq(History!Turn) /\ DOMAIN u = 1..h /\ \A i \in 1..h : u[i] = ts[i]
    BY <2>2, <2>3
  <2> HIDE DEF u
  <2>5. \A i \in 1..h : {ts[i].user, ts[i].by} \subseteq History!Authors(u)
    BY <2>4, AuthorsAre
  <2>6. /\ ts[h].user \in History!Requests /\ ts[h].reply \in History!Replied \cup {None}
        /\ ts[h].reply \in {ts[h].by, None}
    BY <2>2, <2>3, TurnIs DEF OwnReplies, Lossless
  <2>7. /\ mark \in Marks /\ mark # None /\ (mark[1] = "assistant" => mark[2] # None) /\ History!Bears(ts[h], mark)
        /\ mark[2] \in {ts[h].user, ts[h].by}
    BY <2>6, HistConstants DEF Marks, History!Mark, History!Bears, History!Replied
  <2> HIDE DEF mark, h
  <2>8. PICK j : j = job'
    OBVIOUS
  <2>9. Shown(j) = History!Authors(u) \cup file.summary /\ j.mark = mark
    BY <2>1, <2>8 DEF Shown, mark, u
  <2>10. \A k \in DOMAIN ts : History!Bears(ts[k], mark) => k = h
    BY <2>2, <2>3, <2>7, OneBearer DEF Lossless
  <2>11. Covers(j, file)
    BY <2>3, <2>5, <2>9, <2>10 DEF Covers
  <2>12. snap \in {file, Absent}
    BY <1>1, <1>3, AbsentIsGood DEF LosslessInv, HistoryInv, StepInv
  <2>13. Covers(j, snap)
    BY <2>11, <2>12, AbsentIsGood DEF Covers
  <2>14. CoverInv'
    BY <1>1, <2>3, <2>5, <2>7, <2>8, <2>9, <2>11, <2>13 DEF CoverInv
  <2> QED BY <1>1, <1>2, <2>1, <2>14 DEF LosslessInv, KeptInv
<1>4. CASE ~(History!Parsed(file) /\ History!OlderCount(file.turns) >= 2)
  <2>1. UNCHANGED <<cpc, job>>
    BY <1>4 DEF History!WindowA
  <2> QED BY <1>1, <1>2, <2>1 DEF LosslessInv, KeptInv, CoverInv
<1> QED BY <1>3, <1>4

(* What the cut deletes was shown. *)
LEMMA CutCovered ==
  ASSUME MemoryAssumption, NEW f \in History!Contents, History!Parsed(f), Covers(job, f), job.mark # None, job.count \in Nat
  PROVE  /\ History!CutPoint(f.turns) \in 0..Len(f.turns)
         /\ \A i \in 1..History!CutPoint(f.turns) : {f.turns[i].user, f.turns[i].by} \subseteq Shown(job)
<1> DEFINE ts == f.turns
           limit == History!OlderCount(ts)
           matches == {i \in 1..limit : History!Bears(ts[i], job.mark)}
           cut == History!CutPoint(ts)
<1>1. ts \in Seq(History!Turn) /\ Len(ts) \in Nat /\ limit \in 0..Len(ts) /\ DOMAIN ts = 1..Len(ts)
  BY OlderIs DEF History!Contents
<1>2. cut \in 0..Len(ts)
  BY <1>1, CutBelow
<1>3. matches # {} => History!Min(matches) \in matches
  <2>1. matches \in SUBSET Nat
    BY <1>1
  <2> HIDE DEF matches
  <2> QED BY <2>1, LeastNat DEF History!Min
<1>4. cut = 0 \/ cut \in matches
  BY <1>3 DEF History!CutPoint
<1>5. \A k \in matches : k \in DOMAIN ts /\ History!Bears(ts[k], job.mark)
  BY <1>1
<1> HIDE DEF cut, matches
<1>6. CASE cut = 0
  BY <1>2, <1>6 DEF cut
<1>7. CASE cut \in matches
  BY <1>2, <1>5, <1>7 DEF Covers, cut
<1> QED BY <1>4, <1>6, <1>7

(* Window C drops only what the new summary has.                           *)
LEMMA WindowCKeeps ==
  ASSUME MemoryAssumption, Lossless, LosslessInv, History!WindowC
  PROVE  KeptInv'
<1>1. cpc = "llm" /\ ~held /\ UNCHANGED <<since, serial, reqId, epc, snap, queued, done, evicted, cleared>>
  BY DEF History!WindowC, History!engineVars, History!historyVars
<1>2. CASE History!Parsed(file)
  <2> DEFINE ts == file.turns
             cut == History!CutPoint(ts)
             u == SubSeq(ts, cut + 1, Len(ts))
  <2>1. /\ next' = [turns |-> u, summary |-> job.prev \cup job.older, gen |-> file.gen + 1]
        /\ backup' = file /\ file' = Absent /\ held' = TRUE /\ cpc' = "renamed"
    BY <1>2 DEF History!WindowC
  <2>2. /\ file \in History!Contents /\ ts \in Seq(History!Turn) /\ file.gen + 1 \in Nat
        /\ DOMAIN ts = 1..Len(ts) /\ Len(ts) \in Nat
    BY <1>2 DEF LosslessInv, HistoryInv, FilesInv, Good, History!Contents
  <2>3. GoodJob(job, serial) /\ job.mark # None /\ Covers(job, file) /\ job.count \in Nat
    BY <1>1 DEF LosslessInv, HistoryInv, JobInv, KeptInv, CoverInv, GoodJob
  <2>4. cut \in 0..Len(ts) /\ \A i \in 1..cut : {ts[i].user, ts[i].by} \subseteq Shown(job)
    BY <1>2, <2>2, <2>3, CutCovered
  <2> HIDE DEF cut
  <2>5. u \in Seq(History!Turn) /\ DOMAIN u = 1..(Len(ts) - cut) /\ \A i \in 1..(Len(ts) - cut) : u[i] = ts[i + cut]
    BY <2>2, <2>4
  <2> HIDE DEF u
  <2>6. next' \in History!Contents /\ next'.turns = u /\ next'.summary = Shown(job)
    BY <2>1, <2>2, <2>3, <2>5 DEF History!Contents, GoodJob, Shown
  <2>7. History!Authors(ts) \subseteq History!Authors(u) \cup Shown(job)
    <3> SUFFICES ASSUME NEW x \in History!Authors(ts), x \notin Shown(job) PROVE x \in History!Authors(u)
      OBVIOUS
    <3>1. PICK i \in 1..Len(ts) : x \in {ts[i].user, ts[i].by}
      BY <2>2, AuthorsAre
    <3>2. i > cut /\ i - cut \in 1..(Len(ts) - cut) /\ (i - cut) + cut = i
      BY <2>2, <2>4, <3>1
    <3>3. x \in {u[i - cut].user, u[i - cut].by} /\ i - cut \in DOMAIN u
      BY <2>5, <3>1, <3>2
    <3> QED BY <3>3, AuthorsAre
  <2>8. file.summary \subseteq Shown(job)
    BY <1>2, <2>3 DEF Covers
  <2>9. Due \subseteq History!Known(file)
    BY <2>2, KnownIs DEF LosslessInv, KeptInv, History!Visible
  <2>10. Due \subseteq History!Known(next')
    BY <2>2, <2>6, <2>7, <2>8, <2>9, KnownIs
  <2>11. Due' = Due /\ History!Visible' = file
    BY <1>1, <2>1 DEF Due, History!Visible
  <2>12. (epc = "building" => Due \subseteq History!Known(snap)) /\ History!Parsed(next')
    BY <2>6, KnownIs DEF LosslessInv, KeptInv
  <2> QED BY <1>1, <1>2, <2>1, <2>9, <2>10, <2>11, <2>12 DEF KeptInv, CoverInv
<1>3. CASE ~History!Parsed(file)
  <2>1. cpc' = "idle" /\ UNCHANGED <<file, backup, held, next>>
    BY <1>3 DEF History!WindowC
  <2>2. Due' = Due /\ History!Visible' = History!Visible
    BY <1>1, <2>1 DEF Due, History!Visible
  <2> QED BY <1>1, <2>1, <2>2 DEF LosslessInv, KeptInv, CoverInv
<1> QED BY <1>2, <1>3

LEMMA KeptInvInit ==
  ASSUME MemoryAssumption, History!Init PROVE KeptInv
BY KnownIs DEF History!Init, KeptInv, CoverInv, Due, History!Visible

(* Every step loses nothing but what eviction or a clear removed.          *)
LEMMA KeptInvNext ==
  ASSUME MemoryAssumption, Lossless, LosslessInv, [History!Next]_historyvars
  PROVE  KeptInv'
<1> USE DEF LosslessInv
<1>0. /\ KeptInv /\ (held <=> cpc \in {"renamed", "written"}) /\ (epc # "building" => snap = Absent)
      /\ (~held => History!Visible = file)
  BY DEF HistoryInv, StepInv, KeptInv, History!Visible
<1>1. ASSUME NEW id \in History!Requests, History!BeginRequest(id) PROVE KeptInv'
  <2>1. epc' = "request" /\ UNCHANGED <<file, backup, held, snap, cpc, job, next, done, evicted, cleared>>
    BY <1>1 DEF History!BeginRequest, History!compactVars, History!historyVars
  <2> QED BY <1>0, <2>1 DEF KeptInv, CoverInv, Due, History!Visible
<1>2. CASE History!EndRequest
  <2>1. epc' = "idle" /\ UNCHANGED <<file, backup, held, snap, cpc, job, next, done, evicted, cleared>>
    BY <1>2 DEF History!EndRequest, History!compactVars, History!historyVars
  <2> QED BY <1>0, <2>1 DEF KeptInv, CoverInv, Due, History!Visible
<1>3. CASE History!ReadTurns
  <2>1. /\ epc' = "building" /\ snap' = file /\ ~held
        /\ UNCHANGED <<file, backup, held, cpc, job, next, done, evicted, cleared>>
    BY <1>3 DEF History!ReadTurns, History!compactVars, History!historyVars
  <2> QED BY <1>0, <2>1 DEF KeptInv, CoverInv, Due, History!Visible
<1>4. ASSUME NEW final \in BOOLEAN, History!WriteTurns(final) PROVE KeptInv'
  BY <1>4, WriteTurnsKeeps
<1>5. CASE History!WriteTurnsFails
  <2>1. /\ epc' = "request" /\ snap' = Absent /\ file' = Torn /\ ~held
        /\ evicted' = evicted \cup History!Known(History!Visible)
        /\ UNCHANGED <<backup, held, cpc, job, next, done, cleared>>
    BY <1>5 DEF History!WriteTurnsFails, History!compactVars
  <2>2. Due' = {}
    BY <1>0, <2>1 DEF KeptInv, Due
  <2> QED BY <1>0, <2>1, <2>2, AbsentIsGood DEF KeptInv, CoverInv, Covers
<1>6. CASE History!ClearSession
  <2>1. /\ file' = Absent /\ cleared' = IF file = Absent THEN cleared ELSE cleared \cup done
        /\ UNCHANGED <<backup, held, epc, snap, cpc, job, next, done, evicted>>
    BY <1>6 DEF History!ClearSession, History!compactVars, History!engineVars
  <2>2. CASE file = Absent
    BY <1>0, <2>1, <2>2 DEF KeptInv, CoverInv, Due, History!Visible
  <2>3. CASE file # Absent
    <3>1. Due' = {} /\ cpc # "renamed"
      BY <1>0, <2>1, <2>3 DEF KeptInv, Due
    <3> QED BY <1>0, <2>1, <3>1, AbsentIsGood DEF KeptInv, CoverInv, Covers
  <2> QED BY <2>2, <2>3
<1>7. CASE History!WindowA
  BY <1>7, WindowAKeeps
<1>8. CASE History!SummaryFails
  <2>1. cpc = "llm" /\ cpc' = "idle" /\ UNCHANGED <<file, backup, held, epc, snap, next, done, evicted, cleared>>
    BY <1>8 DEF History!SummaryFails, History!engineVars, History!historyVars
  <2> QED BY <1>0, <2>1 DEF KeptInv, CoverInv, Due, History!Visible
<1>9. CASE History!WindowC
  BY <1>9, WindowCKeeps
<1>10. CASE History!CommitCompaction
  <2>1. /\ cpc = "renamed" /\ cpc' = "written" /\ file' = next /\ next # Absent
        /\ UNCHANGED <<backup, held, epc, snap, next, done, evicted, cleared>>
    BY <1>0, <1>10, AbsentIsGood DEF History!CommitCompaction, History!engineVars, History!historyVars, KeptInv
  <2>2. Due' = Due /\ History!Visible' = next
    BY <2>1 DEF Due, History!Visible
  <2>3. /\ held /\ held' /\ Due \subseteq History!Known(backup) /\ Due \subseteq History!Known(next)
        /\ History!Parsed(backup) /\ History!Parsed(next)
        /\ epc = "building" => Due \subseteq History!Known(snap)
    BY <1>0, <2>1 DEF KeptInv
  <2>4. /\ backup' = backup /\ next' = next /\ snap' = snap /\ epc' = epc /\ file' = next /\ cpc' = "written"
    BY <2>1
  <2>5. CoverInv'
    BY <2>4 DEF CoverInv
  <2>6. (held => /\ Due \subseteq History!Known(backup) /\ Due \subseteq History!Known(next)
                 /\ History!Parsed(backup) /\ History!Parsed(next))'
    BY <2>2, <2>3, <2>4
  <2>7. (Due \subseteq History!Known(History!Visible))'
    BY <2>2, <2>3
  <2>8. (epc = "building" => Due \subseteq History!Known(snap))'
    BY <2>2, <2>3, <2>4
  <2>9. (~held => backup = Absent)' /\ (cpc = "renamed" => file = Absent)'
    BY <2>3, <2>4
  <2>10. (cpc = "written" => file = next \/ (file = Absent /\ Due = {}))'
    BY <2>4
  <2> QED BY <2>5, <2>6, <2>7, <2>8, <2>9, <2>10 DEF KeptInv
<1>11. CASE History!CommitFails
  <2>1. /\ cpc = "renamed" /\ cpc' = "idle" /\ held' = FALSE /\ file' = backup /\ backup' = Absent
        /\ UNCHANGED <<epc, snap, done, evicted, cleared>>
    BY <1>11 DEF History!CommitFails, History!CompactionEnds, History!engineVars, History!historyVars, Lossless
  <2>2. Due' = Due /\ History!Visible' = backup
    BY <1>0, <2>1 DEF Due, History!Visible, KeptInv
  <2> QED BY <1>0, <2>1, <2>2 DEF KeptInv, CoverInv
<1>12. CASE History!RemoveBackup
  <2>1. /\ cpc = "written" /\ cpc' = "idle" /\ held' = FALSE /\ backup' = Absent
        /\ UNCHANGED <<file, epc, snap, done, evicted, cleared>>
    BY <1>12 DEF History!RemoveBackup, History!CompactionEnds, History!engineVars, History!historyVars
  <2>2. Due' = Due /\ History!Visible' = file
    BY <2>1 DEF Due, History!Visible
  <2> QED BY <1>0, <2>1, <2>2 DEF KeptInv, CoverInv
<1>13. CASE History!PowerLoss
  <2>1. /\ file' = History!Visible /\ backup' = Absent /\ held' = FALSE /\ cpc' = "idle" /\ epc' = "idle"
        /\ UNCHANGED <<done, evicted, cleared>>
    BY <1>13 DEF History!PowerLoss, History!Recovered, History!Visible, History!historyVars, Lossless
  <2>2. Due' = Due /\ History!Visible' = History!Visible
    BY <2>1 DEF Due, History!Visible
  <2> QED BY <1>0, <2>1, <2>2 DEF KeptInv, CoverInv
<1>14. CASE UNCHANGED historyvars
  BY <1>0, <1>14 DEF historyvars, KeptInv, CoverInv, Due, History!Visible
<1> QED BY <1>1, <1>2, <1>3, <1>4, <1>5, <1>6, <1>7, <1>8, <1>9, <1>10, <1>11, <1>12, <1>13, <1>14 DEF History!Next

(* Where in addition the mark is never lost for want of memory, power cuts *)
(* no write short and rename replaces a file, compaction deletes no saved  *)
(* turn that the summary does not cover, over any number of compactions,   *)
(* appends from an old copy of the file, failed writes and reboots.        *)
THEOREM SavedIsKept == Lossless => (MemorySpec => []NothingForgotten)
<1> SUFFICES ASSUME Lossless PROVE MemorySpec => []NothingForgotten
  OBVIOUS
<1>1. MemoryInit => KeptInv
  BY KeptInvInit, MemoryAssumption DEF MemoryInit
<1>2. HistoryInv /\ KeptInv /\ [MemoryNext]_allvars => KeptInv'
  <2> SUFFICES ASSUME HistoryInv, KeptInv, [MemoryNext]_allvars PROVE KeptInv'
    OBVIOUS
  <2>1. [History!Next]_historyvars
    BY DEF MemoryNext, RunsFacts, RunsHistory, RunsTasks, allvars
  <2> QED BY <2>1, KeptInvNext, MemoryAssumption DEF LosslessInv
<1>3. KeptInv => NothingForgotten
  BY DEF KeptInv, Due, NothingForgotten, History!NothingForgotten
<1> QED BY <1>1, <1>2, <1>3, HistoryInvHolds, PTL DEF MemorySpec

-----------------------------------------------------------------------------
(***************************************************************************)
(* The queues.                                                             *)
(***************************************************************************)
(* The job of the worker, and the sessions that have a slot.               *)
Working == worker # Tasked!Idle
Held    == {slots[i] : i \in DOMAIN slots} \ {None}

(* A session is in one of three places: the queue, the worker, the sender. *)
QueueInv ==
  /\ queue \in Seq(Sessions) /\ IsInjective(queue)
  /\ adding \in Sessions \cup {None} /\ adding \notin Range(queue)
  /\ worker \in [at : {"idle", "snapshot", "prompt", "llm", "commit", "done"}, sid : Sessions \cup {None}]
  /\ worker.at = "idle" <=> worker.sid = None
  /\ worker.sid \notin Range(queue)
  /\ Working => worker.sid # adding

SlotInv ==
  /\ slots \in [1..(QueueLen + 1) -> Sessions \cup {None}]
  /\ Held = (Range(queue) \cup {worker.sid, adding}) \ {None}
  /\ \A i, k \in DOMAIN slots : i # k /\ slots[i] # None => slots[i] # slots[k]

TasksInv == QueueInv /\ SlotInv

(* The worker is idle exactly when it has no session.                      *)
LEMMA WorkerIs ==
  ASSUME QueueInv PROVE (worker = Tasked!Idle <=> worker.sid = None) /\ (worker = Tasked!Idle <=> worker.at = "idle")
<1>1. worker = [at |-> worker.at, sid |-> worker.sid]
  BY DEF QueueInv
<1> QED BY <1>1 DEF QueueInv, Tasked!Idle

LEMMA TaskConstants ==
  ASSUME MemoryAssumption PROVE QueueLen \in Nat /\ None \notin Sessions
BY DEF MemoryAssumption, Tasked!MemoryTasksAssumption

(* The invariant says what SlotsMatch does of the concatenated jobs.        *)
LEMMA JobsMatch ==
  ASSUME MemoryAssumption, TasksInv PROVE SlotsMatch
<1> DEFINE w == IF worker = Tasked!Idle THEN <<>> ELSE <<worker.sid>>
           a == IF adding = None THEN <<>> ELSE <<adding>>
           qw == IF worker = Tasked!Idle THEN queue ELSE Append(queue, worker.sid)
           qwa == IF adding = None THEN qw ELSE Append(qw, adding)
<1>1. queue \in Seq(Sessions) /\ None \notin Sessions /\ None \notin Range(queue)
  BY TaskConstants, RangeType DEF TasksInv, QueueInv
<1>2. queue \o w = qw
  BY <1>1, WorkerIs DEF TasksInv, QueueInv
<1>3. /\ qw \in Seq(Sessions) /\ IsInjective(qw)
      /\ Range(qw) = (Range(queue) \cup {worker.sid}) \ {None}
  <2>1. CASE worker = Tasked!Idle
    BY <1>1, <2>1, WorkerIs DEF TasksInv, QueueInv
  <2>2. CASE worker # Tasked!Idle
    <3>1. worker.sid \in Sessions /\ worker.sid \notin Range(queue)
      BY <2>2, WorkerIs DEF TasksInv, QueueInv
    <3> QED BY <1>1, <2>2, <3>1, AppendRange DEF TasksInv, QueueInv
  <2> QED BY <2>1, <2>2
<1> HIDE DEF qw
<1>4. qw \o a = qwa
  BY <1>1, <1>3 DEF TasksInv, QueueInv
<1>5. IsInjective(qwa) /\ Range(qwa) = (Range(queue) \cup {worker.sid, adding}) \ {None}
  <2>1. CASE adding = None
    BY <1>3, <2>1
  <2>2. CASE adding # None
    <3>1. adding \in Sessions /\ adding \notin Range(qw)
      BY <1>3, <2>2, WorkerIs DEF TasksInv, QueueInv, Working
    <3>2. IsInjective(Append(qw, adding)) /\ Range(Append(qw, adding)) = Range(qw) \cup {adding}
      BY <1>3, <3>1, AppendRange
    <3> QED BY <1>1, <1>3, <2>2, <3>1, <3>2
  <2> QED BY <2>1, <2>2
<1>6. Tasked!Jobs = qwa
  BY <1>2, <1>4 DEF Tasked!Jobs
<1> HIDE DEF qwa
<1>7. Tasked!IsInjective(Tasked!Jobs) <=> IsInjective(qwa)
  BY <1>6 DEF Tasked!IsInjective, IsInjective
<1>8. Tasked!ToSet(Tasked!Jobs) = Held
  <2>1. Tasked!ToSet(qwa) = Range(qwa)
    BY DEF Tasked!ToSet, Range
  <2> QED BY <1>5, <1>6, <2>1 DEF TasksInv, SlotInv
<1> QED BY <1>5, <1>7, <1>8 DEF SlotsMatch, Tasked!SlotsMatch, Held, TasksInv, SlotInv

LEMMA TasksInvInit ==
  ASSUME MemoryAssumption, Tasked!Init PROVE TasksInv
<1>1. IsInjective(<<>>) /\ Range(<<>>) = {}
  BY DEF IsInjective, Range
<1> QED BY <1>1, TaskConstants DEF Tasked!Init, TasksInv, QueueInv, SlotInv, Held, Working, Tasked!Idle

(* A session that is given back has no slot, the others keep theirs.       *)
LEMMA SlotReleased ==
  ASSUME MemoryAssumption, SlotInv, NEW sid \in Sessions, Tasked!Released(sid)
  PROVE  /\ slots' \in [1..(QueueLen + 1) -> Sessions \cup {None}]
         /\ Held' = Held \ {sid}
         /\ (\A i, k \in DOMAIN slots : i # k /\ slots[i] # None => slots[i] # slots[k])'
<1>1. /\ slots' = [i \in 1..(QueueLen + 1) |-> IF slots[i] = sid THEN None ELSE slots[i]]
      /\ slots \in [1..(QueueLen + 1) -> Sessions \cup {None}]
  BY DEF SlotInv, Tasked!Released
<1>2. Held' = Held \ {sid}
  BY <1>1, TaskConstants DEF Held
<1> QED BY <1>1, <1>2, TaskConstants DEF SlotInv

LEMMA TasksInvNext ==
  ASSUME MemoryAssumption, TasksInv, [Tasked!Next]_taskvars PROVE TasksInv'
<1> USE TaskConstants
<1>1. ASSUME NEW sid \in Sessions, Tasked!Reserve(sid) PROVE TasksInv'
  <2>1. PICK i \in DOMAIN slots : slots[i] = None /\ slots' = [slots EXCEPT ![i] = sid]
    BY <1>1 DEF Tasked!Reserve
  <2>2. sid \notin Held /\ adding = None /\ adding' = sid /\ UNCHANGED <<queue, worker>>
    BY <1>1 DEF Tasked!Reserve, Held
  <2>3. Held' = Held \cup {sid}
    BY <2>1 DEF Held, TasksInv, SlotInv
  <2>4. QueueInv'
    BY <2>2 DEF TasksInv, QueueInv, SlotInv, Working
  <2>5. SlotInv'
    BY <2>1, <2>2, <2>3 DEF TasksInv, SlotInv, Held
  <2> QED BY <2>4, <2>5 DEF TasksInv
<1>2. CASE Tasked!Send
  <2>0. adding \in Sessions /\ adding \notin Range(queue) /\ adding' = None /\ UNCHANGED worker /\ None \notin Range(queue)
    BY <1>2, RangeType DEF Tasked!Send, TasksInv, QueueInv
  <2>1. CASE Len(queue) < QueueLen /\ queue' = Append(queue, adding) /\ UNCHANGED slots
    <3>1. queue' \in Seq(Sessions) /\ IsInjective(queue') /\ Range(queue') = Range(queue) \cup {adding}
      BY <2>0, <2>1, AppendRange DEF TasksInv, QueueInv
    <3>2. worker.sid # adding
      BY <2>0, WorkerIs DEF TasksInv, QueueInv, Working
    <3>3. QueueInv'
      BY <2>0, <3>1, <3>2, WorkerIs DEF TasksInv, QueueInv, Working
    <3>4. SlotInv'
      BY <2>0, <2>1, <3>1 DEF TasksInv, SlotInv, Held
    <3> QED BY <3>3, <3>4 DEF TasksInv
  <2>2. CASE Tasked!Released(adding) /\ UNCHANGED queue
    <3>1. worker.sid # adding
      BY <2>0, WorkerIs DEF TasksInv, QueueInv, Working
    <3>2. QueueInv'
      BY <2>0, <2>2, WorkerIs DEF TasksInv, QueueInv, Working
    <3>3. SlotInv'
      BY <2>0, <2>2, <3>1, SlotReleased DEF TasksInv, SlotInv
    <3> QED BY <3>2, <3>3 DEF TasksInv
  <2> QED BY <1>2, <2>1, <2>2 DEF Tasked!Send
<1>3. CASE Tasked!Take
  <2>1. /\ worker.sid = None /\ queue # <<>> /\ queue' = Tail(queue) /\ UNCHANGED <<slots, adding>>
        /\ worker' = [at |-> "snapshot", sid |-> Head(queue)]
    BY <1>3, WorkerIs DEF Tasked!Take, TasksInv
  <2>2. /\ queue' \in Seq(Sessions) /\ IsInjective(queue') /\ Head(queue) \in Sessions
        /\ Range(queue) = Range(queue') \cup {Head(queue)} /\ Head(queue) \notin Range(queue')
    BY <2>1, TailRange DEF TasksInv, QueueInv
  <2>3. QueueInv'
    BY <2>1, <2>2 DEF TasksInv, QueueInv, Working
  <2>4. Held' = Held /\ worker'.sid = Head(queue)
    BY <2>1 DEF Held
  <2>5. (Range(queue) \cup {worker.sid, adding}) \ {None} = (Range(queue') \cup {Head(queue), adding}) \ {None}
    BY <2>1, <2>2
  <2>6. SlotInv'
    BY <2>1, <2>4, <2>5 DEF TasksInv, SlotInv
  <2> QED BY <2>3, <2>6 DEF TasksInv
<1>4. ASSUME NEW from \in {"snapshot", "prompt", "llm", "commit"}, NEW to \in {"prompt", "llm", "commit", "done"},
             Tasked!Goes(from, to), UNCHANGED <<queue, slots, adding>>
      PROVE  TasksInv'
  <2>1. worker' = [worker EXCEPT !.at = to] /\ worker.at # "idle" /\ worker.sid # None
    BY <1>4 DEF Tasked!Goes, TasksInv, QueueInv
  <2>2. worker'.at = to /\ worker'.sid = worker.sid /\ worker.sid # adding /\ to # "idle"
    BY <2>1, WorkerIs DEF TasksInv, QueueInv, Working
  <2>3. worker' \in [at : {"idle", "snapshot", "prompt", "llm", "commit", "done"}, sid : Sessions \cup {None}]
    BY <2>1 DEF TasksInv, QueueInv
  <2>4. QueueInv'
    BY <1>4, <2>1, <2>2, <2>3 DEF TasksInv, QueueInv, Working
  <2>5. slots' = slots /\ queue' = queue /\ adding' = adding /\ worker'.sid = worker.sid /\ Held' = Held
    BY <1>4, <2>2 DEF Held
  <2>6. SlotInv'
    BY <2>5 DEF TasksInv, SlotInv
  <2> QED BY <2>4, <2>6 DEF TasksInv
<1>5. CASE Tasked!Snapshot \/ Tasked!TalkCompact \/ Tasked!Summarised \/ Tasked!Commit
  BY <1>4, <1>5 DEF Tasked!Snapshot, Tasked!TalkCompact, Tasked!Summarised, Tasked!Commit
<1>6. CASE Tasked!JobEnds
  <2>1. /\ worker.sid \in Sessions /\ adding = None /\ Tasked!Released(worker.sid) /\ worker' = Tasked!Idle
        /\ UNCHANGED <<queue, adding>>
    BY <1>6 DEF Tasked!JobEnds, TasksInv, QueueInv
  <2>2. None \notin Range(queue)
    BY RangeType DEF TasksInv, QueueInv
  <2>3. QueueInv'
    BY <2>1, <2>2 DEF TasksInv, QueueInv, Working, Tasked!Idle
  <2>4. SlotInv'
    BY <2>1, SlotReleased DEF TasksInv, QueueInv, SlotInv, Tasked!Idle
  <2> QED BY <2>3, <2>4 DEF TasksInv
<1>7. CASE Tasked!Observe \/ Tasked!TakeTurn \/ Tasked!TalkExtract \/ Tasked!Extracted \/ UNCHANGED taskvars
  <2>1. UNCHANGED <<queue, slots, adding, worker>>
    BY <1>7 DEF Tasked!Observe, Tasked!TakeTurn, Tasked!TalkExtract, Tasked!Extracted, taskvars
  <2> QED BY <2>1 DEF TasksInv, QueueInv, SlotInv, Held, Working
<1> QED BY <1>1, <1>2, <1>3, <1>5, <1>6, <1>7 DEF Tasked!Next

(* A session has a slot of s_inflight exactly while it is being enqueued,  *)
(* is in the queue or is compacted, and one at most: whatever the queue    *)
(* refuses and however the tasks interleave, no slot leaks and no session  *)
(* has two jobs.                                                           *)
THEOREM SlotForEachJob == MemorySpec => []SlotsMatch
<1>1. MemoryInit => TasksInv
  BY TasksInvInit, MemoryAssumption DEF MemoryInit
<1>2. TasksInv /\ [MemoryNext]_allvars => TasksInv'
  <2> SUFFICES ASSUME TasksInv, [MemoryNext]_allvars PROVE TasksInv'
    OBVIOUS
  <2>1. [Tasked!Next]_taskvars
    BY DEF MemoryNext, RunsFacts, RunsHistory, RunsTasks, allvars
  <2> QED BY <2>1, TasksInvNext, MemoryAssumption
<1>3. TasksInv => SlotsMatch
  BY JobsMatch, MemoryAssumption
<1> QED BY <1>1, <1>2, <1>3, PTL DEF MemorySpec

-----------------------------------------------------------------------------
USE MaxItemsAssumption, LongTermStoreAssumption

(* An array the code may have on file. *)
Sorted == {a \in Arrays : Increasing(a)}

(* The items of an array have ids. *)
LEMMA IdType ==
  ASSUME NEW a \in Sorted
  PROVE  \A i \in DOMAIN a : a[i] \in Item /\ a[i].id \in Nat
<1>1. a \in Seq(Item)
  BY DEF Sorted, Arrays
<1>2. \A i \in DOMAIN a : a[i] \in Item
  BY <1>1
<1>3. \A e \in Item : e.id \in Nat
  BY DEF Item
<1> QED BY <1>2, <1>3

(* In an array whose ids increase, the last id is the largest.             *)
LEMMA NextIdIsNew ==
  ASSUME NEW a \in Sorted
  PROVE  NextId(a) \in Nat /\ \A i \in DOMAIN a : a[i].id < NextId(a)
<1>1. a \in Seq(Item) /\ \A i \in DOMAIN a : a[i].id \in Nat
  BY IdType DEF Sorted, Arrays
<1>2. CASE a = <<>>
  BY <1>2 DEF NextId
<1>3. CASE a # <<>>
  <2>1. Len(a) \in DOMAIN a /\ Len(a) \in Nat /\ DOMAIN a = 1..Len(a)
    BY <1>1, <1>3
  <2>2. \A i \in DOMAIN a : a[i].id <= a[Len(a)].id
    BY <1>1, <2>1 DEF Sorted, Increasing
  <2>3. a[Len(a)].id \in Ids(a) /\ \A i \in Ids(a) : i <= a[Len(a)].id
    BY <2>1, <2>2 DEF Ids
  <2>4. PICK m \in Ids(a) : NextId(a) = 1 + m /\ \A i \in Ids(a) : i <= m
    BY <1>3, <2>3 DEF NextId
  <2>5. m \in Nat /\ \A i \in DOMAIN a : a[i].id <= m
    BY <2>4, <1>1 DEF Ids
  <2> QED BY <2>4, <2>5, <1>1
<1> QED BY <1>2, <1>3

(* Evicting from the front keeps the order and leaves room for one item.   *)
LEMMA RoomMade ==
  ASSUME NEW a \in Sorted
  PROVE  /\ MakeRoom(a) \in Sorted
         /\ Len(a) <= MaxItems => Len(MakeRoom(a)) < MaxItems
<1>1. a \in Seq(Item) /\ Len(a) \in Nat /\ DOMAIN a = 1..Len(a)
  BY DEF Sorted, Arrays
<1>2. CASE Len(a) < MaxItems
  BY <1>1, <1>2 DEF MakeRoom
<1>3. CASE Len(a) >= MaxItems
  <2> DEFINE m == Len(a) - MaxItems + 2
             s == SubSeq(a, m, Len(a))
  <2>1. m \in 2..(Len(a) + 1) /\ MakeRoom(a) = s
    BY <1>1, <1>3 DEF MakeRoom
  <2>2. /\ s \in Seq(Item) /\ Len(s) = MaxItems - 1 /\ DOMAIN s = 1..(MaxItems - 1)
        /\ \A i \in 1..(MaxItems - 1) : s[i] = a[m + i - 1]
    <3>1. \A i \in m..Len(a) : a[i] \in Item
      BY <1>1, <2>1
    <3>2. s = [i \in 1..(Len(a) - m + 1) |-> a[m + i - 1]] /\ Len(a) - m + 1 = MaxItems - 1
      BY <1>1, <2>1, <1>3
    <3>3. \A i \in 1..(MaxItems - 1) : m + i - 1 \in m..Len(a)
      BY <1>1, <2>1, <1>3
    <3> QED BY <3>1, <3>2, <3>3, <1>1, <2>1, <1>3
  <2>3. Increasing(s)
    <3> SUFFICES ASSUME NEW i \in DOMAIN s, NEW k \in DOMAIN s, i < k
                 PROVE  s[i].id < s[k].id
      BY DEF Increasing
    <3>1. m + i - 1 \in DOMAIN a /\ m + k - 1 \in DOMAIN a /\ m + i - 1 < m + k - 1
      BY <1>1, <1>3, <2>1, <2>2
    <3>2. a[m + i - 1].id < a[m + k - 1].id
      BY <3>1 DEF Sorted, Increasing
    <3>3. i \in 1..(MaxItems - 1) /\ k \in 1..(MaxItems - 1)
      BY <2>2
    <3>4. s[i] = a[m + i - 1] /\ s[k] = a[m + k - 1]
      BY <2>2, <3>3
    <3> HIDE DEF s, m
    <3> QED BY <3>2, <3>4
  <2> HIDE DEF s, m
  <2> QED BY <2>1, <2>2, <2>3, <1>1 DEF Sorted, Arrays
<1> QED BY <1>1, <1>2, <1>3

(* claw_memory_store adds an item whose id is larger than the others.      *)
LEMMA StoredSorted ==
  ASSUME NEW a \in Sorted, NEW x \in Texts
  PROVE  /\ Stored(a, x) \in Sorted
         /\ Len(a) <= MaxItems => Len(Stored(a, x)) <= MaxItems
<1> DEFINE r == MakeRoom(a)
           e == [id |-> NextId(r), text |-> x]
           s == Append(r, e)
<1>1. r \in Sorted /\ (Len(a) <= MaxItems => Len(r) < MaxItems)
  BY RoomMade
<1>2. NextId(r) \in Nat /\ \A i \in DOMAIN r : r[i].id < NextId(r)
  BY <1>1, NextIdIsNew
<1>3. r \in Seq(Item) /\ Len(r) \in Nat /\ DOMAIN r = 1..Len(r) /\ e \in Item /\ e.id = NextId(r)
  BY <1>1, <1>2 DEF Sorted, Arrays, Item
<1> HIDE DEF r, e
<1>4. /\ s \in Seq(Item) /\ Len(s) = Len(r) + 1 /\ DOMAIN s = 1..(Len(r) + 1)
      /\ s[Len(r) + 1] = e /\ \A i \in 1..Len(r) : s[i] = r[i]
  BY <1>3
<1>5. Increasing(s)
  <2> SUFFICES ASSUME NEW i \in DOMAIN s, NEW k \in DOMAIN s, i < k
               PROVE  s[i].id < s[k].id
    BY DEF Increasing
  <2>1. CASE k = Len(r) + 1
    BY <2>1, <1>2, <1>3, <1>4
  <2>2. CASE k \in 1..Len(r)
    BY <2>2, <1>1, <1>3, <1>4 DEF Sorted, Increasing
  <2> QED BY <2>1, <2>2, <1>3, <1>4
<1>6. Stored(a, x) = s
  BY DEF Stored, r, e
<1> HIDE DEF s
<1> QED BY <1>1, <1>3, <1>4, <1>5, <1>6, MaxItemsAssumption DEF Sorted, Arrays

(* An id that is in the array has a place there.                           *)
LEMMA PlaceFound ==
  ASSUME NEW a \in Sorted, NEW id \in Ids(a)
  PROVE  Place(a, id) \in DOMAIN a /\ a[Place(a, id)].id = id
<1>1. PICK i \in DOMAIN a : a[i].id = id
  BY DEF Ids
<1>2. \A k \in 1..(i - 1) : k \in DOMAIN a /\ k < i
  BY DEF Sorted, Arrays
<1>3. \A k \in 1..(i - 1) : a[k].id < a[i].id
  BY <1>2 DEF Sorted, Increasing
<1>4. \A k \in DOMAIN a : a[k].id \in Nat
  BY IdType
<1>5. \A k \in 1..(i - 1) : a[k].id # id
  BY <1>1, <1>2, <1>3, <1>4
<1> QED BY <1>1, <1>5 DEF Place

(* claw_memory_update leaves the ids alone.                                *)
LEMMA UpdatedSorted ==
  ASSUME NEW a \in Sorted, NEW id \in Ids(a), NEW x \in Texts
  PROVE  Updated(a, id, x) \in Sorted /\ Len(Updated(a, id, x)) = Len(a)
<1> DEFINE p == Place(a, id)
           u == Updated(a, id, x)
<1>1. p \in DOMAIN a
  BY PlaceFound
<1>2. a \in Seq(Item) /\ Len(a) \in Nat /\ DOMAIN a = 1..Len(a) /\ \A i \in DOMAIN a : a[i] \in Item
  BY DEF Sorted, Arrays
<1>3. u = [a EXCEPT ![p] = [a[p] EXCEPT !.text = x]]
  BY DEF Updated
<1> DEFINE e == [a[p] EXCEPT !.text = x]
<1>4. e \in Item /\ e.id = a[p].id
  BY <1>1, <1>2 DEF Item
<1> HIDE DEF p, u, e
<1>5. u \in Seq(Item) /\ Len(u) = Len(a) /\ DOMAIN u = DOMAIN a
  BY <1>1, <1>2, <1>3, <1>4 DEF e
<1>6. \A i \in DOMAIN a : u[i].id = a[i].id
  BY <1>1, <1>2, <1>3, <1>4 DEF e
<1>7. Increasing(u)
  BY <1>5, <1>6 DEF Increasing, Sorted
<1> QED BY <1>5, <1>7 DEF Sorted, Arrays, u

(* claw_memory_forget removes one item and keeps the order of the others.  *)
LEMMA ForgottenSorted ==
  ASSUME NEW a \in Sorted, NEW id \in Ids(a)
  PROVE  Forgotten(a, id) \in Sorted /\ Len(Forgotten(a, id)) = Len(a) - 1
<1> DEFINE p == Place(a, id)
           f == Forgotten(a, id)
           n == Len(a)
<1>1. p \in 1..n /\ n \in Nat
  BY PlaceFound DEF Sorted, Arrays
<1>2. a \in Seq(Item) /\ DOMAIN a = 1..n /\ \A i \in 1..n : a[i] \in Item
  BY DEF Sorted, Arrays
<1>3. f = SubSeq(a, 1, p - 1) \o SubSeq(a, p + 1, n)
  BY DEF Forgotten, RemoveAt
<1> HIDE DEF p, f, n
<1> DEFINE l == SubSeq(a, 1, p - 1)
           r == SubSeq(a, p + 1, n)
<1>4. l \in Seq(Item) /\ Len(l) = p - 1 /\ \A i \in 1..(p - 1) : l[i] = a[i]
  BY <1>1, <1>2
<1>5. r \in Seq(Item) /\ Len(r) = n - p /\ \A i \in 1..(n - p) : r[i] = a[p + i]
  <2>1. \A i \in (p + 1)..n : a[i] \in Item
    BY <1>1, <1>2
  <2>2. r = [i \in 1..(n - (p + 1) + 1) |-> a[p + 1 + i - 1]] /\ n - (p + 1) + 1 = n - p
    BY <1>1, <1>2
  <2>3. \A i \in 1..(n - p) : p + 1 + i - 1 = p + i /\ p + i \in (p + 1)..n
    BY <1>1
  <2>4. n - p \in Nat /\ r = [i \in 1..(n - p) |-> a[p + i]]
    BY <2>2, <2>3, <1>1
  <2> HIDE DEF r
  <2>5. r \in [1..(n - p) -> Item]
    BY <2>1, <2>3, <2>4
  <2>6. r \in Seq(Item) /\ Len(r) = n - p
    BY <2>4, <2>5, <1>1
  <2> QED BY <2>4, <2>6
<1> HIDE DEF l, r
<1>6. f \in Seq(Item) /\ Len(f) = n - 1 /\ DOMAIN f = 1..(n - 1)
  BY <1>1, <1>3, <1>4, <1>5 DEF l, r
<1>7. \A i \in 1..(n - 1) : f[i] = a[IF i < p THEN i ELSE i + 1]
  <2> SUFFICES ASSUME NEW i \in 1..(n - 1) PROVE f[i] = a[IF i < p THEN i ELSE i + 1]
    OBVIOUS
  <2>0. f = l \o r
    BY <1>3 DEF l, r
  <2>1. CASE i < p
    BY <2>0, <2>1, <1>1, <1>4, <1>5
  <2>2. CASE ~(i < p)
    <3>1. i - (p - 1) \in 1..(n - p)
      BY <2>2, <1>1
    <3>2. f[i] = r[i - (p - 1)]
      BY <2>0, <2>2, <3>1, <1>1, <1>4, <1>5
    <3>3. r[i - (p - 1)] = a[p + (i - (p - 1))] /\ p + (i - (p - 1)) = i + 1
      BY <3>1, <1>5, <1>1
    <3> QED BY <3>2, <3>3, <2>2
  <2> QED BY <2>1, <2>2
<1>8. Increasing(f)
  <2> SUFFICES ASSUME NEW i \in 1..(n - 1), NEW k \in 1..(n - 1), i < k
               PROVE  f[i].id < f[k].id
    BY <1>6 DEF Increasing
  <2> DEFINE g == IF i < p THEN i ELSE i + 1
             h == IF k < p THEN k ELSE k + 1
  <2>1. g \in 1..n /\ h \in 1..n /\ g < h
    BY <1>1
  <2>2. f[i] = a[g] /\ f[k] = a[h]
    BY <1>7
  <2> HIDE DEF g, h
  <2> QED BY <2>1, <2>2, <1>2 DEF Sorted, Increasing
<1> QED BY <1>6, <1>8 DEF Sorted, Arrays, f, n

(* Every edit keeps the ids increasing and the array within its limit.     *)
LEMMA EditedSorted ==
  ASSUME NEW a \in Sorted, NEW o \in Ops, Writes(o, a)
  PROVE  /\ Edited(o, a) \in Sorted
         /\ Len(a) <= MaxItems => Len(Edited(o, a)) <= MaxItems
<1>0. Len(a) \in Nat /\ MaxItems \in Nat
  BY MaxItemsAssumption DEF Sorted, Arrays
<1>1. CASE o.kind = "store"
  <2>1. o.text \in Texts
    BY <1>1 DEF Ops, StoreOps, OpsOn
  <2> QED BY <1>1, <2>1, StoredSorted DEF Edited
<1>2. CASE o.kind = "update"
  <2>1. o.text \in Texts /\ o.id \in Ids(a)
    BY <1>2 DEF Ops, StoreOps, OpsOn, Writes
  <2> QED BY <1>0, <1>2, <2>1, UpdatedSorted DEF Edited
<1>3. CASE o.kind = "forget"
  <2>1. o.id \in Ids(a)
    BY <1>3 DEF Writes
  <2> QED BY <1>0, <1>3, <2>1, ForgottenSorted DEF Edited
<1>4. CASE o.kind \notin {"store", "update", "forget"}
  BY <1>4 DEF Edited
<1> QED BY <1>1, <1>2, <1>3, <1>4

-----------------------------------------------------------------------------
(* What every version of the file, and every copy in memory, is.           *)
OnFile == {a \in Sorted : Len(a) <= MaxItems}

FileInv ==
  /\ main \in OnFile \cup {Absent, Torn} /\ bak \in OnFile \cup {Absent, Torn}
  /\ arr \in [Tasks -> OnFile]
TaskInv ==
  /\ pc \in [Tasks -> {"idle", "edited", "write", "unlink"}]
  /\ op \in [Tasks -> Ops \cup {NoOp}]
  /\ corrupt \in BOOLEAN /\ fileMutex \in Tasks \cup {None}
  /\ \A t \in Tasks : op[t].kind = "store" => arr[t] # <<>>
  /\ \A t \in Tasks : pc[t] \in {"write", "unlink"} => fileMutex = t
StoreInv == FileInv /\ TaskInv

LEMMA EmptyOnFile == <<>> \in OnFile
BY DEF OnFile, Sorted, Arrays, Increasing

LEMMA StoreInvInit == Init => StoreInv
<1> SUFFICES ASSUME Init PROVE StoreInv
  OBVIOUS
<1>1. FileInv
  BY EmptyOnFile DEF Init, FileInv
<1>2. NoOp.kind = "none"
  BY DEF NoOp
<1>3. TaskInv
  BY <1>2 DEF Init, TaskInv
<1> QED BY <1>1, <1>3 DEF StoreInv

(* What a task loads, and what it makes of it.                             *)
LEMMA BeginInv ==
  ASSUME StoreInv, NEW t \in Tasks, NEW o \in Ops, Begin(t, o)
  PROVE  StoreInv'
<1>1. PICK a \in {<<>>, IF main \in {Absent, Torn} THEN <<>> ELSE main} :
        /\ Load(a)
        /\ IF Writes(o, a)
             THEN /\ pc' = [pc EXCEPT ![t] = "edited"]
                  /\ op' = [op EXCEPT ![t] = o]
                  /\ arr' = [arr EXCEPT ![t] = Edited(o, a)]
             ELSE UNCHANGED <<pc, op, arr>>
  BY DEF Begin
<1>2. /\ bak' = bak /\ fileMutex' = fileMutex
      /\ pc[t] = "idle" /\ fileMutex = None
  BY DEF Begin
<1>3. a \in OnFile
  BY <1>1, EmptyOnFile DEF StoreInv, FileInv
<1>4. (main' = main \/ main' = Absent) /\ corrupt' \in BOOLEAN
  BY <1>1 DEF Load, StoreInv, TaskInv
<1>5. CASE Writes(o, a)
  <2>1. Edited(o, a) \in OnFile
    BY <1>3, <1>5, EditedSorted DEF OnFile
  <2>2. o.kind = "store" => Edited(o, a) # <<>>
    <3>1. ASSUME o.kind = "store" PROVE Edited(o, a) # <<>>
      <4>1. Edited(o, a) = Append(MakeRoom(a), [id |-> NextId(MakeRoom(a)), text |-> o.text])
        BY <3>1 DEF Edited, Stored
      <4>2. MakeRoom(a) \in Seq(Item)
        BY <1>3, RoomMade DEF OnFile, Sorted, Arrays
      <4> QED BY <4>1, <4>2
    <3> QED BY <3>1
  <2>3. /\ pc' = [pc EXCEPT ![t] = "edited"] /\ op' = [op EXCEPT ![t] = o]
        /\ arr' = [arr EXCEPT ![t] = Edited(o, a)]
    BY <1>1, <1>5
  <2>4. FileInv'
    BY <1>2, <1>4, <2>1, <2>3 DEF StoreInv, FileInv
  <2>5. TaskInv'
    <3>1. \A u \in Tasks : op'[u].kind = "store" => arr'[u] # <<>>
      BY <2>2, <2>3 DEF StoreInv, TaskInv, FileInv
    <3>2. \A u \in Tasks : pc'[u] \in {"write", "unlink"} => fileMutex' = u
      BY <1>2, <2>3 DEF StoreInv, TaskInv
    <3>3. op' \in [Tasks -> Ops \cup {NoOp}] /\ pc' \in [Tasks -> {"idle", "edited", "write", "unlink"}]
      BY <2>3 DEF StoreInv, TaskInv
    <3> QED BY <1>2, <1>4, <3>1, <3>2, <3>3 DEF StoreInv, TaskInv
  <2> QED BY <2>4, <2>5 DEF StoreInv
<1>6. CASE ~Writes(o, a)
  <2>1. pc' = pc /\ op' = op /\ arr' = arr
    BY <1>1, <1>6
  <2> QED BY <1>2, <1>4, <2>1 DEF StoreInv, FileInv, TaskInv
<1> QED BY <1>5, <1>6

(* A task that returns keeps the invariant, if the files do.               *)
LEMMA ReturnInv ==
  ASSUME StoreInv, NEW t \in Tasks, Return(t),
         main' \in OnFile \cup {Absent, Torn}, bak' \in OnFile \cup {Absent, Torn},
         corrupt' = corrupt, fileMutex' = fileMutex \/ (fileMutex' = None /\ fileMutex = t),
         pc[t] \in {"write", "unlink"} \/ fileMutex' = fileMutex
  PROVE  StoreInv'
<1>1. /\ pc' = [pc EXCEPT ![t] = "idle"] /\ op' = [op EXCEPT ![t] = NoOp]
      /\ arr' = [arr EXCEPT ![t] = <<>>]
  BY DEF Return
<1>3. FileInv'
  BY <1>1, EmptyOnFile DEF StoreInv, FileInv
<1>4. TaskInv'
  <2>1. NoOp.kind = "none"
    BY DEF NoOp
  <2>2. op' \in [Tasks -> Ops \cup {NoOp}] /\ pc' \in [Tasks -> {"idle", "edited", "write", "unlink"}]
    BY <1>1 DEF StoreInv, TaskInv
  <2>3. \A u \in Tasks : op'[u].kind = "store" => arr'[u] # <<>>
    BY <1>1, <2>1 DEF StoreInv, TaskInv, FileInv
  <2>4. \A u \in Tasks : pc'[u] \in {"write", "unlink"} => fileMutex' = u
    BY <1>1 DEF StoreInv, TaskInv
  <2> QED BY <2>2, <2>3, <2>4 DEF StoreInv, TaskInv
<1> QED BY <1>3, <1>4 DEF StoreInv

LEMMA StoreInvNext == StoreInv /\ [Next]_vars => StoreInv'
<1> SUFFICES ASSUME StoreInv, [Next]_vars PROVE StoreInv'
  OBVIOUS
<1>1. CASE PowerLoss
  <2>1. PICK m \in {main, Torn} : main' = Recovered(m, bak)
    BY <1>1 DEF PowerLoss
  <2>2. main' \in OnFile \cup {Absent, Torn}
    BY <2>1 DEF Recovered, StoreInv, FileInv
  <2>4. /\ bak' = Absent /\ fileMutex' = None /\ corrupt' = corrupt
        /\ pc' = [t \in Tasks |-> "idle"] /\ op' = [t \in Tasks |-> NoOp]
        /\ arr' = [t \in Tasks |-> <<>>]
    BY <1>1 DEF PowerLoss
  <2>5. NoOp.kind = "none"
    BY DEF NoOp
  <2> QED BY <2>2, <2>4, <2>5, EmptyOnFile DEF StoreInv, FileInv, TaskInv
<1>2. ASSUME NEW t \in Tasks, Step(t) PROVE StoreInv'
  <2>1. ASSUME NEW o \in Ops, Begin(t, o) PROVE StoreInv'
    BY <2>1, BeginInv
  <2>3. CASE SaveGivesUp(t)
    <3>1. Return(t) /\ main' = main /\ bak' = bak /\ corrupt' = corrupt /\ fileMutex' = fileMutex
      BY <2>3 DEF SaveGivesUp
    <3> QED BY <3>1, ReturnInv DEF StoreInv, FileInv
  <2>4. CASE BackUp(t)
    <3>1. FileInv'
      BY <2>4 DEF BackUp, StoreInv, FileInv
    <3>2. TaskInv'
      BY <2>4 DEF BackUp, StoreInv, TaskInv
    <3> QED BY <3>1, <3>2 DEF StoreInv
  <2>5. CASE WriteFile(t)
    <3>1. FileInv'
      BY <2>5 DEF WriteFile, StoreInv, FileInv
    <3>2. TaskInv'
      BY <2>5 DEF WriteFile, StoreInv, TaskInv
    <3> QED BY <3>1, <3>2 DEF StoreInv
  <2>6. CASE WriteFileFails(t)
    <3>1. Return(t) /\ main' = bak /\ bak' = Absent /\ corrupt' = corrupt /\ fileMutex' = None /\ pc[t] = "write"
      BY <2>6 DEF WriteFileFails, RolledBack
    <3>2. fileMutex = t
      BY <3>1 DEF StoreInv, TaskInv
    <3>3. main' \in OnFile \cup {Absent, Torn} /\ bak' \in OnFile \cup {Absent, Torn}
      BY <3>1 DEF StoreInv, FileInv
    <3> QED BY <3>1, <3>2, <3>3, ReturnInv
  <2>7. CASE RemoveBackup(t)
    <3>1. /\ Return(t) /\ main' = main /\ bak' \in {bak, Absent} /\ corrupt' = corrupt
          /\ fileMutex' = None /\ pc[t] = "unlink"
      BY <2>7 DEF RemoveBackup
    <3>2. fileMutex = t
      BY <3>1 DEF StoreInv, TaskInv
    <3>3. main' \in OnFile \cup {Absent, Torn} /\ bak' \in OnFile \cup {Absent, Torn}
      BY <3>1 DEF StoreInv, FileInv
    <3> QED BY <3>1, <3>2, <3>3, ReturnInv
  <2>8. CASE ClearLongTerm(t)
    BY <2>8 DEF ClearLongTerm, StoreInv, FileInv, TaskInv
  <2> QED BY <1>2, <2>1, <2>3, <2>4, <2>5, <2>6, <2>7, <2>8 DEF Step
<1>3. CASE UNCHANGED vars
  BY <1>3 DEF vars, StoreInv, FileInv, TaskInv
<1> QED BY <1>1, <1>2, <1>3 DEF Next

(* Both files and every copy in memory hold a well-formed array of at most *)
(* LT_MAX_ITEMS items (or, for a file, nothing or a torn write), and a     *)
(* task between two file operations of lt_save holds file_mutex.           *)
THEOREM StoreTypeCorrect == Spec => []TypeOK
<1>1. StoreInv => TypeOK
  BY DEF StoreInv, FileInv, TaskInv, TypeOK, OnFile, Sorted
<1> QED BY <1>1, StoreInvInit, StoreInvNext, PTL DEF Spec

(* Whichever tasks write, and whatever fails (a write, a removal, the      *)
(* memory for a buffer, the power), the ids in the file, in its backup and *)
(* in the arrays about to be written strictly increase: lt_next_id.        *)
THEOREM IdsAlwaysIncrease == Spec => []IdsIncrease
<1>1. StoreInv => IdsIncrease
  <2> SUFFICES ASSUME StoreInv PROVE IdsIncrease
    OBVIOUS
  <2>1. \A a \in OnFile : Increasing(a)
    BY DEF OnFile, Sorted
  <2> HIDE DEF Increasing, OnFile
  <2> QED BY <2>1 DEF StoreInv, FileInv, IdsIncrease
<1> QED BY <1>1, StoreInvInit, StoreInvNext, PTL DEF Spec

-----------------------------------------------------------------------------
(* Where the file, its backup and the pending array are while one task     *)
(* saves and no write is torn.                                             *)
Pending(t) == op[t] \in Ops /\ Writes(op[t], Visible) /\ arr[t] = Edited(op[t], Visible)

SaveInv ==
  /\ main # Torn /\ bak # Torn
  /\ \A t \in Tasks :
       /\ pc[t] \in {"idle", "edited"} => bak = Absent
       /\ pc[t] \in {"edited", "write"} => Pending(t)
       /\ pc[t] = "write" => main = Absent
       /\ pc[t] = "unlink" => main # Absent

DoneOp == [NoOp EXCEPT !.kind = "done"]

(* The operators of the abstract store are those of the code.              *)
LEMMA SameItems ==
  ASSUME NEW o, NEW a
  PROVE  /\ Store!Writes(o, a) = Writes(o, a) /\ Store!Edited(o, a) = Edited(o, a)
         /\ Store!Ops = Ops /\ Store!NoOp = NoOp /\ Store!Done = DoneOp
<1>1. /\ Store!Ids(a) = Ids(a) /\ Store!MakeRoom(a) = MakeRoom(a)
      /\ Store!Place(a, o.id) = Place(a, o.id)
  BY DEF Store!Ids, Ids, Store!MakeRoom, MakeRoom, Store!Place, Place
<1>2. Store!NextId(MakeRoom(a)) = NextId(MakeRoom(a))
  BY DEF Store!NextId, NextId, Store!Ids, Ids
<1>3. Store!Stored(a, o.text) = Stored(a, o.text)
  BY <1>1, <1>2 DEF Store!Stored, Stored
<1>4. Store!Updated(a, o.id, o.text) = Updated(a, o.id, o.text)
  BY <1>1 DEF Store!Updated, Updated
<1>5. Store!Forgotten(a, o.id) = Forgotten(a, o.id)
  BY <1>1 DEF Store!Forgotten, Forgotten, Store!RemoveAt, RemoveAt
<1>6. Store!Writes(o, a) = Writes(o, a)
  BY <1>1 DEF Store!Writes, Writes
<1>7. Store!Edited(o, a) = Edited(o, a)
  BY <1>3, <1>4, <1>5 DEF Store!Edited, Edited
<1>8. Store!Ops = Ops
  BY DEF Store!Ops, Ops, Store!StoreOps, StoreOps, Store!OpsOn, OpsOn
<1>9. Store!NoOp = NoOp /\ Store!Done = DoneOp
  BY DEF Store!NoOp, NoOp, Store!Done, DoneOp
<1> QED BY <1>6, <1>7, <1>8, <1>9

(* The three kinds of values of Call differ. *)
LEMMA OpKinds ==
  /\ NoOp \notin Ops /\ DoneOp \notin Ops /\ NoOp # DoneOp
  /\ NoOp.kind = "none" /\ DoneOp.kind = "done"
<1>1. NoOp.kind = "none" /\ DoneOp.kind = "done"
  BY DEF NoOp, DoneOp
<1>2. \A o \in Ops : o.kind \in {"store", "update", "forget", "recall"}
  BY DEF Ops, StoreOps, OpsOn
<1> QED BY <1>1, <1>2

svars == <<Visible, Call, boot>>

(* One task, faults that lt_save rolls back: the invariant is kept, and    *)
(* each step is a step of the store.                                       *)
LEMMA SaveStep ==
  ASSUME \A t, u \in Tasks : t = u, Faults \subseteq {"print", "write"},
         StoreInv, SaveInv, [Next]_vars
  PROVE  SaveInv' /\ [Store!Next]_svars
<1>0. "read" \notin Faults /\ "unlink" \notin Faults /\ "torn" \notin Faults
  OBVIOUS
<1>1. CASE PowerLoss
  <2>1. /\ main' = Recovered(main, bak) /\ bak' = Absent /\ pc' = [t \in Tasks |-> "idle"]
        /\ boot' = boot + 1
    BY <1>0, <1>1 DEF PowerLoss
  <2>2. Visible' = Visible
    BY <2>1 DEF Visible, Recovered
  <2>3. Call' = [t \in Tasks |-> NoOp]
    BY <2>1 DEF Call
  <2>4. Store!PowerLoss
    BY <2>1, <2>2, <2>3, SameItems DEF Store!PowerLoss
  <2>5. SaveInv'
    BY <2>1 DEF SaveInv, Recovered
  <2> QED BY <2>4, <2>5 DEF Store!Next
<1>2. ASSUME NEW t \in Tasks, Step(t) PROVE SaveInv' /\ [Store!Next]_svars
  <2>0. Tasks = {t} /\ pc \in [Tasks -> {"idle", "edited", "write", "unlink"}]
        /\ op \in [Tasks -> Ops \cup {NoOp}] /\ arr \in [Tasks -> OnFile]
    BY DEF StoreInv, TaskInv, FileInv
  <2> DEFINE Sees(p, o) == IF p = "idle" THEN NoOp ELSE IF p = "unlink" THEN DoneOp ELSE o
  <2>c. Call = [u \in Tasks |-> Sees(pc[t], op[t])] /\ Call' = [u \in Tasks |-> Sees(pc'[t], op'[t])]
    BY <2>0 DEF Call, DoneOp
  <2> HIDE DEF Sees
  <2>r. ASSUME Visible' = Visible, boot' = boot, pc'[t] = "idle" PROVE Store!Return(t)
    <3>1. Call' = [Call EXCEPT ![t] = NoOp]
      BY <2>0, <2>c, <2>r DEF Sees
    <3> QED BY <2>r, <3>1, SameItems DEF Store!Return
  <2>s. ASSUME Store!Return(t) PROVE [Store!Next]_svars
    BY <2>s DEF Store!Next
  <2>1. ASSUME NEW o \in Ops, Begin(t, o) PROVE SaveInv' /\ [Store!Next]_svars
    <3>1. PICK a \in {<<>>, IF main \in {Absent, Torn} THEN <<>> ELSE main} :
            /\ Load(a)
            /\ IF Writes(o, a)
                 THEN /\ pc' = [pc EXCEPT ![t] = "edited"]
                      /\ op' = [op EXCEPT ![t] = o]
                      /\ arr' = [arr EXCEPT ![t] = Edited(o, a)]
                 ELSE UNCHANGED <<pc, op, arr>>
      BY <2>1 DEF Begin
    <3>2. pc[t] = "idle" /\ bak' = bak /\ bak = Absent /\ boot' = boot
      BY <2>1 DEF Begin, SaveInv
    <3>3. a = Visible /\ main' = main
      BY <1>0, <3>1, <3>2 DEF Load, SaveInv, Visible
    <3>4. Visible' = Visible
      BY <3>2, <3>3 DEF Visible
    <3>5. CASE Writes(o, a)
      <4>1. pc'[t] = "edited" /\ op'[t] = o /\ arr'[t] = Edited(o, Visible)
        BY <2>0, <3>1, <3>3, <3>5
      <4>2. Pending(t)'
        BY <3>3, <3>4, <3>5, <4>1 DEF Pending
      <4>3. Call[t] = NoOp /\ Call' = [Call EXCEPT ![t] = o]
        BY <2>0, <2>c, <3>2, <4>1 DEF Sees
      <4>4. Store!Begin(t, o)
        BY <3>2, <3>3, <3>4, <3>5, <4>3, SameItems DEF Store!Begin
      <4>5. SaveInv'
        BY <2>0, <3>2, <3>3, <3>4, <4>1, <4>2 DEF SaveInv
      <4> QED BY <4>4, <4>5, SameItems DEF Store!Next
    <3>6. CASE ~Writes(o, a)
      <4>1. Call' = Call
        BY <2>c, <3>1, <3>6
      <4> QED BY <2>0, <3>1, <3>2, <3>3, <3>4, <3>6, <4>1 DEF SaveInv, svars
    <3> QED BY <3>5, <3>6
  <2>2. CASE SaveGivesUp(t)
    <3>1. main' = main /\ bak' = bak /\ boot' = boot /\ pc[t] = "edited" /\ pc'[t] = "idle"
      BY <2>0, <2>2 DEF SaveGivesUp, Return
    <3>2. Visible' = Visible
      BY <3>1 DEF Visible
    <3>3. SaveInv'
      BY <2>0, <3>1 DEF SaveInv
    <3> QED BY <2>r, <2>s, <3>1, <3>2, <3>3
  <2>3. CASE BackUp(t)
    <3>1. /\ bak' = main /\ main' = Absent /\ op' = op /\ arr' = arr /\ boot' = boot
          /\ pc[t] = "edited" /\ pc'[t] = "write"
      BY <2>0, <2>3 DEF BackUp
    <3>2. Visible' = Visible /\ Pending(t)
      BY <3>1 DEF SaveInv, Visible
    <3>3. Pending(t)'
      BY <3>1, <3>2 DEF Pending
    <3>4. Call' = Call
      BY <2>c, <3>1 DEF Sees
    <3>5. SaveInv'
      BY <2>0, <3>1, <3>2, <3>3 DEF SaveInv
    <3> QED BY <3>1, <3>2, <3>4, <3>5 DEF svars
  <2>4. CASE WriteFile(t)
    <3>1. main' = arr[t] /\ bak' = bak /\ boot' = boot /\ pc[t] = "write" /\ pc'[t] = "unlink"
      BY <2>0, <2>4 DEF WriteFile
    <3>2. arr[t] \in Arrays /\ arr[t] # Absent /\ arr[t] # Torn
      BY <2>0 DEF OnFile, Sorted
    <3>3. Visible' = Edited(op[t], Visible) /\ op[t] \in Ops
      BY <3>1, <3>2 DEF SaveInv, Pending, Visible
    <3>4. Call[t] = op[t] /\ Call' = [Call EXCEPT ![t] = DoneOp]
      BY <2>0, <2>c, <3>1 DEF Sees
    <3>5. Store!Commit(t)
      BY <3>1, <3>3, <3>4, OpKinds, SameItems DEF Store!Commit
    <3>6. SaveInv'
      BY <2>0, <3>1, <3>2 DEF SaveInv
    <3> QED BY <3>5, <3>6 DEF Store!Next
  <2>5. CASE WriteFileFails(t)
    <3>1. main' = bak /\ bak' = Absent /\ boot' = boot /\ pc[t] = "write" /\ pc'[t] = "idle"
      BY <2>0, <2>5 DEF WriteFileFails, RolledBack, Return
    <3>2. Visible' = Visible
      BY <3>1 DEF SaveInv, Visible
    <3>3. SaveInv'
      BY <2>0, <3>1 DEF SaveInv
    <3> QED BY <2>r, <2>s, <3>1, <3>2, <3>3
  <2>6. CASE RemoveBackup(t)
    <3>1. main' = main /\ bak' = Absent /\ boot' = boot /\ pc[t] = "unlink" /\ pc'[t] = "idle"
      BY <1>0, <2>0, <2>6 DEF RemoveBackup, Return
    <3>2. Visible' = Visible
      BY <3>1 DEF SaveInv, Visible
    <3>3. SaveInv'
      BY <2>0, <3>1 DEF SaveInv
    <3> QED BY <2>r, <2>s, <3>1, <3>2, <3>3
  <2>7. CASE ClearLongTerm(t)
    <3>1. main' = Absent /\ bak' = bak /\ pc' = pc /\ op' = op /\ boot' = boot /\ pc[t] = "idle"
      BY <2>7 DEF ClearLongTerm
    <3>2. Visible' = <<>>
      BY <3>1 DEF SaveInv, Visible
    <3>3. Call[t] = NoOp /\ Call' = Call
      BY <2>c, <3>1 DEF Sees
    <3>4. Store!Clear(t)
      BY <3>1, <3>2, <3>3, SameItems DEF Store!Clear
    <3>5. SaveInv'
      BY <2>0, <3>1 DEF SaveInv
    <3> QED BY <3>4, <3>5 DEF Store!Next
  <2> QED BY <1>2, <2>1, <2>2, <2>3, <2>4, <2>5, <2>6, <2>7 DEF Step
<1>3. CASE UNCHANGED vars
  <2>1. Visible' = Visible /\ Call' = Call /\ boot' = boot
    BY <1>3 DEF vars, Visible, Call
  <2>2. SaveInv'
    BY <1>3, <2>1 DEF vars, SaveInv, Pending
  <2> QED BY <2>1, <2>2 DEF svars
<1> QED BY <1>1, <1>2, <1>3 DEF Next

(* With one task, writes that fail, arrays that cannot be printed and      *)
(* power loss between any two file operations, lt_save and                 *)
(* lt_rollback_stale_bak implement the atomic store: whatever is found     *)
(* after a failure is the array before the call or the one after it.       *)
THEOREM OneTaskIsAtomic ==
  ASSUME \A t, u \in Tasks : t = u, Faults \subseteq {"print", "write"}
  PROVE  Spec => AtomicStore
<1>1. Init => StoreInv /\ SaveInv /\ Store!Init
  <2> SUFFICES ASSUME Init PROVE StoreInv /\ SaveInv /\ Store!Init
    OBVIOUS
  <2>1. main = Absent /\ bak = Absent /\ boot = 1 /\ \A t \in Tasks : pc[t] = "idle"
    BY DEF Init
  <2>2. Visible = <<>> /\ Call = [t \in Tasks |-> NoOp]
    BY <2>1 DEF Visible, Call
  <2>3. Store!Init
    BY <2>1, <2>2, SameItems DEF Store!Init
  <2> QED BY <2>1, <2>3, StoreInvInit DEF SaveInv
<1>2. StoreInv /\ SaveInv /\ [Next]_vars => (StoreInv /\ SaveInv)' /\ [Store!Next]_(Store!vars)
  BY StoreInvNext, SaveStep DEF svars, Store!vars
<1> QED BY <1>1, <1>2, PTL DEF Spec, AtomicStore, Store!Spec

(* Without a read that fails, a torn file is one no task has loaded.       *)
TornInv == bak # Torn /\ (main = Torn => \A t \in Tasks : pc[t] = "idle")

LEMMA TornInvNext == "read" \notin Faults /\ StoreInv /\ TornInv /\ [Next]_vars => TornInv'
<1> SUFFICES ASSUME "read" \notin Faults, StoreInv, TornInv, [Next]_vars PROVE TornInv'
  OBVIOUS
<1>1. CASE PowerLoss
  <2>1. PICK m \in {main, Torn} : main' = Recovered(m, bak)
    BY <1>1 DEF PowerLoss
  <2>2. bak' = Absent /\ pc' = [t \in Tasks |-> "idle"]
    BY <1>1 DEF PowerLoss
  <2> QED BY <2>2 DEF TornInv
<1>2. ASSUME NEW t \in Tasks, Step(t) PROVE TornInv'
  <2>1. ASSUME NEW o \in Ops, Begin(t, o) PROVE TornInv'
    <3>1. PICK a : Load(a)
      BY <2>1 DEF Begin
    <3>2. bak' = bak /\ main' # Torn
      BY <2>1, <3>1 DEF Begin, Load
    <3> QED BY <3>2 DEF TornInv
  <2>2. CASE SaveGivesUp(t)
    BY <2>2 DEF SaveGivesUp, Return, StoreInv, TaskInv, TornInv
  <2>3. CASE BackUp(t)
    <3>1. main # Torn /\ bak' = main /\ main' = Absent
      BY <2>3 DEF BackUp, TornInv
    <3> QED BY <3>1 DEF TornInv
  <2>4. CASE WriteFile(t)
    <3>1. main' = arr[t] /\ arr[t] \in Arrays /\ bak' = bak
      BY <2>4 DEF WriteFile, StoreInv, FileInv, OnFile, Sorted
    <3> QED BY <3>1 DEF TornInv
  <2>5. CASE WriteFileFails(t)
    BY <2>5 DEF WriteFileFails, RolledBack, TornInv
  <2>6. CASE RemoveBackup(t)
    <3>1. main' = main /\ bak' \in {bak, Absent} /\ pc[t] # "idle"
      BY <2>6 DEF RemoveBackup
    <3> QED BY <3>1 DEF TornInv
  <2>7. CASE ClearLongTerm(t)
    BY <2>7 DEF ClearLongTerm, TornInv
  <2> QED BY <1>2, <2>1, <2>2, <2>3, <2>4, <2>5, <2>6, <2>7 DEF Step
<1>3. CASE UNCHANGED vars
  BY <1>3 DEF vars, TornInv
<1> QED BY <1>1, <1>2, <1>3 DEF Next

(* A store that does not parse is moved aside before another file takes    *)
(* its name, by whichever task loads it first: no task has a copy of       *)
(* another array while the file is torn.  Not so where lt_load may fail to *)
(* get the memory for the file and goes on with an empty array.            *)
THEOREM CorruptIsKept == "read" \notin Faults => (Spec => CorruptKept)
<1> SUFFICES ASSUME "read" \notin Faults PROVE Spec => CorruptKept
  OBVIOUS
<1>1. Init => TornInv
  BY DEF Init, TornInv
<1>2. StoreInv /\ TornInv /\ [Next]_vars =>
        [main = Torn /\ main' # Torn => corrupt' \/ \E t \in Tasks : pc[t] = "idle" /\ ClearLongTerm(t)]_vars
  <2> SUFFICES ASSUME StoreInv, TornInv, Next, main = Torn, main' # Torn
               PROVE  corrupt' \/ \E t \in Tasks : pc[t] = "idle" /\ ClearLongTerm(t)
    OBVIOUS
  <2>1. CASE PowerLoss
    BY <2>1 DEF PowerLoss, Recovered
  <2>2. ASSUME NEW t \in Tasks, Step(t), ~ClearLongTerm(t) PROVE corrupt'
    <3>1. pc[t] = "idle"
      BY DEF TornInv
    <3>2. PICK o \in Ops : Begin(t, o)
      BY <2>2, <3>1 DEF Step, SaveGivesUp, BackUp, WriteFile, WriteFileFails, RemoveBackup
    <3> QED BY <3>2 DEF Begin, Load
  <2>3. ASSUME NEW t \in Tasks, ClearLongTerm(t) PROVE pc[t] = "idle"
    BY <2>3 DEF ClearLongTerm
  <2> QED BY <2>1, <2>2, <2>3 DEF Next
<1> QED BY <1>1, <1>2, TornInvNext, StoreInvInit, StoreInvNext, PTL DEF Spec, CorruptKept
=============================================================================
