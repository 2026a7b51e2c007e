--------------------------- MODULE ChannelProofs ---------------------------
(***************************************************************************)
(* Theorems about the message channels, for any updates, messages, bots,   *)
(* credentials and limits: of each channel, what the run of                *)
(* MCEventDispatcher checks of it.                                         *)
(***************************************************************************)
EXTENDS MCEventDispatcher, SeqLemmas, FiniteSetTheorems

(***************************************************************************)
(* Telegram.  What the server has forgotten, what a task has confirmed and *)
(* what it is about to confirm are all published, dropped, held or cut;    *)
(* while one task polls, what it holds has not been confirmed.             *)
(***************************************************************************)
Accounted   == polled.published \cup polled.dropped \cup Telegram!Held \cup polled.cut
Handling(p) == pollers[p].at \in {"taking", "holding"}
IsRun(b)    == b # <<>> /\ b[1] \in Nat \ {0} /\ \A i \in DOMAIN b : b[i] = b[1] + i - 1

TelegramTypeOK ==
  /\ server \in [sent : Nat, kept : SUBSET Nat]
  /\ \E m \in Nat \ {0} : server.kept = m..server.sent
  /\ last \in Nat
  /\ polled \in [published : SUBSET Nat, dropped : SUBSET Nat, cut : SUBSET Nat, second : BOOLEAN,
                 starts : Nat, saves : Nat, reboots : Nat]
  /\ pollers \in [Telegram!Slots -> [at : {"off", "loop", "asking", "taking", "holding", "ending"},
                                     offset : Nat, batch : Seq(Nat)]]

PollersOK ==
  \A p \in Telegram!Slots :
    /\ pollers[p].at = "asking" => 1..(pollers[p].offset - 1) \subseteq Accounted
    /\ Handling(p) => IsRun(pollers[p].batch) /\ 1..(pollers[p].batch[1] - 1) \subseteq Accounted

OnePoller ==
  ~polled.second =>
    /\ \A p, q \in Telegram!Slots : pollers[p].at # "off" /\ pollers[q].at # "off" => p = q
    /\ \A p \in Telegram!Slots : Handling(p) => Range(pollers[p].batch) \subseteq server.kept

TelegramInv ==
  TelegramTypeOK /\ UpdatesKept /\ 1..last \subseteq Accounted /\ PollersOK /\ OnePoller

LEMMA HeldIs ==
  \A u : u \in Telegram!Held <=>
           \E p \in Telegram!Slots : pollers[p].at = "holding" /\ u = Head(pollers[p].batch)
BY DEF Telegram!Held

LEMMA TelegramInit == Telegram!Init => TelegramInv
<1> SUFFICES ASSUME Telegram!Init PROVE TelegramInv
  OBVIOUS
<1>1. \A p \in Telegram!Slots : pollers[p] = Telegram!Off
  BY DEF Telegram!Init
<1>2. pollers \in [Telegram!Slots -> [at : {"off", "loop", "asking", "taking", "holding", "ending"},
                                      offset : Nat, batch : Seq(Nat)]]
  BY DEF Telegram!Init, Telegram!Off
<1>3. polled \in [published : SUBSET Nat, dropped : SUBSET Nat, cut : SUBSET Nat, second : BOOLEAN,
                  starts : Nat, saves : Nat, reboots : Nat]
  BY DEF Telegram!Init
<1>4. server \in [sent : Nat, kept : SUBSET Nat] /\ server.sent = 0 /\ server.kept = 1..0 /\ last = 0
  BY DEF Telegram!Init
<1>5. TelegramTypeOK
  BY <1>2, <1>3, <1>4 DEF TelegramTypeOK
<1>6. UpdatesKept /\ 1..last \subseteq Accounted
  BY <1>4 DEF UpdatesKept, Telegram!UpdatesKept
<1>7. PollersOK /\ OnePoller
  BY <1>1 DEF PollersOK, OnePoller, Handling, Telegram!Off
<1> QED BY <1>5, <1>6, <1>7 DEF TelegramInv

LEMMA SameCardinality == \A S : Telegram!Cardinality(S) = Cardinality(S)
BY DEF Telegram!Cardinality, Cardinality

(* The server's answer: the updates it keeps, in the order of their ids.   *)
LEMMA IdsOfRun ==
  ASSUME NEW m \in Nat \ {0}, NEW n \in Nat, m <= n
  PROVE  /\ Telegram!Ids(m..n) \in Seq(Nat) /\ IsRun(Telegram!Ids(m..n))
         /\ Telegram!Ids(m..n)[1] = m /\ Range(Telegram!Ids(m..n)) = m..n
<1> DEFINE S == m..n
           ids == Telegram!Ids(S)
<1>1. Cardinality(S) = n - m + 1
  BY FS_Interval
<1>2. ASSUME NEW u \in S PROVE Cardinality({v \in S : v < u}) = u - m
  <2>1. {v \in S : v < u} = m..(u - 1)
    OBVIOUS
  <2>2. Cardinality(m..(u - 1)) = IF m > u - 1 THEN 0 ELSE (u - 1) - m + 1
    BY <1>2, FS_Interval
  <2>3. u - 1 \in Int /\ (m > u - 1 => u - m = 0)
    BY <1>2
  <2> DEFINE T == {v \in S : v < u}
  <2>4. T = m..(u - 1)
    BY <2>1
  <2> HIDE DEF T
  <2>5. Cardinality(T) = u - m
    BY <1>2, <2>2, <2>3, <2>4
  <2> QED BY <2>5 DEF T
<1>3. ASSUME NEW i \in 1..(n - m + 1)
      PROVE  (CHOOSE u \in S : Cardinality({v \in S : v < u}) = i - 1) = m + i - 1
  <2>1. m + i - 1 \in S /\ \A u \in S : u - m = i - 1 <=> u = m + i - 1
    BY <1>3
  <2> QED BY <1>2, <2>1
<1>4. ids = [i \in 1..(n - m + 1) |-> m + i - 1]
  <2> HIDE DEF S
  <2>1. Telegram!Ids(S) = [i \in 1..Cardinality(S) |-> CHOOSE u \in S : Cardinality({v \in S : v < u}) = i - 1]
    BY Zenon DEF Telegram!Ids, Telegram!Cardinality, Cardinality
  <2> QED BY <1>1, <1>3, <2>1
<1> HIDE DEF ids
<1>5. ids \in Seq(Nat) /\ Len(ids) = n - m + 1 /\ DOMAIN ids = 1..(n - m + 1)
  BY <1>4
<1>6. ids[1] = m /\ ids # <<>>
  BY <1>4, <1>5
<1>7. IsRun(ids)
  BY <1>4, <1>5, <1>6 DEF IsRun
<1>8. ASSUME NEW u \in S PROVE u \in Range(ids)
  <2>1. u - m + 1 \in DOMAIN ids /\ ids[u - m + 1] = u
    BY <1>4, <1>5
  <2> QED BY <2>1 DEF Range
<1>9. ASSUME NEW u \in Range(ids) PROVE u \in S
  BY <1>4, <1>5, <1>9 DEF Range
<1> QED BY <1>5, <1>6, <1>7, <1>8, <1>9 DEF ids

LEMMA RestOfRun ==
  ASSUME NEW b \in Seq(Nat), IsRun(b), Tail(b) # <<>>
  PROVE  Tail(b) \in Seq(Nat) /\ IsRun(Tail(b)) /\ Tail(b)[1] = b[1] + 1 /\ Range(Tail(b)) \subseteq Range(b)
<1>1. /\ Tail(b) \in Seq(Nat) /\ Len(Tail(b)) = Len(b) - 1 /\ Len(b) \in Nat /\ b # <<>>
      /\ DOMAIN Tail(b) = 1..(Len(b) - 1) /\ DOMAIN b = 1..Len(b)
      /\ \A i \in 1..(Len(b) - 1) : Tail(b)[i] = b[i + 1]
  BY DEF IsRun
<1>2. Len(b) - 1 >= 1
  BY <1>1
<1>4. ASSUME NEW i \in DOMAIN Tail(b) PROVE Tail(b)[i] = b[1] + i
  <2>1. i + 1 \in DOMAIN b /\ i \in Nat
    BY <1>1, <1>4
  <2>2. b[i + 1] = b[1] + (i + 1) - 1
    BY <2>1 DEF IsRun
  <2> QED BY <1>1, <1>4, <2>1, <2>2 DEF IsRun
<1>3. Tail(b)[1] = b[1] + 1
  BY SMTT(40), <1>1, <1>2, <1>4
<1>5. Range(Tail(b)) \subseteq Range(b)
  BY <1>1 DEF Range
<1>6. IsRun(Tail(b))
  <2>1. Tail(b)[1] \in Nat \ {0} /\ b[1] \in Nat \ {0} /\ Tail(b) # <<>>
    <3>1. b[1] \in Nat \ {0}
      BY DEF IsRun
    <3> QED BY <1>3, <3>1
  <2>2. \A i \in DOMAIN Tail(b) : Tail(b)[i] = Tail(b)[1] + i - 1
    BY <1>1, <1>3, <1>4, <2>1 DEF IsRun
  <2> QED BY <2>1, <2>2 DEF IsRun
<1> QED BY <1>1, <1>3, <1>5, <1>6

(* A step that accounts for no less and leaves the server and the offset.  *)
LEMMA StillAccounted ==
  ASSUME TelegramInv, UNCHANGED <<server, last>>, Accounted \subseteq Accounted'
  PROVE  UpdatesKept' /\ (1..last \subseteq Accounted)'
BY DEF TelegramInv, UpdatesKept, Telegram!UpdatesKept, Accounted

LEMMA TelegramStep == ChannelsAssumption /\ TelegramInv /\ [Telegram!Next]_telegramvars => TelegramInv'
<1> SUFFICES ASSUME ChannelsAssumption, TelegramInv, [Telegram!Next]_telegramvars PROVE TelegramInv'
  OBVIOUS
<1> DEFINE Poller == [at : {"off", "loop", "asking", "taking", "holding", "ending"},
                      offset : Nat, batch : Seq(Nat)]
           Hist   == [published : SUBSET Nat, dropped : SUBSET Nat, cut : SUBSET Nat, second : BOOLEAN,
                      starts : Nat, saves : Nat, reboots : Nat]
<1>t. /\ server \in [sent : Nat, kept : SUBSET Nat] /\ last \in Nat
      /\ polled \in Hist /\ pollers \in [Telegram!Slots -> Poller]
  BY DEF TelegramInv, TelegramTypeOK
<1>k. PICK m \in Nat \ {0} : server.kept = m..server.sent
  BY DEF TelegramInv, TelegramTypeOK
<1>f. (1..server.sent) \ server.kept \subseteq Accounted
  BY DEF TelegramInv, UpdatesKept, Telegram!UpdatesKept, Accounted
<1>1. CASE Telegram!UserSends
  <2>1. /\ server'.sent = server.sent + 1 /\ server'.kept = server.kept \cup {server.sent + 1}
        /\ UNCHANGED <<last, pollers, polled>> /\ server' \in [sent : Nat, kept : SUBSET Nat]
    BY <1>1, <1>t DEF Telegram!UserSends
  <2>2. Accounted' = Accounted /\ \A p \in Telegram!Slots : Handling(p)' <=> Handling(p)
    BY <2>1 DEF Accounted, Telegram!Held, Handling
  <2>3. \E k \in Nat \ {0} : server'.kept = k..server'.sent
    <3>1. CASE m <= server.sent + 1
      <4>1. server'.kept = m..server'.sent
        BY <1>k, <1>t, <2>1, <3>1
      <4> QED BY <4>1
    <3>2. CASE m > server.sent + 1
      <4>1. server'.kept = (server.sent + 1)..server'.sent
        BY <1>k, <1>t, <2>1, <3>2
      <4> QED BY <4>1, <1>t
    <3> QED BY <3>1, <3>2, <1>t
  <2>4. TelegramTypeOK'
    BY <1>t, <2>1, <2>3 DEF TelegramTypeOK
  <2>5. (1..server.sent)' \ server.kept' \subseteq (1..server.sent) \ server.kept
    BY <1>t, <2>1
  <2>6. UpdatesKept' /\ (1..last \subseteq Accounted)'
    BY <1>f, <2>1, <2>2, <2>5 DEF TelegramInv, UpdatesKept, Telegram!UpdatesKept, Accounted
  <2>7. PollersOK' /\ OnePoller'
    BY <2>1, <2>2 DEF TelegramInv, PollersOK, OnePoller
  <2> QED BY <2>4, <2>6, <2>7 DEF TelegramInv
<1>2. ASSUME UNCHANGED <<server, last, pollers>>, polled' \in Hist, polled'.second = polled.second,
             UNCHANGED <<polled.published, polled.dropped, polled.cut>>
      PROVE  TelegramInv'
  <2>1. Accounted' = Accounted /\ \A p \in Telegram!Slots : Handling(p)' <=> Handling(p)
    BY <1>2 DEF Accounted, Telegram!Held, Handling
  <2>2. TelegramTypeOK' /\ PollersOK' /\ OnePoller'
    BY <1>2, <2>1 DEF TelegramInv, TelegramTypeOK, PollersOK, OnePoller
  <2> QED BY <1>2, <2>1, <2>2, StillAccounted DEF TelegramInv
<1>3. CASE Telegram!TokenChanges \/ \E c \in Starters : Telegram!FindsNone(c) \/ Telegram!CreateFails(c)
  <2>1. UNCHANGED <<server, last, pollers>>
    BY <1>3 DEF Telegram!TokenChanges, Telegram!FindsNone, Telegram!CreateFails
  <2>2. \/ polled' = [polled EXCEPT !.saves = @ + 1] \/ polled' = [polled EXCEPT !.starts = @ + 1]
        \/ polled' = polled
    BY <1>3 DEF Telegram!TokenChanges, Telegram!FindsNone, Telegram!CreateFails
  <2>3. /\ polled' \in Hist /\ polled'.second = polled.second
        /\ UNCHANGED <<polled.published, polled.dropped, polled.cut>>
    <3>1. polled.saves + 1 \in Nat /\ polled.starts + 1 \in Nat
      BY <1>t
    <3>2. CASE polled' = [polled EXCEPT !.saves = @ + 1]
      BY <1>t, <3>1, <3>2
    <3>3. CASE polled' = [polled EXCEPT !.starts = @ + 1]
      BY <1>t, <3>1, <3>3
    <3> QED BY <1>t, <2>2, <3>2, <3>3
  <2> QED BY <1>2, <2>1, <2>3
(* One poller moves: what is held by the others stays.                     *)
<1>4. ASSUME NEW p \in Telegram!Slots, NEW q \in Poller, pollers' = [pollers EXCEPT ![p] = q],
             pollers[p].at # "holding", q.at # "holding",
             UNCHANGED <<polled.published, polled.dropped, polled.cut>>
      PROVE  /\ pollers' \in [Telegram!Slots -> Poller] /\ pollers'[p] = q
             /\ \A o \in Telegram!Slots \ {p} : pollers'[o] = pollers[o]
             /\ Accounted' = Accounted
  <2>1. /\ pollers' \in [Telegram!Slots -> Poller] /\ pollers'[p] = q
        /\ \A o \in Telegram!Slots \ {p} : pollers'[o] = pollers[o]
    BY <1>4, <1>t
  <2>2. Telegram!Held' = Telegram!Held
    BY <1>4, <2>1 DEF Telegram!Held
  <2> QED BY <1>4, <2>1, <2>2 DEF Accounted
<1>5. ASSUME NEW p \in Telegram!Slots, NEW q \in Poller, pollers' = [pollers EXCEPT ![p] = q],
             pollers[p].at \in {"loop", "ending"}, q.at \in {"off", "loop", "asking", "ending"},
             q.at = "asking" => q.offset = last + 1,
             UNCHANGED <<server, polled>>, last' = last
      PROVE  TelegramInv'
  <2>1. /\ pollers' \in [Telegram!Slots -> Poller] /\ pollers'[p] = q
        /\ \A o \in Telegram!Slots \ {p} : pollers'[o] = pollers[o]
        /\ Accounted' = Accounted
    BY <1>4, <1>5
  <2>2. TelegramTypeOK'
    BY <1>5, <2>1 DEF TelegramInv, TelegramTypeOK
  <2>3. \A o \in Telegram!Slots : Handling(o)' => Handling(o) /\ pollers'[o] = pollers[o]
    BY <1>5, <2>1 DEF Handling
  <2>4. PollersOK'
    <3>1. 1..((last + 1) - 1) \subseteq Accounted
      BY <1>t DEF TelegramInv
    <3> QED BY <1>5, <2>1, <2>3, <3>1 DEF TelegramInv, PollersOK
  <2>5. OnePoller'
    BY <1>5, <2>1, <2>3 DEF TelegramInv, OnePoller
  <2>6. UpdatesKept' /\ (1..last \subseteq Accounted)'
    BY <1>5, <2>1, StillAccounted
  <2> QED BY <2>2, <2>4, <2>5, <2>6 DEF TelegramInv
<1>6. ASSUME NEW c \in Starters, Telegram!Creates(c) PROVE TelegramInv'
  <2>1. PICK p \in Telegram!Slots : pollers[p].at = "off" /\ pollers' = [pollers EXCEPT ![p].at = "loop"]
    BY <1>6 DEF Telegram!Creates
  <2> DEFINE q == [pollers[p] EXCEPT !.at = "loop"]
             more == polled.second \/ \E o \in Telegram!Slots : pollers[o].at # "off"
  <2>2. q \in Poller /\ q.at = "loop" /\ pollers' = [pollers EXCEPT ![p] = q]
    BY <1>t, <2>1
  <2>3. more \in BOOLEAN /\ polled' = [polled EXCEPT !.second = more] /\ UNCHANGED <<server, last>>
    BY <1>6 DEF Telegram!Creates
  <2> HIDE DEF q
  <2>4. /\ polled' \in Hist /\ polled'.second = more
        /\ UNCHANGED <<polled.published, polled.dropped, polled.cut>>
    <3> HIDE DEF more
    <3> QED BY <1>t, <2>3
  <2>5. /\ pollers' \in [Telegram!Slots -> Poller] /\ pollers'[p] = q
        /\ \A o \in Telegram!Slots \ {p} : pollers'[o] = pollers[o]
        /\ Accounted' = Accounted
    BY <1>4, <2>1, <2>2, <2>4
  <2>6. TelegramTypeOK'
    BY <2>3, <2>4, <2>5 DEF TelegramInv, TelegramTypeOK
  <2>7. \A o \in Telegram!Slots : Handling(o)' => Handling(o) /\ pollers'[o] = pollers[o]
    BY <2>2, <2>5 DEF Handling
  <2>8. PollersOK'
    BY <2>2, <2>5, <2>7 DEF TelegramInv, PollersOK
  <2>9. OnePoller'
    BY <2>2, <2>3, <2>4, <2>5, <2>7 DEF TelegramInv, OnePoller
  <2> QED BY <2>3, <2>5, <2>6, <2>8, <2>9, StillAccounted DEF TelegramInv
<1>7. ASSUME NEW p \in Telegram!Slots, Telegram!Asks(p) \/ Telegram!Ends(p) \/ Telegram!Ended(p) PROVE TelegramInv'
  <2> DEFINE q == pollers'[p]
  <2>1. /\ q \in Poller /\ pollers' = [pollers EXCEPT ![p] = q]
        /\ pollers[p].at \in {"loop", "ending"} /\ q.at \in {"off", "loop", "asking", "ending"}
        /\ q.at = "asking" => q.offset = last + 1
    <3>1. CASE Telegram!Asks(p)
      <4> DEFINE r == [pollers[p] EXCEPT !.at = "asking", !.offset = last + 1]
      <4>1. pollers' = [pollers EXCEPT ![p] = r] /\ pollers[p].at = "loop"
        BY <3>1 DEF Telegram!Asks, Telegram!Offset
      <4>0. last + 1 \in Nat /\ pollers[p] \in Poller
        BY <1>t
      <4>2. r \in Poller /\ r.at = "asking" /\ r.offset = last + 1
        BY <4>0
      <4> HIDE DEF r
      <4>3. q = r
        BY <1>t, <4>1
      <4> QED BY <4>1, <4>2, <4>3
    <3>2. CASE Telegram!Ends(p)
      <4> DEFINE r == [pollers[p] EXCEPT !.at = "ending"]
      <4>1. pollers' = [pollers EXCEPT ![p] = r] /\ pollers[p].at = "loop"
        BY <3>2 DEF Telegram!Ends
      <4>2. r \in Poller /\ r.at = "ending"
        BY <1>t
      <4> HIDE DEF r
      <4>3. q = r
        BY <1>t, <4>1
      <4> QED BY <4>1, <4>2, <4>3
    <3>3. CASE Telegram!Ended(p)
      <4>1. pollers' = [pollers EXCEPT ![p] = Telegram!Off] /\ pollers[p].at = "ending"
        BY <3>3 DEF Telegram!Ended
      <4>2. Telegram!Off \in Poller /\ Telegram!Off.at = "off"
        BY DEF Telegram!Off
      <4>3. q = Telegram!Off
        BY <1>t, <4>1
      <4> QED BY <4>1, <4>2, <4>3
    <3> QED BY <1>7, <3>1, <3>2, <3>3
  <2>2. UNCHANGED <<server, polled>> /\ last' = last
    BY <1>7 DEF Telegram!Asks, Telegram!Ends, Telegram!Ended
  <2>3. q \in Poller
    BY <2>1
  <2> HIDE DEF q
  <2> QED BY <1>5, <2>1, <2>2, <2>3
<1>8. ASSUME NEW p \in Telegram!Slots, Telegram!Answers(p) PROVE TelegramInv'
  <2> DEFINE off  == pollers[p].offset
             kept == {u \in server.kept : u >= off}
             low  == IF off > m THEN off ELSE m
             q    == pollers'[p]
  <2>1. /\ pollers[p].at = "asking" /\ server' = [server EXCEPT !.kept = kept] /\ off \in Nat
        /\ UNCHANGED <<last, polled>>
    BY <1>8, <1>t DEF Telegram!Answers
  <2>2. low \in Nat \ {0} /\ kept = low..server.sent /\ server.sent \in Nat
    BY <1>k, <1>t, <2>1
  <2>3. server' \in [sent : Nat, kept : SUBSET Nat] /\ server'.sent = server.sent /\ server'.kept = kept
    <3>1. kept \in SUBSET Nat
      BY <2>2
    <3> HIDE DEF kept
    <3> QED BY <1>t, <2>1, <3>1
  <2>4. ASSUME low <= server.sent
        PROVE  /\ Telegram!Ids(kept) \in Seq(Nat) /\ IsRun(Telegram!Ids(kept))
               /\ Telegram!Ids(kept)[1] = low /\ Range(Telegram!Ids(kept)) = kept
    BY <2>2, <2>4, IdsOfRun
  <2>5. ASSUME low > server.sent PROVE Telegram!Ids(kept) = <<>>
    <3>1. kept = {} /\ Cardinality(kept) = 0
      BY <2>2, <2>5, FS_EmptySet
    <3>2. Telegram!Cardinality(kept) = 0
      BY <3>1, SameCardinality
    <3> HIDE DEF kept
    <3>3. 1..Telegram!Cardinality(kept) = {}
      BY <3>2
    <3> DEFINE f == Telegram!Ids(kept)
    <3>4. DOMAIN f = {} /\ f = [i \in DOMAIN f |-> f[i]]
      BY <3>3 DEF Telegram!Ids
    <3> HIDE DEF f
    <3>5. f = <<>>
      BY <3>4
    <3> QED BY <3>5 DEF f
  <2>6. PICK batch \in {Telegram!Ids(kept), <<>>} :
          pollers' = [pollers EXCEPT ![p] = IF batch = <<>> THEN [Telegram!Off EXCEPT !.at = "loop"]
                                            ELSE [at |-> "taking", offset |-> 0, batch |-> batch]]
    BY <1>8 DEF Telegram!Answers
  <2>7. \/ q = [at |-> "loop", offset |-> 0, batch |-> <<>>]
        \/ /\ q = [at |-> "taking", offset |-> 0, batch |-> Telegram!Ids(kept)]
           /\ low <= server.sent
    <3>1. q = IF batch = <<>> THEN [Telegram!Off EXCEPT !.at = "loop"]
              ELSE [at |-> "taking", offset |-> 0, batch |-> batch]
      BY <1>t, <2>6
    <3>2. CASE batch = <<>>
      BY <3>1, <3>2 DEF Telegram!Off
    <3>3. CASE batch # <<>>
      BY <2>2, <2>5, <2>6, <3>1, <3>3
    <3> QED BY <3>2, <3>3
  <2>8. q \in Poller /\ q.at \in {"loop", "taking"} /\ pollers' = [pollers EXCEPT ![p] = q]
    <3>1. q \in Poller /\ q.at \in {"loop", "taking"}
      <4>1. CASE q = [at |-> "loop", offset |-> 0, batch |-> <<>>]
        BY <4>1
      <4>2. CASE q = [at |-> "taking", offset |-> 0, batch |-> Telegram!Ids(kept)] /\ low <= server.sent
        <5>1. Telegram!Ids(kept) \in Seq(Nat)
          BY <2>4, <4>2
        <5> HIDE DEF q
        <5> QED BY <4>2, <5>1
      <4> QED BY <2>7, <4>1, <4>2
    <3> QED BY <1>t, <2>6, <3>1
  <2>9. /\ pollers' \in [Telegram!Slots -> Poller]
        /\ \A o \in Telegram!Slots \ {p} : pollers'[o] = pollers[o]
        /\ Accounted' = Accounted
    <3> HIDE DEF q
    <3> QED BY <1>4, <2>1, <2>8
  <2>10. TelegramTypeOK'
    <3>1. \E k \in Nat \ {0} : server'.kept = k..server'.sent
      BY <2>2, <2>3
    <3> HIDE DEF kept, q
    <3> QED BY <1>t, <2>1, <2>3, <2>9, <3>1 DEF TelegramTypeOK
  <2>11. ASSUME NEW u \in 1..server.sent, u < low PROVE u \in Accounted
    <3>1. CASE u < off
      <4>1. 1..(off - 1) \subseteq Accounted
        BY <2>1 DEF TelegramInv, PollersOK
      <4> QED BY <2>1, <2>2, <2>11, <3>1, <4>1
    <3>2. CASE ~(u < off)
      <4>1. u \notin server.kept
        BY <1>k, <2>1, <2>2, <2>11, <3>2
      <4> QED BY <1>f, <2>11, <4>1
    <3> QED BY <3>1, <3>2
  <2>12. UpdatesKept' /\ (1..last \subseteq Accounted)'
    <3>1. \A u \in 1..server.sent : u \notin kept => u < low
      BY <2>2
    <3>2. (1..server'.sent) \ server'.kept \subseteq Accounted'
      BY <2>3, <2>9, <2>11, <3>1
    <3> QED BY <2>1, <2>9, <3>2 DEF TelegramInv, UpdatesKept, Telegram!UpdatesKept, Accounted
  <2>13. \A o \in Telegram!Slots \ {p} : Handling(o)' <=> Handling(o)
    BY <2>9 DEF Handling
  <2>14. PollersOK'
    <3>1. q.at = "taking" => IsRun(q.batch) /\ 1..(q.batch[1] - 1) \subseteq Accounted
      <4>1. ASSUME low <= server.sent PROVE 1..(low - 1) \subseteq Accounted
        BY <2>2, <2>11, <4>1
      <4>2. CASE q = [at |-> "loop", offset |-> 0, batch |-> <<>>]
        BY <4>2
      <4>3. CASE q = [at |-> "taking", offset |-> 0, batch |-> Telegram!Ids(kept)] /\ low <= server.sent
        <5>1. q.batch = Telegram!Ids(kept)
          BY <4>3
        <5> HIDE DEF q, kept
        <5> QED BY <2>4, <4>1, <4>3, <5>1
      <4> QED BY <2>7, <4>2, <4>3
    <3> HIDE DEF q
    <3> QED BY <2>8, <2>9, <2>13, <3>1 DEF TelegramInv, PollersOK, Handling
  <2>15. OnePoller'
    <3>1. q.at = "taking" => Range(q.batch) \subseteq server'.kept
      BY <2>3, <2>4, <2>7
    <3> HIDE DEF q, kept
    <3>2. ASSUME ~polled.second, NEW o \in Telegram!Slots \ {p} PROVE pollers[o].at = "off"
      BY <2>1, <3>2 DEF TelegramInv, OnePoller
    <3> QED BY <2>1, <2>8, <2>9, <3>1, <3>2 DEF OnePoller, Handling
  <2> QED BY <2>10, <2>12, <2>14, <2>15 DEF TelegramInv
<1>9. ASSUME NEW p \in Telegram!Slots, Telegram!Takes(p) PROVE TelegramInv'
  <2> DEFINE b == pollers[p].batch
             q == [pollers[p] EXCEPT !.at = "holding"]
  <2>1. /\ pollers[p].at = "taking" /\ last' = Head(b) /\ pollers' = [pollers EXCEPT ![p] = q]
        /\ UNCHANGED <<server, polled>>
    BY <1>9 DEF Telegram!Takes
  <2>2. /\ b \in Seq(Nat) /\ IsRun(b) /\ 1..(b[1] - 1) \subseteq Accounted /\ Head(b) = b[1] /\ b[1] \in Nat \ {0}
    <3>1. b \in Seq(Nat)
      BY <1>t, <2>1
    <3>2. IsRun(b) /\ 1..(b[1] - 1) \subseteq Accounted
      BY <2>1 DEF TelegramInv, PollersOK, Handling
    <3> QED BY <3>1, <3>2 DEF IsRun
  <2>3. q \in Poller /\ q.at = "holding" /\ q.batch = b
    BY <1>t
  <2> HIDE DEF q
  <2>4. /\ pollers' \in [Telegram!Slots -> Poller] /\ pollers'[p] = q
        /\ \A o \in Telegram!Slots \ {p} : pollers'[o] = pollers[o]
    BY <1>t, <2>1, <2>3
  <2>5. Accounted' = Accounted \cup {b[1]}
    <3>1. Telegram!Held' = Telegram!Held \cup {b[1]}
      <4> DEFINE Holds(u, o) == pollers[o].at = "holding" /\ u = Head(pollers[o].batch)
      <4>1. \A u : u \in Telegram!Held <=> \E o \in Telegram!Slots : Holds(u, o)
        BY HeldIs
      <4>2. \A u : u \in Telegram!Held' <=> \E o \in Telegram!Slots : Holds(u, o)'
        BY DEF Telegram!Held
      <4>3. \A u : \A o \in Telegram!Slots \ {p} : Holds(u, o)' <=> Holds(u, o)
        BY <2>4
      <4>4. \A u : ~Holds(u, p) /\ (Holds(u, p)' <=> u = b[1])
        BY <2>1, <2>2, <2>3, <2>4
      <4> QED BY <4>1, <4>2, <4>3, <4>4
    <3> QED BY <2>1, <3>1 DEF Accounted
  <2>6. TelegramTypeOK'
    BY <1>t, <2>1, <2>2, <2>4 DEF TelegramInv, TelegramTypeOK
  <2>7. 1..last' \subseteq Accounted'
    BY <2>1, <2>2, <2>5
  <2>8. UpdatesKept'
    BY <1>f, <2>1, <2>5 DEF UpdatesKept, Telegram!UpdatesKept, Accounted
  <2>9. \A o \in Telegram!Slots : (Handling(o)' <=> Handling(o)) /\ pollers'[o].batch = pollers[o].batch
    BY <2>1, <2>3, <2>4 DEF Handling
  <2>10. PollersOK'
    BY <2>1, <2>3, <2>4, <2>5, <2>9 DEF TelegramInv, PollersOK
  <2>11. OnePoller'
    <3>1. \A o \in Telegram!Slots : pollers'[o].at # "off" => pollers[o].at # "off"
      BY <2>1, <2>4
    <3> QED BY <2>1, <2>9, <3>1 DEF TelegramInv, OnePoller
  <2> QED BY <2>6, <2>7, <2>8, <2>10, <2>11 DEF TelegramInv
<1>10. ASSUME NEW p \in Telegram!Slots, Telegram!Publishes(p) PROVE TelegramInv'
  <2> DEFINE b == pollers[p].batch
             q == IF Tail(b) = <<>> THEN [Telegram!Off EXCEPT !.at = "loop"]
                                    ELSE [pollers[p] EXCEPT !.at = "taking", !.batch = Tail(b)]
  <2>1. /\ pollers[p].at = "holding" /\ pollers' = [pollers EXCEPT ![p] = q]
        /\ \/ polled' = [polled EXCEPT !.published = @ \cup {Head(b)}]
           \/ polled' = [polled EXCEPT !.dropped = @ \cup {Head(b)}]
        /\ UNCHANGED <<server, last>>
    BY <1>10 DEF Telegram!Publishes
  <2>2. /\ b \in Seq(Nat) /\ IsRun(b) /\ 1..(b[1] - 1) \subseteq Accounted /\ Head(b) = b[1] /\ b[1] \in Nat \ {0}
    <3>1. b \in Seq(Nat)
      BY <1>t, <2>1
    <3>2. IsRun(b) /\ 1..(b[1] - 1) \subseteq Accounted
      BY <2>1 DEF TelegramInv, PollersOK, Handling
    <3> QED BY <3>1, <3>2 DEF IsRun
  <2>3. /\ q \in Poller /\ q.at \in {"loop", "taking"}
        /\ q.at = "taking" => IsRun(q.batch) /\ q.batch[1] = b[1] + 1 /\ Range(q.batch) \subseteq Range(b)
    <3>1. CASE Tail(b) = <<>>
      <4>1. q = [at |-> "loop", offset |-> 0, batch |-> <<>>]
        BY <3>1 DEF Telegram!Off
      <4> HIDE DEF q
      <4> QED BY <4>1
    <3>2. CASE Tail(b) # <<>>
      <4>1. /\ Tail(b) \in Seq(Nat) /\ IsRun(Tail(b)) /\ Tail(b)[1] = b[1] + 1
            /\ Range(Tail(b)) \subseteq Range(b)
        BY <2>2, <3>2, RestOfRun
      <4>2. q = [pollers[p] EXCEPT !.at = "taking", !.batch = Tail(b)]
        BY <3>2
      <4> HIDE DEF q
      <4>3. q \in Poller /\ q.at = "taking" /\ q.batch = Tail(b)
        BY <1>t, <4>1, <4>2
      <4> QED BY <4>1, <4>3
    <3> QED BY <3>1, <3>2
  <2> HIDE DEF q
  <2>4. /\ pollers' \in [Telegram!Slots -> Poller] /\ pollers'[p] = q
        /\ \A o \in Telegram!Slots \ {p} : pollers'[o] = pollers[o]
    BY <1>t, <2>1, <2>3
  <2>5. /\ polled' \in Hist /\ polled'.second = polled.second /\ polled'.cut = polled.cut
        /\ polled'.published \cup polled'.dropped = polled.published \cup polled.dropped \cup {b[1]}
    <3>1. polled.published \cup {b[1]} \in SUBSET Nat /\ polled.dropped \cup {b[1]} \in SUBSET Nat
      BY <1>t, <2>2
    <3>2. CASE polled' = [polled EXCEPT !.published = @ \cup {Head(b)}]
      <4>1. polled' = [polled EXCEPT !.published = polled.published \cup {b[1]}]
        BY <2>2, <3>2
      <4> QED BY <1>t, <3>1, <4>1
    <3>3. CASE polled' = [polled EXCEPT !.dropped = @ \cup {Head(b)}]
      <4>1. polled' = [polled EXCEPT !.dropped = polled.dropped \cup {b[1]}]
        BY <2>2, <3>3
      <4> QED BY <1>t, <3>1, <4>1
    <3> QED BY <2>1, <3>2, <3>3
  <2>6. Accounted \subseteq Accounted' /\ b[1] \in Accounted'
    <3>1. ASSUME NEW u \in Telegram!Held PROVE u \in Telegram!Held' \cup {b[1]}
      <4>1. PICK o \in Telegram!Slots : pollers[o].at = "holding" /\ u = Head(pollers[o].batch)
        BY <3>1, HeldIs
      <4>2. CASE o = p
        BY <2>2, <4>1, <4>2
      <4>3. CASE o # p
        <5>1. pollers'[o].at = "holding" /\ u = Head(pollers'[o].batch)
          BY <2>4, <4>1, <4>3
        <5> QED BY <5>1 DEF Telegram!Held
      <4> QED BY <4>2, <4>3
    <3> QED BY <2>5, <3>1 DEF Accounted
  <2>7. TelegramTypeOK'
    BY <1>t, <2>1, <2>4, <2>5 DEF TelegramInv, TelegramTypeOK
  <2>8. UpdatesKept' /\ (1..last \subseteq Accounted)'
    BY <2>1, <2>6, StillAccounted
  <2>9. \A o \in Telegram!Slots \ {p} : Handling(o)' <=> Handling(o)
    BY <2>4 DEF Handling
  <2>10. PollersOK'
    <3>1. ASSUME q.at = "taking" PROVE IsRun(q.batch) /\ 1..(q.batch[1] - 1) \subseteq Accounted'
      <4>1. IsRun(q.batch) /\ q.batch[1] = b[1] + 1
        BY <2>3, <3>1
      <4>2. PICK h \in Nat \ {0} : h = b[1]
        BY <2>2
      <4>3. 1..(h - 1) \subseteq Accounted' /\ h \in Accounted'
        BY <2>2, <2>6, <4>2
      <4>4. q.batch[1] - 1 = h /\ \A u \in 1..h : u \in 1..(h - 1) \/ u = h
        BY <4>1, <4>2
      <4> QED BY <4>1, <4>3, <4>4
    <3> QED BY <2>3, <2>4, <2>6, <2>9, <3>1 DEF TelegramInv, PollersOK, Handling
  <2>11. OnePoller'
    BY <2>1, <2>3, <2>4, <2>5, <2>9 DEF TelegramInv, OnePoller, Handling
  <2> QED BY <2>7, <2>8, <2>10, <2>11 DEF TelegramInv
<1>11. CASE Telegram!PowerLoss
  <2> DEFINE cut == IF polled.second THEN polled.cut \cup Telegram!Held ELSE polled.cut
  <2>1. /\ polled' = [polled EXCEPT !.reboots = @ + 1, !.second = FALSE, !.cut = cut]
        /\ last' = 0 /\ pollers' = [p \in Telegram!Slots |-> Telegram!Off] /\ UNCHANGED server
    BY <1>11 DEF Telegram!PowerLoss
  <2>2. Telegram!Held \subseteq Nat
    <3>1. ASSUME NEW p \in Telegram!Slots, pollers[p].at = "holding" PROVE Head(pollers[p].batch) \in Nat
      BY <1>t, <3>1 DEF TelegramInv, PollersOK, Handling, IsRun
    <3> QED BY <3>1, HeldIs
  <2>3. /\ polled' \in Hist /\ polled'.second = FALSE /\ polled'.cut = cut
        /\ UNCHANGED <<polled.published, polled.dropped>>
    <3>1. cut \in SUBSET Nat
      BY <1>t, <2>2
    <3>2. polled.reboots + 1 \in Nat
      BY <1>t
    <3> HIDE DEF cut
    <3> QED BY <1>t, <2>1, <3>1, <3>2
  <2>4. \A p \in Telegram!Slots : pollers'[p] = Telegram!Off
    BY <2>1
  <2>5. TelegramTypeOK'
    <3>1. pollers' \in [Telegram!Slots -> Poller]
      BY <2>1 DEF Telegram!Off
    <3> QED BY <1>t, <2>1, <2>3, <3>1 DEF TelegramInv, TelegramTypeOK
  <2>6. PollersOK' /\ OnePoller'
    BY <2>4 DEF PollersOK, OnePoller, Handling, Telegram!Off
  <2>7. ASSUME ~polled.second, NEW u \in Telegram!Held PROVE u \in server.kept
    <3>1. PICK p \in Telegram!Slots : pollers[p].at = "holding" /\ u = Head(pollers[p].batch)
      BY <2>7, HeldIs
    <3>2. Range(pollers[p].batch) \subseteq server.kept /\ IsRun(pollers[p].batch) /\ pollers[p].batch \in Seq(Nat)
      BY <1>t, <2>7, <3>1 DEF TelegramInv, OnePoller, PollersOK, Handling
    <3>3. u \in Range(pollers[p].batch)
      BY <3>1, <3>2 DEF IsRun, Range
    <3> QED BY <3>2, <3>3
  <2>8. (1..server.sent) \ server.kept \subseteq polled.published \cup polled.dropped \cup cut
    BY <1>f, <2>7 DEF Accounted
  <2>9. UpdatesKept'
    BY <2>1, <2>3, <2>8 DEF UpdatesKept, Telegram!UpdatesKept
  <2>10. 1..last' = {}
    BY <2>1
  <2> QED BY <2>5, <2>6, <2>9, <2>10 DEF TelegramInv
<1>12. CASE UNCHANGED telegramvars
  <2>1. UNCHANGED <<server, last, pollers, polled>>
    BY <1>12 DEF telegramvars
  <2> QED BY <1>2, <1>t, <2>1
<1> QED
  BY <1>1, <1>3, <1>6, <1>7, <1>8, <1>9, <1>10, <1>11, <1>12 DEF Telegram!Next

-----------------------------------------------------------------------------
(***************************************************************************)
(* Feishu.  The ring of seen messages holds the last ones recorded: the    *)
(* d-th last is d places behind the index.                                 *)
(***************************************************************************)
Place(idx, d) == IF idx >= d THEN idx - d ELSE idx - d + CacheSize

Records == [log : Seq(Messages), missed : BOOLEAN, saves : Nat, faults : Nat]
Rings   == [entries : [0..(CacheSize - 1) -> Messages \cup {Unset}], idx : 0..(CacheSize - 1)]

RingHolds(ring, log) ==
  \A d \in 1..CacheSize : d <= Len(log) => ring.entries[Place(ring.idx, d)] = log[Len(log) + 1 - d]

FeishuInv ==
  /\ handled \in Records /\ seen \in Rings
  /\ frame = Feishu!NoFrame \/ frame.msg \in Messages
  /\ RingHolds(seen, handled.log)
  /\ FeishuOnce

LEMMA SmallRemainder ==
  ASSUME NEW n \in Nat \ {0}, NEW i \in 0..(n - 1) PROVE i % n = i
OBVIOUS

LEMMA FeishuInit == ChannelsAssumption /\ Feishu!Init => FeishuInv
<1> SUFFICES ASSUME ChannelsAssumption, Feishu!Init PROVE FeishuInv
  OBVIOUS
<1>0. CacheSize \in Nat \ {0}
  BY DEF ChannelsAssumption, Feishu!FeishuAssumption
<1>1. handled.log = <<>> /\ handled \in Records
  BY DEF Feishu!Init, Records
<1>2. seen \in Rings
  BY <1>0 DEF Feishu!Init, Feishu!Fresh, Rings
<1>3. frame = Feishu!NoFrame
  BY DEF Feishu!Init
<1>4. RingHolds(seen, handled.log) /\ FeishuOnce
  BY <1>1 DEF RingHolds, FeishuOnce, Feishu!FeishuOnce
<1> QED BY <1>1, <1>2, <1>3, <1>4 DEF FeishuInv

(* The history of a callback or a fault: the messages recorded stay.       *)
LEMMA FeishuFault ==
  ASSUME NEW h \in Records, Feishu!Fault(h)
  PROVE  handled' \in Records /\ handled'.log = h.log
<1>1. handled' = [h EXCEPT !.faults = @ + 1]
  BY DEF Feishu!Fault
<1> QED BY <1>1 DEF Records

LEMMA FeishuStarts ==
  ASSUME NEW c, NEW w, NEW h \in Records, Feishu!TryStart(c, w, h)
  PROVE  handled' \in Records /\ handled'.log = h.log
<1>1. CASE handled' = h \/ handled' = [h EXCEPT !.missed = FALSE]
  BY <1>1 DEF Records
<1>2. CASE Feishu!Fault([h EXCEPT !.missed = TRUE])
  <2> DEFINE g == [h EXCEPT !.missed = TRUE]
  <2>1. g \in Records /\ g.log = h.log
    BY DEF Records
  <2> HIDE DEF g
  <2>2. Feishu!Fault(g)
    BY <1>2 DEF g
  <2> QED BY <2>1, <2>2, FeishuFault
<1> QED BY <1>1, <1>2 DEF Feishu!TryStart

LEMMA FeishuSaved ==
  ASSUME NEW h \in Records
  PROVE  /\ Feishu!Saved(h) \in Records /\ Feishu!Saved(h).log = h.log
         /\ \A b \in BOOLEAN : LET g == [Feishu!Saved(h) EXCEPT !.missed = b]
                               IN  g \in Records /\ g.log = h.log
<1> DEFINE s == Feishu!Saved(h)
<1>1. s \in Records /\ s.log = h.log
  BY DEF Feishu!Saved, Records
<1>2. ASSUME NEW b \in BOOLEAN, NEW g, g = [s EXCEPT !.missed = b] PROVE g \in Records /\ g.log = h.log
  <2> HIDE DEF s
  <2> QED BY <1>1, <1>2 DEF Records
<1> QED BY <1>1, <1>2

(* A message that the ring does not hold is recorded.                      *)
LEMMA Recorded ==
  ASSUME CacheSize \in Nat \ {0}, FeishuInv, NEW m \in Messages,
         \A i \in DOMAIN seen.entries : seen.entries[i] # m,
         seen' = [entries |-> [seen.entries EXCEPT ![seen.idx] = m], idx |-> Feishu!After(seen.idx)],
         handled' = [handled EXCEPT !.log = Append(@, m)]
  PROVE  handled' \in Records /\ seen' \in Rings /\ RingHolds(seen', handled'.log) /\ FeishuOnce'
<1> DEFINE log == handled.log
           n   == Len(log)
<1>1. log \in Seq(Messages) /\ n \in Nat /\ seen.idx \in 0..(CacheSize - 1)
  BY DEF FeishuInv, Records, Rings
<1>2. handled' \in Records /\ handled'.log = Append(log, m)
  <2>1. Append(log, m) \in Seq(Messages) /\ handled' = [handled EXCEPT !.log = Append(log, m)]
    BY <1>1
  <2>2. handled \in Records
    BY DEF FeishuInv
  <2> HIDE DEF log
  <2> QED BY <2>1, <2>2 DEF Records
<1>3. /\ Len(handled'.log) = n + 1 /\ handled'.log[n + 1] = m
      /\ \A i \in 1..n : handled'.log[i] = log[i]
  BY <1>1, <1>2
<1>4. Feishu!After(seen.idx) = IF seen.idx = CacheSize - 1 THEN 0 ELSE seen.idx + 1
  <2>1. seen.idx + 1 < CacheSize => (seen.idx + 1) % CacheSize = seen.idx + 1
    BY SMTT(40), <1>1, SmallRemainder
  <2>2. CacheSize % CacheSize = 0
    OBVIOUS
  <2> QED BY <1>1, <2>1, <2>2 DEF Feishu!After
<1>5. seen' \in Rings
  BY <1>1, <1>4 DEF FeishuInv, Rings
<1>6. ASSUME NEW d \in 1..CacheSize, d <= n + 1
      PROVE  seen'.entries[Place(seen'.idx, d)] = handled'.log[n + 2 - d]
  <2>1. CASE d = 1
    <3>1. Place(seen'.idx, d) = seen.idx
      BY <1>1, <1>4, <2>1 DEF Place
    <3> QED BY <1>1, <1>3, <2>1, <3>1 DEF FeishuInv, Rings
  <2>2. CASE d # 1
    <3>1. /\ Place(seen'.idx, d) = Place(seen.idx, d - 1)
          /\ Place(seen.idx, d - 1) \in 0..(CacheSize - 1) /\ Place(seen.idx, d - 1) # seen.idx
      BY SMTT(40), <1>1, <1>4, <2>2 DEF Place
    <3>2. seen.entries[Place(seen.idx, d - 1)] = log[n + 1 - (d - 1)]
      <4>1. d - 1 \in 1..CacheSize /\ d - 1 <= n
        BY <1>1, <1>6, <2>2
      <4> QED BY <4>1 DEF FeishuInv, RingHolds
    <3>3. seen'.entries[Place(seen.idx, d - 1)] = seen.entries[Place(seen.idx, d - 1)]
      BY <3>1 DEF FeishuInv, Rings
    <3>4. n + 2 - d \in 1..n
      BY <1>1, <1>6, <2>2
    <3> QED BY <1>3, <3>1, <3>2, <3>3, <3>4, <1>1
  <2> QED BY <2>1, <2>2
<1>7. RingHolds(seen', handled'.log)
  BY <1>1, <1>3, <1>6 DEF RingHolds
<1>8. ASSUME NEW i \in 1..n, log[i] = m PROVE (n + 1) - i > CacheSize
  <2>1. SUFFICES ASSUME n + 1 - i \in 1..CacheSize PROVE FALSE
    BY <1>1
  <2> DEFINE d == n + 1 - i
  <2>2. seen.entries[Place(seen.idx, d)] = log[n + 1 - d] /\ n + 1 - d = i
    <3>1. d \in 1..CacheSize /\ d <= n /\ n + 1 - d = i
      BY <1>1, <2>1
    <3> QED BY <3>1 DEF FeishuInv, RingHolds
  <2>3. Place(seen.idx, d) \in DOMAIN seen.entries
    BY <1>1, <2>1 DEF FeishuInv, Rings, Place
  <2> QED BY <1>8, <2>2, <2>3
<1>9. FeishuOnce'
  <2> SUFFICES ASSUME NEW i \in DOMAIN handled'.log, NEW j \in DOMAIN handled'.log,
                      i < j, handled'.log[i] = handled'.log[j]
               PROVE  j - i > CacheSize
    BY DEF FeishuOnce, Feishu!FeishuOnce
  <2>1. i \in 1..n /\ j \in 1..(n + 1) /\ handled'.log[i] = log[i]
    BY <1>1, <1>2, <1>3
  <2>2. CASE j = n + 1
    BY <1>3, <1>8, <2>1, <2>2
  <2>3. CASE j \in 1..n
    <3>1. log[i] = log[j] /\ i \in DOMAIN log /\ j \in DOMAIN log
      BY <1>1, <1>3, <2>1, <2>3
    <3> QED BY <3>1 DEF FeishuInv, FeishuOnce, Feishu!FeishuOnce
  <2> QED BY <1>1, <2>1, <2>2, <2>3
<1> QED BY <1>2, <1>5, <1>7, <1>9

LEMMA FeishuStep == ChannelsAssumption /\ FeishuInv /\ [Feishu!Next]_feishuvars => FeishuInv'
<1> SUFFICES ASSUME ChannelsAssumption, FeishuInv, [Feishu!Next]_feishuvars PROVE FeishuInv'
  OBVIOUS
<1>0. CacheSize \in Nat \ {0}
  BY DEF ChannelsAssumption, Feishu!FeishuAssumption
<1>a. handled \in Records
  BY DEF FeishuInv
<1>b. ASSUME UNCHANGED <<frame, seen>>, handled' \in Records, handled'.log = handled.log PROVE FeishuInv'
  BY <1>b DEF FeishuInv, FeishuOnce, Feishu!FeishuOnce
<1>c. ASSUME Feishu!Fault(handled) \/ UNCHANGED handled PROVE handled' \in Records /\ handled'.log = handled.log
  BY <1>a, <1>c, FeishuFault
<1>1. ASSUME NEW c \in Apps \cup {Unset}, Feishu!ConfigSaved(c) PROVE FeishuInv'
  <2>1. UNCHANGED <<frame, seen>>
    BY <1>1 DEF Feishu!ConfigSaved, Feishu!mail
  <2>2. CASE Feishu!TryStart(c, link.wifi, Feishu!Saved(handled))
    BY <1>a, <1>b, <2>1, <2>2, FeishuSaved, FeishuStarts
  <2>3. CASE handled' = [Feishu!Saved(handled) EXCEPT !.missed = @ \/ (flags.stop /\ c # Unset)]
    <3> DEFINE late == Feishu!Saved(handled).missed \/ (flags.stop /\ c # Unset)
    <3>1. late \in BOOLEAN /\ handled' = [Feishu!Saved(handled) EXCEPT !.missed = late]
      BY <2>3
    <3> HIDE DEF late
    <3> QED BY <1>a, <1>b, <2>1, <3>1, FeishuSaved
  <2> QED BY <1>1, <2>2, <2>3 DEF Feishu!ConfigSaved
<1>2. CASE Feishu!WifiConnects
  BY <1>2, <1>a, <1>b, FeishuStarts DEF Feishu!WifiConnects, Feishu!mail
<1>3. CASE Feishu!WifiLost \/ Feishu!LinkDies \/ Feishu!LinkCloses
  BY <1>3, <1>b, <1>c DEF Feishu!WifiLost, Feishu!LinkDies, Feishu!LinkCloses, Feishu!mail
<1>4. CASE Feishu!Pull \/ Feishu!Connect \/ Feishu!ConnectFails \/ Feishu!Disconnect \/ Feishu!TaskEnds
  BY <1>4, <1>b, <1>c
  DEF Feishu!Pull, Feishu!Connect, Feishu!ConnectFails, Feishu!Disconnect, Feishu!TaskEnds, Feishu!mail
<1>5. CASE Feishu!Handle
  <2>1. frame' = [frame EXCEPT !.done = TRUE] /\ frame.msg \in Messages
    BY <1>5 DEF Feishu!Handle, FeishuInv
  <2>2. frame'.msg \in Messages
    BY <1>5, <2>1 DEF Feishu!Handle
  <2>3. CASE UNCHANGED <<seen, handled>>
    BY <2>2, <2>3 DEF FeishuInv, FeishuOnce, Feishu!FeishuOnce
  <2>4. CASE \A i \in DOMAIN seen.entries : seen.entries[i] # frame.msg
    <3>1. /\ seen' = [entries |-> [seen.entries EXCEPT ![seen.idx] = frame.msg], idx |-> Feishu!After(seen.idx)]
          /\ handled' = [handled EXCEPT !.log = Append(@, frame.msg)]
      BY <1>5, <2>4 DEF Feishu!Handle
    <3> QED BY <1>0, <2>1, <2>2, <2>4, <3>1, Recorded DEF FeishuInv
  <2> QED BY <1>5, <2>3, <2>4 DEF Feishu!Handle
<1>6. CASE Feishu!Ack
  BY <1>6 DEF Feishu!Ack, FeishuInv, FeishuOnce, Feishu!FeishuOnce
<1>7. ASSUME NEW m \in Messages, Feishu!Arrives(m) PROVE FeishuInv'
  BY <1>7 DEF Feishu!Arrives, FeishuInv, FeishuOnce, Feishu!FeishuOnce
<1>8. CASE UNCHANGED feishuvars
  BY <1>8 DEF feishuvars, FeishuInv, FeishuOnce, Feishu!FeishuOnce
<1> QED
  BY <1>1, <1>2, <1>3, <1>4, <1>5, <1>6, <1>7, <1>8 DEF Feishu!Next, Feishu!Task

-----------------------------------------------------------------------------
(***************************************************************************)
(* QQ.  While no credentials were replaced during a fetch, a good token, a *)
(* request under way and the token a connection is about to identify with  *)
(* belong to the present bot.                                              *)
(***************************************************************************)
QqTokenOK == token \in [of : Bots \cup {Unset}, good : BOOLEAN] /\ asking \in [{"ws", "send"} -> Bots \cup {Unset}]
QqLinkOK  == /\ conn \in [ws : {"none", "open", "dead", "closed"}, as : Bots \cup {Unset}]
             /\ wifi \in [up : BOOLEAN, ready : BOOLEAN]
QqTaskOK  == /\ stop \in BOOLEAN /\ (~started => gwTask = "none")
             /\ served \in [raced : BOOLEAN, failed : BOOLEAN, saves : Nat, faults : Nat]
             /\ creds \in Bots \cup {Unset}

Settled(b) == b \in {Unset, creds} \/ served.raced
QqFetchOK  == /\ \A f \in {"ws", "send"} : Settled(asking[f])
              /\ token.good => Settled(token.of)
              /\ gwTask = "gateway" => Settled(token.of)
              /\ gwTask = "token" => asking["ws"] # Unset
QqConnOK   == /\ gwTask # "serving" => conn.as = Unset
              /\ gwTask \in {"connect", "serving"} => stop \/ (Settled(token.of) /\ Settled(conn.as))

QqInv == QqTokenOK /\ QqLinkOK /\ QqTaskOK /\ QqFetchOK /\ QqConnOK

LEMMA QqInit == Qq!Init => QqInv
<1> SUFFICES ASSUME Qq!Init PROVE QqInv
  OBVIOUS
<1>1. QqTokenOK
  BY DEF Qq!Init, Qq!NoToken, QqTokenOK
<1>2. QqLinkOK
  BY DEF Qq!Init, Qq!NoConn, QqLinkOK
<1>3. QqTaskOK
  BY DEF Qq!Init, QqTaskOK
<1>4. QqFetchOK /\ QqConnOK
  BY DEF Qq!Init, Qq!NoToken, Qq!NoConn, QqFetchOK, QqConnOK, Settled
<1> QED BY <1>1, <1>2, <1>3, <1>4 DEF QqInv

(* What starting the task does to its history: nothing but failed starts.  *)
LEMMA QqStarts ==
  ASSUME QqInv, NEW c, NEW w,
         NEW h \in [raced : BOOLEAN, failed : BOOLEAN, saves : Nat, faults : Nat],
         Qq!TryStart(c, w, h)
  PROVE  /\ served' \in [raced : BOOLEAN, failed : BOOLEAN, saves : Nat, faults : Nat]
         /\ served'.raced = h.raced
         /\ (~started => gwTask = "none")'
         /\ gwTask' = gwTask \/ (gwTask' = "top" /\ gwTask = "none")
<1> DEFINE Served == [raced : BOOLEAN, failed : BOOLEAN, saves : Nat, faults : Nat]
<1>1. served' \in Served /\ served'.raced = h.raced
  <2>1. CASE served' = h \/ served' = [h EXCEPT !.failed = FALSE]
    BY <2>1
  <2>2. CASE Qq!Fault([h EXCEPT !.failed = TRUE])
    <3> DEFINE g == [h EXCEPT !.failed = TRUE]
    <3>1. g \in Served /\ g.raced = h.raced
      OBVIOUS
    <3>2. served' = [g EXCEPT !.faults = @ + 1]
      BY <2>2 DEF Qq!Fault
    <3> HIDE DEF g
    <3> QED BY <3>1, <3>2
  <2> QED BY <2>1, <2>2 DEF Qq!TryStart
<1>2. \/ started' = TRUE /\ gwTask' = "top" /\ ~started
      \/ UNCHANGED <<started, gwTask>>
  BY DEF Qq!TryStart
<1> QED BY <1>1, <1>2 DEF QqInv, QqTaskOK

LEMMA QqStep == ChannelsAssumption /\ QqInv /\ [Qq!Next]_qqvars => QqInv'
<1> SUFFICES ASSUME ChannelsAssumption, QqInv, [Qq!Next]_qqvars PROVE QqInv'
  OBVIOUS
<1> USE DEF QqInv
<1>a. Unset \notin Bots
  BY DEF ChannelsAssumption, Qq!QqAssumption
<1>1. ASSUME NEW c \in Bots \cup {Unset}, Qq!ConfigSaved(c) PROVE QqInv'
  <2> DEFINE h == [served EXCEPT !.saves = @ + 1, !.raced = @ \/ (c # creds /\ Qq!Fetching)]
  <2>1. h \in [raced : BOOLEAN, failed : BOOLEAN, saves : Nat, faults : Nat]
    <3> DEFINE races == served.raced \/ (c # creds /\ Qq!Fetching)
    <3>1. races \in BOOLEAN
      OBVIOUS
    <3>2. h = [served EXCEPT !.saves = @ + 1, !.raced = races]
      OBVIOUS
    <3>3. served \in [raced : BOOLEAN, failed : BOOLEAN, saves : Nat, faults : Nat]
      BY DEF QqTaskOK
    <3> HIDE DEF races, h
    <3>4. served.saves + 1 \in Nat
      BY <3>3
    <3> QED BY <3>1, <3>2, <3>3, <3>4
  <2>2. Qq!TryStart(c, wifi, h)
    BY <1>1 DEF Qq!ConfigSaved
  <2>3. /\ served' \in [raced : BOOLEAN, failed : BOOLEAN, saves : Nat, faults : Nat]
        /\ served'.raced = (served.raced \/ (c # creds /\ Qq!Fetching))
        /\ (~started => gwTask = "none")'
        /\ gwTask' = gwTask \/ (gwTask' = "top" /\ gwTask = "none")
    BY <2>1, <2>2, QqStarts DEF QqTaskOK
  <2>4. creds' = c /\ UNCHANGED <<wifi, asking, conn>>
    BY <1>1 DEF Qq!ConfigSaved
  <2>5. stop' \in BOOLEAN /\ (stop => stop') /\ (c # creds => stop')
    BY <1>1 DEF Qq!ConfigSaved, Qq!Replaced, QqTaskOK
  <2>6. /\ token' \in [of : Bots \cup {Unset}, good : BOOLEAN] /\ token'.of = token.of
        /\ token'.good => token.good /\ c = creds
    BY <1>1 DEF Qq!ConfigSaved, Qq!Replaced, QqTokenOK
  <2>7. QqTokenOK' /\ QqLinkOK' /\ QqTaskOK'
    BY <2>3, <2>4, <2>5, <2>6 DEF QqTokenOK, QqLinkOK, QqTaskOK
  <2>8. c = creds \/ ~Qq!Fetching \/ served'.raced
    BY <2>3
  <2>9. QqFetchOK'
    BY <2>3, <2>4, <2>6, <2>8 DEF QqFetchOK, QqTokenOK, Settled, Qq!Fetching
  <2>10. QqConnOK'
    BY <2>3, <2>4, <2>5, <2>6 DEF QqConnOK, Settled
  <2> QED BY <2>7, <2>9, <2>10
<1>2. CASE Qq!WifiConnects
  <2>1. Qq!TryStart(creds, wifi', served) /\ UNCHANGED <<creds, token, stop, asking, conn>>
    BY <1>2 DEF Qq!WifiConnects
  <2>2. served \in [raced : BOOLEAN, failed : BOOLEAN, saves : Nat, faults : Nat]
    BY DEF QqTaskOK
  <2>3. /\ served' \in [raced : BOOLEAN, failed : BOOLEAN, saves : Nat, faults : Nat]
        /\ served'.raced = served.raced
        /\ (~started => gwTask = "none")'
        /\ gwTask' = gwTask \/ (gwTask' = "top" /\ gwTask = "none")
    BY <2>1, <2>2, QqStarts
  <2>4. QqTokenOK' /\ QqLinkOK' /\ QqTaskOK'
    BY <1>2, <2>1, <2>3 DEF QqTokenOK, QqLinkOK, QqTaskOK, Qq!WifiConnects
  <2>5. QqFetchOK' /\ QqConnOK'
    BY <2>1, <2>3 DEF QqFetchOK, QqConnOK, Settled
  <2> QED BY <2>4, <2>5
<1>b. ASSUME \/ UNCHANGED served
             \/ Qq!Fault(served)
      PROVE  served' \in [raced : BOOLEAN, failed : BOOLEAN, saves : Nat, faults : Nat] /\ served'.raced = served.raced
  BY <1>b DEF Qq!Fault, QqTaskOK
<1>3. CASE Qq!WifiLost
  <2>1. UNCHANGED <<creds, token, started, stop, gwTask, asking>> /\ Qq!Fault(served)
    BY <1>3 DEF Qq!WifiLost
  <2>2. QqLinkOK' /\ conn'.as = conn.as
    BY <1>3 DEF Qq!WifiLost, QqLinkOK
  <2> QED BY <2>1, <2>2, <1>b DEF QqTokenOK, QqTaskOK, QqFetchOK, QqConnOK, Settled
<1>4. CASE Qq!SendAsks
  BY <1>4 DEF Qq!SendAsks, QqTokenOK, QqLinkOK, QqTaskOK, QqFetchOK, QqConnOK, Settled
<1>5. ASSUME NEW f \in {"ws", "send"}, asking[f] # Unset, UNCHANGED token \/ token' = Qq!Store(token, asking[f]),
             asking' = [asking EXCEPT ![f] = Unset], served'.raced = served.raced, UNCHANGED creds
      PROVE  /\ QqTokenOK' /\ \A e \in {"ws", "send"} : Settled(asking[e])'
             /\ (token.good => Settled(token.of))' /\ (token' # token => Settled(token.of)')
             /\ token.good => Settled(token.of)'
  <2>1. asking[f] \in Bots /\ Settled(asking[f])
    BY <1>5 DEF QqTokenOK, QqFetchOK
  <2>2. /\ token' \in [of : Bots \cup {Unset}, good : BOOLEAN]
        /\ token' = token \/ (token'.of = asking[f] /\ ~token.good)
    <3>1. CASE token.good
      BY <1>5, <3>1 DEF Qq!Store, QqTokenOK
    <3>2. CASE ~token.good /\ token' # token
      <4>1. token' = [of |-> asking[f], good |-> TRUE]
        BY <1>5, <3>2 DEF Qq!Store
      <4> QED BY <2>1, <3>2, <4>1
    <3>3. CASE token' = token
      BY <3>3 DEF QqTokenOK
    <3> QED BY <3>1, <3>2, <3>3
  <2>3. asking' \in [{"ws", "send"} -> Bots \cup {Unset}] /\ \A e \in {"ws", "send"} : asking'[e] \in {asking[e], Unset}
    BY <1>5 DEF QqTokenOK
  <2> QED BY <1>5, <2>1, <2>2, <2>3 DEF QqTokenOK, QqFetchOK, Settled
<1>c. ASSUME Qq!TokenFaulty(served) PROVE UNCHANGED served \/ Qq!Fault(served)
  BY <1>c DEF Qq!TokenFaulty
<1>6. CASE Qq!SendAnswered
  <2>1. /\ UNCHANGED <<creds, wifi, started, stop, gwTask, conn>>
        /\ asking["send"] # Unset /\ asking' = [asking EXCEPT !["send"] = Unset]
        /\ UNCHANGED token \/ token' = Qq!Store(token, asking["send"])
        /\ UNCHANGED served \/ Qq!Fault(served)
    BY <1>6, <1>c DEF Qq!SendAnswered
  <2>2. /\ QqTokenOK' /\ \A e \in {"ws", "send"} : Settled(asking[e])'
        /\ (token.good => Settled(token.of))' /\ (token' # token => Settled(token.of)')
    BY <2>1, <1>5, <1>b
  <2>3. served'.raced = served.raced /\ QqTaskOK' /\ QqLinkOK'
    BY <2>1, <1>b DEF QqTaskOK, QqLinkOK
  <2>4. asking'["ws"] = asking["ws"]
    BY <2>1 DEF QqTokenOK
  <2> QED BY <2>1, <2>2, <2>3, <2>4 DEF QqFetchOK, QqConnOK, Settled
<1>7. CASE Qq!TokenExpires
  <2>1. UNCHANGED <<creds, wifi, started, stop, gwTask, asking, conn>> /\ Qq!Fault(served)
    BY <1>7 DEF Qq!TokenExpires
  <2>2. QqTokenOK' /\ token'.of = token.of /\ ~token'.good
    BY <1>7 DEF Qq!TokenExpires, QqTokenOK
  <2> QED BY <2>1, <2>2, <1>b DEF QqLinkOK, QqTaskOK, QqFetchOK, QqConnOK, Settled
<1>8. CASE Qq!FetchToken
  <2>1. UNCHANGED <<creds, token, wifi, started, stop, conn, served>> /\ started /\ conn.as = Unset /\ creds # Unset
    BY <1>8 DEF Qq!FetchToken, QqTaskOK, QqConnOK
  <2>2. QqTokenOK' /\ QqLinkOK' /\ QqTaskOK'
    BY <1>8, <2>1 DEF Qq!FetchToken, QqTokenOK, QqLinkOK, QqTaskOK
  <2>3. QqFetchOK'
    BY <1>8, <2>1 DEF Qq!FetchToken, QqTokenOK, QqFetchOK, Settled
  <2>4. QqConnOK'
    BY <1>8, <2>1 DEF Qq!FetchToken, QqConnOK
  <2> QED BY <2>2, <2>3, <2>4
<1>9. CASE Qq!GiveUp
  BY <1>9 DEF Qq!GiveUp, QqTokenOK, QqLinkOK, QqTaskOK, QqFetchOK, QqConnOK, Settled
<1>10. CASE Qq!TokenAnswered
  <2>1. /\ UNCHANGED <<creds, wifi, started, stop, conn>> /\ started /\ conn.as = Unset
        /\ asking["ws"] # Unset /\ asking' = [asking EXCEPT !["ws"] = Unset]
        /\ \/ gwTask' = "top" /\ UNCHANGED token
           \/ gwTask' = "gateway" /\ token' = Qq!Store(token, asking["ws"])
        /\ UNCHANGED served \/ Qq!Fault(served)
    BY <1>10, <1>c DEF Qq!TokenAnswered, QqTaskOK, QqFetchOK, QqConnOK
  <2>2. /\ QqTokenOK' /\ \A e \in {"ws", "send"} : Settled(asking[e])'
        /\ (token.good => Settled(token.of))'
    BY <2>1, <1>5, <1>b
  <2>3. QqTaskOK' /\ QqLinkOK'
    BY <2>1, <1>b DEF QqTaskOK, QqLinkOK
  <2>4. gwTask' = "gateway" => token'.good
    BY <2>1 DEF Qq!Store
  <2> QED BY <2>1, <2>2, <2>3, <2>4 DEF QqFetchOK, QqConnOK
<1>11. CASE Qq!FetchGateway
  <2>1. /\ UNCHANGED <<creds, token, wifi, started, asking, conn>> /\ started /\ conn.as = Unset
        /\ (gwTask' = "connect" /\ stop' = FALSE) \/ (gwTask' = "top" /\ UNCHANGED stop)
        /\ UNCHANGED served \/ Qq!Fault(served)
    <3>1. gwTask = "gateway"
      BY <1>11 DEF Qq!FetchGateway
    <3>2. started /\ conn.as = Unset
      BY <3>1 DEF QqTaskOK, QqConnOK
    <3> QED BY <1>11, <1>c, <3>2 DEF Qq!FetchGateway
  <2>2. Settled(token.of)
    BY <1>11 DEF Qq!FetchGateway, QqFetchOK
  <2> QED BY <2>1, <2>2, <1>b DEF QqTokenOK, QqLinkOK, QqTaskOK, QqFetchOK, QqConnOK, Settled
<1>12. CASE Qq!Connect
  <2>1. /\ UNCHANGED <<creds, token, wifi, started, stop, asking>> /\ started /\ conn.as = Unset
        /\ \/ gwTask' = "serving" /\ conn' = [ws |-> "open", as |-> Unset]
           \/ gwTask' = "top" /\ UNCHANGED conn
        /\ UNCHANGED served \/ Qq!Fault(served)
    BY <1>12, <1>c DEF Qq!Connect, QqTaskOK, QqConnOK
  <2>2. conn'.as = Unset /\ QqLinkOK'
    BY <2>1 DEF QqLinkOK
  <2> QED BY <1>12, <2>1, <2>2, <1>b DEF Qq!Connect, QqTokenOK, QqTaskOK, QqFetchOK, QqConnOK, Settled
<1>13. CASE Qq!Identify
  <2>1. /\ UNCHANGED <<creds, token, wifi, started, gwTask, asking>> /\ gwTask = "serving" /\ ~stop
        /\ \/ conn' = [conn EXCEPT !.as = token.of] /\ UNCHANGED <<stop, served>>
           \/ stop' = TRUE /\ Qq!Fault(served) /\ UNCHANGED conn
    BY <1>13 DEF Qq!Identify
  <2>2. QqLinkOK' /\ conn'.as \in {conn.as, token.of}
    BY <2>1 DEF QqLinkOK, QqTokenOK
  <2>3. QqTaskOK' /\ served'.raced = served.raced
    BY <2>1, <1>b DEF QqTaskOK
  <2> QED BY <2>1, <2>2, <2>3 DEF QqTokenOK, QqFetchOK, QqConnOK, Settled
<1>14. CASE Qq!ServerEnds \/ Qq!HeartbeatFails
  <2>1. /\ UNCHANGED <<creds, token, wifi, started, gwTask, asking, conn>> /\ stop' = TRUE
        /\ UNCHANGED served \/ Qq!Fault(served)
    BY <1>14 DEF Qq!ServerEnds, Qq!HeartbeatFails
  <2> QED BY <2>1, <1>b, <1>14 DEF QqTokenOK, QqLinkOK, QqTaskOK, QqFetchOK, QqConnOK, Settled
<1>15. CASE Qq!Disconnect
  <2>1. /\ UNCHANGED <<creds, token, wifi, started, stop, asking, served>> /\ started
        /\ gwTask' = "top" /\ conn' = Qq!NoConn
    BY <1>15 DEF Qq!Disconnect, QqTaskOK
  <2> QED BY <2>1 DEF QqTokenOK, QqLinkOK, QqTaskOK, QqFetchOK, QqConnOK, Settled, Qq!NoConn
<1>16. CASE Qq!LinkDies \/ Qq!LinkCloses
  <2>1. /\ UNCHANGED <<creds, token, wifi, started, stop, gwTask, asking>>
        /\ \E w \in {"dead", "closed"} : conn' = [conn EXCEPT !.ws = w]
        /\ UNCHANGED served \/ Qq!Fault(served)
    BY <1>16 DEF Qq!LinkDies, Qq!LinkCloses
  <2>2. QqLinkOK' /\ conn'.as = conn.as
    BY <2>1 DEF QqLinkOK
  <2> QED BY <2>1, <2>2, <1>b DEF QqTokenOK, QqTaskOK, QqFetchOK, QqConnOK, Settled
<1>17. CASE UNCHANGED qqvars
  BY <1>17 DEF qqvars, QqTokenOK, QqLinkOK, QqTaskOK, QqFetchOK, QqConnOK, Settled
<1> QED
  BY <1>1, <1>2, <1>3, <1>4, <1>6, <1>7, <1>8, <1>9, <1>10, <1>11, <1>12, <1>13, <1>14, <1>15,
     <1>16, <1>17
  DEF Qq!Next, Qq!Task

-----------------------------------------------------------------------------
(***************************************************************************)
(* The channels rest while another part runs.                              *)
(***************************************************************************)

(* TelegramPoll: whatever restarts of the poller, failed requests and      *)
(* saved tokens, one loss of power after the second saving of a token      *)
(* apart, no update the server has forgotten was lost.                     *)
THEOREM UpdatesAreKept == RouteSpec => []UpdatesKept
<1>1. RouteInit => TelegramInv
  BY TelegramInit DEF RouteInit
<1>2. TelegramInv /\ [RouteNext]_allvars => TelegramInv'
  <2>1. [RouteNext]_allvars => [Telegram!Next]_telegramvars
    BY DEF RouteNext, allvars, Dispatches, PollsTelegram, ServesFeishu, ServesQq
  <2> QED BY <2>1, ChannelsAssumption, TelegramStep
<1>3. TelegramInv => UpdatesKept
  BY DEF TelegramInv
<1> QED BY <1>1, <1>2, <1>3, PTL DEF RouteSpec

(* FeishuChannel: for any size of the cache of seen messages, a message is *)
(* not published twice while it is among the last of that many.            *)
THEOREM FeishuPublishesOnce == RouteSpec => []FeishuOnce
<1>1. RouteInit => FeishuInv
  BY ChannelsAssumption, FeishuInit DEF RouteInit
<1>2. FeishuInv /\ [RouteNext]_allvars => FeishuInv'
  <2>1. [RouteNext]_allvars => [Feishu!Next]_feishuvars
    BY DEF RouteNext, allvars, Dispatches, PollsTelegram, ServesFeishu, ServesQq
  <2> QED BY <2>1, ChannelsAssumption, FeishuStep
<1>3. FeishuInv => FeishuOnce
  BY DEF FeishuInv
<1> QED BY <1>1, <1>2, <1>3, PTL DEF RouteSpec

(* QqGateway: whenever credentials are replaced, but not during a fetch of *)
(* the token, a connection of the bot that was replaced is about to end.   *)
THEOREM QqKeepsIdentity == RouteSpec => []QqIdentity
<1>1. RouteInit => QqInv
  BY QqInit DEF RouteInit
<1>2. QqInv /\ [RouteNext]_allvars => QqInv'
  <2>1. [RouteNext]_allvars => [Qq!Next]_qqvars
    BY DEF RouteNext, allvars, Dispatches, PollsTelegram, ServesFeishu, ServesQq
  <2> QED BY <2>1, ChannelsAssumption, QqStep
<1>3. QqInv => QqIdentity
  BY DEF QqInv, QqConnOK, Settled, QqIdentity, Qq!QqIdentity
<1> QED BY <1>1, <1>2, <1>3, PTL DEF RouteSpec
=============================================================================
