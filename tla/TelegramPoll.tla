---------------------------- MODULE TelegramPoll ----------------------------
(***************************************************************************)
(* cap_im_telegram.c: the task that polls for updates.  The server keeps   *)
(* an update until a poll names a later one as its offset, so the channel  *)
(* confirms with last_update_id, which it sets before it publishes.  A     *)
(* saved configuration and a new Wi-Fi connection each start the task if   *)
(* they find none: by a test and a creation that nothing makes one step.   *)
(***************************************************************************)
EXTENDS Integers, Sequences, FiniteSets

CONSTANTS
  MaxUpdate,   \* bound: updates that users send, by id
  Starters,    \* the tasks that run the callbacks
  MaxStarts,   \* bound: callbacks that find no task
  MaxSaves,    \* bound: changes of the token
  MaxReboots   \* bound: power losses

TelegramAssumption ==
  /\ {MaxUpdate, MaxStarts, MaxSaves, MaxReboots} \subseteq Nat /\ IsFiniteSet(Starters)

VARIABLES
  server,      \* external: updates [sent |-> up to this id, kept |-> the ones not confirmed]
  token,       \* whether cfg->telegram.bot_token is set
  last,        \* s.last_update_id
  running,     \* s.running
  task,        \* whether s.task is set
  pollers,     \* per poll task: where it is, the offset it asks for, the updates it holds
  starting,    \* callbacks that found no task
  hist         \* history: what became of the updates, bounds

tvars == <<server, token, last, running, task, pollers, starting, hist>>

Slots == 1..Cardinality(Starters)                \* room for one task of each callback
Off   == [at |-> "off", offset |-> 0, batch |-> <<>>]

Init ==
  /\ server = [sent |-> 0, kept |-> {}] /\ token \in BOOLEAN
  /\ last = 0 /\ running = FALSE /\ task = FALSE
  /\ pollers = [p \in Slots |-> Off] /\ starting = {}
  /\ hist = [published |-> {}, dropped |-> {}, cut |-> {}, second |-> FALSE, starts |-> 0, saves |-> 0, reboots |-> 0]

UserSends ==
  /\ server.sent < MaxUpdate
  /\ server' = [sent |-> server.sent + 1, kept |-> server.kept \cup {server.sent + 1}]
  /\ UNCHANGED <<token, last, running, task, pollers, starting, hist>>

TokenChanges ==
  /\ hist.saves < MaxSaves
  /\ token' = ~token
  /\ hist' = [hist EXCEPT !.saves = @ + 1]
  /\ UNCHANGED <<server, last, running, task, pollers, starting>>

-----------------------------------------------------------------------------
(* telegram_try_start: the test of s.task, and the creation of the task.   *)
FindsNone(c) ==
  /\ c \notin starting /\ hist.starts < MaxStarts
  /\ ~task /\ token
  /\ starting' = starting \cup {c}
  /\ hist' = [hist EXCEPT !.starts = @ + 1]
  /\ UNCHANGED <<server, token, last, running, task, pollers>>

Creates(c) ==
  /\ c \in starting
  /\ starting' = starting \ {c}
  /\ running' = TRUE /\ task' = TRUE
  /\ \E p \in Slots :
       /\ pollers[p].at = "off" /\ \A q \in 1..(p - 1) : pollers[q].at # "off"
       /\ pollers' = [pollers EXCEPT ![p].at = "loop"]
  /\ hist' = [hist EXCEPT !.second = @ \/ \E p \in Slots : pollers[p].at # "off"]
  /\ UNCHANGED <<server, token, last>>

CreateFails(c) ==
  /\ c \in starting
  /\ starting' = starting \ {c} /\ running' = FALSE
  /\ UNCHANGED <<server, token, last, task, pollers, hist>>

-----------------------------------------------------------------------------
(* telegram_poll_task. *)

(* Mutant of Offset: it confirms an update nobody has seen.                *)
Offset_Late == last + 2

Offset == last + 1

Ids(S) == [i \in 1..Cardinality(S) |-> CHOOSE u \in S : Cardinality({v \in S : v < u}) = i - 1]

Asks(p) ==
  /\ pollers[p].at = "loop" /\ running /\ token
  /\ pollers' = [pollers EXCEPT ![p] = [@ EXCEPT !.at = "asking", !.offset = Offset]]
  /\ UNCHANGED <<server, token, last, running, task, starting, hist>>

(* The server forgets what is confirmed and answers with the rest; the     *)
(* answer arrives, or is lost and the task starts over.                    *)
Answers(p) ==
  /\ pollers[p].at = "asking"
  /\ LET kept == {u \in server.kept : u >= pollers[p].offset}
     IN  /\ server' = [server EXCEPT !.kept = kept]
         /\ \E batch \in {Ids(kept), <<>>} :
              pollers' = [pollers EXCEPT ![p] =
                           IF batch = <<>> THEN [Off EXCEPT !.at = "loop"]
                           ELSE [at |-> "taking", offset |-> 0, batch |-> batch]]
  /\ UNCHANGED <<token, last, running, task, starting, hist>>

Takes(p) ==
  /\ pollers[p].at = "taking"
  /\ last' = Head(pollers[p].batch)
  /\ pollers' = [pollers EXCEPT ![p].at = "holding"]
  /\ UNCHANGED <<server, token, running, task, starting, hist>>

(* The dispatcher's inbox takes the message within 100 ms, or drops it.    *)
Publishes(p) ==
  /\ pollers[p].at = "holding"
  /\ LET u == Head(pollers[p].batch)  rest == Tail(pollers[p].batch)
     IN  /\ \E h \in {[hist EXCEPT !.published = @ \cup {u}], [hist EXCEPT !.dropped = @ \cup {u}]} : hist' = h
         /\ pollers' = [pollers EXCEPT ![p] =
                         IF rest = <<>> THEN [Off EXCEPT !.at = "loop"] ELSE [@ EXCEPT !.at = "taking", !.batch = rest]]
  /\ UNCHANGED <<server, token, last, running, task, starting>>

Ends(p) ==
  /\ pollers[p].at = "loop" /\ (~running \/ ~token)
  /\ pollers' = [pollers EXCEPT ![p].at = "ending"]
  /\ UNCHANGED <<server, token, last, running, task, starting, hist>>

Ended(p) ==
  /\ pollers[p].at = "ending"
  /\ running' = FALSE /\ task' = FALSE
  /\ pollers' = [pollers EXCEPT ![p] = Off]
  /\ UNCHANGED <<server, token, last, starting, hist>>

-----------------------------------------------------------------------------
(* What the tasks have taken and not yet published.                        *)
Held == {Head(pollers[p].batch) : p \in {p \in Slots : pollers[p].at = "holding"}}

PowerLoss ==
  /\ hist.reboots < MaxReboots
  /\ hist' = [hist EXCEPT !.reboots = @ + 1, !.second = FALSE, !.cut = IF hist.second THEN @ \cup Held ELSE @]
  /\ last' = 0 /\ running' = FALSE /\ task' = FALSE
  /\ pollers' = [p \in Slots |-> Off] /\ starting' = {}
  /\ UNCHANGED <<server, token>>

Next ==
  \/ UserSends \/ TokenChanges \/ PowerLoss
  \/ \E c \in Starters : FindsNone(c) \/ Creates(c) \/ CreateFails(c)
  \/ \E p \in Slots : Asks(p) \/ Answers(p) \/ Takes(p) \/ Publishes(p) \/ Ends(p) \/ Ended(p)

Spec == Init /\ [][Next]_tvars
-----------------------------------------------------------------------------
(* Property *)

(* The server forgets an update only when it was published, when a full    *)
(* inbox dropped it, or while a task holds it.  Only a power loss after    *)
(* a second task has polled takes one from there.                          *)
UpdatesKept ==
  (1..server.sent) \ server.kept \subseteq hist.published \cup hist.dropped \cup Held \cup hist.cut
=============================================================================
