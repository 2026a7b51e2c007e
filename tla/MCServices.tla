----------------------------- MODULE MCServices -----------------------------
(***************************************************************************)
(* The services around the agent, checked one at a time: `part`, chosen in *)
(* the initial state, names the one that runs while the others rest.       *)
(***************************************************************************)
EXTENDS Scheduler, FiniteSets

CONSTANTS Replies, Sends, MaxTasks, CanFail                    \* OneShotSends
CONSTANTS Callbacks, MaxCbs, MaxDrops, MaxManual               \* WifiManager
CONSTANTS Answers, Digits, MaxChunks, ReadSize, HttpRetries, MaxTries, NoStream   \* ReplyStream
CONSTANTS Parts

VARIABLES part
VARIABLES inflight, at, loaded, sent
VARIABLES state, softap, configured, waited, op, fired, cbs, net, seen
VARIABLES stage, tries, attempt, reply, wire, buf, acc, ended, answer

OneShot == INSTANCE OneShotSends
Wifi    == INSTANCE WifiManager
Stream  == INSTANCE ReplyStream

ASSUME ServicesAssumption == OneShot!OneShotAssumption /\ Wifi!WifiAssumption /\ Stream!StreamAssumption

(* Sizes of chunks to base 3, and an answer of two pieces or none. *)
Ternary == <<"0", "1", "2">>
Asked   == {<<>>, <<"hello", "world">>}

(* A job of the scheduler: one-shot, by interval, by cron, on an event.    *)
Def(id, kind, start, every, max, end) ==
  [id |-> id, kind |-> kind, start |-> start, every |-> every, max |-> max, end |-> end]
Reminders ==
  {Def(NoId, "once", 2, 0, 0, 0), Def(1, "once", 3, 0, 0, 0), Def(1, "interval", 0, 2, 1, 0),
   Def(NoId, "cron", 0, 2, 0, 3), Def(6, "on_event", 0, 0, 0, 0)}

sendvars == <<inflight, at, loaded, sent>>
wifivars == <<state, softap, configured, waited, op, fired, cbs, net, seen>>
replyvars == <<stage, tries, attempt, reply, wire, buf, acc, ended, answer>>
allvars  == <<part, svars, sendvars, wifivars, replyvars>>

ServicesInit ==
  /\ part \in Parts
  /\ Init /\ OneShot!Init /\ Wifi!Init /\ (part # "wifi" => ~configured) /\ Stream!Init

RunsScheduler == part = "scheduler" /\ Next         /\ UNCHANGED <<part, sendvars, wifivars, replyvars>>
RunsSends     == part = "sends"     /\ OneShot!Next /\ UNCHANGED <<part, svars, wifivars, replyvars>>
RunsWifi      == part = "wifi"      /\ Wifi!Next    /\ UNCHANGED <<part, svars, sendvars, replyvars>>
RunsStream    == part = "stream"    /\ Stream!Next  /\ UNCHANGED <<part, svars, sendvars, wifivars>>

ServicesNext == RunsScheduler \/ RunsSends \/ RunsWifi \/ RunsStream

FairPart ==
  \/ part = "scheduler" /\ Fairness
  \/ part = "sends"     /\ OneShot!Fairness
  \/ part = "wifi"      /\ Wifi!Fairness
  \/ part = "stream"

ServicesSpec == ServicesInit /\ [][ServicesNext]_allvars /\ FairPart
-----------------------------------------------------------------------------
(* The properties of the parts, under the names they have there. *)

(* OneShotSends: a reply reaches its channel. *)
ReplyArrives == OneShot!ReplyArrives

(* WifiManager: every callback is told of a connection; a configured       *)
(* station is connected again.                                             *)
ConnectionTold == Wifi!ConnectionTold
Reconnects     == Wifi!Reconnects

(* ReplyStream: an answer is the whole of the server's, or what came of a  *)
(* stream that was cut off; and, as the code's comment has it, never that. *)
AnswerIsReply == Stream!AnswerIsReply
CutIsError    == Stream!CutIsError
=============================================================================
