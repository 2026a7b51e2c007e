------------------------- MODULE MCEventDispatcher -------------------------
(***************************************************************************)
(* The event dispatcher and the channels that publish to it, checked one   *)
(* at a time: `part`, chosen in the initial state, names the one that runs *)
(* while the others rest.                                                  *)
(***************************************************************************)
EXTENDS EventDispatcher

CONSTANTS Unset
CONSTANTS MaxUpdate, Starters, MaxStarts, TokenSaves, MaxReboots              \* TelegramPoll
CONSTANTS Apps, Messages, CacheSize, AppSaves, AppFaults, MaxHandled          \* FeishuChannel
CONSTANTS Bots, BotSaves, BotFaults                                           \* QqGateway

VARIABLES part
VARIABLES server, hasToken, last, running, poll, pollers, starting, polled
VARIABLES config, used, flags, wsTask, link, unacked, frame, seen, handled
VARIABLES creds, token, wifi, started, stop, gwTask, asking, conn, served

Telegram == INSTANCE TelegramPoll
              WITH token <- hasToken, task <- poll, hist <- polled, MaxSaves <- TokenSaves
Feishu   == INSTANCE FeishuChannel
              WITH conn <- used, task <- wsTask, hist <- handled,
                   None <- Unset, MaxSaves <- AppSaves, MaxFaults <- AppFaults
Qq       == INSTANCE QqGateway
              WITH task <- gwTask, hist <- served,
                   None <- Unset, MaxSaves <- BotSaves, MaxFaults <- BotFaults

ASSUME ChannelsAssumption ==
  Telegram!TelegramAssumption /\ Feishu!FeishuAssumption /\ Qq!QqAssumption

-----------------------------------------------------------------------------
(* Rules that answer, pass on and derive, silence, and derive more events  *)
(* than the inbox may take.                                                *)
Act(kind) == [kind |-> kind, to |-> "trigger", guarded |-> FALSE, stop |-> FALSE]
Rule(id, on, cooldown, consume, actions) ==
  [id |-> id, on |-> on, cooldown |-> cooldown, consume |-> consume, actions |-> actions]

Reply   == Rule("reply", {"message"}, 2, FALSE, <<Act("cap")>>)
Forward == Rule("forward", {"message", "trigger"}, 0, FALSE,
                <<[Act("emit") EXCEPT !.guarded = TRUE, !.stop = TRUE], Act("drop")>>)
Mute    == Rule("mute", {"message"}, 2, TRUE, <<Act("drop")>>)
Loop    == Rule("loop", {"trigger"}, 0, FALSE, <<Act("emit"), Act("emit")>>)
Routed  == {Reply, Forward, Mute, Loop}

-----------------------------------------------------------------------------
telegramvars == <<server, hasToken, last, running, poll, pollers, starting, polled>>
feishuvars   == <<config, used, flags, wsTask, link, unacked, frame, seen, handled>>
qqvars       == <<creds, token, wifi, started, stop, gwTask, asking, conn, served>>
allvars      == <<part, vars, telegramvars, feishuvars, qqvars>>

(* What does not run has one initial state.                                *)
RouteInit ==
  /\ part \in {"dispatcher", "telegram", "feishu", "qq"}
  /\ Init /\ Telegram!Init /\ Feishu!Init /\ Qq!Init
  /\ part # "telegram" => ~hasToken
  /\ part # "feishu" => config = Unset
  /\ part # "qq" => creds = Unset

Dispatches    == part = "dispatcher" /\ Next          /\ UNCHANGED <<part, telegramvars, feishuvars, qqvars>>
PollsTelegram == part = "telegram"   /\ Telegram!Next /\ UNCHANGED <<part, vars, feishuvars, qqvars>>
ServesFeishu  == part = "feishu"     /\ Feishu!Next   /\ UNCHANGED <<part, vars, telegramvars, qqvars>>
ServesQq      == part = "qq"         /\ Qq!Next       /\ UNCHANGED <<part, vars, telegramvars, feishuvars>>

RouteNext == Dispatches \/ PollsTelegram \/ ServesFeishu \/ ServesQq

FairPart ==
  \/ part = "dispatcher" /\ WF_vars(Worker)
  \/ part = "telegram"
  \/ part = "feishu"     /\ Feishu!Fairness
  \/ part = "qq"         /\ Qq!Fairness

RouteSpec == RouteInit /\ [][RouteNext]_allvars /\ FairPart
-----------------------------------------------------------------------------
(* The properties of the channels, under the names they have there. *)

(* TelegramPoll: the server forgets only what was published or dropped, or *)
(* what a task holds.                                                      *)
UpdatesKept == Telegram!UpdatesKept

(* FeishuChannel: a message sent again is not published again.             *)
FeishuOnce == Feishu!FeishuOnce

(* QqGateway: a connection of a replaced bot is about to be ended.         *)
QqIdentity == Qq!QqIdentity

(* FeishuChannel, QqGateway: once the network is well and credentials are  *)
(* set, the channel's task has a connection again.                         *)
ChannelsReconnect ==
  /\ part = "feishu" => Feishu!FeishuServes
  /\ part = "qq"     => Qq!QqServes
=============================================================================
