------------------------------ MODULE Channels ------------------------------
(***************************************************************************)
(* Notifications: send_event of app/services/notifications.py, and the     *)
(* pages of app/main.py and commands of app/cli.py that change the tables  *)
(* notification_channels and notification_rules.  A channel has a rule for *)
(* an event type, or several; what a channel is configured with is left    *)
(* out, and the provider behind it may fail.                               *)
(***************************************************************************)
EXTENDS Naturals, FiniteSets

CONSTANTS
    Types,        \* event types
    Important,    \* those a channel added on a page has a rule for
    Visits,       \* requests and commands, each made once
    Sends         \* calls of send_event

ASSUME ChannelsAssumption == Important \subseteq Types /\ IsFiniteSet(Visits)

VARIABLES
    channels,     \* notification_channels: [ids -> enabled]
    lastChannel,  \* sqlite_sequence of notification_channels
    rules,        \* notification_rules, each known by the request it is of
    visit,        \* where each request is, and the rules it has found
    send,         \* where each call of send_event is, and its rows to go
    got,          \* how often each call has tried each channel
    crossed       \* history: a rule went in while another was to go in

channelVars == <<channels, lastChannel, rules, visit, send, got, crossed>>

Ids  == 1..Cardinality(Visits)
Rule == [by: Visits, channel: Ids, type: Types, on: BOOLEAN]

ChannelsTypeOK ==
    /\ DOMAIN channels \subseteq 1..lastChannel /\ lastChannel \in 0..Cardinality(Visits)
    /\ rules \subseteq Rule
    /\ \A v \in Visits : visit[v].pc \in {"new", "rules", "toggle", "done"}
    /\ \A s \in Sends :
          /\ send[s].pc \in {"new", "logged", "sending", "over", "cut"}
          /\ send[s].todo \subseteq Rule /\ send[s].chosen \subseteq Ids
    /\ got \in [Sends -> [Ids -> 0..(Cardinality(Visits))]]
    /\ crossed \in BOOLEAN

ChannelsInit ==
    /\ channels = << >> /\ lastChannel = 0 /\ rules = {}
    /\ visit = [v \in Visits |-> [pc |-> "new", channel |-> 0, type |-> "none", found |-> {}]]
    /\ send = [s \in Sends |-> [pc |-> "new", type |-> "none", todo |-> {}, chosen |-> {}]]
    /\ got = [s \in Sends |-> [c \in Ids |-> 0]]
    /\ crossed = FALSE

-----------------------------------------------------------------------------
(* The pages and commands.                                                 *)
Done(v) == visit' = [visit EXCEPT ![v].pc = "done"]

(* Mutant: without AUTOINCREMENT the id of a deleted channel comes back,   *)
(* and with it the rules it left.                                          *)
NewChannelReusing == Cardinality(DOMAIN channels) + 1

NewChannel == lastChannel + 1

AddRow ==
    /\ channels' = [c \in DOMAIN channels \cup {NewChannel} |->
                      c = NewChannel \/ channels[c]]
    /\ lastChannel' = NewChannel

RulesOf(v, c, types) == [by: {v}, channel: {c}, type: types, on: {TRUE}]

(* Rules for channel c go in, beside another request that is about to.     *)
Inserts(v, c, types) ==
    /\ rules' = rules \cup RulesOf(v, c, types)
    /\ crossed' = (crossed \/ \E w \in Visits \ {v} :
                                visit[w].pc \in {"rules", "toggle"} /\ visit[w].channel = c)
    /\ Done(v)

(* add_telegram and add_email commit the channel ...                       *)
AddChannel(v) ==
    /\ visit[v].pc = "new" /\ AddRow
    /\ visit' = [visit EXCEPT ![v].pc = "rules", ![v].channel = NewChannel]
    /\ UNCHANGED <<rules, send, got, crossed>>

(* ... and then its rules.                                                 *)
AddRules(v) ==
    /\ visit[v].pc = "rules" /\ Inserts(v, visit[v].channel, Important)
    /\ UNCHANGED <<channels, lastChannel, send, got>>

(* add-telegram of the command line: one transaction, and all the types.   *)
CliAddTelegram(v) ==
    /\ visit[v].pc = "new" /\ AddRow /\ Inserts(v, NewChannel, Types)
    /\ UNCHANGED <<send, got>>

(* toggle_rule looks for the rule: any of them, if there are several ...   *)
FindRule(v) == \E c \in DOMAIN channels, t \in Types :
    /\ visit[v].pc = "new"
    /\ visit' = [visit EXCEPT ![v] = [pc |-> "toggle", channel |-> c, type |-> t,
                   found |-> {r.by : r \in {x \in rules : x.channel = c /\ x.type = t}}]]
    /\ UNCHANGED <<channels, lastChannel, rules, send, got, crossed>>

(* ... and flips it, or inserts it.                                        *)
ToggleRule(v) == LET now == visit[v] IN
    /\ now.pc = "toggle"
    /\ IF now.found = {} THEN Inserts(v, now.channel, {now.type})
       ELSE /\ \E w \in now.found : rules' =
                 {IF r.by = w /\ r.channel = now.channel /\ r.type = now.type
                    THEN [r EXCEPT !.on = ~@] ELSE r : r \in rules}
            /\ Done(v) /\ UNCHANGED crossed
    /\ UNCHANGED <<channels, lastChannel, send, got>>

ToggleChannel(v) == \E c \in DOMAIN channels :
    /\ visit[v].pc = "new" /\ Done(v)
    /\ channels' = [channels EXCEPT ![c] = ~@]
    /\ UNCHANGED <<lastChannel, rules, send, got, crossed>>

DisableTelegram(v) == \E c \in DOMAIN channels :
    /\ visit[v].pc = "new" /\ Done(v)
    /\ channels' = [channels EXCEPT ![c] = FALSE]
    /\ UNCHANGED <<lastChannel, rules, send, got, crossed>>

(* delete_channel: foreign keys are off, and the rules stay.               *)
DeleteChannel(v) == \E c \in DOMAIN channels :
    /\ visit[v].pc = "new" /\ Done(v)
    /\ channels' = [d \in DOMAIN channels \ {c} |-> channels[d]]
    /\ UNCHANGED <<lastChannel, rules, send, got, crossed>>

-----------------------------------------------------------------------------
(* send_event.                                                             *)
Settings == <<channels, lastChannel, rules, visit, crossed>>

(* The event is committed, and a call with notify = False ends.            *)
LogEvent(s) == \E t \in Types, notify \in BOOLEAN :
    /\ send[s].pc = "new"
    /\ send' = [send EXCEPT ![s].pc = IF notify THEN "logged" ELSE "over", ![s].type = t]
    /\ UNCHANGED <<Settings, got>>

(* A row for every enabled rule of an enabled channel that is there.       *)
SelectChannels(s) ==
    LET rows == {r \in rules : /\ r.type = send[s].type /\ r.on
                               /\ r.channel \in DOMAIN channels /\ channels[r.channel]}
    IN  /\ send[s].pc = "logged"
        /\ send' = [send EXCEPT ![s].pc = "sending", ![s].todo = rows,
                                ![s].chosen = {r.channel : r \in rows}]
        /\ UNCHANGED <<Settings, got>>

(* Mutant: an exception ends the loop.                                     *)
NotifyUntilFailure(s) ==
    /\ send[s].pc = "sending"
    /\ \E r \in send[s].todo, failed \in BOOLEAN :
          /\ send' = [send EXCEPT ![s].todo = IF failed THEN {} ELSE @ \ {r}]
          /\ got' = [got EXCEPT ![s][r.channel] = @ + 1]
    /\ UNCHANGED Settings

(* Mutant: a channel that failed is tried again.                           *)
NotifyRetrying(s) ==
    /\ send[s].pc = "sending"
    /\ \E r \in send[s].todo, failed \in BOOLEAN :
          /\ send' = [send EXCEPT ![s].todo = IF failed THEN @ ELSE @ \ {r}]
          /\ got' = [got EXCEPT ![s][r.channel] = IF @ = 1 THEN 2 ELSE 1]
    /\ UNCHANGED Settings

(* One channel is tried; a failure is logged, and makes no difference.     *)
Notify(s) ==
    /\ send[s].pc = "sending"
    /\ \E r \in send[s].todo :
          /\ send' = [send EXCEPT ![s].todo = @ \ {r}]
          /\ got' = [got EXCEPT ![s][r.channel] = @ + 1]
    /\ UNCHANGED Settings

Return(s) ==
    /\ send[s].pc = "sending" /\ send[s].todo = {}
    /\ send' = [send EXCEPT ![s].pc = "over"]
    /\ UNCHANGED <<Settings, got>>

(* The process dies: the requests and calls in hand end there.             *)
Shutdown ==
    /\ \E s \in Sends : send[s].pc \in {"logged", "sending"}
    /\ send' = [s \in Sends |-> IF send[s].pc \in {"logged", "sending"}
                                  THEN [send[s] EXCEPT !.pc = "cut"] ELSE send[s]]
    /\ visit' = [v \in Visits |-> IF visit[v].pc = "new" THEN visit[v]
                                    ELSE [visit[v] EXCEPT !.pc = "done"]]
    /\ UNCHANGED <<channels, lastChannel, rules, got, crossed>>

ChannelsNext ==
    \/ \E v \in Visits :
          \/ AddChannel(v) \/ AddRules(v) \/ CliAddTelegram(v) \/ FindRule(v)
          \/ ToggleRule(v) \/ ToggleChannel(v) \/ DisableTelegram(v) \/ DeleteChannel(v)
    \/ \E s \in Sends : LogEvent(s) \/ SelectChannels(s) \/ Notify(s) \/ Return(s)
    \/ Shutdown

-----------------------------------------------------------------------------
(* A channel that fails keeps the event from no other: once a call is over *)
(* every channel that was enabled for the event when it began was tried.   *)
EveryChannelTried ==
    \A s \in Sends : send[s].pc = "over" => \A c \in send[s].chosen : got[s][c] >= 1

(* Nobody gets an event twice, whatever was deleted and added before: only *)
(* requests for the rules of one channel that overlapped can make it so.   *)
NotifiedOnce ==
    ~crossed => \A s \in Sends, c \in Ids : got[s][c] <= 1

(* A call that has recorded its event comes to an end.                     *)
EventsGetOut ==
    \A s \in Sends : (send[s].pc = "logged") ~> (send[s].pc \in {"over", "cut"})
=============================================================================
