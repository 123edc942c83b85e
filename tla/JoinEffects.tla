----------------------------- MODULE JoinEffects -----------------------------
(***************************************************************************)
(* Join effects: when a user with a bound clip enters a voice channel, the *)
(* bot plays it there, joining the channel first if it is in none.         *)
(* BotRouter's on_voice_state_update decides that a user has entered, a    *)
(* pool job finds the clip and the connection and arms an entry, and the   *)
(* user's RTC (on_voice_client_platform) or the entry's fallback timer     *)
(* consumes it, whichever comes first.                                     *)
(*                                                                         *)
(* One guild.  Delays are left out: a timer fires at some time after it    *)
(* was started.  What clip is bound is left out, whether one is matters.   *)
(***************************************************************************)
EXTENDS Integers, Sequences, FiniteSets

CONSTANTS
    Users, Channels,
    Nowhere,        \* channel_id 0: in no voice channel
    Unseen,         \* no entry in last_voice_channel_
    MaxEvents,      \* bound: voice-state events
    MaxArms,        \* bound: entries armed
    MaxMoves        \* bound: moves of the bot by other commands

ASSUME JoinEffectsAssumption ==
    /\ Nowhere \notin Channels
    /\ Unseen \notin Channels \cup {Nowhere}
    /\ MaxEvents \in Nat /\ MaxArms \in Nat /\ MaxMoves \in Nat

VARIABLES
    \* Discord's state, external
    user_channel,           \* where each user is
    bot_channel,            \* channel_id of the bot's connection, or Nowhere
    events,                 \* voice-state updates not yet handled, in order
    suppressed,             \* STARTUP_VOICE_SUPPRESSION is running
    \* BotRouter and the join effect table
    last_voice_channel, join_effects, jobs, pending_join_effects,
    fallback_timers, platform_timers, stop_requested,
    \* history: the user of every entry armed, the entries that were replaced
    \* before they played, the entries played, the users of whom an update was
    \* handled during the suppression, and the updates whose shard's client was
    \* gone when they were to be acted upon
    armed, replaced, heard, seen_early, lost,
    \* the counters of the bounds
    event_count, moves

discordVars == <<user_channel, bot_channel, events, suppressed>>
entryVars == <<pending_join_effects, fallback_timers, platform_timers>>
historyVars == <<armed, replaced, heard, seen_early, lost>>
boundVars == <<event_count, moves>>
vars == <<discordVars, last_voice_channel, join_effects, jobs, entryVars,
          stop_requested, historyVars, boundVars>>

Places == Channels \cup {Nowhere}
ArmIds == 1 .. MaxArms
NoEntry == 0

\* entered is history: the update tells of a channel the user has just entered.
VoiceState == [user : Users, channel : Places, entered : BOOLEAN]

\* A job is known by the number of the event it was scheduled for.
Job == [event : 1 .. MaxEvents, user : Users, channel : Channels,
        entered : BOOLEAN, pc : {"look", "connect", "arm"}]

TypeOK ==
    /\ user_channel \in [Users -> Places]
    /\ bot_channel \in Places
    /\ events \in Seq(VoiceState)
    /\ suppressed \in BOOLEAN
    /\ last_voice_channel \in [Users -> Places \cup {Unseen}]
    /\ join_effects \in SUBSET Users
    /\ jobs \in SUBSET Job
    /\ pending_join_effects \in [Users -> ArmIds \cup {NoEntry}]
    /\ fallback_timers \in SUBSET ArmIds
    /\ platform_timers \in SUBSET ArmIds
    /\ stop_requested \in BOOLEAN
    /\ armed \in Seq(Users) /\ Len(armed) <= MaxArms
    /\ replaced \in SUBSET ArmIds
    /\ heard \in Seq(ArmIds)
    /\ seen_early \in SUBSET Users
    /\ lost \in SUBSET (1 .. MaxEvents)
    /\ event_count \in 0 .. MaxEvents
    /\ moves \in 0 .. MaxMoves

\* The bot may start while users are in voice channels.
Init ==
    /\ user_channel \in [Users -> Places]
    /\ bot_channel = Nowhere
    /\ events = <<>>
    /\ suppressed = TRUE
    /\ last_voice_channel = [u \in Users |-> Unseen]
    /\ join_effects = {}
    /\ jobs = {}
    /\ pending_join_effects = [u \in Users |-> NoEntry]
    /\ fallback_timers = {}
    /\ platform_timers = {}
    /\ stop_requested = FALSE
    /\ armed = <<>>
    /\ replaced = {}
    /\ heard = <<>>
    /\ seen_early = {}
    /\ lost = {}
    /\ event_count = 0
    /\ moves = 0

-----------------------------------------------------------------------------
\* Discord.

\* A user joins, moves or leaves (channel differs), or mutes or deafens.
UserActs(u, channel) ==
    /\ event_count < MaxEvents
    /\ user_channel[u] = Nowhere => channel # Nowhere
    /\ event_count' = event_count + 1
    /\ user_channel' = [user_channel EXCEPT ![u] = channel]
    /\ events' = Append(events, [user |-> u, channel |-> channel,
                                 entered |-> /\ channel # Nowhere
                                             /\ channel # user_channel[u]])
    /\ UNCHANGED <<bot_channel, suppressed, last_voice_channel, join_effects,
                   jobs, entryVars, stop_requested, historyVars, moves>>

SuppressionEnds ==
    /\ suppressed
    /\ suppressed' = FALSE
    /\ UNCHANGED <<user_channel, bot_channel, events, last_voice_channel,
                   join_effects, jobs, entryVars, stop_requested, historyVars,
                   boundVars>>

\* /join, /leave, an idle disconnect.
BotMoves(channel) ==
    /\ moves < MaxMoves
    /\ channel # bot_channel
    /\ moves' = moves + 1
    /\ bot_channel' = channel
    /\ UNCHANGED <<user_channel, events, suppressed, last_voice_channel,
                   join_effects, jobs, entryVars, stop_requested, historyVars,
                   event_count>>

\* /joineffect: JoinEffectManager::set and remove.
BindEffect(u) ==
    /\ u \notin join_effects
    /\ join_effects' = join_effects \cup {u}
    /\ UNCHANGED <<discordVars, last_voice_channel, jobs, entryVars,
                   stop_requested, historyVars, boundVars>>

UnbindEffect(u) ==
    /\ u \in join_effects
    /\ join_effects' = join_effects \ {u}
    /\ UNCHANGED <<discordVars, last_voice_channel, jobs, entryVars,
                   stop_requested, historyVars, boundVars>>

-----------------------------------------------------------------------------
\* on_voice_state_update, on DPP's event thread.

\* Mutant: the channel is recorded only once updates are acted upon.
MutRecorded(ev) == ~suppressed

\* Mutant: a leave returns before the channel is recorded.
MutRecordedOnJoin(ev) == ev.channel # Nowhere

\* The channel is recorded before any of the early returns.
Recorded(ev) == TRUE

\* The user entered a channel, for all that was recorded of the user.
Enters(ev) ==
    /\ ev.channel # Nowhere
    /\ last_voice_channel[ev.user] # ev.channel

\* The number of the update at the head of events.
Number == event_count - Len(events) + 1

\* ev.from() may be null: the update is dropped, its channel is recorded.
OnVoiceStateUpdate(client) ==
    /\ events # <<>>
    /\ LET ev == Head(events)
           acts == Enters(ev) /\ ~suppressed IN
       /\ last_voice_channel' =
              IF Recorded(ev)
              THEN [last_voice_channel EXCEPT ![ev.user] = ev.channel]
              ELSE last_voice_channel
       /\ jobs' = IF acts /\ client
                  THEN jobs \cup {[event |-> Number, user |-> ev.user,
                                   channel |-> ev.channel,
                                   entered |-> ev.entered, pc |-> "look"]}
                  ELSE jobs
       /\ lost' = IF acts /\ ~client THEN lost \cup {Number} ELSE lost
       /\ seen_early' = IF suppressed THEN seen_early \cup {ev.user}
                        ELSE seen_early
    /\ events' = Tail(events)
    /\ UNCHANGED <<user_channel, bot_channel, suppressed, join_effects,
                   entryVars, stop_requested, armed, replaced, heard,
                   boundVars>>

-----------------------------------------------------------------------------
\* The pool job; jobs run at the same time and in any order.

Advance(j, stage) == jobs' = (jobs \ {j}) \cup {[j EXCEPT !.pc = stage]}

\* The bot is in the user's channel, or in none: go on.
JobLooks(j) ==
    /\ j.pc = "look"
    /\ j.user \in join_effects
    /\ \/ bot_channel = j.channel /\ Advance(j, "arm")
       \/ bot_channel = Nowhere /\ Advance(j, "connect")
    /\ UNCHANGED <<discordVars, last_voice_channel, join_effects, entryVars,
                   stop_requested, historyVars, boundVars>>

\* No clip, the bot in another channel, or the shard reconnecting.
JobDrops(j) ==
    /\ j.pc = "look"
    /\ jobs' = jobs \ {j}
    /\ UNCHANGED <<discordVars, last_voice_channel, join_effects, entryVars,
                   stop_requested, historyVars, boundVars>>

\* connect_member_voice goes where the user is by now.
JobConnects(j) ==
    /\ j.pc = "connect"
    /\ user_channel[j.user] # Nowhere
    /\ bot_channel' = user_channel[j.user]
    /\ Advance(j, "arm")
    /\ UNCHANGED <<user_channel, events, suppressed, last_voice_channel,
                   join_effects, entryVars, stop_requested, historyVars,
                   boundVars>>

\* The user has left, or the guild is not cached.
JobConnectFails(j) ==
    /\ j.pc = "connect"
    /\ jobs' = jobs \ {j}
    /\ UNCHANGED <<discordVars, last_voice_channel, join_effects, entryVars,
                   stop_requested, historyVars, boundVars>>

\* armJoinEffect: an older entry of the user is overwritten, its timer stays.
ArmJoinEffect(j) ==
    LET id == Len(armed) + 1
        old == pending_join_effects[j.user] IN
    /\ j.pc = "arm"
    /\ id \in ArmIds
    /\ pending_join_effects' = [pending_join_effects EXCEPT ![j.user] = id]
    /\ fallback_timers' = fallback_timers \cup {id}
    /\ armed' = Append(armed, j.user)
    /\ replaced' = replaced \cup ({old} \ {NoEntry})
    /\ jobs' = jobs \ {j}
    /\ UNCHANGED <<discordVars, last_voice_channel, join_effects,
                   platform_timers, stop_requested, heard, seen_early, lost,
                   boundVars>>

-----------------------------------------------------------------------------
\* Consumers of an entry.

\* Mutant: the entry is copied and stays in the map.
MutConsume(u) == UNCHANGED pending_join_effects

\* find, move and erase under pending_join_effects_mutex_
Consume(u) ==
    pending_join_effects' = [pending_join_effects EXCEPT ![u] = NoEntry]

\* on_voice_client_platform: the clip plays a little later.
OnVoiceClientPlatform(u) ==
    LET id == pending_join_effects[u] IN
    /\ bot_channel # Nowhere
    /\ bot_channel = user_channel[u]
    /\ id # NoEntry
    /\ Consume(u)
    /\ platform_timers' = platform_timers \cup {id}
    /\ UNCHANGED <<discordVars, last_voice_channel, join_effects, jobs,
                   fallback_timers, stop_requested, historyVars, boundVars>>

PlatformTimerFires(id) ==
    /\ id \in platform_timers
    /\ platform_timers' = platform_timers \ {id}
    /\ heard' = IF stop_requested THEN heard ELSE Append(heard, id)
    /\ UNCHANGED <<discordVars, last_voice_channel, join_effects, jobs,
                   pending_join_effects, fallback_timers, stop_requested,
                   armed, replaced, seen_early, lost, boundVars>>

\* Mutant: the fallback gives up where the bot is not in voice.
MutFallbackActs(u) ==
    /\ pending_join_effects[u] # NoEntry
    /\ bot_channel # Nowhere
    /\ ~stop_requested

\* Mutant: the fallback takes it that the entry is there.
MutFallbackBlind(u) == ~stop_requested

FallbackActs(u) == pending_join_effects[u] # NoEntry /\ ~stop_requested

\* The timer of entry id consumes whatever entry its user has by now.
FallbackTimerFires(id) ==
    LET u == armed[id] IN
    /\ id \in fallback_timers
    /\ fallback_timers' = fallback_timers \ {id}
    /\ IF FallbackActs(u)
       THEN Consume(u) /\ heard' = Append(heard, pending_join_effects[u])
       ELSE UNCHANGED <<pending_join_effects, heard>>
    /\ UNCHANGED <<discordVars, last_voice_channel, join_effects, jobs,
                   platform_timers, stop_requested, armed, replaced,
                   seen_early, lost, boundVars>>

RequestStop ==
    /\ ~stop_requested
    /\ stop_requested' = TRUE
    /\ UNCHANGED <<discordVars, last_voice_channel, join_effects, jobs,
                   entryVars, historyVars, boundVars>>

-----------------------------------------------------------------------------
RunJob(j) ==
    \/ JobLooks(j) \/ JobDrops(j) \/ JobConnects(j) \/ JobConnectFails(j)
    \/ ArmJoinEffect(j)

Next ==
    \/ \E u \in Users, c \in Places : UserActs(u, c)
    \/ SuppressionEnds
    \/ \E c \in Places : BotMoves(c)
    \/ \E u \in Users : BindEffect(u) \/ UnbindEffect(u)
    \/ \E client \in BOOLEAN : OnVoiceStateUpdate(client)
    \/ \E j \in jobs : RunJob(j)
    \/ \E u \in Users : OnVoiceClientPlatform(u)
    \/ \E id \in ArmIds : PlatformTimerFires(id) \/ FallbackTimerFires(id)
    \/ RequestStop

Spec == Init /\ [][Next]_vars

\* Timers that were started fire.
FairSpec ==
    /\ Spec
    /\ \A id \in ArmIds : /\ WF_vars(PlatformTimerFires(id))
                          /\ WF_vars(FallbackTimerFires(id))

-----------------------------------------------------------------------------
\* Safety.

\* Each entry plays at most once, though two timers and the RTC event race for
\* it, and never after a newer entry of the user has replaced it
\* (BotRouter.cpp:172-178, 312-318).
PlaysOnce ==
    \A i, k \in DOMAIN heard :
        /\ heard[i] = heard[k] => i = k
        /\ heard[i] \notin replaced

\* A user of whom an update was handled during the startup suppression
\* triggers an effect only by entering a channel, not by a mute after it
\* (BotRouter.cpp:211-229).
NoBargeInOnceSeen ==
    \A j \in jobs : j.user \in seen_early => j.entered

\* Every entry into a channel after the suppression starts a job of its own,
\* whatever leaves, moves and mutes were handled or suppressed or lost before
\* it; only the one whose own update comes without a client is lost
\* (BotRouter.cpp:211-241).
EntriesActedUpon ==
    [][(events # <<>> /\ events' = Tail(events)
            /\ Head(events).entered /\ ~suppressed)
          => \/ Number \in lost'
             \/ \E j \in jobs' \ jobs : j.user = Head(events).user]_vars

\* BotRouter.cpp:211, "Detect channel transitions; ignore mute/deaf-only
\* updates and leaves", and 227-228, "so the bot doesn't barge in on people who
\* were already in voice when it started".
ActsOnlyOnEntry == \A j \in jobs : j.entered

-----------------------------------------------------------------------------
\* Liveness.

\* Every armed entry is played in the end unless a newer entry of the user
\* replaced it or the bot stops: no interleaving of the RTC event with the
\* timers leaves one behind.
ArmedIsPlayed ==
    \A id \in ArmIds :
        id \in DOMAIN armed ~>
            \/ \E i \in DOMAIN heard : heard[i] = id
            \/ id \in replaced
            \/ stop_requested

===============================================================================
