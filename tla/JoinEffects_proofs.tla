-------------------------- MODULE JoinEffects_proofs --------------------------
(***************************************************************************)
(* Proofs about JoinEffects for any users and channels and any number of   *)
(* updates and entries.                                                    *)
(***************************************************************************)
EXTENDS JoinEffects, TLAPS

\* The ids of the entries armed so far.
Known == DOMAIN armed

\* An entry that has not been replaced or played.
Fresh(id) ==
    /\ id \in Known
    /\ id \notin replaced
    /\ \A i \in DOMAIN heard : heard[i] # id

\* A job, its number left unbounded.
AnyJob == [event : Int, user : Users, channel : Places, entered : BOOLEAN,
           pc : {"look", "connect", "arm"}]

Shape ==
    /\ armed \in Seq(Users) /\ Len(armed) <= MaxArms
    /\ heard \in Seq(ArmIds)
    /\ replaced \subseteq Known
    /\ pending_join_effects \in [Users -> ArmIds \cup {NoEntry}]
    /\ platform_timers \in SUBSET ArmIds
    /\ events \in Seq(VoiceState)
    /\ jobs \subseteq AnyJob
    /\ event_count \in Int
    /\ fallback_timers \subseteq Known
    /\ \A i \in DOMAIN heard : heard[i] \in Known

\* A pending entry is its user's and no RTC event has consumed it yet.
PendingFresh ==
    \A u \in Users : pending_join_effects[u] # NoEntry =>
        /\ Fresh(pending_join_effects[u])
        /\ armed[pending_join_effects[u]] = u
        /\ pending_join_effects[u] \notin platform_timers

TimersFresh == \A id \in platform_timers : Fresh(id)

EntryInv ==
    /\ Shape
    /\ PendingFresh
    /\ TimersFresh
    /\ PlaysOnce

LEMMA EntryInit == Init => EntryInv
BY JoinEffectsAssumption
   DEF Init, EntryInv, Shape, PendingFresh, TimersFresh, PlaysOnce, Known,
       ArmIds, AnyJob

\* A new entry is fresh, and the one it replaces was.
LEMMA ArmKeeps ==
    ASSUME EntryInv, NEW j \in jobs, ArmJoinEffect(j)
    PROVE  EntryInv'
<1> DEFINE id == Len(armed) + 1
           old == pending_join_effects[j.user]
<1>1. j.user \in Users
  BY DEF EntryInv, Shape, AnyJob
<1>2. /\ id \in ArmIds
      /\ pending_join_effects' = [pending_join_effects EXCEPT ![j.user] = id]
      /\ armed' = Append(armed, j.user)
      /\ replaced' = replaced \cup ({old} \ {NoEntry})
      /\ jobs' = jobs \ {j}
      /\ fallback_timers' = fallback_timers \cup {id}
      /\ UNCHANGED <<platform_timers, heard, events, event_count>>
  BY DEF ArmJoinEffect, discordVars, boundVars
<1>3. /\ Known' = Known \cup {id}
      /\ id \notin Known
      /\ armed'[id] = j.user
      /\ \A k \in Known : armed'[k] = armed[k]
      /\ armed' \in Seq(Users)
      /\ Len(armed') = id
  BY <1>1, <1>2 DEF EntryInv, Shape, Known
<1>4. old # NoEntry => /\ old \in Known
                       /\ old \notin platform_timers
                       /\ \A i \in DOMAIN heard : heard[i] # old
  BY <1>1 DEF EntryInv, PendingFresh, Fresh
<1>5. id # NoEntry /\ id <= MaxArms
  BY <1>2, JoinEffectsAssumption DEF ArmIds, NoEntry
<1> HIDE DEF id, old
<1>6. Shape'
  BY <1>1, <1>2, <1>3, <1>4, <1>5 DEF EntryInv, Shape
<1>7. TimersFresh'
  BY <1>2, <1>3, <1>4 DEF EntryInv, TimersFresh, Fresh
<1>8. ASSUME NEW u \in Users, pending_join_effects'[u] # NoEntry
      PROVE  /\ Fresh(pending_join_effects[u])'
             /\ armed'[pending_join_effects'[u]] = u
             /\ pending_join_effects'[u] \notin platform_timers'
  <2>1. CASE u = j.user
    <3>1. pending_join_effects'[u] = id
      BY <1>2, <2>1 DEF EntryInv, Shape
    <3>2. id \notin replaced /\ id # old /\ id \notin platform_timers
      BY <1>3, <1>4, <1>5 DEF EntryInv, Shape, TimersFresh, Fresh
    <3>3. \A i \in DOMAIN heard : heard[i] # id
      BY <1>3 DEF EntryInv, Shape
    <3> QED
      BY <1>2, <1>3, <2>1, <3>1, <3>2, <3>3 DEF Fresh
  <2>2. CASE u # j.user
    <3>1. pending_join_effects'[u] = pending_join_effects[u]
      BY <1>2, <2>2 DEF EntryInv, Shape
    <3>2. /\ Fresh(pending_join_effects[u])
          /\ armed[pending_join_effects[u]] = u
          /\ pending_join_effects[u] \notin platform_timers
      BY <1>8, <3>1 DEF EntryInv, PendingFresh
    <3>3. old # NoEntry => armed[old] = j.user
      BY <1>1 DEF EntryInv, PendingFresh, old
    <3>4. pending_join_effects[u] # old \/ old = NoEntry
      BY <2>2, <3>2, <3>3
    <3>5. pending_join_effects'[u] \in Known'
      BY <1>3, <3>1, <3>2 DEF Fresh
    <3>6. pending_join_effects'[u] \notin replaced'
      BY <1>2, <1>8, <3>1, <3>2, <3>4 DEF Fresh
    <3>7. \A i \in DOMAIN heard' : heard'[i] # pending_join_effects'[u]
      BY <1>2, <3>1, <3>2 DEF Fresh
    <3>8. armed'[pending_join_effects'[u]] = u
      BY <1>3, <3>1, <3>2 DEF Fresh
    <3>9. pending_join_effects'[u] \notin platform_timers'
      BY <1>2, <3>1, <3>2
    <3> QED
      BY <3>5, <3>6, <3>7, <3>8, <3>9 DEF Fresh
  <2> QED
    BY <2>1, <2>2
<1>9. PlaysOnce'
  BY <1>2, <1>4 DEF EntryInv, PlaysOnce
<1> QED
  BY <1>6, <1>7, <1>8, <1>9 DEF EntryInv, PendingFresh

\* Playing a fresh entry keeps what was heard without repeats.
LEMMA PlayFresh ==
    ASSUME EntryInv, NEW id \in ArmIds, Fresh(id),
           heard' = Append(heard, id), UNCHANGED <<armed, replaced>>
    PROVE  /\ heard' \in Seq(ArmIds)
           /\ \A i \in DOMAIN heard' : heard'[i] \in Known
           /\ PlaysOnce'
           /\ \A k : Fresh(k) /\ k # id => Fresh(k)'
<1>1. /\ heard \in Seq(ArmIds)
      /\ \A i \in DOMAIN heard : heard[i] \in Known
      /\ id \in Known /\ id \notin replaced
      /\ \A i \in DOMAIN heard : heard[i] # id
  BY DEF EntryInv, Shape, Fresh
<1>2. /\ heard' \in Seq(ArmIds)
      /\ DOMAIN heard' = DOMAIN heard \cup {Len(heard) + 1}
      /\ heard'[Len(heard) + 1] = id
      /\ \A i \in DOMAIN heard : heard'[i] = heard[i]
  BY <1>1
<1>3. PlaysOnce'
  BY <1>1, <1>2 DEF EntryInv, PlaysOnce
<1>4. \A k : Fresh(k) /\ k # id => Fresh(k)'
  BY <1>2 DEF Fresh, Known
<1> QED
  BY <1>1, <1>2, <1>3, <1>4

LEMMA RTCKeeps ==
    ASSUME EntryInv, NEW u \in Users, OnVoiceClientPlatform(u)
    PROVE  EntryInv'
<1> DEFINE id == pending_join_effects[u]
<1>1. /\ id # NoEntry
      /\ pending_join_effects' = [pending_join_effects EXCEPT ![u] = NoEntry]
      /\ platform_timers' = platform_timers \cup {id}
      /\ UNCHANGED <<armed, replaced, heard, jobs, events, fallback_timers,
                     event_count>>
  BY DEF OnVoiceClientPlatform, Consume, historyVars, discordVars,
         boundVars
<1>2. Fresh(id) /\ armed[id] = u /\ id \in ArmIds
  BY <1>1 DEF EntryInv, Shape, PendingFresh
<1>3. \A k : Fresh(k)' <=> Fresh(k)
  BY <1>1 DEF Fresh, Known
<1>4. Shape'
  BY <1>1, <1>2 DEF EntryInv, Shape, Known
<1>5. TimersFresh'
  BY <1>1, <1>2, <1>3 DEF EntryInv, TimersFresh
<1>6. PendingFresh'
  BY <1>1, <1>2, <1>3 DEF EntryInv, Shape, PendingFresh
<1>7. PlaysOnce'
  BY <1>1 DEF EntryInv, PlaysOnce
<1> QED
  BY <1>4, <1>5, <1>6, <1>7 DEF EntryInv

LEMMA PlatformTimerKeeps ==
    ASSUME EntryInv, NEW id \in ArmIds, PlatformTimerFires(id)
    PROVE  EntryInv'
<1>1. /\ id \in platform_timers
      /\ platform_timers' = platform_timers \ {id}
      /\ UNCHANGED <<armed, replaced, jobs, pending_join_effects, events,
                     fallback_timers, event_count>>
  BY DEF PlatformTimerFires, discordVars, boundVars
<1>2. Fresh(id)
  BY <1>1 DEF EntryInv, TimersFresh
<1>3. CASE UNCHANGED heard
  BY <1>1, <1>3 DEF EntryInv, Shape, PendingFresh, TimersFresh, PlaysOnce,
                    Fresh, Known
<1>4. CASE heard' = Append(heard, id)
  <2>1. /\ heard' \in Seq(ArmIds)
        /\ \A i \in DOMAIN heard' : heard'[i] \in Known
        /\ PlaysOnce'
        /\ \A k : Fresh(k) /\ k # id => Fresh(k)'
    BY <1>1, <1>2, <1>4, PlayFresh
  <2>2. Shape'
    BY <1>1, <2>1 DEF EntryInv, Shape, Known
  <2>3. PendingFresh'
    BY <1>1, <2>1 DEF EntryInv, PendingFresh
  <2>4. TimersFresh'
    BY <1>1, <2>1 DEF EntryInv, TimersFresh
  <2> QED
    BY <2>1, <2>2, <2>3, <2>4 DEF EntryInv
<1> QED
  BY <1>3, <1>4 DEF PlatformTimerFires

LEMMA FallbackKeeps ==
    ASSUME EntryInv, NEW id \in ArmIds, FallbackTimerFires(id)
    PROVE  EntryInv'
<1> DEFINE u == armed[id]
           entry == pending_join_effects[u]
<1>1. u \in Users
  BY DEF FallbackTimerFires, EntryInv, Shape, Known
<1>2. /\ fallback_timers' \subseteq fallback_timers
      /\ UNCHANGED <<armed, replaced, jobs, platform_timers, events,
                     event_count>>
  BY DEF FallbackTimerFires, discordVars, boundVars
<1>3. CASE ~FallbackActs(u)
  BY <1>2, <1>3 DEF FallbackTimerFires, EntryInv, Shape, PendingFresh,
                    TimersFresh, PlaysOnce, Fresh, Known
<1>4. CASE FallbackActs(u)
  <2>1. /\ entry # NoEntry
        /\ heard' = Append(heard, entry)
        /\ pending_join_effects' = [pending_join_effects EXCEPT ![u] = NoEntry]
    BY <1>4 DEF FallbackTimerFires, FallbackActs, Consume
  <2>2. /\ entry \in ArmIds /\ Fresh(entry)
        /\ armed[entry] = u /\ entry \notin platform_timers
    BY <1>1, <2>1 DEF EntryInv, Shape, PendingFresh
  <2>3. /\ heard' \in Seq(ArmIds)
        /\ \A i \in DOMAIN heard' : heard'[i] \in Known
        /\ PlaysOnce'
        /\ \A k : Fresh(k) /\ k # entry => Fresh(k)'
    BY <1>2, <2>1, <2>2, PlayFresh
  <2>4. Shape'
    BY <1>1, <1>2, <2>1, <2>3 DEF EntryInv, Shape, Known
  <2>5. TimersFresh'
    BY <1>2, <2>2, <2>3 DEF EntryInv, TimersFresh
  <2>6. ASSUME NEW v \in Users, pending_join_effects'[v] # NoEntry
        PROVE  /\ Fresh(pending_join_effects[v])'
               /\ armed'[pending_join_effects'[v]] = v
               /\ pending_join_effects'[v] \notin platform_timers'
    <3>1. v # u /\ pending_join_effects'[v] = pending_join_effects[v]
      BY <1>1, <2>1, <2>6 DEF EntryInv, Shape
    <3>2. /\ Fresh(pending_join_effects[v])
          /\ armed[pending_join_effects[v]] = v
          /\ pending_join_effects[v] \notin platform_timers
      BY <2>6, <3>1 DEF EntryInv, PendingFresh
    <3>3. pending_join_effects[v] # entry
      BY <2>2, <3>1, <3>2
    <3> HIDE DEF entry, u
    <3> QED
      BY <1>2, <2>3, <3>1, <3>2, <3>3
  <2> QED
    BY <2>3, <2>4, <2>5, <2>6 DEF EntryInv, PendingFresh
<1> QED
  BY <1>3, <1>4

\* What the entries are made of is left alone.
LEMMA RestKeeps ==
    ASSUME EntryInv, UNCHANGED <<entryVars, armed, replaced, heard>>,
           events' \in Seq(VoiceState), jobs' \subseteq AnyJob,
           event_count' \in Int
    PROVE  EntryInv'
BY DEF EntryInv, Shape, PendingFresh, TimersFresh, PlaysOnce, Fresh, Known,
       entryVars

\* An update that is handled, with its shard's client there or gone
UpdateHandled == \E client \in BOOLEAN : OnVoiceStateUpdate(client)

\* It adds a job of its user at most.
LEMMA UpdateKeeps ==
    ASSUME EntryInv, UpdateHandled
    PROVE  EntryInv'
<1> DEFINE ev == Head(events)
<1>1. /\ ev \in VoiceState
      /\ events' \in Seq(VoiceState)
  BY DEF UpdateHandled, OnVoiceStateUpdate, EntryInv, Shape
<1>2. event_count - Len(events) + 1 \in Int /\ UNCHANGED event_count
  BY DEF UpdateHandled, OnVoiceStateUpdate, EntryInv, Shape, boundVars
<1>3. \/ jobs' = jobs
      \/ jobs' = jobs \cup {[event |-> event_count - Len(events) + 1,
                            user |-> ev.user, channel |-> ev.channel,
                            entered |-> ev.entered, pc |-> "look"]}
  BY DEF UpdateHandled, OnVoiceStateUpdate, Number
<1> HIDE DEF ev
<1>4. jobs' \subseteq AnyJob
  BY <1>1, <1>2, <1>3 DEF EntryInv, Shape, VoiceState, AnyJob
<1> QED
  BY <1>1, <1>2, <1>4, RestKeeps
     DEF UpdateHandled, OnVoiceStateUpdate, entryVars, EntryInv, Shape

\* A stage of a job other than the last changes its pc or removes it.
LEMMA JobKeeps ==
    ASSUME EntryInv, NEW j \in jobs, RunJob(j)
    PROVE  EntryInv'
<1>1. CASE ArmJoinEffect(j)
  BY <1>1, ArmKeeps
<1>2. CASE JobLooks(j) \/ JobDrops(j) \/ JobConnects(j) \/ JobConnectFails(j)
  <2>1. /\ UNCHANGED <<entryVars, armed, replaced, heard, events, event_count>>
        /\ \/ jobs' = jobs \ {j}
           \/ Advance(j, "arm")
           \/ Advance(j, "connect")
    BY <1>2 DEF JobLooks, JobDrops, JobConnects, JobConnectFails,
                discordVars, historyVars, boundVars
  <2>2. /\ [j EXCEPT !.pc = "arm"] \in AnyJob
        /\ [j EXCEPT !.pc = "connect"] \in AnyJob
    BY DEF EntryInv, Shape, AnyJob
  <2>3. jobs' \subseteq AnyJob
    BY <2>1, <2>2 DEF EntryInv, Shape, Advance
  <2> QED
    BY <2>1, <2>3, RestKeeps DEF EntryInv, Shape
<1> QED
  BY <1>1, <1>2 DEF RunJob

LEMMA EntryNext == EntryInv /\ [Next]_vars => EntryInv'
<1> SUFFICES ASSUME EntryInv, [Next]_vars PROVE EntryInv'
  OBVIOUS
<1>1. ASSUME NEW u \in Users, NEW c \in Places, UserActs(u, c)
      PROVE  EntryInv'
  <2>1. PICK b \in BOOLEAN :
          events' = Append(events, [user |-> u, channel |-> c, entered |-> b])
    <3>1. (c # Nowhere /\ c # user_channel[u]) \in BOOLEAN
      OBVIOUS
    <3> QED
      BY <1>1, <3>1, Zenon DEF UserActs
  <2>2. events' \in Seq(VoiceState)
    BY <2>1 DEF EntryInv, Shape, VoiceState
  <2>3. event_count' \in Int
    BY <1>1 DEF UserActs, EntryInv, Shape
  <2> QED
    BY <1>1, <2>2, <2>3, RestKeeps DEF UserActs, EntryInv, Shape, historyVars
<1>2. CASE SuppressionEnds \/ RequestStop
  BY <1>2, RestKeeps DEF SuppressionEnds, RequestStop, EntryInv, Shape,
                         historyVars, discordVars, boundVars
<1>3. ASSUME NEW c \in Places, BotMoves(c)
      PROVE  EntryInv'
  BY <1>3, RestKeeps DEF BotMoves, EntryInv, Shape, historyVars
<1>4. ASSUME NEW u \in Users, BindEffect(u) \/ UnbindEffect(u)
      PROVE  EntryInv'
  BY <1>4, RestKeeps DEF BindEffect, UnbindEffect, EntryInv, Shape,
                         historyVars, discordVars, boundVars
<1>5. CASE UpdateHandled
  BY <1>5, UpdateKeeps
<1>6. ASSUME NEW j \in jobs, RunJob(j)
      PROVE  EntryInv'
  BY <1>6, JobKeeps
<1>7. ASSUME NEW u \in Users, OnVoiceClientPlatform(u)
      PROVE  EntryInv'
  BY <1>7, RTCKeeps
<1>8. ASSUME NEW id \in ArmIds, PlatformTimerFires(id) \/ FallbackTimerFires(id)
      PROVE  EntryInv'
  BY <1>8, PlatformTimerKeeps, FallbackKeeps
<1>9. CASE UNCHANGED vars
  BY <1>9, RestKeeps DEF vars, EntryInv, Shape, historyVars, discordVars, boundVars
<1> QED
  BY <1>1, <1>2, <1>3, <1>4, <1>5, <1>6, <1>7, <1>8, <1>9 DEF Next, UpdateHandled

\* An entry plays at most once, and never after a newer one has replaced it:
\* each of on_voice_client_platform and the fallback timers takes an entry out
\* of pending_join_effects_ under its mutex before it plays it.
THEOREM PlaysAtMostOnce == Spec => []PlaysOnce
<1>1. EntryInv => PlaysOnce
  BY DEF EntryInv
<1> QED
  BY <1>1, EntryInit, EntryNext, PTL DEF Spec

(***************************************************************************)
(* Discord's side and the jobs: type correctness.                          *)
(***************************************************************************)

\* Every job was scheduled for an update that has been handled, and while the
\* suppression runs there is none.
JobsHandled ==
    /\ Len(events) <= event_count
    /\ \A j \in jobs : /\ j.event \in 1 .. event_count - Len(events)
                       /\ j.channel # Nowhere
    /\ suppressed => jobs = {}

WorldInv ==
    /\ user_channel \in [Users -> Places]
    /\ bot_channel \in Places
    /\ suppressed \in BOOLEAN
    /\ last_voice_channel \in [Users -> Places \cup {Unseen}]
    /\ join_effects \in SUBSET Users
    /\ stop_requested \in BOOLEAN
    /\ seen_early \in SUBSET Users
    /\ lost \in SUBSET (1 .. MaxEvents)
    /\ event_count \in 0 .. MaxEvents
    /\ moves \in 0 .. MaxMoves
    /\ JobsHandled

\* A step that neither brings an update nor handles one, as the updates' side
\* sees it: jobs move on or end.
Aside ==
    /\ UNCHANGED <<user_channel, events, last_voice_channel, seen_early,
                   lost, event_count>>
    /\ suppressed' => suppressed
    /\ \A j \in jobs' : \E k \in jobs :
         j.event = k.event /\ j.user = k.user /\ j.channel = k.channel
         /\ j.entered = k.entered

LEMMA JobAside ==
    ASSUME EntryInv, NEW j \in jobs, RunJob(j)
    PROVE  /\ Aside
           /\ UNCHANGED <<suppressed, join_effects, stop_requested, moves>>
           /\ bot_channel' = bot_channel \/ bot_channel' = user_channel[j.user]
<1>1. j \in AnyJob
  BY DEF EntryInv, Shape
<1>2. ASSUME NEW stage, Advance(j, stage)
      PROVE  \A i \in jobs' : \E k \in jobs :
               i.event = k.event /\ i.user = k.user /\ i.channel = k.channel
               /\ i.entered = k.entered
  <2> DEFINE next == [j EXCEPT !.pc = stage]
  <2>1. /\ next.event = j.event /\ next.user = j.user
        /\ next.channel = j.channel /\ next.entered = j.entered
    BY <1>1 DEF AnyJob
  <2>2. jobs' = (jobs \ {j}) \cup {next}
    BY <1>2 DEF Advance
  <2> HIDE DEF next
  <2> QED
    BY <2>1, <2>2
<1>3. CASE JobLooks(j) \/ JobConnects(j)
  BY <1>2, <1>3 DEF JobLooks, JobConnects, Aside, discordVars, historyVars,
                    boundVars
<1>4. CASE JobDrops(j) \/ JobConnectFails(j) \/ ArmJoinEffect(j)
  BY <1>4 DEF JobDrops, JobConnectFails, ArmJoinEffect, Aside, discordVars,
              historyVars, boundVars
<1> QED
  BY <1>3, <1>4 DEF RunJob

LEMMA StepsOfUpdates ==
    ASSUME EntryInv, [Next]_vars
    PROVE  \/ \E u \in Users, c \in Places : UserActs(u, c)
           \/ UpdateHandled
           \/ Aside
<1>1. CASE \/ SuppressionEnds \/ RequestStop \/ UNCHANGED vars
           \/ \E c \in Places : BotMoves(c)
           \/ \E u \in Users : BindEffect(u) \/ UnbindEffect(u)
           \/ \E u \in Users : OnVoiceClientPlatform(u)
           \/ \E id \in ArmIds : PlatformTimerFires(id) \/ FallbackTimerFires(id)
  BY <1>1 DEF SuppressionEnds, RequestStop, BotMoves, BindEffect, UnbindEffect,
     OnVoiceClientPlatform, PlatformTimerFires, FallbackTimerFires, vars, Aside,
     discordVars, historyVars, boundVars
<1> QED
  BY <1>1, JobAside DEF Next, UpdateHandled

LEMMA WorldInit == Init => WorldInv
<1> SUFFICES ASSUME Init PROVE WorldInv
  OBVIOUS
<1>1. JobsHandled
  BY DEF Init, JobsHandled
<1>2. [u \in Users |-> Unseen] \in [Users -> Places \cup {Unseen}]
  OBVIOUS
<1>3. Nowhere \in Places
  BY DEF Places
<1>4. event_count \in 0 .. MaxEvents /\ moves \in 0 .. MaxMoves
  BY JoinEffectsAssumption DEF Init
<1> QED
  BY <1>1, <1>2, <1>3, <1>4 DEF Init, WorldInv

\* An update that is handled: what it is, and the job it may start.
LEMMA UpdateShape ==
    ASSUME EntryInv, WorldInv, UpdateHandled
    PROVE  /\ events # <<>> /\ Head(events) = events[1]
           /\ events[1] \in VoiceState
           /\ Len(events) \in Nat /\ Len(events) > 0
           /\ Len(events') = Len(events) - 1
           /\ DOMAIN events = 1 .. Len(events)
           /\ DOMAIN events' = 1 .. Len(events) - 1
           /\ \A i \in DOMAIN events' : events'[i] = events[i + 1]
           /\ UNCHANGED <<user_channel, event_count, suppressed>>
           /\ last_voice_channel' =
                [last_voice_channel EXCEPT ![events[1].user] = events[1].channel]
           /\ seen_early' = IF suppressed THEN seen_early \cup {events[1].user}
                            ELSE seen_early
           /\ \/ /\ Enters(events[1]) /\ ~suppressed
                 /\ \E j \in AnyJob :
                      /\ jobs' = jobs \cup {j}
                      /\ j.event = event_count - Len(events) + 1
                      /\ j.user = events[1].user /\ j.channel = events[1].channel
                      /\ j.entered = events[1].entered
              \/ /\ jobs' = jobs
                 /\ Enters(events[1]) /\ ~suppressed => Number \in lost'
           /\ lost' = lost \/ lost' = lost \cup {Number}
<1> DEFINE ev == Head(events)
           job == [event |-> event_count - Len(events) + 1,
                   user |-> ev.user, channel |-> ev.channel,
                   entered |-> ev.entered, pc |-> "look"]
<1>1. events \in Seq(VoiceState) /\ events # <<>> /\ events' = Tail(events)
  BY DEF EntryInv, Shape, UpdateHandled, OnVoiceStateUpdate
<1>2. /\ ev = events[1] /\ events[1] \in VoiceState
      /\ Len(events) \in Nat /\ Len(events) > 0
      /\ Len(events') = Len(events) - 1
      /\ DOMAIN events = 1 .. Len(events)
      /\ DOMAIN events' = 1 .. Len(events) - 1
      /\ \A i \in DOMAIN events' : events'[i] = events[i + 1]
  BY <1>1
<1>3. job \in AnyJob
  BY <1>2 DEF AnyJob, VoiceState, WorldInv
<1>4. /\ UNCHANGED <<user_channel, event_count, suppressed>>
      /\ last_voice_channel' =
           [last_voice_channel EXCEPT ![ev.user] = ev.channel]
      /\ seen_early' = IF suppressed THEN seen_early \cup {ev.user} ELSE seen_early
      /\ \/ Enters(ev) /\ ~suppressed /\ jobs' = jobs \cup {job}
         \/ /\ jobs' = jobs
            /\ Enters(ev) /\ ~suppressed => Number \in lost'
      /\ lost' = lost \/ lost' = lost \cup {Number}
  BY DEF UpdateHandled, OnVoiceStateUpdate, Recorded, Number, boundVars
<1>5. /\ job.event = event_count - Len(events) + 1
      /\ job.user = ev.user /\ job.channel = ev.channel
      /\ job.entered = ev.entered
  OBVIOUS
<1> HIDE DEF ev, job
<1> QED
  BY <1>1, <1>2, <1>3, <1>4, <1>5 DEF ev

LEMMA WorldStep == EntryInv /\ WorldInv /\ [Next]_vars => WorldInv'
<1> SUFFICES ASSUME EntryInv, WorldInv, [Next]_vars PROVE WorldInv'
  OBVIOUS
<1>1. ASSUME NEW u \in Users, NEW c \in Places, UserActs(u, c)
      PROVE  WorldInv'
  <2>1. /\ event_count' = event_count + 1 /\ event_count' \in 0 .. MaxEvents
        /\ user_channel' = [user_channel EXCEPT ![u] = c]
        /\ UNCHANGED <<bot_channel, suppressed, last_voice_channel, jobs,
                       join_effects, stop_requested, seen_early, lost, moves>>
    BY <1>1, JoinEffectsAssumption DEF UserActs, WorldInv, historyVars
  <2>2. Len(events) \in Nat /\ Len(events') = Len(events) + 1
    BY <1>1 DEF UserActs, EntryInv, Shape
  <2>3. JobsHandled'
    BY <2>1, <2>2 DEF WorldInv, JobsHandled
  <2> QED
    BY <2>1, <2>3 DEF WorldInv
<1>2. CASE UpdateHandled
  <2>1. /\ events[1].user \in Users /\ events[1].channel \in Places
        /\ event_count \in Nat
    BY <1>2, UpdateShape DEF VoiceState, WorldInv
  <2>2. JobsHandled'
    BY <1>2, <2>1, UpdateShape DEF WorldInv, JobsHandled, Enters
  <2>3. UNCHANGED <<bot_channel, join_effects, stop_requested, moves>>
    BY <1>2 DEF UpdateHandled, OnVoiceStateUpdate, boundVars
  <2>4. Number \in 1 .. MaxEvents
    <3>1. /\ Len(events) \in Nat /\ Len(events) > 0 /\ Len(events) <= event_count
          /\ event_count \in 0 .. MaxEvents
      BY <1>2, UpdateShape DEF WorldInv, JobsHandled
    <3>2. PICK n \in Nat : n = Len(events)
      BY <3>1
    <3>3. event_count - n + 1 \in 1 .. MaxEvents
      BY <3>1, <3>2, JoinEffectsAssumption
    <3> QED
      BY <3>2, <3>3 DEF Number
  <2>5. lost' \in SUBSET (1 .. MaxEvents)
    BY <1>2, <2>4, UpdateShape DEF WorldInv
  <2> QED
    BY <1>2, <2>1, <2>2, <2>3, <2>5, UpdateShape DEF WorldInv
<1>3. CASE Aside
  <2>1. JobsHandled'
    BY <1>3 DEF Aside, WorldInv, JobsHandled
  <2>2. CASE \E j \in jobs : RunJob(j)
    <3>1. PICK j \in jobs : RunJob(j)
      BY <2>2
    <3>2. j.user \in Users
      BY DEF EntryInv, Shape, AnyJob
    <3> QED
      BY <1>3, <2>1, <3>1, <3>2, JobAside DEF Aside, WorldInv
  <2>3. CASE \/ SuppressionEnds \/ RequestStop \/ UNCHANGED vars
             \/ \E c \in Places : BotMoves(c)
             \/ \E u \in Users : BindEffect(u) \/ UnbindEffect(u)
             \/ \E u \in Users : OnVoiceClientPlatform(u)
             \/ \E id \in ArmIds :
                  PlatformTimerFires(id) \/ FallbackTimerFires(id)
    <3>1. /\ bot_channel' \in Places /\ suppressed' \in BOOLEAN
          /\ join_effects' \in SUBSET Users /\ stop_requested' \in BOOLEAN
          /\ moves' \in 0 .. MaxMoves
      <4>1. CASE \E c \in Places : BotMoves(c)
        BY <4>1, JoinEffectsAssumption DEF BotMoves, WorldInv
      <4>2. CASE \/ SuppressionEnds \/ RequestStop \/ UNCHANGED vars
                 \/ \E u \in Users : BindEffect(u) \/ UnbindEffect(u)
        BY <4>2 DEF SuppressionEnds, RequestStop, BindEffect, UnbindEffect,
           vars, WorldInv, discordVars, boundVars
      <4>3. CASE \/ \E u \in Users : OnVoiceClientPlatform(u)
                 \/ \E id \in ArmIds :
                      PlatformTimerFires(id) \/ FallbackTimerFires(id)
        BY <4>3 DEF OnVoiceClientPlatform, PlatformTimerFires,
           FallbackTimerFires, WorldInv, discordVars, boundVars
      <4> QED
        BY <2>3, <4>1, <4>2, <4>3
    <3> QED
      BY <1>3, <2>1, <3>1 DEF Aside, WorldInv
  <2> QED
    BY <1>1, <1>2, <2>2, <2>3 DEF Next, UpdateHandled
<1> QED
  BY <1>1, <1>2, <1>3, StepsOfUpdates

\* Every variable keeps its type, and a job is always about a channel.
THEOREM TypeCorrect == Spec => []TypeOK
<1>1. EntryInv /\ WorldInv => TypeOK
  <2> SUFFICES ASSUME EntryInv, WorldInv PROVE TypeOK
    OBVIOUS
  <2>1. ASSUME NEW j \in jobs PROVE j \in Job
    <3>1. j \in AnyJob
      BY DEF EntryInv, Shape
    <3>2. j.event \in 1 .. MaxEvents /\ j.channel \in Channels
      <4>1. /\ j.event \in 1 .. event_count - Len(events)
            /\ j.channel # Nowhere /\ Len(events) \in Nat
            /\ event_count \in 0 .. MaxEvents
        BY DEF WorldInv, JobsHandled, EntryInv, Shape
      <4> QED
        BY <3>1, <4>1, JoinEffectsAssumption DEF AnyJob, Places
    <3> QED
      BY <3>1, <3>2 DEF AnyJob, Job
  <2>2. Len(armed) \in Nat /\ Known \subseteq ArmIds
    BY JoinEffectsAssumption DEF EntryInv, Shape, Known, ArmIds
  <2> QED
    BY <2>1, <2>2 DEF EntryInv, Shape, WorldInv, TypeOK
<1> QED
  BY <1>1, EntryInit, EntryNext, WorldInit, WorldStep, PTL DEF Spec

(***************************************************************************)
(* What an update tells.                                                   *)
(***************************************************************************)

\* The updates of one user that wait, one behind the other
First(i) == \A m \in DOMAIN events : m < i => events[m].user # events[i].user
Last(i) == \A m \in DOMAIN events : i < m => events[m].user # events[i].user
Follows(k, i) ==
    /\ k < i /\ events[k].user = events[i].user
    /\ \A m \in DOMAIN events : k < m /\ m < i => events[m].user # events[i].user

\* The update tells of an entry just when the user came from elsewhere.
CameFrom(ev, place) == ev.entered <=> ev.channel # Nowhere /\ ev.channel # place

\* An update that waits is compared with the update before it, or with the
\* channel that was recorded; the last one tells where the user is.
UpdatesTrue ==
    /\ \A i \in DOMAIN events : events[i].entered => events[i].channel # Nowhere
    /\ \A i, k \in DOMAIN events :
         Follows(k, i) => CameFrom(events[i], events[k].channel)
    /\ \A i \in DOMAIN events :
         First(i) /\ last_voice_channel[events[i].user] # Unseen
           => CameFrom(events[i], last_voice_channel[events[i].user])
    /\ \A i \in DOMAIN events :
         Last(i) => events[i].channel = user_channel[events[i].user]
    /\ \A u \in Users :
         /\ last_voice_channel[u] # Unseen
         /\ \A i \in DOMAIN events : events[i].user # u
         => user_channel[u] = last_voice_channel[u]

SeenRecorded == \A u \in seen_early : last_voice_channel[u] # Unseen

BargeInv == UpdatesTrue /\ SeenRecorded /\ NoBargeInOnceSeen

LEMMA ActKeepsTrue ==
    ASSUME EntryInv, WorldInv, UpdatesTrue,
           NEW u \in Users, NEW c \in Places, UserActs(u, c)
    PROVE  UpdatesTrue'
<1> DEFINE n == Len(events) + 1
           ev == [user |-> u, channel |-> c,
                  entered |-> c # Nowhere /\ c # user_channel[u]]
<1>1. /\ events \in Seq(VoiceState) /\ events' = Append(events, ev)
      /\ user_channel' = [user_channel EXCEPT ![u] = c]
      /\ last_voice_channel' = last_voice_channel
  BY DEF EntryInv, Shape, UserActs
<1>2. ev.user = u /\ ev.channel = c /\ CameFrom(ev, user_channel[u])
  BY DEF CameFrom
<1> HIDE DEF ev
<1>3. /\ Len(events) \in Nat /\ DOMAIN events = 1 .. Len(events)
      /\ DOMAIN events' = 1 .. Len(events) + 1
      /\ \A i \in 1 .. Len(events) : events'[i] = events[i]
      /\ events'[Len(events) + 1] = ev
  BY <1>1
<1>4. /\ DOMAIN events' = DOMAIN events \cup {n} /\ events'[n] = ev
      /\ n \in Nat /\ \A i \in DOMAIN events : i \in Nat /\ i < n
      /\ \A i \in DOMAIN events : events'[i] = events[i]
  BY <1>3
<1> HIDE DEF n
<1>5. /\ user_channel'[u] = c
      /\ \A v \in Users : v # u => user_channel'[v] = user_channel[v]
      /\ \A i \in DOMAIN events : events[i].user \in Users
  <2>1. \A i \in DOMAIN events : events[i] \in VoiceState
    BY <1>1
  <2> QED
    BY <1>1, <2>1 DEF WorldInv, VoiceState
<1>6. \A i \in DOMAIN events' : events'[i].entered => events'[i].channel # Nowhere
  BY <1>2, <1>4 DEF UpdatesTrue, CameFrom
<1>7. \A i, k \in DOMAIN events' :
         Follows(k, i)' => CameFrom(events'[i], events'[k].channel)
  <2>1. ASSUME NEW i \in DOMAIN events', NEW k \in DOMAIN events', Follows(k, i)'
        PROVE  CameFrom(events'[i], events'[k].channel)
    <3>1. k # n
      BY <1>4, <2>1 DEF Follows
    <3>2. CASE i # n
      <4>1. Follows(k, i)
        BY <1>4, <2>1, <3>1, <3>2 DEF Follows
      <4> QED
        BY <1>4, <3>1, <3>2, <4>1 DEF UpdatesTrue
    <3>3. CASE i = n
      <4>1. events[k].user = u /\ Last(k)
        BY <1>2, <1>4, <2>1, <3>1, <3>3 DEF Follows, Last
      <4>2. events[k].channel = user_channel[u]
        BY <1>4, <3>1, <4>1 DEF UpdatesTrue
      <4> QED
        BY <1>2, <1>4, <3>1, <3>3, <4>2
    <3> QED
      BY <3>2, <3>3
  <2> QED
    BY <2>1
<1>8. \A i \in DOMAIN events' :
         First(i)' /\ last_voice_channel'[events'[i].user] # Unseen
           => CameFrom(events'[i], last_voice_channel'[events'[i].user])
  <2>1. ASSUME NEW i \in DOMAIN events', First(i)',
               last_voice_channel'[events'[i].user] # Unseen
        PROVE  CameFrom(events'[i], last_voice_channel'[events'[i].user])
    <3>1. CASE i # n
      <4>1. First(i)
        BY <1>4, <2>1, <3>1 DEF First
      <4> QED
        BY <1>1, <1>4, <2>1, <3>1, <4>1 DEF UpdatesTrue
    <3>2. CASE i = n
      <4>1. \A m \in DOMAIN events : events[m].user # u
        BY <1>2, <1>4, <2>1, <3>2 DEF First
      <4> QED
        BY <1>1, <1>2, <1>4, <2>1, <3>2, <4>1 DEF UpdatesTrue
    <3> QED
      BY <3>1, <3>2
  <2> QED
    BY <2>1
<1>9. \A i \in DOMAIN events' :
         Last(i)' => events'[i].channel = user_channel'[events'[i].user]
  <2>1. ASSUME NEW i \in DOMAIN events', Last(i)'
        PROVE  events'[i].channel = user_channel'[events'[i].user]
    <3>1. CASE i = n
      BY <1>2, <1>4, <1>5, <3>1
    <3>2. CASE i # n
      <4>1. events[i].user # u /\ Last(i)
        BY <1>2, <1>4, <2>1, <3>2 DEF Last
      <4> QED
        BY <1>4, <1>5, <3>2, <4>1 DEF UpdatesTrue
    <3> QED
      BY <3>1, <3>2
  <2> QED
    BY <2>1
<1>10. \A v \in Users :
         /\ last_voice_channel'[v] # Unseen
         /\ \A i \in DOMAIN events' : events'[i].user # v
         => user_channel'[v] = last_voice_channel'[v]
  BY <1>1, <1>2, <1>4, <1>5 DEF UpdatesTrue
<1> QED
  BY <1>6, <1>7, <1>8, <1>9, <1>10 DEF UpdatesTrue

LEMMA UpdateKeepsTrue ==
    ASSUME EntryInv, WorldInv, UpdatesTrue, UpdateHandled
    PROVE  UpdatesTrue'
<1> DEFINE ev == events[1]
<1>1. /\ Len(events) \in Nat /\ 1 \in DOMAIN events
      /\ DOMAIN events = 1 .. Len(events)
      /\ DOMAIN events' = 1 .. Len(events) - 1
      /\ \A i \in DOMAIN events' : /\ i + 1 \in DOMAIN events /\ 1 < i + 1
                                   /\ events'[i] = events[i + 1]
      /\ \A i \in DOMAIN events : i = 1 \/ i - 1 \in DOMAIN events'
      /\ user_channel' = user_channel
  BY UpdateShape
<1>2. \A i \in DOMAIN events : events[i] \in VoiceState
  BY DEF EntryInv, Shape
<1>3. /\ ev.user \in Users /\ ev.channel \in Places
      /\ last_voice_channel'[ev.user] = ev.channel
      /\ \A v \in Users :
           v # ev.user => last_voice_channel'[v] = last_voice_channel[v]
      /\ \A i \in DOMAIN events : events[i].user \in Users
  BY <1>1, <1>2, UpdateShape DEF WorldInv, VoiceState
<1>4. \A i \in DOMAIN events' : events'[i].entered => events'[i].channel # Nowhere
  BY <1>1 DEF UpdatesTrue
<1>5. ASSUME NEW i \in DOMAIN events', NEW k \in DOMAIN events', Follows(k, i)'
      PROVE  CameFrom(events'[i], events'[k].channel)
  <2>1. Follows(k + 1, i + 1)
    <3>1. ASSUME NEW m \in DOMAIN events, k + 1 < m, m < i + 1
          PROVE  events[m].user # events[i + 1].user
      <4>1. m - 1 \in DOMAIN events' /\ k < m - 1 /\ m - 1 < i
        BY <1>1, <3>1
      <4>2. events'[m - 1].user # events'[i].user
        BY <1>5, <4>1 DEF Follows
      <4>3. events'[m - 1] = events[m]
        BY <1>1, <4>1
      <4> QED
        BY <1>1, <4>2, <4>3
    <3> QED
      BY <1>1, <1>5, <3>1 DEF Follows
  <2> QED
    BY <1>1, <2>1 DEF UpdatesTrue
<1>6. ASSUME NEW i \in DOMAIN events', First(i)',
             last_voice_channel'[events'[i].user] # Unseen
      PROVE  CameFrom(events'[i], last_voice_channel'[events'[i].user])
  <2>1. ASSUME NEW m \in DOMAIN events, 1 < m, m < i + 1
        PROVE  events[m].user # events[i + 1].user
    <3>1. m - 1 \in DOMAIN events' /\ m - 1 < i
      BY <1>1, <2>1
    <3>2. events'[m - 1].user # events'[i].user
      BY <1>6, <3>1 DEF First
    <3>3. events'[m - 1] = events[m]
      BY <1>1, <3>1
    <3> QED
      BY <1>1, <3>2, <3>3
  <2>2. CASE events[i + 1].user = ev.user
    <3>1. Follows(1, i + 1)
      BY <1>1, <2>1, <2>2 DEF Follows
    <3> QED
      BY <1>1, <1>3, <2>2, <3>1 DEF UpdatesTrue
  <2>3. CASE events[i + 1].user # ev.user
    <3>1. First(i + 1)
      BY <1>1, <2>1, <2>3 DEF First
    <3> QED
      BY <1>1, <1>3, <1>6, <2>3, <3>1 DEF UpdatesTrue
  <2> QED
    BY <2>2, <2>3
<1>7. ASSUME NEW i \in DOMAIN events', Last(i)'
      PROVE  events'[i].channel = user_channel'[events'[i].user]
  <2>1. Last(i + 1)
    <3>1. ASSUME NEW m \in DOMAIN events, i + 1 < m
          PROVE  events[m].user # events[i + 1].user
      <4>1. m - 1 \in DOMAIN events' /\ i < m - 1
        BY <1>1, <3>1
      <4>2. events'[m - 1].user # events'[i].user
        BY <1>7, <4>1 DEF Last
      <4>3. events'[m - 1] = events[m]
        BY <1>1, <4>1
      <4> QED
        BY <1>1, <4>2, <4>3
    <3> QED
      BY <3>1 DEF Last
  <2> QED
    BY <1>1, <2>1 DEF UpdatesTrue
<1>8. ASSUME NEW v \in Users, last_voice_channel'[v] # Unseen,
             \A i \in DOMAIN events' : events'[i].user # v
      PROVE  user_channel'[v] = last_voice_channel'[v]
  <2>1. ASSUME NEW m \in DOMAIN events, 1 < m PROVE events[m].user # v
    <3>1. m - 1 \in DOMAIN events' /\ m - 1 + 1 = m
      BY <1>1, <2>1
    <3> QED
      BY <1>1, <1>8, <3>1
  <2>2. CASE v = ev.user
    <3>1. Last(1)
      BY <1>1, <2>1, <2>2 DEF Last
    <3> QED
      BY <1>1, <1>3, <2>2, <3>1 DEF UpdatesTrue
  <2>3. CASE v # ev.user
    <3>1. \A i \in DOMAIN events : events[i].user # v
      BY <1>1, <2>1, <2>3
    <3> QED
      BY <1>1, <1>3, <1>8, <2>3, <3>1 DEF UpdatesTrue
  <2> QED
    BY <2>2, <2>3
<1> QED
  BY <1>4, <1>5, <1>6, <1>7, <1>8 DEF UpdatesTrue

\* What the handler acts upon is an entry, if anything was recorded of the user.
LEMMA EntersIsEntry ==
    ASSUME EntryInv, WorldInv, UpdatesTrue, events # <<>>
    PROVE  /\ Head(events).entered => Enters(Head(events))
           /\ last_voice_channel[Head(events).user] # Unseen
                => (Enters(Head(events)) => Head(events).entered)
<1>1. events \in Seq(VoiceState)
  BY DEF EntryInv, Shape
<1>2. /\ Head(events) = events[1] /\ events[1] \in VoiceState
      /\ 1 \in DOMAIN events /\ First(1)
  BY <1>1 DEF First
<1>3. last_voice_channel[events[1].user] # Unseen
        => CameFrom(events[1], last_voice_channel[events[1].user])
  BY <1>2 DEF UpdatesTrue
<1>4. events[1].entered => /\ events[1].channel # Nowhere
                           /\ events[1].channel # Unseen
  BY <1>2, JoinEffectsAssumption DEF UpdatesTrue, VoiceState, Places
<1> QED
  BY <1>2, <1>3, <1>4 DEF Enters, CameFrom

LEMMA BargeInit == Init => BargeInv
BY DEF Init, BargeInv, UpdatesTrue, SeenRecorded, NoBargeInOnceSeen

LEMMA BargeStep == EntryInv /\ WorldInv /\ BargeInv /\ [Next]_vars => BargeInv'
<1> SUFFICES ASSUME EntryInv, WorldInv, BargeInv, [Next]_vars PROVE BargeInv'
  OBVIOUS
<1>1. ASSUME NEW u \in Users, NEW c \in Places, UserActs(u, c)
      PROVE  BargeInv'
  BY <1>1, ActKeepsTrue
     DEF UserActs, BargeInv, SeenRecorded, NoBargeInOnceSeen, historyVars
<1>2. CASE UpdateHandled
  <2>1. /\ events # <<>> /\ Head(events) = events[1]
        /\ events[1].user \in Users /\ events[1].channel \in Places
        /\ events[1].channel # Unseen
    BY <1>2, UpdateShape, JoinEffectsAssumption DEF VoiceState, Places
  <2>2. SeenRecorded'
    BY <1>2, <2>1, UpdateShape DEF BargeInv, SeenRecorded, WorldInv
  <2>3. CASE suppressed
    BY <1>2, <2>2, <2>3, UpdateShape, UpdateKeepsTrue
       DEF BargeInv, NoBargeInOnceSeen, WorldInv, JobsHandled
  <2>4. CASE ~suppressed
    <3>1. seen_early' = seen_early
      BY <1>2, <2>4, UpdateShape
    <3>2. ASSUME Enters(events[1]), events[1].user \in seen_early
          PROVE  events[1].entered
      BY <2>1, <3>2, EntersIsEntry DEF BargeInv, SeenRecorded
    <3>3. NoBargeInOnceSeen'
      BY <1>2, <2>4, <3>1, <3>2, UpdateShape DEF BargeInv, NoBargeInOnceSeen
    <3> QED
      BY <1>2, <2>2, <3>3, UpdateKeepsTrue DEF BargeInv
  <2> QED
    BY <2>3, <2>4
<1>3. CASE Aside
  <2>1. UpdatesTrue'
    BY <1>3 DEF Aside, BargeInv, UpdatesTrue, First, Last, Follows
  <2> QED
    BY <1>3, <2>1 DEF Aside, BargeInv, SeenRecorded, NoBargeInOnceSeen
<1> QED
  BY <1>1, <1>2, <1>3, StepsOfUpdates

\* A user who was seen during the startup suppression triggers an effect only
\* by entering a channel, however late and in whatever number the updates are
\* handled (BotRouter.cpp:211-229).
THEOREM NoBargeIn == Spec => []NoBargeInOnceSeen
<1>1. BargeInv => NoBargeInOnceSeen
  BY DEF BargeInv
<1> QED
  BY <1>1, EntryInit, EntryNext, WorldInit, WorldStep, BargeInit, BargeStep, PTL
     DEF Spec

LEMMA EntryStarts ==
    ASSUME EntryInv, WorldInv, BargeInv, [Next]_vars,
           events # <<>>, events' = Tail(events),
           Head(events).entered, ~suppressed
    PROVE  \/ Number \in lost'
           \/ \E j \in jobs' \ jobs : j.user = Head(events).user
<1>1. events \in Seq(VoiceState) /\ Len(events') = Len(events) - 1
      /\ Len(events) \in Nat
  BY DEF EntryInv, Shape
<1>2. ~Aside
  <2>1. PICK n \in Nat : n = Len(events)
    BY <1>1
  <2>2. Len(events') = n - 1
    BY <1>1, <2>1
  <2>3. Aside => Len(events') = n
    BY <2>1 DEF Aside
  <2> QED
    BY <2>1, <2>2, <2>3
<1>3. ASSUME NEW u \in Users, NEW c \in Places, UserActs(u, c) PROVE FALSE
  BY <1>1, <1>3 DEF UserActs
<1>4. UpdateHandled
  BY <1>2, <1>3, StepsOfUpdates
<1>5. Enters(Head(events)) /\ Head(events) = events[1]
  BY <1>4, EntersIsEntry, UpdateShape DEF BargeInv
<1>6. CASE Number \in lost'
  BY <1>6
<1>7. CASE Number \notin lost'
  <2>1. PICK j \in AnyJob : /\ jobs' = jobs \cup {j}
                            /\ j.event = event_count - Len(events) + 1
                            /\ j.user = events[1].user
    BY <1>4, <1>5, <1>7, UpdateShape
  <2>2. j \notin jobs
    BY <1>1, <2>1 DEF WorldInv, JobsHandled
  <2> QED
    BY <1>5, <2>1, <2>2
<1> QED
  BY <1>6, <1>7

\* Every entry that is handled after the suppression starts a job of its own,
\* unless the client of its own shard is gone at that moment; leaves, moves and
\* mutes before it, suppressed ones and lost ones, make no difference
\* (BotRouter.cpp:211-241).
THEOREM EntriesHandled == Spec => EntriesActedUpon
<1>1. EntryInv /\ WorldInv /\ BargeInv /\ [Next]_vars
        => [(events # <<>> /\ events' = Tail(events)
               /\ Head(events).entered /\ ~suppressed)
             => \/ Number \in lost'
                \/ \E j \in jobs' \ jobs : j.user = Head(events).user]_vars
  BY EntryStarts
<1> QED
  BY <1>1, EntryInit, EntryNext, WorldInit, WorldStep, BargeInit, BargeStep, PTL
     DEF Spec, EntriesActedUpon

(***************************************************************************)
(* Users who were in no channel when the bot started.                      *)
(***************************************************************************)

\* Of such a user the bot knows as much before the first update as after it:
\* nothing recorded stands for nowhere.
OutsideTrue(outside) ==
    \A u \in outside :
      /\ \A j \in jobs : j.user = u => j.entered
      /\ last_voice_channel[u] = Unseen =>
           /\ \A i \in DOMAIN events :
                First(i) /\ events[i].user = u => CameFrom(events[i], Nowhere)
           /\ (\A i \in DOMAIN events : events[i].user # u)
                => user_channel[u] = Nowhere

LEMMA OutsideAct ==
    ASSUME EntryInv, WorldInv, NEW outside \in SUBSET Users, OutsideTrue(outside),
           NEW v \in Users, NEW c \in Places, UserActs(v, c)
    PROVE  OutsideTrue(outside)'
<1> DEFINE n == Len(events) + 1
           ev == [user |-> v, channel |-> c,
                  entered |-> c # Nowhere /\ c # user_channel[v]]
<1>1. /\ events \in Seq(VoiceState) /\ events' = Append(events, ev)
      /\ user_channel' = [user_channel EXCEPT ![v] = c]
      /\ UNCHANGED <<last_voice_channel, jobs>>
  BY DEF EntryInv, Shape, UserActs
<1>2. ev.user = v /\ CameFrom(ev, user_channel[v])
  BY DEF CameFrom
<1> HIDE DEF ev
<1>3. /\ Len(events) \in Nat /\ DOMAIN events = 1 .. Len(events)
      /\ DOMAIN events' = 1 .. Len(events) + 1
      /\ \A i \in 1 .. Len(events) : events'[i] = events[i]
      /\ events'[Len(events) + 1] = ev
  BY <1>1
<1>4. /\ DOMAIN events' = DOMAIN events \cup {n} /\ events'[n] = ev
      /\ n \in Nat /\ \A i \in DOMAIN events : i \in Nat /\ i < n
      /\ \A i \in DOMAIN events : events'[i] = events[i]
  BY <1>3
<1> HIDE DEF n
<1> SUFFICES ASSUME NEW u \in outside, last_voice_channel[u] = Unseen
             PROVE  /\ \A i \in DOMAIN events' :
                         First(i)' /\ events'[i].user = u
                           => CameFrom(events'[i], Nowhere)
                    /\ (\A i \in DOMAIN events' : events'[i].user # u)
                         => user_channel'[u] = Nowhere
  BY <1>1 DEF OutsideTrue
<1>5. ASSUME NEW i \in DOMAIN events', First(i)', events'[i].user = u
      PROVE  CameFrom(events'[i], Nowhere)
  <2>1. CASE i # n
    <3>1. First(i)
      BY <1>4, <1>5, <2>1 DEF First
    <3> QED
      BY <1>4, <1>5, <2>1, <3>1 DEF OutsideTrue
  <2>2. CASE i = n
    <3>1. u = v /\ \A m \in DOMAIN events : events[m].user # u
      BY <1>2, <1>4, <1>5, <2>2 DEF First
    <3>2. user_channel[v] = Nowhere
      BY <3>1 DEF OutsideTrue
    <3> QED
      BY <1>2, <1>4, <2>2, <3>2
  <2> QED
    BY <2>1, <2>2
<1>6. ASSUME \A i \in DOMAIN events' : events'[i].user # u
      PROVE  user_channel'[u] = Nowhere
  <2>1. u # v /\ \A i \in DOMAIN events : events[i].user # u
    BY <1>2, <1>4, <1>6
  <2> QED
    BY <1>1, <2>1 DEF OutsideTrue, WorldInv
<1> QED
  BY <1>5, <1>6

LEMMA OutsideUpdate ==
    ASSUME EntryInv, WorldInv, UpdatesTrue,
           NEW outside \in SUBSET Users, OutsideTrue(outside),
           UpdateHandled
    PROVE  OutsideTrue(outside)'
<1> DEFINE ev == events[1]
<1>1. /\ Len(events) \in Nat /\ 1 \in DOMAIN events /\ Head(events) = ev
      /\ DOMAIN events = 1 .. Len(events)
      /\ DOMAIN events' = 1 .. Len(events) - 1
      /\ \A i \in DOMAIN events' : /\ i + 1 \in DOMAIN events /\ 1 < i + 1
                                   /\ events'[i] = events[i + 1]
      /\ \A i \in DOMAIN events : i = 1 \/ i - 1 \in DOMAIN events'
      /\ user_channel' = user_channel
  BY UpdateShape
<1>2. /\ ev.user \in Users /\ ev.channel \in Places /\ ev.channel # Unseen
      /\ last_voice_channel'[ev.user] = ev.channel
      /\ \A v \in Users :
           v # ev.user => last_voice_channel'[v] = last_voice_channel[v]
  BY UpdateShape, JoinEffectsAssumption DEF WorldInv, VoiceState, Places
<1> SUFFICES ASSUME NEW u \in outside
             PROVE  /\ \A j \in jobs' : j.user = u => j.entered
                    /\ last_voice_channel'[u] = Unseen =>
                         /\ \A i \in DOMAIN events' :
                              First(i)' /\ events'[i].user = u
                                => CameFrom(events'[i], Nowhere)
                         /\ (\A i \in DOMAIN events' : events'[i].user # u)
                              => user_channel'[u] = Nowhere
  BY DEF OutsideTrue
<1>3. ASSUME Enters(ev), ev.user = u
      PROVE  ev.entered
  <2>1. CASE last_voice_channel[u] = Unseen
    <3>1. First(1)
      BY <1>1 DEF First
    <3>2. CameFrom(ev, Nowhere)
      BY <1>1, <1>3, <2>1, <3>1 DEF OutsideTrue
    <3> QED
      BY <1>3, <3>2 DEF CameFrom, Enters
  <2>2. CASE last_voice_channel[u] # Unseen
    BY <1>1, <1>3, <2>2, EntersIsEntry, UpdateShape
  <2> QED
    BY <2>1, <2>2
<1>4. \A j \in jobs' : j.user = u => j.entered
  <2>1. \A j \in jobs : j.user = u => j.entered
    BY DEF OutsideTrue
  <2>2. \/ jobs' = jobs
        \/ /\ Enters(ev)
           /\ \E k \in AnyJob : /\ jobs' = jobs \cup {k} /\ k.user = ev.user
                                /\ k.entered = ev.entered
    BY UpdateShape
  <2> QED
    BY <1>3, <2>1, <2>2
<1>5. ASSUME last_voice_channel'[u] = Unseen
      PROVE  /\ \A i \in DOMAIN events' :
                  First(i)' /\ events'[i].user = u
                    => CameFrom(events'[i], Nowhere)
             /\ (\A i \in DOMAIN events' : events'[i].user # u)
                  => user_channel'[u] = Nowhere
  <2>1. ev.user # u /\ last_voice_channel[u] = Unseen
    BY <1>2, <1>5
  <2>2. ASSUME NEW i \in DOMAIN events', First(i)', events'[i].user = u
        PROVE  CameFrom(events'[i], Nowhere)
    <3>1. ASSUME NEW m \in DOMAIN events, m < i + 1
          PROVE  events[m].user # events[i + 1].user
      <4>1. CASE m = 1
        BY <1>1, <2>1, <2>2, <4>1
      <4>2. CASE m # 1
        <5>1. m - 1 \in DOMAIN events' /\ m - 1 < i
          BY <1>1, <3>1, <4>2
        <5>2. events'[m - 1].user # events'[i].user
          BY <2>2, <5>1 DEF First
        <5>3. events'[m - 1] = events[m]
          BY <1>1, <5>1
        <5> QED
          BY <1>1, <5>2, <5>3
      <4> QED
        BY <4>1, <4>2
    <3>2. First(i + 1)
      BY <3>1 DEF First
    <3> QED
      BY <1>1, <2>1, <2>2, <3>2 DEF OutsideTrue
  <2>3. ASSUME \A i \in DOMAIN events' : events'[i].user # u
        PROVE  user_channel'[u] = Nowhere
    <3>1. ASSUME NEW m \in DOMAIN events PROVE events[m].user # u
      <4>1. CASE m = 1
        BY <2>1, <4>1
      <4>2. CASE m # 1
        <5>1. m - 1 \in DOMAIN events' /\ m - 1 + 1 = m
          BY <1>1, <4>2
        <5> QED
          BY <1>1, <2>3, <5>1
      <4> QED
        BY <4>1, <4>2
    <3> QED
      BY <1>1, <2>1, <3>1 DEF OutsideTrue
  <2> QED
    BY <2>2, <2>3
<1> QED
  BY <1>4, <1>5

\* For a user who was in no channel when the bot started, only entries are ever
\* acted upon, during the suppression or after it and whatever the first update
\* is.  With nobody in voice at the start this is ActsOnlyOnEntry; its violation
\* needs a user who was in voice all along (BotRouter.cpp:211-229).
THEOREM OutsidersTriggerByEntry ==
    ASSUME NEW outside \in SUBSET Users
    PROVE  Spec /\ (\A u \in outside : user_channel[u] = Nowhere)
             => [](\A j \in jobs : j.user \in outside => j.entered)
<1> DEFINE OutsideInv == OutsideTrue(outside)
<1>1. Init /\ (\A u \in outside : user_channel[u] = Nowhere) => OutsideInv
  BY DEF Init, OutsideTrue
<1>2. EntryInv /\ WorldInv /\ BargeInv /\ OutsideInv /\ [Next]_vars => OutsideInv'
  <2> SUFFICES ASSUME EntryInv, WorldInv, BargeInv, OutsideTrue(outside),
                      [Next]_vars
               PROVE  OutsideTrue(outside)'
    OBVIOUS
  <2>1. CASE Aside
    BY <2>1 DEF Aside, OutsideTrue, First
  <2> QED
    BY <2>1, OutsideAct, OutsideUpdate, StepsOfUpdates DEF BargeInv
<1>3. OutsideInv => \A j \in jobs : j.user \in outside => j.entered
  BY DEF OutsideTrue
<1> QED
  <2> HIDE DEF OutsideInv
  <2> QED
    BY <1>1, <1>2, <1>3, EntryInit, EntryNext, WorldInit, WorldStep, BargeInit,
       BargeStep, PTL DEF Spec

(***************************************************************************)
(* No entry is left behind: the safety half of ArmedIsPlayed.              *)
(***************************************************************************)

\* The entry is pending and its own fallback timer still to come, or an RTC
\* event's timer holds it, or it has been played or replaced.
OnItsWay(id) ==
    \/ pending_join_effects[armed[id]] = id /\ id \in fallback_timers
    \/ id \in platform_timers
    \/ \E i \in DOMAIN heard : heard[i] = id
    \/ id \in replaced

NobodyStranded == stop_requested \/ \A id \in Known : OnItsWay(id)

\* A step that leaves the entries and their timers alone.
LEMMA WayStays ==
    ASSUME NobodyStranded, stop_requested => stop_requested',
           UNCHANGED <<entryVars, armed, replaced, heard>>
    PROVE  NobodyStranded'
BY DEF NobodyStranded, OnItsWay, Known, entryVars

LEMMA HeardGrows ==
    ASSUME EntryInv, NEW id \in ArmIds, heard' = Append(heard, id)
    PROVE  /\ \E i \in DOMAIN heard' : heard'[i] = id
           /\ \A k : (\E i \in DOMAIN heard : heard[i] = k)
                       => \E i \in DOMAIN heard' : heard'[i] = k
<1>1. heard \in Seq(ArmIds)
  BY DEF EntryInv, Shape
<1>2. /\ DOMAIN heard' = 1 .. Len(heard) + 1 /\ Len(heard) \in Nat
      /\ DOMAIN heard = 1 .. Len(heard)
      /\ heard'[Len(heard) + 1] = id
      /\ \A i \in 1 .. Len(heard) : heard'[i] = heard[i]
  BY <1>1
<1>3. /\ \A i \in DOMAIN heard : i \in DOMAIN heard' /\ heard'[i] = heard[i]
      /\ Len(heard) + 1 \in DOMAIN heard'
  BY <1>2
<1>4. \E i \in DOMAIN heard' : heard'[i] = id
  BY <1>2, <1>3
<1>5. ASSUME NEW k, NEW i \in DOMAIN heard, heard[i] = k
      PROVE  \E m \in DOMAIN heard' : heard'[m] = k
  BY <1>3, <1>5, Zenon
<1> QED
  BY <1>4, <1>5, Zenon

LEMMA ArmKeepsWay ==
    ASSUME EntryInv, NobodyStranded, NEW j \in jobs, ArmJoinEffect(j)
    PROVE  NobodyStranded'
<1> DEFINE id == Len(armed) + 1
           old == pending_join_effects[j.user]
<1>1. j.user \in Users
  BY DEF EntryInv, Shape, AnyJob
<1>2. /\ pending_join_effects' = [pending_join_effects EXCEPT ![j.user] = id]
      /\ armed' = Append(armed, j.user)
      /\ replaced' = replaced \cup ({old} \ {NoEntry})
      /\ fallback_timers' = fallback_timers \cup {id}
      /\ UNCHANGED <<platform_timers, heard, stop_requested>>
  BY DEF ArmJoinEffect
<1>3. /\ Known' = Known \cup {id} /\ armed'[id] = j.user
      /\ \A k \in Known : armed'[k] = armed[k] /\ armed[k] \in Users /\ k # NoEntry
  BY <1>1, <1>2 DEF EntryInv, Shape, Known, NoEntry
<1> HIDE DEF id, old
<1>4. ASSUME NEW k, k = id
      PROVE  OnItsWay(k)'
  <2>1. pending_join_effects'[armed'[k]] = k /\ k \in fallback_timers'
    BY <1>1, <1>2, <1>3, <1>4 DEF EntryInv, Shape
  <2> QED
    BY <2>1 DEF OnItsWay
<1>5. ASSUME NEW k \in Known, OnItsWay(k)
      PROVE  OnItsWay(k)'
  <2>1. CASE pending_join_effects[armed[k]] = k /\ k \in fallback_timers
    <3>1. CASE armed[k] = j.user
      <4>1. k = old /\ k # NoEntry
        BY <1>3, <2>1, <3>1 DEF old
      <4> QED
        BY <1>2, <4>1 DEF OnItsWay
    <3>2. CASE armed[k] # j.user
      BY <1>2, <1>3, <2>1, <3>2 DEF OnItsWay, EntryInv, Shape
    <3> QED
      BY <3>1, <3>2
  <2>2. CASE ~(pending_join_effects[armed[k]] = k /\ k \in fallback_timers)
    BY <1>2, <1>5, <2>2 DEF OnItsWay
  <2> QED
    BY <2>1, <2>2
<1>6. CASE stop_requested
  BY <1>2, <1>6 DEF NobodyStranded
<1>7. CASE ~stop_requested
  <2>1. ASSUME NEW k \in Known'
        PROVE  OnItsWay(k)'
    <3>1. CASE k = id
      BY <1>4, <3>1
    <3>2. CASE k \in Known
      BY <1>5, <1>7, <3>2 DEF NobodyStranded
    <3> QED
      BY <1>3, <3>1, <3>2
  <2> QED
    BY <2>1 DEF NobodyStranded
<1> QED
  BY <1>6, <1>7

LEMMA RTCKeepsWay ==
    ASSUME EntryInv, NobodyStranded, NEW u \in Users, OnVoiceClientPlatform(u)
    PROVE  NobodyStranded'
<1>1. /\ pending_join_effects' = [pending_join_effects EXCEPT ![u] = NoEntry]
      /\ platform_timers' = platform_timers \cup {pending_join_effects[u]}
      /\ UNCHANGED <<fallback_timers, armed, replaced, heard, stop_requested>>
  BY DEF OnVoiceClientPlatform, Consume, historyVars
<1>2. ASSUME NEW k \in Known, OnItsWay(k)
      PROVE  OnItsWay(k)'
  <2>1. CASE pending_join_effects[armed[k]] = k
    <3>1. CASE armed[k] = u
      BY <1>1, <2>1, <3>1 DEF OnItsWay
    <3>2. CASE armed[k] # u
      BY <1>1, <1>2, <3>2 DEF OnItsWay, EntryInv, Shape
    <3> QED
      BY <3>1, <3>2
  <2>2. CASE pending_join_effects[armed[k]] # k
    BY <1>1, <1>2, <2>2 DEF OnItsWay
  <2> QED
    BY <2>1, <2>2
<1> QED
  BY <1>1, <1>2 DEF NobodyStranded, Known

LEMMA PlatformKeepsWay ==
    ASSUME EntryInv, NobodyStranded, NEW id \in ArmIds, PlatformTimerFires(id)
    PROVE  NobodyStranded'
<1>1. /\ platform_timers' = platform_timers \ {id}
      /\ heard' = IF stop_requested THEN heard ELSE Append(heard, id)
      /\ UNCHANGED <<pending_join_effects, fallback_timers, armed, replaced,
                     stop_requested>>
  BY DEF PlatformTimerFires
<1>2. CASE stop_requested
  BY <1>1, <1>2 DEF NobodyStranded
<1>3. CASE ~stop_requested
  BY <1>1, <1>3, HeardGrows DEF NobodyStranded, OnItsWay, Known
<1> QED
  BY <1>2, <1>3

LEMMA FallbackKeepsWay ==
    ASSUME EntryInv, NobodyStranded, NEW id \in ArmIds, FallbackTimerFires(id)
    PROVE  NobodyStranded'
<1> DEFINE u == armed[id]
<1>1. /\ id \in fallback_timers
      /\ fallback_timers' = fallback_timers \ {id}
      /\ IF FallbackActs(u)
         THEN /\ pending_join_effects' = [pending_join_effects EXCEPT ![u] = NoEntry]
              /\ heard' = Append(heard, pending_join_effects[u])
         ELSE UNCHANGED <<pending_join_effects, heard>>
      /\ UNCHANGED <<platform_timers, armed, replaced, stop_requested>>
  BY DEF FallbackTimerFires, Consume
<1>2. CASE stop_requested
  BY <1>1, <1>2 DEF NobodyStranded
<1>3. CASE ~stop_requested
  <2>1. /\ u \in Users
        /\ \A k \in Known : armed[k] \in Users /\ k # NoEntry /\ k \in ArmIds
    BY <1>1, JoinEffectsAssumption DEF EntryInv, Shape, Known, NoEntry, ArmIds
  <2>2. FallbackActs(u) => pending_join_effects[u] \in ArmIds
    BY <2>1 DEF FallbackActs, EntryInv, Shape
  <2>3. \A k : (\E i \in DOMAIN heard : heard[i] = k)
                 => \E i \in DOMAIN heard' : heard'[i] = k
    BY <1>1, <2>2, HeardGrows
  <2> HIDE DEF u
  <2>4. ASSUME NEW k \in Known, OnItsWay(k)
        PROVE  OnItsWay(k)'
    <3>1. CASE pending_join_effects[armed[k]] = k /\ k \in fallback_timers
      <4>1. CASE armed[k] = u
        <5>1. FallbackActs(u) /\ pending_join_effects[u] = k
          BY <1>3, <2>1, <3>1, <4>1 DEF FallbackActs
        <5>2. \E i \in DOMAIN heard' : heard'[i] = k
          BY <1>1, <2>2, <5>1, HeardGrows
        <5> QED
          BY <5>2 DEF OnItsWay
      <4>2. CASE armed[k] # u
        <5>1. k # id
          BY <4>2 DEF u
        <5>2. pending_join_effects'[armed[k]] = pending_join_effects[armed[k]]
          BY <1>1, <2>1, <4>2 DEF EntryInv, Shape
        <5> QED
          BY <1>1, <3>1, <5>1, <5>2 DEF OnItsWay
      <4> QED
        BY <4>1, <4>2
    <3>2. CASE ~(pending_join_effects[armed[k]] = k /\ k \in fallback_timers)
      BY <1>1, <2>3, <2>4, <3>2 DEF OnItsWay
    <3> QED
      BY <3>1, <3>2
  <2> QED
    BY <1>1, <1>3, <2>4 DEF NobodyStranded, Known
<1> QED
  BY <1>2, <1>3

\* Until the bot stops, no armed entry is left behind by any race of the RTC
\* event with the timers, by a re-entry or by a timer that finds the entry gone:
\* it is played, replaced, or some timer that will play it is still to come
\* (BotRouter.cpp:160-199, 264-327).  That the timers fire is all ArmedIsPlayed
\* adds.
THEOREM EntriesStayOnTheWay == Spec => []NobodyStranded
<1>1. Init => NobodyStranded
  BY DEF Init, NobodyStranded, Known
<1>2. EntryInv /\ NobodyStranded /\ [Next]_vars => NobodyStranded'
  <2> SUFFICES ASSUME EntryInv, NobodyStranded, [Next]_vars
               PROVE  NobodyStranded'
    OBVIOUS
  <2>1. CASE \/ SuppressionEnds \/ RequestStop \/ UNCHANGED vars
             \/ UpdateHandled
             \/ \E u \in Users, c \in Places : UserActs(u, c)
             \/ \E c \in Places : BotMoves(c)
             \/ \E u \in Users : BindEffect(u) \/ UnbindEffect(u)
    <3>1. UNCHANGED <<entryVars, armed, replaced, heard>>
      BY <2>1 DEF SuppressionEnds, RequestStop, UpdateHandled,
                  OnVoiceStateUpdate, UserActs,
                  BotMoves, BindEffect, UnbindEffect, vars, historyVars, entryVars
    <3>2. stop_requested' = TRUE \/ UNCHANGED stop_requested
      BY <2>1 DEF SuppressionEnds, RequestStop, UpdateHandled,
                  OnVoiceStateUpdate, UserActs,
                  BotMoves, BindEffect, UnbindEffect, vars, historyVars, entryVars
    <3>3. stop_requested => stop_requested'
      BY <3>2, Zenon
    <3> QED
      BY <3>1, <3>3, WayStays
  <2>2. ASSUME NEW j \in jobs, RunJob(j)
        PROVE  NobodyStranded'
    <3>1. CASE ArmJoinEffect(j)
      BY <3>1, ArmKeepsWay
    <3>2. CASE ~ArmJoinEffect(j)
      BY <2>2, <3>2, WayStays
         DEF RunJob, JobLooks, JobDrops, JobConnects, JobConnectFails, historyVars
    <3> QED
      BY <3>1, <3>2
  <2> QED
    BY <2>1, <2>2, RTCKeepsWay, PlatformKeepsWay, FallbackKeepsWay
       DEF Next, UpdateHandled
<1> QED
  BY <1>1, <1>2, EntryInit, EntryNext, PTL DEF Spec

===============================================================================
