---------------------------- MODULE VoicePlayback ----------------------------
(***************************************************************************)
(* How audio reaches Discord: the background ticker of                     *)
(* BotRouter::startBgTask, the mixer it drains, the voice connections DPP  *)
(* opens and loses on its own threads, and the commands that queue, skip   *)
(* and leave while a tick is under way.                                    *)
(*                                                                         *)
(* A tick holds TickerState::client_mutex from TickBegin to its end, but   *)
(* the mixer's own mutex only inside each mixer call, and nothing at all   *)
(* over DPP's connections: commands and DPP events run between the steps   *)
(* of a tick, and only on_voice_ready waits for it.                        *)
(***************************************************************************)
EXTENDS AudioMixer

CONSTANTS
    Guilds,         \* the Discord servers the bot is in
    NoGuild,        \* serving_guild_id == std::nullopt
    Sizes,          \* the clip sizes that are played, in bytes
    MaxIdle,        \* max_idle_count (BotRouter.cpp:436)
    MaxPlays,       \* bound: clips registered in a behaviour
    MaxConns,       \* bound: voice connections opened
    MaxFaults,      \* bound: sends that throw
    MaxOutages      \* bound: times DPP recycles the shard

ASSUME PlaybackAssumption ==
    /\ NoGuild \notin Guilds
    /\ Sizes \subseteq Nat
    /\ MaxIdle \in Nat \ {0}
    /\ MaxPlays \in Nat
    /\ MaxConns \in Nat
    /\ MaxFaults \in Nat
    /\ MaxOutages \in Nat

VARIABLES
    \* DPP's state, external
    vc,                 \* the voice connection of each guild
    shard_up,           \* get_shard(0) is not null
    ready_events,       \* guilds whose voice_ready event is not handled yet
    \* TickerState
    shard_id, serving_guild_id, init, idle_count,
    \* where the tick is, and its locals: the connection it pinned may be the
    \* guild's, one closed since, or one whose shard was deleted since
    tick_pc, local_voice_conn, audio,
    \* commands
    fetching,           \* play commands that joined and have not registered
    skip_seen,          \* /skip: 0, or the song getCurrentSong() returned
    stop_requested,
    \* history: what became of every registered clip
    ledger, discarded,
    \* the counters of the bounds
    conns, faults, outages

dppVars == <<vc, shard_up, ready_events>>
tickerVars == <<shard_id, serving_guild_id, init, idle_count>>
localVars == <<tick_pc, local_voice_conn, audio>>
commandVars == <<fetching, skip_seen, stop_requested>>
historyVars == <<ledger, discarded>>
boundVars == <<conns, faults, outages>>
vars == <<mixerVars, dppVars, tickerVars, localVars, commandVars, historyVars,
          boundVars>>

ClipTypes == {"SONG", "AUDIO_EFFECT"}
LedgerEntry == [type : ClipTypes, size : Nat, heard : Nat, lost : Nat]

TypeOK ==
    /\ MixerTypeOK
    /\ vc \in [Guilds -> {"none", "connecting", "ready"}]
    /\ shard_up \in BOOLEAN
    /\ ready_events \in SUBSET Guilds
    /\ shard_id \in {-1, 0}
    /\ serving_guild_id \in Guilds \cup {NoGuild}
    /\ init \in BOOLEAN
    /\ idle_count \in Nat
    /\ tick_pc \in {"sleep", "mix", "route", "clear", "catch", "done"}
    /\ local_voice_conn \in {"null", "current", "stale", "orphaned"}
    /\ audio \in SUBSET [id : Nat \ {0}, bytes : Nat]
    /\ fetching \in Nat
    /\ skip_seen \in Nat
    /\ stop_requested \in BOOLEAN
    /\ ledger \in Seq(LedgerEntry)
    /\ discarded \in SUBSET Nat
    /\ conns \in Nat /\ faults \in Nat /\ outages \in Nat

Init ==
    /\ MixerInit
    /\ vc = [g \in Guilds |-> "none"]
    /\ shard_up = TRUE
    /\ ready_events = {}
    /\ shard_id = -1
    /\ serving_guild_id = NoGuild
    /\ init = TRUE
    /\ idle_count = 0
    /\ tick_pc = "sleep"
    /\ local_voice_conn = "null"
    /\ audio = {}
    /\ fetching = 0
    /\ skip_seen = 0
    /\ stop_requested = FALSE
    /\ ledger = <<>>
    /\ discarded = {}
    /\ conns = 0 /\ faults = 0 /\ outages = 0

-----------------------------------------------------------------------------
\* History.

QueuedIds == {song_track[i].id : i \in DOMAIN song_track}
                 \cup {e.id : e \in audio_track}

\* The bytes of clip id in the audio the tick holds.
BytesHeld(id) ==
    IF \E c \in audio : c.id = id
    THEN (CHOOSE c \in audio : c.id = id).bytes
    ELSE 0

\* The held audio was sent on the guild's live connection ...
Heard == ledger' = [id \in DOMAIN ledger |->
                      [ledger[id] EXCEPT !.heard = @ + BytesHeld(id)]]
\* ... or was mixed and dropped.
Lost == ledger' = [id \in DOMAIN ledger |->
                      [ledger[id] EXCEPT !.lost = @ + BytesHeld(id)]]

-----------------------------------------------------------------------------
\* Voice connections: DPP and the handlers that open and close them.

\* A pinned connection outlives its entry in the shard's map.
Unpin(closed) ==
    local_voice_conn' = IF /\ local_voice_conn = "current"
                           /\ serving_guild_id \in closed
                        THEN "stale" ELSE local_voice_conn

\* connect_member_voice, from joinVoiceChannel or a join effect.
ConnectVoice(g) ==
    /\ shard_up
    /\ vc[g] = "none"
    /\ conns < MaxConns
    /\ conns' = conns + 1
    /\ vc' = [vc EXCEPT ![g] = "connecting"]
    /\ UNCHANGED <<mixerVars, shard_up, ready_events, tickerVars, localVars,
                   commandVars, ledger, discarded, faults, outages>>

\* The voice handshake ends: is_ready() turns true and the event is posted.
VoiceReady(g) ==
    /\ vc[g] = "connecting"
    /\ vc' = [vc EXCEPT ![g] = "ready"]
    /\ ready_events' = ready_events \cup {g}
    /\ UNCHANGED <<mixerVars, shard_up, tickerVars, localVars, commandVars,
                   historyVars, boundVars>>

\* /leave; a kick or a dropped voice socket has the same effect.
LeaveVoice(g) ==
    /\ shard_up
    /\ vc[g] # "none"
    /\ vc' = [vc EXCEPT ![g] = "none"]
    /\ Unpin({g})
    /\ UNCHANGED <<mixerVars, shard_up, ready_events, tickerVars, tick_pc,
                   audio, commandVars, historyVars, boundVars>>

\* DPP deletes the shard to reconnect: its voice connections go with it.
ShardDown ==
    /\ shard_up
    /\ outages < MaxOutages
    /\ outages' = outages + 1
    /\ shard_up' = FALSE
    /\ vc' = [g \in Guilds |-> "none"]
    /\ local_voice_conn' = IF local_voice_conn = "null"
                           THEN "null" ELSE "orphaned"
    /\ UNCHANGED <<mixerVars, ready_events, tickerVars, tick_pc, audio,
                   commandVars, historyVars, conns, faults>>

ShardBack ==
    /\ ~shard_up
    /\ shard_up' = TRUE
    /\ UNCHANGED <<mixerVars, vc, ready_events, tickerVars, localVars,
                   commandVars, historyVars, boundVars>>

ClientMutexFree == tick_pc \in {"sleep", "catch", "done"}

\* Mutant: the handler does not wait for the tick under way.
MutOnVoiceReady(g) ==
    /\ g \in ready_events
    /\ ready_events' = ready_events \ {g}
    /\ shard_id' = IF shard_up THEN 0 ELSE -1
    /\ serving_guild_id' = g
    /\ UNCHANGED <<mixerVars, vc, shard_up, init, idle_count, localVars,
                   commandVars, historyVars, boundVars>>

\* The on_voice_ready handler.
OnVoiceReady(g) ==
    /\ ClientMutexFree
    /\ g \in ready_events
    /\ ready_events' = ready_events \ {g}
    /\ shard_id' = IF shard_up THEN 0 ELSE -1
    /\ serving_guild_id' = g
    /\ UNCHANGED <<mixerVars, vc, shard_up, init, idle_count, localVars,
                   commandVars, historyVars, boundVars>>

-----------------------------------------------------------------------------
\* Commands.  They run on the pool and take neither client_mutex nor, between
\* two mixer calls, the mixer's.

\* joinVoiceChannel returned true; the fetch of the audio begins.
BeginPlay ==
    /\ \E g \in Guilds : vc[g] = "ready"
    /\ Len(ledger) + fetching < MaxPlays
    /\ fetching' = fetching + 1
    /\ UNCHANGED <<mixerVars, dppVars, tickerVars, localVars, skip_seen,
                   stop_requested, historyVars, boundVars>>

FetchFails ==
    /\ fetching > 0
    /\ fetching' = fetching - 1
    /\ UNCHANGED <<mixerVars, dppVars, tickerVars, localVars, skip_seen,
                   stop_requested, historyVars, boundVars>>

Register(type, size) ==
    /\ RegisterAudio(Len(ledger) + 1, type, size)
    /\ ledger' = Append(ledger, [type |-> type, size |-> size,
                                 heard |-> 0, lost |-> 0])
    /\ UNCHANGED <<dppVars, tickerVars, localVars, skip_seen, stop_requested,
                   discarded, boundVars>>

\* registerAudio after the fetch: nothing asks whether the bot is still there.
EndPlay(type, size) ==
    /\ fetching > 0
    /\ fetching' = fetching - 1
    /\ Register(type, size)

\* A join effect's timer fires: no command waits for it.
TimerPlays(size) ==
    /\ conns > 0
    /\ Len(ledger) + fetching < MaxPlays
    /\ Register("AUDIO_EFFECT", size)
    /\ UNCHANGED fetching

\* Mutant: /skip reads the end of the track.
MutSkipRead ==
    /\ skip_seen = 0
    /\ song_track # <<>>
    /\ skip_seen' = song_track[Len(song_track)].id
    /\ UNCHANGED <<mixerVars, dppVars, tickerVars, localVars, fetching,
                   stop_requested, historyVars, boundVars>>

\* /skip reads the current song, then skips in a second mixer call.
SkipRead ==
    /\ skip_seen = 0
    /\ song_track # <<>>
    /\ skip_seen' = Head(song_track).id
    /\ UNCHANGED <<mixerVars, dppVars, tickerVars, localVars, fetching,
                   stop_requested, historyVars, boundVars>>

SkipErase ==
    /\ skip_seen # 0
    /\ skip_seen' = 0
    /\ SkipCurrentSong
    /\ discarded' = discarded \cup {Head(song_track).id}
    /\ UNCHANGED <<dppVars, tickerVars, localVars, fetching, stop_requested,
                   ledger, boundVars>>

\* "Play list is empty": the song ended or was cleared in between.
SkipNothing ==
    /\ skip_seen # 0
    /\ song_track = <<>>
    /\ skip_seen' = 0
    /\ UNCHANGED <<mixerVars, dppVars, tickerVars, localVars, fetching,
                   stop_requested, historyVars, boundVars>>

RequestStop ==
    /\ ~stop_requested
    /\ stop_requested' = TRUE
    /\ UNCHANGED <<mixerVars, dppVars, tickerVars, localVars, fetching,
                   skip_seen, historyVars, boundVars>>

-----------------------------------------------------------------------------
\* The ticker: one action per place where other threads can get between.

\* The body returned: repeat_until goes on unless a stop was requested.
TickEnds ==
    /\ tick_pc' = IF stop_requested THEN "done" ELSE "sleep"
    /\ local_voice_conn' = "null"
    /\ audio' = {}

TickStops ==
    /\ tick_pc = "sleep"
    /\ stop_requested
    /\ TickEnds
    /\ UNCHANGED <<mixerVars, dppVars, tickerVars, commandVars, historyVars,
                   boundVars>>

Served == shard_id = 0 /\ shard_up /\ serving_guild_id # NoGuild

\* No shard or no guild: the tick does nothing, not even step the mixer.
TickUnserved ==
    /\ tick_pc = "sleep"
    /\ ~stop_requested
    /\ ~Served
    /\ UNCHANGED vars

\* Lock, resolve the shard and pin the connection of the guild served.
TickBegin ==
    /\ tick_pc = "sleep"
    /\ ~stop_requested
    /\ Served
    /\ tick_pc' = "mix"
    /\ local_voice_conn' = IF vc[serving_guild_id] = "none"
                           THEN "null" ELSE "current"
    /\ UNCHANGED <<mixerVars, dppVars, tickerVars, audio, commandVars,
                   historyVars, boundVars>>

\* stepAudioMixer.
TickMix ==
    /\ tick_pc = "mix"
    /\ tick_pc' = "route"
    /\ audio' = MixedChunks
    /\ StepTracks
    /\ UNCHANGED <<dppVars, tickerVars, local_voice_conn, commandVars,
                   historyVars, boundVars>>

Carrying == tick_pc = "route" /\ local_voice_conn # "null" /\ audio # {}

\* is_ready() of the pinned connection; one already torn down may say either.
PinnedReady(ready) ==
    local_voice_conn = "current" => ready = (vc[serving_guild_id] = "ready")

\* send_audio_raw on a ready connection; it reaches the channel if the
\* connection is still the guild's.
TickSend ==
    /\ Carrying
    /\ PinnedReady(TRUE)
    /\ IF local_voice_conn = "current" THEN Heard ELSE Lost
    /\ idle_count' = 0
    /\ init' = FALSE
    /\ TickEnds
    /\ UNCHANGED <<mixerVars, dppVars, shard_id, serving_guild_id,
                   commandVars, discarded, boundVars>>

\* Connected but not ready: the audio just mixed is gone.
TickDrop ==
    /\ Carrying
    /\ PinnedReady(FALSE)
    /\ Lost
    /\ idle_count' = 0
    /\ TickEnds
    /\ UNCHANGED <<mixerVars, dppVars, shard_id, serving_guild_id, init,
                   commandVars, discarded, boundVars>>

\* send_audio_raw throws: unwinding releases client_mutex ...
TickThrows ==
    /\ Carrying
    /\ PinnedReady(TRUE)
    /\ faults < MaxFaults
    /\ faults' = faults + 1
    /\ Lost
    /\ idle_count' = 0
    /\ tick_pc' = "catch"
    /\ local_voice_conn' = "null"
    /\ audio' = {}
    /\ UNCHANGED <<mixerVars, dppVars, shard_id, serving_guild_id, init,
                   commandVars, discarded, conns, outages>>

\* ... and then the catch blocks forget the shard and the guild without it.
TickCatch ==
    /\ tick_pc = "catch"
    /\ shard_id' = -1
    /\ serving_guild_id' = NoGuild
    /\ TickEnds
    /\ UNCHANGED <<mixerVars, dppVars, init, idle_count, commandVars,
                   historyVars, boundVars>>

\* The first tick to find the connection gone after audio was sent.
TickVoiceLost ==
    /\ tick_pc = "route"
    /\ local_voice_conn = "null"
    /\ ~init
    /\ Lost
    /\ init' = TRUE
    /\ idle_count' = 0
    /\ ClearTracks
    /\ discarded' = discarded \cup QueuedIds
    /\ TickEnds
    /\ UNCHANGED <<dppVars, shard_id, serving_guild_id, commandVars,
                   boundVars>>

\* Later ones go on stepping the mixer; idle_count stays as it was.
TickAway ==
    /\ tick_pc = "route"
    /\ local_voice_conn = "null"
    /\ init
    /\ Lost
    /\ TickEnds
    /\ UNCHANGED <<mixerVars, dppVars, tickerVars, commandVars, discarded,
                   boundVars>>

\* Mutant: the ticker counts ticks whether or not audio plays.
MutQuietTick ==
    /\ tick_pc = "route"
    /\ local_voice_conn # "null"

QuietTick ==
    /\ tick_pc = "route"
    /\ local_voice_conn # "null"
    /\ audio = {}

\* idle_count after this tick: reset when it follows audio, then counted up.
NextIdle == (IF init THEN idle_count ELSE 0) + 1

\* Mutant: the tick does not note that the audio has ended.
MutTickQuiet ==
    /\ QuietTick
    /\ NextIdle < MaxIdle
    /\ idle_count' = NextIdle
    /\ TickEnds
    /\ UNCHANGED <<mixerVars, dppVars, shard_id, serving_guild_id, init,
                   commandVars, ledger, discarded, boundVars>>

TickQuiet ==
    /\ QuietTick
    /\ NextIdle < MaxIdle
    /\ idle_count' = NextIdle
    /\ init' = TRUE
    /\ TickEnds
    /\ UNCHANGED <<mixerVars, dppVars, shard_id, serving_guild_id,
                   commandVars, ledger, discarded, boundVars>>

\* Mutant: the disconnect leaves idle_count at its limit.
MutTickIdleDisconnect ==
    /\ QuietTick
    /\ NextIdle >= MaxIdle
    /\ vc' = [vc EXCEPT ![serving_guild_id] = "none"]
    /\ idle_count' = NextIdle
    /\ init' = TRUE
    /\ tick_pc' = "clear"
    /\ local_voice_conn' = "null"
    /\ UNCHANGED <<mixerVars, shard_up, ready_events, shard_id,
                   serving_guild_id, audio, commandVars, ledger, discarded,
                   boundVars>>

\* disconnect_voice closes whatever connection the guild has by now.  On a
\* shard deleted since TickBegin the call is undefined: it may do nothing.
TickIdleDisconnect ==
    /\ QuietTick
    /\ NextIdle >= MaxIdle
    /\ \/ vc' = [vc EXCEPT ![serving_guild_id] = "none"]
       \/ local_voice_conn = "orphaned" /\ UNCHANGED vc
    /\ idle_count' = 0
    /\ init' = TRUE
    /\ tick_pc' = "clear"
    /\ local_voice_conn' = "null"
    /\ UNCHANGED <<mixerVars, shard_up, ready_events, shard_id,
                   serving_guild_id, audio, commandVars, ledger, discarded,
                   boundVars>>

\* clearAllAudio after the disconnect.
TickIdleClear ==
    /\ tick_pc = "clear"
    /\ ClearTracks
    /\ discarded' = discarded \cup QueuedIds
    /\ TickEnds
    /\ UNCHANGED <<dppVars, tickerVars, commandVars, ledger,
                   boundVars>>

-----------------------------------------------------------------------------
Tick ==
    \/ TickStops \/ TickUnserved \/ TickBegin \/ TickMix
    \/ TickSend \/ TickDrop \/ TickThrows \/ TickCatch
    \/ TickVoiceLost \/ TickAway
    \/ TickQuiet \/ TickIdleDisconnect \/ TickIdleClear

Dpp ==
    \/ \E g \in Guilds : \/ ConnectVoice(g) \/ VoiceReady(g)
                         \/ LeaveVoice(g) \/ OnVoiceReady(g)
    \/ ShardDown \/ ShardBack

Command ==
    \/ BeginPlay \/ FetchFails
    \/ \E type \in ClipTypes, size \in Sizes : EndPlay(type, size)
    \/ \E size \in Sizes : TimerPlays(size)
    \/ SkipRead \/ SkipErase \/ SkipNothing
    \/ RequestStop

Next == Tick \/ Dpp \/ Command

Spec == Init /\ [][Next]_vars

\* The pool and the timed scheduler run the ticker again after every tick, and
\* DPP delivers an event it has posted.  Nothing is assumed of the users, of
\* connections, of fetches or of a shard coming back.
FairSpec ==
    /\ Spec
    /\ WF_vars(Tick)
    /\ \A g \in Guilds : WF_vars(OnVoiceReady(g))

-----------------------------------------------------------------------------
\* Safety.

Registered == {song_track[i] : i \in DOMAIN song_track} \cup audio_track

\* Songs wait in the order they were registered and only the front one has
\* begun, whatever skips, clears and ticks come in between
\* (AudioMixer::step, skipCurrentSong, registerAudio).
SongOrder ==
    \A i, j \in DOMAIN song_track :
        i < j => /\ song_track[i].id < song_track[j].id
                 /\ song_track[j].position = 0

\* Every byte of a clip is mixed exactly once: what was heard, lost and is
\* held by the tick adds up to the clip's position while it is queued, and to
\* its size once it has left, unless it was skipped or cleared
\* (AudioMixer::step and the ticker's use of what it returns).
MixedExactlyOnce ==
    \A id \in DOMAIN ledger :
        LET mixed == ledger[id].heard + ledger[id].lost + BytesHeld(id) IN
        /\ \A r \in Registered : r.id = id => mixed = r.position
        /\ id \notin QueuedIds \cup discarded => mixed = ledger[id].size

\* A tick works on the guild it pinned from TickBegin to its end: the guild's
\* id is there to be read by value(), and a connection it holds as the guild's
\* is one the guild has (client_mutex, BotRouter.cpp:472-494).
TickKeepsItsGuild ==
    tick_pc \in {"mix", "route", "clear"} =>
        /\ shard_id = 0
        /\ serving_guild_id \in Guilds
        /\ local_voice_conn = "current" => vc[serving_guild_id] # "none"

\* The idle counter never stands at its limit after a tick, and it is zero
\* whenever audio has been flowing: no path into the disconnect skips the
\* reset (BotRouter.cpp:497-538).
IdleCounterReset ==
    /\ idle_count < MaxIdle
    /\ ~init => idle_count = 0

\* clearAllAudio after an idle disconnect takes no audio that a tick has begun
\* to play, only what was registered while the tick was deciding
\* (BotRouter.cpp:524-537).
IdleClearsNothingBegun ==
    tick_pc = "clear" => \A r \in Registered : r.position = 0

\* What listeners hear is a jukebox: the songs in the order they were
\* registered, one at a time, each byte of a clip once at most, whatever
\* skips, clears, disconnects and failed sends there are between a tick's
\* mixing and its sending.
Music == INSTANCE Jukebox WITH
    clips <- [id \in DOMAIN ledger |-> [type |-> ledger[id].type,
                size |-> ledger[id].size, heard |-> ledger[id].heard]],
    Step <- StepSize

PlaysAsJukebox == Music!Spec

\* /skip works in two mixer calls: the song it removes is the one it read or
\* a later one, never one before it (SkipCommand.h:24-33).
SkipNeverReachesBack ==
    [][skip_seen # 0 /\ skip_seen' = 0 /\ song_track # <<>>
          => Head(song_track).id >= skip_seen]_vars

-----------------------------------------------------------------------------
\* Liveness.

\* While the ticker knows its shard and the shard is there, registered audio
\* leaves the mixer, heard or not: the tracks cannot fill up behind a
\* connection that is gone, slow or not ready (BotRouter.cpp:480-541).
QueuedAudioDrains ==
    \A id \in 1 .. MaxPlays :
        id \in QueuedIds ~> \/ id \notin QueuedIds
                           \/ shard_id = -1 \/ ~shard_up
                           \/ stop_requested

\* A served connection on which nothing plays is closed in the end
\* (BotRouter.cpp:523-539).
QuietConnectionCloses ==
    \A g \in Guilds :
        vc[g] # "none" ~> \/ vc[g] = "none"
                          \/ ~(Served /\ serving_guild_id = g)
                          \/ song_track # <<>> \/ audio_track # {}
                          \/ audio # {}
                          \/ stop_requested

\* BotRouter.cpp:467-470 of an exception in a tick: the loop keeps ticking
\* after a transient voice failure, where escalating would silently kill all
\* audio output.  So audio queued on a connection that outlives the failure
\* still leaves the mixer.
KeepsPlayingAfterFailure ==
    \A g \in Guilds, id \in 1 .. MaxPlays :
        (faults > 0 /\ vc[g] = "ready" /\ id \in QueuedIds)
            ~> (vc[g] # "ready" \/ id \notin QueuedIds \/ stop_requested)

===============================================================================
