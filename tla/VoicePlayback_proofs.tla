------------------------- MODULE VoicePlayback_proofs -------------------------
(***************************************************************************)
(* Proofs about VoicePlayback, for every value of its constants.           *)
(***************************************************************************)
EXTENDS VoicePlayback, TLAPS

(***************************************************************************)
(* The mixer: what one step does to a track.                               *)
(***************************************************************************)

\* A clip that is mixed and not at its end is still a registered clip; its
\* identity and size do not change (AudioMixer.cpp:98-113).
LEMMA AdvanceType ==
    ASSUME NEW r \in RegisteredAudio
    PROVE  /\ ~Finished(Advance(r)) => Advance(r) \in RegisteredAudio
           /\ Advance(r).id = r.id
BY StepSizeAssumption
   DEF RegisteredAudio, Advance, Finished, BytesToProcess

\* step() keeps the songs in place or drops the front one; it changes no song
\* but the front one (AudioMixer.cpp:94-117).
LEMMA AdvanceSongsShape ==
    ASSUME NEW track \in Seq(RegisteredAudio)
    PROVE  /\ AdvanceSongs(track) \in Seq(RegisteredAudio)
           /\ \/ track = <<>> /\ AdvanceSongs(track) = <<>>
              \/ track # <<>> /\ AdvanceSongs(track) = Tail(track)
              \/ /\ track # <<>>
                 /\ Len(AdvanceSongs(track)) = Len(track)
                 /\ AdvanceSongs(track)[1].id = track[1].id
                 /\ \A i \in 2 .. Len(track) :
                        AdvanceSongs(track)[i] = track[i]
<1>1. CASE track = <<>>
  BY <1>1 DEF AdvanceSongs
<1>2. CASE track # <<>>
  <2> DEFINE front == Advance(Head(track))
  <2>1. /\ Head(track) \in RegisteredAudio
        /\ Head(track) = track[1]
        /\ Len(track) \in Nat /\ Len(track) > 0
    BY <1>2
  <2>2. /\ ~Finished(front) => front \in RegisteredAudio
        /\ front.id = track[1].id
    BY <2>1, AdvanceType
  <2>3. CASE Finished(front)
    <3>1. AdvanceSongs(track) = Tail(track)
      BY <1>2, <2>3 DEF AdvanceSongs
    <3>2. QED
      BY <1>2, <3>1
  <2>4. CASE ~Finished(front)
    <3>1. AdvanceSongs(track) = [track EXCEPT ![1] = front]
      BY <1>2, <2>4 DEF AdvanceSongs
    <3> HIDE DEF front
    <3>2. QED
      BY <1>2, <2>1, <2>2, <2>4, <3>1
  <2>5. QED
    BY <2>3, <2>4
<1>3. QED
  BY <1>1, <1>2

LEMMA AdvanceEffectsType ==
    ASSUME NEW track \in SUBSET RegisteredAudio
    PROVE  AdvanceEffects(track) \in SUBSET RegisteredAudio
BY AdvanceType DEF AdvanceEffects

LEMMA MixedChunksType ==
    MixerTypeOK => MixedChunks \in SUBSET [id : Nat \ {0}, bytes : Nat]
<1> SUFFICES ASSUME MixerTypeOK
             PROVE  MixedChunks \in SUBSET [id : Nat \ {0}, bytes : Nat]
  OBVIOUS
<1>1. \A r \in RegisteredAudio : Chunk(r) \in [id : Nat \ {0}, bytes : Nat]
  BY StepSizeAssumption DEF RegisteredAudio, Chunk, BytesToProcess
<1>2. song_track # <<>> => Head(song_track) \in RegisteredAudio
  BY DEF MixerTypeOK
<1>3. QED
  BY <1>1, <1>2 DEF MixedChunks, MixerTypeOK

(***************************************************************************)
(* Type correctness.                                                       *)
(***************************************************************************)

\* The bytes the tick holds of a clip are a natural number.
LEMMA BytesHeldType ==
    ASSUME audio \in SUBSET [id : Nat \ {0}, bytes : Nat], NEW id
    PROVE  BytesHeld(id) \in Nat
<1>1. CASE \E c \in audio : c.id = id
  <2>1. (CHOOSE c \in audio : c.id = id) \in audio
    BY <1>1
  <2>2. QED
    BY <1>1, <2>1 DEF BytesHeld
<1>2. CASE ~ \E c \in audio : c.id = id
  BY <1>2 DEF BytesHeld
<1>3. QED
  BY <1>1, <1>2

LEMMA CreditType ==
    ASSUME NEW l \in LedgerEntry, NEW n \in Nat
    PROVE  /\ [l EXCEPT !.heard = @ + n] \in LedgerEntry
           /\ [l EXCEPT !.lost = @ + n] \in LedgerEntry
<1>1. l.heard + n \in Nat /\ l.lost + n \in Nat
  BY DEF LedgerEntry
<1>2. QED
  BY <1>1 DEF LedgerEntry

\* A sequence rewritten entry by entry.
LEMMA MappedSeq ==
    ASSUME NEW S, NEW s \in Seq(S), NEW f,
           f = [i \in DOMAIN s |-> f[i]], \A i \in DOMAIN s : f[i] \in S
    PROVE  f \in Seq(S) /\ Len(f) = Len(s)
<1>1. DOMAIN s = 1 .. Len(s) /\ Len(s) \in Nat
  OBVIOUS
<1>2. f \in [1 .. Len(s) -> S]
  BY <1>1
<1>3. QED
  BY <1>1, <1>2

\* Crediting the held audio to either side keeps the ledger's type and length.
LEMMA LedgerType ==
    ASSUME TypeOK, Heard \/ Lost
    PROVE  ledger' \in Seq(LedgerEntry) /\ Len(ledger') = Len(ledger)
<1>1. \A id : BytesHeld(id) \in Nat
  BY BytesHeldType DEF TypeOK
<1>2. ledger \in Seq(LedgerEntry)
  BY DEF TypeOK
<1>3. \A id \in DOMAIN ledger : ledger[id] \in LedgerEntry
  BY <1>2
<1>4. /\ ledger' = [id \in DOMAIN ledger |-> ledger'[id]]
      /\ \A id \in DOMAIN ledger : ledger'[id] \in LedgerEntry
  <2>1. CASE Heard
    BY <1>1, <1>3, <2>1, CreditType DEF Heard
  <2>2. CASE Lost
    BY <1>1, <1>3, <2>2, CreditType DEF Lost
  <2>3. QED
    BY <2>1, <2>2
<1>5. QED
  BY <1>2, <1>4, MappedSeq

LEMMA QueuedIdsType == MixerTypeOK => QueuedIds \in SUBSET Nat
BY DEF MixerTypeOK, QueuedIds, RegisteredAudio

LEMMA RegisterType ==
    ASSUME TypeOK, NEW type \in ClipTypes, NEW size \in Sizes,
           Register(type, size)
    PROVE  /\ song_track' \in Seq(RegisteredAudio)
           /\ audio_track' \in SUBSET RegisteredAudio
           /\ ledger' \in Seq(LedgerEntry)
           /\ Len(ledger') = Len(ledger) + 1
<1> DEFINE reg == [id |-> Len(ledger) + 1, size |-> size, position |-> 0]
<1>1. reg \in RegisteredAudio
  BY PlaybackAssumption DEF TypeOK, RegisteredAudio
<1>2. \/ song_track' = Append(song_track, reg) /\ audio_track' = audio_track
      \/ audio_track' = audio_track \cup {reg} /\ song_track' = song_track
  BY DEF Register, RegisterAudio
<1>3. [type |-> type, size |-> size, heard |-> 0, lost |-> 0] \in LedgerEntry
  BY PlaybackAssumption DEF LedgerEntry
<1> HIDE DEF reg
<1>4. song_track \in Seq(RegisteredAudio) /\ audio_track \in SUBSET RegisteredAudio
  BY DEF TypeOK, MixerTypeOK
<1>5. /\ song_track' \in Seq(RegisteredAudio)
      /\ audio_track' \in SUBSET RegisteredAudio
  BY <1>1, <1>2, <1>4
<1>6. ledger' \in Seq(LedgerEntry) /\ Len(ledger') = Len(ledger) + 1
  <2> DEFINE entry == [type |-> type, size |-> size, heard |-> 0, lost |-> 0]
  <2>1. entry \in LedgerEntry /\ ledger' = Append(ledger, entry)
    BY <1>3 DEF Register
  <2>2. ledger \in Seq(LedgerEntry)
    BY DEF TypeOK
  <2> HIDE DEF entry
  <2>3. QED
    BY <2>1, <2>2
<1>7. QED
  BY <1>5, <1>6

LEMMA InitType == Init => TypeOK
<1> SUFFICES ASSUME Init PROVE TypeOK
  OBVIOUS
<1>1. MixerTypeOK
  BY DEF Init, MixerInit, MixerTypeOK
<1>2. ledger \in Seq(LedgerEntry)
  BY DEF Init
<1>3. 0 \in Nat /\ shard_id \in {-1, 0}
  BY DEF Init
<1>4. QED
  BY <1>1, <1>2, <1>3 DEF Init, TypeOK

LEMMA TickType == TypeOK /\ Tick => TypeOK'
<1> SUFFICES ASSUME TypeOK, Tick PROVE TypeOK'
  OBVIOUS
<1> USE DEF TypeOK, MixerTypeOK
<1>0. TickEnds => /\ tick_pc' \in {"sleep", "done"}
                  /\ local_voice_conn' = "null" /\ audio' = {}
  BY DEF TickEnds
<1>1. CASE TickStops
  BY <1>0, <1>1 DEF TickStops, mixerVars, dppVars, tickerVars, commandVars,
     historyVars, boundVars
<1>2. CASE TickUnserved
  BY <1>2 DEF TickUnserved, vars, mixerVars, dppVars, tickerVars, localVars,
     commandVars, historyVars, boundVars
<1>3. CASE TickBegin
  BY <1>3 DEF TickBegin, mixerVars, dppVars, tickerVars, commandVars,
     historyVars, boundVars
<1>4. CASE TickMix
  <2>1. /\ song_track' \in Seq(RegisteredAudio)
        /\ audio_track' \in SUBSET RegisteredAudio
        /\ audio' \in SUBSET [id : Nat \ {0}, bytes : Nat]
    BY <1>4, AdvanceSongsShape, AdvanceEffectsType, MixedChunksType
       DEF TickMix, StepTracks
  <2>2. QED
    BY <1>4, <2>1 DEF TickMix, dppVars, tickerVars, commandVars, historyVars,
       boundVars
<1>5. CASE TickSend
  <2>1. ledger' \in Seq(LedgerEntry)
    BY <1>5, LedgerType DEF TickSend
  <2>2. QED
    BY <1>0, <1>5, <2>1 DEF TickSend, mixerVars, dppVars,
       commandVars, boundVars
<1>6. CASE TickDrop
  <2>1. ledger' \in Seq(LedgerEntry)
    BY <1>6, LedgerType DEF TickDrop
  <2>2. QED
    BY <1>0, <1>6, <2>1 DEF TickDrop, mixerVars, dppVars,
       commandVars, boundVars
<1>7. CASE TickThrows
  <2>1. ledger' \in Seq(LedgerEntry)
    BY <1>7, LedgerType DEF TickThrows
  <2>2. faults' \in Nat /\ idle_count' \in Nat
    BY <1>7 DEF TickThrows
  <2>3. QED
    BY <1>7, <2>1, <2>2 DEF TickThrows, mixerVars, dppVars,
       commandVars, boundVars
<1>8. CASE TickCatch
  BY <1>0, <1>8 DEF TickCatch, mixerVars, dppVars, commandVars, historyVars,
     boundVars
<1>9. CASE TickVoiceLost
  <2>1. ledger' \in Seq(LedgerEntry) /\ discarded' \in SUBSET Nat
    BY <1>9, LedgerType, QueuedIdsType DEF TickVoiceLost
  <2>2. QED
    BY <1>0, <1>9, <2>1 DEF TickVoiceLost, ClearTracks, dppVars,
       commandVars, boundVars
<1>10. CASE TickAway
  <2>1. ledger' \in Seq(LedgerEntry)
    BY <1>10, LedgerType DEF TickAway
  <2>2. QED
    BY <1>0, <1>10, <2>1 DEF TickAway, mixerVars, dppVars, tickerVars,
       commandVars, boundVars
<1>11. CASE TickQuiet
  <2>1. idle_count' \in Nat
    BY <1>11 DEF TickQuiet, NextIdle
  <2>2. QED
    BY <1>0, <1>11, <2>1 DEF TickQuiet, mixerVars, dppVars, commandVars,
       historyVars, boundVars
<1>12. CASE TickIdleDisconnect
  <2>1. idle_count' \in Nat
    BY <1>12 DEF TickIdleDisconnect
  <2>2. vc' \in [Guilds -> {"none", "connecting", "ready"}]
    BY <1>12 DEF TickIdleDisconnect
  <2>3. QED
    BY <1>12, <2>1, <2>2 DEF TickIdleDisconnect, mixerVars, commandVars,
       historyVars, boundVars
<1>13. CASE TickIdleClear
  <2>1. discarded' \in SUBSET Nat
    BY <1>13, QueuedIdsType DEF TickIdleClear
  <2>2. song_track' \in Seq(RegisteredAudio)
        /\ audio_track' \in SUBSET RegisteredAudio
    BY <1>13 DEF TickIdleClear, ClearTracks
  <2>3. QED
    BY <1>0, <1>13, <2>1, <2>2 DEF TickIdleClear, dppVars, tickerVars,
       commandVars, boundVars
<1>14. QED
  BY <1>1, <1>2, <1>3, <1>4, <1>5, <1>6, <1>7, <1>8, <1>9, <1>10, <1>11,
     <1>12, <1>13 DEF Tick

LEMMA DppType == TypeOK /\ Dpp => TypeOK'
<1> SUFFICES ASSUME TypeOK, Dpp PROVE TypeOK'
  OBVIOUS
<1> USE DEF TypeOK, MixerTypeOK
<1>1. ASSUME NEW g \in Guilds, ConnectVoice(g) PROVE TypeOK'
  <2>1. conns' \in Nat
    BY <1>1 DEF ConnectVoice
  <2>2. vc' \in [Guilds -> {"none", "connecting", "ready"}]
    BY <1>1 DEF ConnectVoice
  <2>3. QED
    BY <1>1, <2>1, <2>2 DEF ConnectVoice, mixerVars, tickerVars, localVars,
       commandVars, historyVars
<1>2. ASSUME NEW g \in Guilds, VoiceReady(g) PROVE TypeOK'
  BY <1>2 DEF VoiceReady, mixerVars, tickerVars, localVars, commandVars,
     historyVars, boundVars
<1>3. ASSUME NEW g \in Guilds, LeaveVoice(g) PROVE TypeOK'
  BY <1>3 DEF LeaveVoice, Unpin, mixerVars, tickerVars, commandVars,
     historyVars, boundVars
<1>4. ASSUME NEW g \in Guilds, OnVoiceReady(g) PROVE TypeOK'
  BY <1>4 DEF OnVoiceReady, mixerVars, localVars, commandVars, historyVars,
     boundVars
<1>5. CASE ShardDown
  <2>1. outages' \in Nat
    BY <1>5 DEF ShardDown
  <2>2. QED
    BY <1>5, <2>1 DEF ShardDown, mixerVars, tickerVars, commandVars,
       historyVars
<1>6. CASE ShardBack
  BY <1>6 DEF ShardBack, mixerVars, tickerVars, localVars, commandVars,
     historyVars, boundVars
<1>7. QED
  BY <1>1, <1>2, <1>3, <1>4, <1>5, <1>6 DEF Dpp

LEMMA CommandType == TypeOK /\ Command => TypeOK'
<1> SUFFICES ASSUME TypeOK, Command PROVE TypeOK'
  OBVIOUS
<1> USE DEF TypeOK, MixerTypeOK
<1>1. CASE BeginPlay
  <2>1. fetching' \in Nat
    BY <1>1 DEF BeginPlay
  <2>2. QED
    BY <1>1, <2>1 DEF BeginPlay, mixerVars, dppVars, tickerVars, localVars,
       historyVars, boundVars
<1>2. CASE FetchFails
  <2>1. fetching' \in Nat
    BY <1>2 DEF FetchFails
  <2>2. QED
    BY <1>2, <2>1 DEF FetchFails, mixerVars, dppVars, tickerVars, localVars,
       historyVars, boundVars
<1>3. ASSUME NEW type \in ClipTypes, NEW size \in Sizes, EndPlay(type, size)
      PROVE  TypeOK'
  <2>1. fetching' \in Nat
    BY <1>3 DEF EndPlay
  <2>2. /\ song_track' \in Seq(RegisteredAudio)
        /\ audio_track' \in SUBSET RegisteredAudio
        /\ ledger' \in Seq(LedgerEntry)
    BY <1>3, RegisterType DEF EndPlay
  <2>3. QED
    BY <1>3, <2>1, <2>2 DEF EndPlay, Register, dppVars, tickerVars,
       localVars, boundVars
<1>4. ASSUME NEW size \in Sizes, TimerPlays(size) PROVE TypeOK'
  <2>1. /\ song_track' \in Seq(RegisteredAudio)
        /\ audio_track' \in SUBSET RegisteredAudio
        /\ ledger' \in Seq(LedgerEntry)
    BY <1>4, RegisterType DEF TimerPlays, ClipTypes
  <2>2. QED
    BY <1>4, <2>1 DEF TimerPlays, Register, dppVars, tickerVars, localVars,
       boundVars
<1>5. CASE SkipRead
  <2>1. skip_seen' \in Nat
    BY <1>5 DEF SkipRead, RegisteredAudio
  <2>2. QED
    BY <1>5, <2>1 DEF SkipRead, mixerVars, dppVars, tickerVars, localVars,
       historyVars, boundVars
<1>6. CASE SkipErase
  <2>1. song_track' \in Seq(RegisteredAudio) /\ audio_track' = audio_track
    BY <1>6 DEF SkipErase, SkipCurrentSong
  <2>2. discarded' \in SUBSET Nat
    <3>1. song_track # <<>>
      BY <1>6 DEF SkipErase, SkipCurrentSong
    <3>2. Head(song_track) \in RegisteredAudio
      BY <3>1
    <3>3. QED
      BY <1>6, <3>2 DEF SkipErase, RegisteredAudio
  <2>3. QED
    BY <1>6, <2>1, <2>2 DEF SkipErase, dppVars, tickerVars, localVars,
       boundVars
<1>7. CASE SkipNothing
  BY <1>7 DEF SkipNothing, mixerVars, dppVars, tickerVars, localVars,
     historyVars, boundVars
<1>8. CASE RequestStop
  BY <1>8 DEF RequestStop, mixerVars, dppVars, tickerVars, localVars,
     historyVars, boundVars
<1>9. QED
  BY <1>1, <1>2, <1>3, <1>4, <1>5, <1>6, <1>7, <1>8 DEF Command

\* Every variable keeps its type; in particular no clip stays registered past
\* its end and no idle count or held chunk is ever negative.
THEOREM TypeCorrect == Spec => []TypeOK
<1>1. TypeOK /\ UNCHANGED vars => TypeOK'
  BY DEF TypeOK, MixerTypeOK, vars, mixerVars, dppVars, tickerVars, localVars,
     commandVars, historyVars, boundVars
<1>2. TypeOK /\ [Next]_vars => TypeOK'
  BY <1>1, TickType, DppType, CommandType DEF Next
<1>3. QED
  BY <1>2, InitType, PTL DEF Spec

(***************************************************************************)
(* The tick and its guild.                                                 *)
(***************************************************************************)

\* A tick works from its lock to its end on the guild it pinned: on_voice_ready
\* waits for client_mutex, the catch blocks come after the tick has let go of
\* what it pinned, and a connection closed meanwhile is no longer held as the
\* guild's (BotRouter.cpp:472-494, 545-555).
THEOREM TickGuild == Spec => []TickKeepsItsGuild
<1> USE DEF TickKeepsItsGuild
<1>1. Init => TickKeepsItsGuild
  BY DEF Init
<1>2. TypeOK /\ TickKeepsItsGuild /\ [Next]_vars => TickKeepsItsGuild'
  <2> SUFFICES ASSUME TypeOK, TickKeepsItsGuild, [Next]_vars
               PROVE  TickKeepsItsGuild'
    OBVIOUS
  <2>1. TickEnds => TickKeepsItsGuild'
    BY DEF TickEnds
  <2>2. CASE TickStops \/ TickSend \/ TickDrop \/ TickCatch \/ TickVoiceLost
             \/ TickAway \/ TickQuiet \/ TickIdleClear
    BY <2>1, <2>2 DEF TickStops, TickSend, TickDrop, TickCatch,
       TickVoiceLost, TickAway, TickQuiet, TickIdleClear
  <2>3. CASE TickUnserved \/ UNCHANGED vars
    BY <2>3 DEF TickUnserved, vars, dppVars, tickerVars, localVars
  <2>4. CASE TickBegin
    BY <2>4 DEF TickBegin, Served, TypeOK, dppVars, tickerVars
  <2>5. CASE TickMix
    BY <2>5 DEF TickMix, dppVars, tickerVars
  <2>6. CASE TickThrows
    BY <2>6 DEF TickThrows
  <2>7. CASE TickIdleDisconnect
    BY <2>7 DEF TickIdleDisconnect, QuietTick
  <2>8. ASSUME NEW g \in Guilds, ConnectVoice(g) \/ VoiceReady(g)
        PROVE  TickKeepsItsGuild'
    BY <2>8 DEF ConnectVoice, VoiceReady, TypeOK, tickerVars, localVars
  <2>9. ASSUME NEW g \in Guilds, LeaveVoice(g)
        PROVE  TickKeepsItsGuild'
    BY <2>9 DEF LeaveVoice, Unpin, TypeOK, tickerVars
  <2>10. ASSUME NEW g \in Guilds, OnVoiceReady(g)
         PROVE  TickKeepsItsGuild'
    BY <2>10 DEF OnVoiceReady, ClientMutexFree, localVars
  <2>11. CASE ShardDown
    BY <2>11 DEF ShardDown, tickerVars
  <2>12. CASE ShardBack
    BY <2>12 DEF ShardBack, tickerVars, localVars
  <2>13. CASE Command
    <3>1. UNCHANGED <<dppVars, tickerVars, localVars>>
      BY <2>13 DEF Command, BeginPlay, FetchFails, EndPlay, TimerPlays,
         Register, SkipRead, SkipErase, SkipNothing, RequestStop
    <3>2. QED
      BY <3>1 DEF dppVars, tickerVars, localVars
  <2>14. QED
    BY <2>2, <2>3, <2>4, <2>5, <2>6, <2>7, <2>8, <2>9, <2>10, <2>11, <2>12,
       <2>13 DEF Next, Tick, Dpp
<1>3. QED
  BY <1>1, <1>2, TypeCorrect, PTL DEF Spec

(***************************************************************************)
(* The idle counter.                                                       *)
(***************************************************************************)

\* The counter is below its limit between any two steps, and zero while audio
\* flows: a tick that would reach the limit disconnects and resets it, and
\* every send resets it before init turns false (BotRouter.cpp:497-538).
THEOREM IdleCounter == Spec => []IdleCounterReset
<1> USE PlaybackAssumption DEF IdleCounterReset
<1>1. Init => IdleCounterReset
  BY DEF Init
<1>2. IdleCounterReset /\ [Next]_vars => IdleCounterReset'
  <2> SUFFICES ASSUME IdleCounterReset, [Next]_vars
               PROVE  IdleCounterReset'
    OBVIOUS
  <2>1. CASE TickSend \/ TickDrop \/ TickThrows \/ TickVoiceLost
             \/ TickIdleDisconnect
    <3>1. idle_count' = 0
      BY <2>1 DEF TickSend, TickDrop, TickThrows, TickVoiceLost,
         TickIdleDisconnect
    <3>2. QED
      BY <3>1
  <2>2. CASE TickQuiet
    <3>1. idle_count' < MaxIdle /\ init' = TRUE
      BY <2>2 DEF TickQuiet
    <3>2. QED
      BY <3>1
  <2>3. CASE UNCHANGED <<init, idle_count>>
    BY <2>3
  <2>4. Tick => \/ TickSend \/ TickDrop \/ TickThrows \/ TickVoiceLost
                \/ TickIdleDisconnect \/ TickQuiet
                \/ UNCHANGED <<init, idle_count>>
    BY DEF Tick, TickStops, TickUnserved, TickBegin, TickMix, TickCatch,
       TickAway, TickIdleClear, tickerVars, vars
  <2>5. Dpp => UNCHANGED <<init, idle_count>>
    BY DEF Dpp, ConnectVoice, VoiceReady, LeaveVoice, OnVoiceReady,
       ShardDown, ShardBack, tickerVars
  <2>6. Command => UNCHANGED <<init, idle_count>>
    BY DEF Command, BeginPlay, FetchFails, EndPlay, TimerPlays, Register,
       SkipRead, SkipErase, SkipNothing, RequestStop, tickerVars
  <2>7. UNCHANGED vars => UNCHANGED <<init, idle_count>>
    BY DEF vars, tickerVars
  <2>8. QED
    BY <2>1, <2>2, <2>3, <2>4, <2>5, <2>6, <2>7 DEF Next
<1>3. QED
  BY <1>1, <1>2, PTL DEF Spec

(***************************************************************************)
(* The order of the songs.                                                 *)
(***************************************************************************)

\* SongOrder is not inductive alone: a new song goes behind the others only
\* because its number is larger than any given before.
SongsNumbered ==
    \A i \in DOMAIN song_track : song_track[i].id <= Len(ledger)

SongInv == SongOrder /\ SongsNumbered

LEMMA SongsKept ==
    ASSUME TypeOK, SongInv, song_track' = song_track, Len(ledger') = Len(ledger)
    PROVE  SongInv'
BY DEF SongInv, SongOrder, SongsNumbered

LEMMA SongsStepped ==
    ASSUME TypeOK, SongInv, StepTracks, ledger' = ledger
    PROVE  SongInv'
<1>1. song_track \in Seq(RegisteredAudio) /\ Len(ledger) \in Nat
  BY DEF TypeOK, MixerTypeOK
<1>2. song_track' = AdvanceSongs(song_track)
  BY DEF StepTracks
<1>3. CASE song_track' = <<>>
  BY <1>3 DEF SongInv, SongOrder, SongsNumbered
<1>4. CASE song_track # <<>> /\ song_track' = Tail(song_track)
  BY <1>1, <1>4 DEF SongInv, SongOrder, SongsNumbered
<1>5. CASE /\ song_track # <<>>
           /\ Len(song_track') = Len(song_track)
           /\ song_track'[1].id = song_track[1].id
           /\ \A i \in 2 .. Len(song_track) : song_track'[i] = song_track[i]
  <2>1. song_track' \in Seq(RegisteredAudio)
    BY <1>1, <1>2, AdvanceSongsShape
  <2>2. DOMAIN song_track' = DOMAIN song_track
        /\ DOMAIN song_track = 1 .. Len(song_track)
        /\ Len(song_track) \in Nat
    BY <1>1, <1>5, <2>1
  <2>3. \A i \in DOMAIN song_track : song_track'[i].id = song_track[i].id
    BY <1>5, <2>2
  <2>4. \A i, j \in DOMAIN song_track :
           i < j => song_track'[j] = song_track[j]
    BY <1>5, <2>2
  <2>5. QED
    BY <2>2, <2>3, <2>4 DEF SongInv, SongOrder, SongsNumbered
<1>6. QED
  BY <1>1, <1>2, <1>3, <1>4, <1>5, AdvanceSongsShape

LEMMA SongsRegistered ==
    ASSUME TypeOK, SongInv, NEW type \in ClipTypes, NEW size \in Sizes,
           Register(type, size)
    PROVE  SongInv'
<1> DEFINE reg == [id |-> Len(ledger) + 1, size |-> size, position |-> 0]
<1>1. song_track \in Seq(RegisteredAudio) /\ Len(ledger) \in Nat
  BY DEF TypeOK, MixerTypeOK
<1>2. Len(ledger') = Len(ledger) + 1
  BY RegisterType
<1>3. reg.id = Len(ledger) + 1 /\ reg.position = 0
  OBVIOUS
<1>4. song_track' = Append(song_track, reg) \/ song_track' = song_track
  BY DEF Register, RegisterAudio
<1>5. \A i \in DOMAIN song_track :
         song_track[i].id \in Nat /\ song_track[i].id <= Len(ledger)
  BY <1>1 DEF SongInv, SongsNumbered, RegisteredAudio
<1> HIDE DEF reg
<1>6. CASE song_track' = song_track
  BY <1>1, <1>2, <1>5, <1>6 DEF SongInv, SongOrder, SongsNumbered
<1>7. CASE song_track' = Append(song_track, reg)
  <2>1. /\ DOMAIN song_track' = 1 .. Len(song_track) + 1
        /\ DOMAIN song_track = 1 .. Len(song_track)
        /\ Len(song_track) \in Nat
        /\ \A i \in 1 .. Len(song_track) : song_track'[i] = song_track[i]
        /\ song_track'[Len(song_track) + 1] = reg
    BY <1>1, <1>7
  <2>2. SongOrder'
    BY <1>3, <1>5, <2>1 DEF SongInv, SongOrder
  <2>3. SongsNumbered'
    BY <1>1, <1>2, <1>3, <1>5, <2>1 DEF SongsNumbered
  <2>4. QED
    BY <2>2, <2>3 DEF SongInv
<1>8. QED
  BY <1>4, <1>6, <1>7

LEMMA SongInvHolds == Spec => []SongInv
<1>1. Init => SongInv
  BY DEF Init, MixerInit, SongInv, SongOrder, SongsNumbered
<1>2. TypeOK /\ SongInv /\ [Next]_vars => SongInv'
  <2> SUFFICES ASSUME TypeOK, SongInv, [Next]_vars PROVE SongInv'
    OBVIOUS
  <2>1. CASE TickMix
    BY <2>1, SongsStepped DEF TickMix, historyVars
  <2>2. CASE ClearTracks
    BY <2>2 DEF ClearTracks, SongInv, SongOrder, SongsNumbered
  <2>3. ASSUME NEW type \in ClipTypes, NEW size \in Sizes, Register(type, size)
        PROVE  SongInv'
    BY <2>3, SongsRegistered
  <2>4. CASE SkipErase
    <3>1. song_track \in Seq(RegisteredAudio) /\ song_track # <<>>
      BY <2>4 DEF TypeOK, MixerTypeOK, SkipErase, SkipCurrentSong
    <3>2. song_track' = Tail(song_track) /\ ledger' = ledger
      BY <2>4 DEF SkipErase, SkipCurrentSong
    <3>3. QED
      BY <3>1, <3>2 DEF SongInv, SongOrder, SongsNumbered
  <2>5. CASE UNCHANGED mixerVars /\ (UNCHANGED ledger \/ Heard \/ Lost)
    BY <2>5, SongsKept, LedgerType DEF mixerVars
  <2>6. Tick => \/ TickMix \/ ClearTracks
                \/ UNCHANGED mixerVars /\ (UNCHANGED ledger \/ Heard \/ Lost)
    BY DEF Tick, TickStops, TickUnserved, TickBegin, TickSend, TickDrop,
       TickThrows, TickCatch, TickVoiceLost, TickAway, TickQuiet,
       TickIdleDisconnect, TickIdleClear, historyVars, vars
  <2>7. Dpp => UNCHANGED mixerVars /\ UNCHANGED ledger
    BY DEF Dpp, ConnectVoice, VoiceReady, LeaveVoice, OnVoiceReady,
       ShardDown, ShardBack, historyVars
  <2>8. Command => \/ UNCHANGED mixerVars /\ UNCHANGED ledger
                   \/ SkipErase
                   \/ \E type \in ClipTypes, size \in Sizes :
                          Register(type, size)
    BY DEF Command, BeginPlay, FetchFails, EndPlay, TimerPlays, ClipTypes,
       SkipRead, SkipNothing, RequestStop, historyVars
  <2>9. UNCHANGED vars => UNCHANGED mixerVars /\ UNCHANGED ledger
    BY DEF vars, historyVars
  <2>10. QED
    BY <2>1, <2>2, <2>3, <2>4, <2>5, <2>6, <2>7, <2>8, <2>9 DEF Next
<1>3. QED
  BY <1>1, <1>2, TypeCorrect, PTL DEF Spec

\* However commands, ticks and clears interleave, the songs that wait are in
\* the order they were registered, and only the front one has begun
\* (AudioMixer.cpp:20-27, 61-70, 94-117, 146-151).
THEOREM SongsInOrder == Spec => []SongOrder
<1>1. SongInv => SongOrder
  BY DEF SongInv
<1>2. QED
  BY <1>1, SongInvHolds, PTL

(***************************************************************************)
(* What an idle disconnect clears.                                         *)
(***************************************************************************)

\* The strengthening: from the moment step() has returned nothing, whatever is
\* registered is new.
SilentTick == tick_pc = "clear" \/ (tick_pc = "route" /\ audio = {})
NothingBegun == \A r \in Registered : r.position = 0
SilenceInv == SilentTick => NothingBegun

LEMMA RegisteredNew ==
    ASSUME TypeOK, NothingBegun, NEW type \in ClipTypes, NEW size \in Sizes,
           Register(type, size)
    PROVE  NothingBegun'
<1> DEFINE reg == [id |-> Len(ledger) + 1, size |-> size, position |-> 0]
<1>1. song_track \in Seq(RegisteredAudio)
  BY DEF TypeOK, MixerTypeOK
<1>2. \/ song_track' = Append(song_track, reg) /\ audio_track' = audio_track
      \/ audio_track' = audio_track \cup {reg} /\ song_track' = song_track
  BY DEF Register, RegisterAudio
<1>3. reg.position = 0
  OBVIOUS
<1> HIDE DEF reg
<1>4. Registered' \subseteq Registered \cup {reg}
  <2>1. CASE song_track' = Append(song_track, reg) /\ audio_track' = audio_track
    <3>1. \A i \in DOMAIN song_track' :
             \/ song_track'[i] = reg
             \/ i \in DOMAIN song_track /\ song_track'[i] = song_track[i]
      BY <1>1, <2>1
    <3>2. QED
      BY <2>1, <3>1 DEF Registered
  <2>2. CASE audio_track' = audio_track \cup {reg} /\ song_track' = song_track
    BY <2>2 DEF Registered
  <2>3. QED
    BY <1>2, <2>1, <2>2
<1>5. QED
  BY <1>3, <1>4 DEF NothingBegun

\* The clear that follows an idle disconnect cannot cut audio that had begun:
\* only clips registered since the tick mixed silence are there to be lost
\* (BotRouter.cpp:495, 514, 524-537).
THEOREM IdleClearSpares == Spec => []IdleClearsNothingBegun
<1>1. Init => SilenceInv
  BY DEF Init, SilenceInv, SilentTick
<1>2. TypeOK /\ SilenceInv /\ [Next]_vars => SilenceInv'
  <2> SUFFICES ASSUME TypeOK, SilenceInv, [Next]_vars PROVE SilenceInv'
    OBVIOUS
  <2>1. TickEnds => SilenceInv'
    BY DEF TickEnds, SilenceInv, SilentTick
  <2>2. CASE TickMix
    <3>1. ASSUME audio' = {} PROVE NothingBegun'
      <4>1. song_track = <<>> /\ audio_track = {}
        BY <2>2, <3>1 DEF TickMix, MixedChunks
      <4>2. song_track' = <<>> /\ audio_track' = {}
        BY <2>2, <4>1
           DEF TickMix, StepTracks, AdvanceSongs, AdvanceEffects
      <4>3. QED
        BY <4>2 DEF NothingBegun, Registered
    <3>2. QED
      BY <2>2, <3>1 DEF TickMix, SilenceInv, SilentTick
  <2>3. CASE TickBegin \/ TickThrows
    BY <2>3 DEF TickBegin, TickThrows, SilenceInv, SilentTick
  <2>4. CASE TickIdleDisconnect
    <3>1. NothingBegun
      BY <2>4 DEF TickIdleDisconnect, QuietTick, SilenceInv, SilentTick
    <3>2. UNCHANGED mixerVars
      BY <2>4 DEF TickIdleDisconnect
    <3>3. QED
      BY <3>1, <3>2 DEF SilenceInv, NothingBegun, Registered, mixerVars
  <2>5. CASE UNCHANGED <<mixerVars, tick_pc, audio>>
    BY <2>5 DEF SilenceInv, SilentTick, NothingBegun, Registered, mixerVars
  <2>6. ASSUME NEW type \in ClipTypes, NEW size \in Sizes, Register(type, size)
        PROVE  SilenceInv'
    BY <2>6, RegisteredNew DEF SilenceInv, SilentTick, Register, localVars
  <2>7. CASE SkipErase
    <3>1. \A r \in Registered' : r \in Registered
      <4>1. song_track \in Seq(RegisteredAudio) /\ song_track # <<>>
        BY <2>7 DEF TypeOK, MixerTypeOK, SkipErase, SkipCurrentSong
      <4>2. song_track' = Tail(song_track) /\ audio_track' = audio_track
        BY <2>7 DEF SkipErase, SkipCurrentSong
      <4>3. \A i \in DOMAIN song_track' :
               /\ i + 1 \in DOMAIN song_track
               /\ song_track'[i] = song_track[i + 1]
        BY <4>1, <4>2
      <4>4. QED
        BY <4>2, <4>3 DEF Registered
    <3>2. QED
      BY <2>7, <3>1
         DEF SkipErase, SilenceInv, SilentTick, NothingBegun, localVars
  <2>8. Tick => \/ TickEnds \/ TickMix \/ TickBegin \/ TickThrows
                \/ TickIdleDisconnect \/ UNCHANGED <<mixerVars, tick_pc, audio>>
    BY DEF Tick, TickStops, TickUnserved, TickSend, TickDrop, TickCatch,
       TickVoiceLost, TickAway, TickQuiet, TickIdleClear, vars, localVars
  <2>9. Dpp => UNCHANGED <<mixerVars, tick_pc, audio>>
    BY DEF Dpp, ConnectVoice, VoiceReady, LeaveVoice, OnVoiceReady,
       ShardDown, ShardBack, localVars
  <2>10. Command => \/ UNCHANGED <<mixerVars, tick_pc, audio>>
                    \/ SkipErase
                    \/ \E type \in ClipTypes, size \in Sizes :
                           Register(type, size)
    BY DEF Command, BeginPlay, FetchFails, EndPlay, TimerPlays, ClipTypes,
       SkipRead, SkipNothing, RequestStop, localVars
  <2>11. UNCHANGED vars => UNCHANGED <<mixerVars, tick_pc, audio>>
    BY DEF vars, localVars
  <2>12. QED
    BY <2>1, <2>2, <2>3, <2>4, <2>5, <2>6, <2>7, <2>8, <2>9, <2>10, <2>11
       DEF Next
<1>3. SilenceInv => IdleClearsNothingBegun
  BY DEF SilenceInv, SilentTick, NothingBegun, IdleClearsNothingBegun
<1>4. QED
  BY <1>1, <1>2, <1>3, TypeCorrect, PTL DEF Spec

===============================================================================
