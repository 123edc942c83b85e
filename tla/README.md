# Dash-N-Bark: verification project

Dash-N-Bark is a Discord bot in C++: it joins voice channels, plays songs from
YouTube and Bilibili, keeps a soundpad of clips, plays a clip when a user with
a join effect enters, and repeats users' voices with effects. It is one process
with many threads: DPP's event and voice threads, an `exec` thread pool on which
command coroutines and callbacks run, a timed scheduler, and one ticker that
feeds audio to Discord every 60 ms. Almost all of its difficulty is in what
these threads do to each other's state between two locks.

The TLA+ modules here model that core; TLC checks them on small instances and
TLAPS proves the most important safety properties for all values of the
constants. Run everything from this directory: `tlc -config X.cfg M`, `tlapm
M_proofs.tla`.

## 1. Inventory

| Part | Source | State | Operations | What makes it correct |
|---|---|---|---|---|
| Audio mixer | `Audio-Mixer/src/AudioMixer.cpp` | `song_track_` (FIFO), `audio_track_` | `registerAudio`, `skipCurrentSong`, `step`, `clear` (each under `mutex_`) | every byte mixed once; songs in order; a clip leaves when it ends |
| Background ticker | `BotRouter.cpp:398-563` | `TickerState` (shard, serving guild, `init`, `idle_count`), locals of a tick | one tick; `on_voice_ready` | a tick works on one guild; idle connections close; audio drains; a failure does not stop playback |
| Voice connections | DPP (external), `Commands/CommandBase.h` | a connection per guild and shard | connect, ready, disconnect, shard recycled | used only while pinned |
| Play / skip / leave | `Commands/StreamCommand.h`, `PlaylistCommand.h`, `SkipCommand.h`, `LeaveCommand.h` | none between calls | join, fetch, register; read and skip; disconnect | /skip never reaches back |
| Recorder sessions | `ToolInterface.cpp:257-354`, `Audio-Mixer/src/RecorderSession.cpp` | `recorder_sessions_`; per session a queue, `headBufferPointer_`, `is_shutting_down_` | start, stream loop, packet, timeout, shutdown | one session per user; bytes streamed once and in order; ended in time; destructor safe |
| Join effects | `BotRouter.cpp:160-327`, `JoinEffectManager.cpp` | `last_voice_channel_`, `pending_join_effects_`, the DB table | voice-state update, pool job, RTC event, fallback timer, bind, unbind | acts on entries only; an entry plays once |
| Fetch cache | `Stream-Fetch/src/FetchManager.cpp` | files: raw download, `.pcm`, metadata | `collectAndCache`, `convertM4S2PCM` | a hit is a whole file; a failure leaves no bad file |
| /add session | `Commands/AddCommand.h` | `active_session_` | execute, Preview, Confirm, Cancel, expired click | a session ends once; a late click acts on its own session or none |
| Soundpad store | `Audio-Mixer/src/SoundPadManager.cpp` | SQLite tables, one `.pcm` per clip | save, load, list, count | row and file agree; a page is never behind the last |
| Pickers | `Commands/SoundpadCommand.h`, `JoinEffectCommand.h`, `SearchCommand.h`, the paging of `ToolInterface.cpp:163-189` | a table of sessions by random uid for each command, each with its view (page, tab, clips, volume); buttons with a timestamp | open, turn, jump, tag, volume, play, bind, unbind, select, evict | a late click acts on its own session or none; a picker chooses once; no session comes back |
| Command router | `BotRouter.cpp:575-863` | command table | register, dispatch | - |
| Watchdog | `scripts/watchdog.sh`, the deploy step of `ci.yml`, `BotRouter.cpp:64-81` | heartbeat files, `backoff`, `child_pid`, the pid file | start, monitor, dump, kill, restart, trap | a hung bot is restarted, a healthy one is not; one bot at a time |
| Crash handler | `CrashHandler.cpp` | `g_dump_fd`, `g_dump_acks`, `g_dump_mutex` | SIGSEGV..., SIGUSR1 and SIGUSR2 dump | a dump says which of the threads it asked are missing |
| Voice changer | `VoiceChanger.cpp` | filters | `process` | DSP; not modelled |

How they interact: commands call `ToolInterface`, which owns the mixer, the
fetcher, the store and the recorder sessions; the ticker pulls from the mixer
and pushes to DPP; DPP calls `BotRouter`'s handlers; sessions and join effects
register clips with the mixer. Locks are short and never span a call into DPP
except the ticker's `client_mutex`. Outside the process `watchdog.sh` reads the
heartbeat files that the ticker and a DPP timer write, asks for a thread dump by
a signal, kills and restarts; the deploy step starts and stops `watchdog.sh`.

The hard behaviours are listed one by one, with their line and the property
that covers each (or why none does), under `hazards` in `PROJECT.json`.

## 2. Modules and their correspondence with the code

### AudioMixer, composed into VoicePlayback

`AudioMixer` is the two tracks and the effect on them of each member function.
A clip is `[id, size, position]`; samples, volumes and names are abstracted. The
order of the effect track matters only to rounding, so it is a set. `StepTracks`
is the state change of `step`, `MixedChunks` what it returns.

`VoicePlayback` extends it with TickerState, DPP's connections and the commands.
A tick is cut where other threads can get between:

| `tick_pc` | code | steps |
|---|---|---|
| `sleep` | 441-494: stop test, lock, shard, pin the connection | `TickStops`, `TickUnserved`, `TickBegin` |
| `mix` | 495: `stepAudioMixer` | `TickMix` |
| `route` | 496-541: send, drop, voice lost, idle | `TickSend`, `TickDrop`, `TickThrows`, `TickVoiceLost`, `TickAway`, `TickQuiet`, `TickIdleDisconnect` |
| `clear` | 536-538: `clearAllAudio` | `TickIdleClear` |
| `catch` | 545-555: the catch blocks, lock released | `TickCatch` |

The tick holds `client_mutex` from `TickBegin` on, so `OnVoiceReady` waits;
nothing else does. The pinned `voiceconn` is `current` (the guild's), `stale`
(closed since) or `orphaned` (its shard was deleted since); `is_ready()` of the
last two may return either value. `ledger` is history: of every clip, the bytes
heard and the bytes mixed and lost.

`Jukebox` is what the listeners are promised: clips are asked for, songs are
heard one at a time and in the order of asking, no part of any clip twice, and no
song after a later one has begun. `Music` maps the ledger to it (`heard` of a
clip is what a send succeeded with), so registering is `Ask`, a tick that sends
is `Hear`, and everything else, skips and losses included, is a stutter.

### RecorderSessions

The map, any number of sessions one after the other, the streaming loop of each
(`loop`) and `Callbacks` packets handled at once on the pool. A step is what
happens under one lock; the flag tests before a lock are separate steps
(`LoopWakes`, `CallbackDecides`). `now` is a clock in units of the delays;
a loop may be late by any amount, as `RecorderSession.cpp:144-146` says it is.
`recordAudio` does not test the flag again under the lock, and neither does the
model. What `streamAudio` copies is `Poured`, the end of the recursive function
`Turns`: one turn of its loop, `Pour`, after another. A buffer carries the place
of its first byte in all that was recorded.

### JoinEffects

Discord's side (`UserActs`, `BotMoves`, the event queue), the handler
(`OnVoiceStateUpdate`; the client of the update may be gone, 231-232, after its
channel was recorded, and then nothing is started), the pool job in its stages (`JobLooks`, `JobDrops`,
`JobConnects`, `JobConnectFails`, `ArmJoinEffect`), and the consumers
(`OnVoiceClientPlatform` and its timer, `FallbackTimerFires`). Jobs overtake one
another. An entry of `pending_join_effects_` is the number of its arming; a
fallback timer knows only its user, as in the code, so it may take a newer
entry. `entered`, `replaced`, `heard`, `seen_early` and
`lost` (the updates dropped for want of a client) are history.

### FetchCache

One video, its two file names `raw` and `pcm`, and what each refers to. Fetches
run on threads of their own without a lock, so a name and an open handle are
kept apart as on a Unix file system: a file that was removed or truncated under
a reader or writer is the same file still. A file's content is the set of the
chunks of the audio in it. `pc` of a fetch follows `collectAndCache` and
`convertM4S2PCM`:

| `pc` | code | steps |
|---|---|---|
| `look`, `lookraw` | 284-295: is the `.pcm`, is the raw file there | `LooksForPcm`, `LooksForRaw` |
| `open`, `download` | 297-330, for YouTube 347-374 | `YtDlp`, `OpensRaw`, `OpenFails`, `WritesChunk`, `DownloadEnds`, `DownloadIsCut`, `DownloadTimesOut` |
| `size`, `dropraw` | 331-345; the file is still open at `size` | `ChecksSize`, `DropsRaw` |
| `convert`, `ffmpeg`, `transcode` | 381-398 | `FindsInput`, `FfmpegStarts`, `FfmpegFindsNothing`, `FfmpegWrites`, `FfmpegEnds`, `FfmpegFails` |
| `droppcm`, `exit` | 398-419 | `DropsPcm`, `FindsOutput` |
| `load` | `AudioBuffer.cpp:13-28`, the caller | `Loads`, `LoadFails` |

`overlapped`, `cut` and `served` are history; `cut` marks a download that ended
early where the server had announced no length, which the code cannot notice.
A full disk is such an end too, since neither `write()` nor `close()` is asked.
With a Content-Length a download goes on to `size` (`ToSize`), without one to
`convert`.

### AddSessions

`/add` has one session at a time. A call of it stands for its session, its uid
and the clip it has fetched (a uid drawn twice is not modelled). What happens
under `session_mutex_` is one step; between them are the reply (`Replies`), the
wait for the voice channel (`previews`) and the save (`saves`, one entry per
Confirm, at `open`, `write`, `tags` or `insert` of `saveAudioClip`). A write may
fall short unnoticed (`SaveWrites`, `SoundPadManager.cpp:114-115`); `short`,
history, holds the clips it happened to. `buttons`
holds every button a reply has ever shown, with its timestamp: anyone may click
any of them at any time. `Crash` ends the session and every save, and leaves
files, rows and the replies on the screen.

### Pickers and SessionTable

The three picker commands share a design and no state (but the rows of the
soundpad), so `Init` chooses one of them and the rest follows from `command`.
A user has one handler working for them (`job`): a slash command lists, then
inserts under the mutex (`Open`, with `EvictOldSessions`), then replies; a click
(`Click`) takes a button of what the message shows at that moment and is handled
later (`Turn`, `TurnSearch`, `ChangeVolume`, `ChooseTag`, `OpenModal`,
`SubmitModal`, `PlayClip`, `Bind`, `Unbind`, `SelectVideo`, or `ClickExpired`,
`ClickGone`). What is done after the mutex is released is a step of its own
(`Reply`, `PlayedClip`, `WriteJoinEffect`, `SelectedVideo`). `ListPaged` is the
three queries of one page, with a row of some `/add` between any two of them and
with queries that fail. A tag's name is its number; tags are added in any order,
so names and row ids are ordered independently.

`SessionTable` is what the commands promise of their table: an id is opened
once, there are at most `cap` sessions, an ended one stays ended. `Sessions`
maps `table` to it.

### Watchdog, ThreadDump, composed in Supervision

`Watchdog` is `watchdog.sh`, once per deploy: the shell (`wpc`), its monitor in
the background (`mpc`), its latest bot and that bot's two beating threads. bash
runs a trap between commands, so a SIGTERM is a flag (`term`) that `Shutdown`
finds when a command is over: at once in `wait`, only at the end in `sleep`
(`TrapRuns`). Time is in ticks no shorter than a beat; `Tick` waits for what
takes less than a tick (`Settled`), and ages and naps, not a clock, are kept, so
the states are finitely many over unbounded time. `wpc` is `loop`, `spawned`
(128-140, the bot started and `child_pid` not yet set), `waiting` (146) and
`backoff` (167). `StartBot` is the `rm`, the fork and the exec in one step. A
heartbeat file is an age, which a beat sets to 0 (`WriteHeartbeats`) or, where the
file cannot be written, leaves alone without a word (`BotRouter.cpp:71` and 77);
`unwritten`, history, holds the running threads whose last beat was one of these.
In a tick any running thread may fail to write.

`ThreadDump` is the SIGUSR1 and SIGUSR2 handlers, instruction by instruction
where another thread can see the difference: the dispatcher writes its own
trace, publishes the descriptor, signals, waits, and closes; a thread loads the
descriptor, traces under the mutex, acknowledges. Every thread may stop for
good anywhere, and the broadcast may reach only some of them, or none
(`BroadcastEnds`: `opendir` or a `tgkill` failed); the dispatcher waits for those in
`sent`.

`Supervision` runs the two together: the monitor's SIGUSR1 starts the dump
(`AsksForDump`), which goes on while the bot lives, and dies with it.

## 3. Runs

| Run | Question | Instance |
|---|---|---|
| `playback` | Are clips mixed once and heard as the jukebox promises, is /skip forward only, does a tick keep its guild, does audio drain, do quiet connections close? | 2 guilds, 2 clips of 1.5 steps, 2 connections, 1 fault, 1 shard outage; fair |
| `playback_failure` | Does playback survive a failed send? (no) | 1 guild, 1 fault; fair |
| `recorder` | Map, queue, shutdown and destructor under all interleavings; does the loop alone, and do packets alone, end a session? | 1 user, 2 sessions, 2 packets at once, packets of 2 bytes, chunks of 3; fair |
| `recorder_aba` | Has a user one running session at most? (no) | 3 sessions, no data |
| `join` | Does each entry play once, is each real entry acted upon unless its own update is lost, is nobody seen barged in on? | 1 user, 2 channels, 3 updates, 2 entries, 1 move of the bot; timers fair |
| `join_barge` | Does only an entry trigger? (no) | as `join` |
| `fetch` | Is what is served whole, is no bad file left, does every fetch end? | 2 fetches at once, 3 in all, both platforms, audio of 2 chunks, 1 crash; fair |
| `add` | Does a session end once, has every row its clip, as much of it as the disk took? | 2 calls, 2 names, 1 tag, expiry 1, time to 3, 1 crash; symmetric |
| `add_expire` | Does an expired session let the next one in? (no) | 2 calls, 1 name |
| `pickers` | Do pages stay in range, does a picker choose once, is a session touched by its own clicks only, and are the tables session tables? | each command; 2 users, 3 rows, 2 tags, 2 clicks, one session more than fits, time to 2; symmetric |
| `supervision` | Is only a sick bot dumped and killed (one that did not come up, hangs or cannot write its beats), is it always, does it come back, is it never there twice, does a dump say which signalled threads it lacks? | 2 runs of watchdog.sh (1 deploy), 2 threads; unbounded time; fair |
| `watchdog_deploy` | Can a deploy stop every older watchdog? (no) | 3 runs of watchdog.sh (2 deploys), pauses up to 4 |

**Bounds.** Every counter of a bound is a variable tested in a guard
(`MaxPlays`, `MaxConns`, `MaxFaults`, `MaxOutages`, `MaxSessions`, `MaxPackets`,
`MaxTime`, `MaxEvents`, `MaxArms`, `MaxMoves`, `MaxFetches`, `MaxCrashes`,
`MaxUids`, `MaxClicks`, `MaxSounds`, `NTags`, `MaxWatchdogs`), named in the cfg. They are
enough for the cases that matter: a clip of 3 bytes with steps of 2 begins,
continues and ends inside a step; two connections are a leave and a rejoin; two
sessions are an end that races a new start; packets of 2 bytes with chunks of 3
are cut in every way; three updates are an entry, a leave or mute, and a
re-entry; two entries make one replace the other or outlive its timer. Two chunks make a
file empty, partial or whole, and a third fetch finds what two overlapping ones
left; two calls of /add may choose one name, and time 3 is enough for the
buttons of a first and of a later reply to expire one after the other. With
`MaxIdle = 2` the idle counter goes through reset, below the limit and at it.
Two clips of which the second is a short one are a song that ends inside a step
and a song or an effect that goes on. The callbacks of `recorder` are a finite
set because `BotRouter.cpp:368-386` handles at most 32 packets at once and drops
the others. In `pickers` two pages of two rows and one more row are a page that
appears while a picker is open, two clicks are two choices on one picker, or a
jump and what overtakes it, and one session more than fits makes every table
evict. In `supervision` all times are one or two ticks, so a hang may fall
before, in and after the grace period, and a deploy in every state of the
script; `watchdog_deploy` keeps the order of the real times (a pause of the
script may outlast the deploy's sleep, a short one does not).
`CHECK_DEADLOCK FALSE` stands where the program may stop (a stop request) or
where a bound ends the behaviour.

**Fairness.** `VoicePlayback`: the ticker is rescheduled by `repeat_until` after
every tick, and DPP delivers `voice_ready`; nothing is assumed of users, fetches
or a shard coming back. `RecorderSessions`: the clock and the callbacks of
accepted packets; the loop's fairness is a premise of `LoopEndsSession` only,
and that packets keep coming is a premise of `PacketsEndSession` only, because
the code's own comment says the loop may not run. `JoinEffects`: timers that
were started fire. `FetchCache`: the steps of the program itself and its
timeouts (`Proceeds`: the download's deadline, the timeouts of yt-dlp and of
ffmpeg); nothing is assumed of the network or of ffmpeg making progress.
`AddSessions` and `Pickers` have no liveness property: no click ever has to
come. `Supervision`: the shells and monitors, which are processes of their own,
the clock, and a deploy that has begun; nothing is assumed of the bot, of its
threads or of the signal handlers, and no thread has to hang or recover.

### What the violated runs show

* `playback_failure` - the catch blocks (`BotRouter.cpp:545-555`) forget the
  shard and the guild; only a new `voice_ready` sets them, and a connection that
  survives the exception posts none. The comment at 467-470 promises the loop
  keeps serving.
* `recorder_aba` - erasing by user id removes the entry of a newer session. It is
  the only way to a second one: where nobody erases an entry that is not its own
  there is none (the theorem `OneSessionWhereEndsAreOwn`).
* `join_barge` - a first update after the suppression is taken for an entry. It
  takes a user who was in voice when the bot started (`OutsidersTriggerByEntry`).
* `watchdog_deploy` - the trap removes `logs/watchdog.pid` whoever wrote it
  (`watchdog.sh:123`). A watchdog that is told to stop in a pause of 32 s or more
  runs its trap after the deploy (20 s) has started the next one; the next deploy
  then finds no pid file and leaves that watchdog running beside its own. Deploys
  that come in no such pause are in order, any number of them
  (`OneBotOverDeploys`).
* `add_expire` - `execute` never looks at the age of the session that is there;
  only a click on an expired button resets it, so the /add that was told to wait
  waits for ever.

Also noticed, not properties:

* Two Bilibili fetches of one video: the second takes the raw file the first is
  still downloading for a hit and converts what there is of it; the short `.pcm`
  is served from then on. `PartialIsTemporary` is therefore stated for YouTube,
  where yt-dlp renames a whole file into place.
* A crash during a conversion or a download leaves a partial file that every
  later fetch takes for whole.
* `FetchManager.cpp:390-404` speaks of 60 s where the command says `timeout 20s`.
* /add with a name that is taken overwrites that clip's file before the INSERT
  fails (`SoundPadManager.cpp:108-136`); the old row then plays the new clip.
* An old fallback timer consumes a newer entry: it knows its user and no more
  (`BotRouter.cpp:314`), so a quick re-entry may play before its own delay.
* A user who leaves before the fallback fires still triggers the effect
  (`BotRouter.cpp:225`), and two jobs that both find no connection both connect
  (257): the bot moves between two users' channels.
* `/soundpad`'s answer to a played clip is built before the channel is joined, up
  to 3 s (`SoundpadCommand.h:366-387`): it puts the page of that time back over
  one that was turned since. The session is right; the next click repairs it.
* A jump modal that is kept open for longer than 180 s ends its session even if
  others have clicked in between (`SoundpadCommand.h:461`): the age is the
  modal's, not the session's.
* `crash_handler` is not async-signal-safe where `CrashHandler.cpp:12-14` speaks
  of it: a trace takes memory and `g_dump_mutex`, and a thread that crashes while
  it holds either hangs instead of ending. If it is a beating thread the watchdog
  ends the bot; if it is another, nobody notices.
* A thread that answers SIGUSR2 after the two seconds writes to a descriptor that
  was closed, and may have been opened again for something else; its
  acknowledgement counts for a dump that follows (`CrashHandler.cpp:115-126`).
  In a dump that the watchdog asked for SIGTERM comes first in practice.
* An update whose shard has no client at the moment is dropped after its channel
  was recorded (`BotRouter.cpp:231`): the user's entry is never played, and no
  later update of that stay makes up for it. `EntriesActedUpon` excepts it.
* `saveAudioClip` asks neither `write()` nor `close()`
  (`SoundPadManager.cpp:114-115`): where the disk is full the row comes and the save
  is reported as done, with a part of the clip in its file. `RowHasItsClip` says what
  is left: nothing else is in the file, and no other row is touched.
* A dump whose broadcast fails, or misses a thread, has no line that says so
  (`CrashHandler.cpp:133` and 140): the tail counts those that were signalled. The
  comment at 165-166 expects it; `DumpTellsAll` is stated for the others.
* A bot that runs well but cannot write its heartbeat files is dumped and killed, as
  the comment at `BotRouter.cpp:61-63` intends, and again after each restart.
  `DumpsOnlySick` counts it as sick. That the watchdog's own `rm -f` of the files may
  fail on such a file system is left out: an old file then only delays the kill.
* `idle_count` survives the end of a connection (`BotRouter.cpp:524`), so the
  next one may be closed early.

Delays: `BotRouter.cpp:169` says "200ms later", the log
at 184 says 800 ms, `JOIN_EFFECT_PLATFORM_DELAY` is 1800 ms; delays are outside
`JoinEffects`.

## 4. Proofs

All for any constants that satisfy the modules' named assumptions, but for the
two theorems of `Supervision_proofs` that assume one deploy. Five theorems have a
premise on the behaviour, which is what the code fails to ensure; each shows that
nothing else is missing:

| Theorem | Premise | When the code breaks it |
|---|---|---|
| `OneSessionWhereEndsAreOwn` | nobody erases another session's entry (`ErasesItsOwn`) | run `recorder_aba` |
| `OutsidersTriggerByEntry` | the user is in no channel at the start | run `join_barge` |
| `OneBotOverDeploys`, `OnlySickOverDeploys` | no deploy in a pause longer than its sleep (`ShortPauses`) | run `watchdog_deploy` |
| `OnlyWritersCrashBadly` | no crash while a file is half written (`SparesWriters`) | a crash in a download, in ffmpeg or before a cleanup |

**VoicePlayback_proofs.** `TypeCorrect` first. `TickGuild`: the tick's states
imply the shard, the guild and the pinned connection; inductive because
`OnVoiceReady` needs `client_mutex` and `TickCatch` is outside it. `IdleCounter`:
every step that changes `init` or `idle_count` either zeroes the counter or is a
quiet tick below the limit. `SongsInOrder` (`SongInv`): a new song goes behind
the others because no number in the track is above `Len(ledger)`
(`SongsNumbered`). `IdleClearSpares` (`SilenceInv`): from the moment `step()`
has returned nothing until the clear, whatever is registered has not begun.

**Jukebox_proofs.** `MixInv` relates the ledger to the tracks: what was mixed of
a queued clip (heard, lost, or in the tick's hands) is its position
(`Accounted`), a clip that left by itself was mixed to its end (`GoneWhole`),
and nothing of a song was mixed while an earlier one waits, plays or is in the
tick's hands (`SongsTakeTurns`, where the order of the song track enters).
`EveryByteMixedOnce` follows at once. `ListenersHearAJukebox` is the refinement:
a send is `Hear`, registering is `Ask`, everything else, a failed send and
/skip included, is a stutter. `SkipsForward` from `SkipInv`: no song that waits,
and none to come, has a smaller number than the one a /skip has read.

**RecorderSessions_proofs.** `Inv` says of every session who refers to it:
the entry of a user names a session of that user whose loop is at `sleep`,
`stream` or `erase` and which no packet is about to shut down (`EntryAlive`), a
packet works for the user of the session it found (`CallbackOwn`), and a session
not started is not shut down while one that is done is (`SessionStage`). From it
`EntriesAlive` and `DestructorSafe`. `SilenceKept` adds that a session that was
shut down while its loop still runs has an empty queue and is timed out
(`Quiet`), and that a packet about to end one has found it timed out
(`TooLate`): nothing can be recorded into it any more, which is where
`Accepts`' test of the duration is needed.
`StreamedInOrder` from `StreamInv`: the queue of a session holds, without a gap,
the bytes from the last one streamed to the last one recorded, less what
`headBufferPointer_` has consumed of its head (`Backlog`), until the session is
shut down (`InStep`). What `streamAudio` copies out of a queue of any
length is an induction over the turns of its loop (`Unbroken` to `AfterTurns`):
the function `Turns` is shown to equal its definition (`TurnsDefined`), and the
induction is done by the least turn at which the claim would fail (`LeastNat`,
from the library's fact that `<` on Nat is well-founded), since the induction
theorems take an operator and cannot be used. `NothingIsLost` states the sum:
what was recorded is streamed or still queued. `TypeCorrect` needs all of it.
`OneSessionWhereEndsAreOwn` from `NamedInv`: every session whose end has not begun
is the one its user's entry names, as long as no step removes an entry that names another
session.

**JoinEffects_proofs.** `PlaysAtMostOnce` from `EntryInv`: an entry in
`pending_join_effects_` or in the hands of an RTC timer is `Fresh` (armed, not
replaced, not heard), pending entries are their own user's, and no entry is in
both places. `ArmKeeps`, `RTCKeeps`, `PlatformTimerKeeps` and `FallbackKeeps`
are the four actions that move entries. The bot's knowledge of the users is
`BargeInv`: of the updates that wait, each tells of an entry just when its
channel is not that of the update before it, or, for the first, not the one in
`last_voice_channel_` (`UpdatesTrue`). From it `NoBargeIn` and `EntriesHandled`
(`UpdateHandled`: an update, with a client or without):
the comparison of 211-226 sees an entry as one, and nothing else as one once the
user is known.
`OutsidersTriggerByEntry` from `OutsideTrue`: for a user who was in no channel
the bot's ignorance is no error, so the chain of updates is right from the first.
`EntriesStayOnTheWay` is the safety half of `ArmedIsPlayed`: every entry that was
armed is still pending with its own fallback timer to come, or in an RTC timer,
or heard, or replaced (`NobodyStranded`); that timers fire is all the liveness
property adds. An entry that an old timer consumes is heard by that.

**FetchCache_proofs.** `PartialPcmIsTemporary` from `YouTubeInv`: the raw file
and every input of ffmpeg are whole (`SourcesWhole`), nothing ffmpeg writes is a
source (`OutputsApart`), and a `.pcm` is whole, about to be removed, or written
by a fetch that has put all its chunks so far into it (`PcmOnItsWay`): without
`OutputsApart` a conversion could truncate the input of another.
`CacheIsClean` and `WholeIsServed` from `AloneInv`: as long as no two fetches
have overlapped and nothing has crashed, the one that runs is alone and the
files are as its place says (`FilesAt`, prefixes of the audio while it
downloads or converts). `SizeOfPrefix` turns the size the code compares into the
chunks. `OnlyWritersCrashBadly` from the same `OneFetch`, kept across crashes: in
the places that `SparesWriters` leaves, both files are whole or absent.

**AddSessions_proofs.** `TypeCorrect` carries `Asked` (a session or a save was
asked for with a name and tags). `EverySessionEndsOnce`: `OneEnd` with
`NotAskedYet`, that nothing is there of a session nobody has asked for.
`RowsHaveTheirClips`: `FilesFollow` (the file of a save that has its name to
itself is empty at `write`, and at `tags` and `insert` holds its clip, or what the
disk took of it) and
`RowsAreSaved` (a row is of a save that is over). `AddKeepsASession` is the
refinement of `SessionTable` with room for one session: what was asked for, not
refused and is not there is gone, and a refused call is none (`RefusedInv`).

**Pickers_proofs.** `TypeInv` strengthens `TypeOK` with what a job may carry at
each stage (`GoodJob`) and a session may show (`GoodView`). `TableInv`: a table
never holds more than `Cap` sessions, because `EvictOldSessions` leaves at most
`Cap - 1` of them before the new one is inserted. `SessionsAreKept` is the
refinement: `Open` maps to `Open` of `SessionTable`, whatever ends sessions to
`Close`, everything else to a stutter (`StepsOfSessions`): a handler that is
late finds that its session is gone and opens nothing. `EveryPickerChoosesOnce`
from `ChoiceInv`: a session that has chosen is in no table, and of the jobs that
wait to write there is one per session. `TouchedByItsOwn` from three lemmas:
what `Open` evicts was too old or the oldest, only a handler touches a session
otherwise, and no handler touches another's. `PagesAreThere` from `PageInv`: the
page a session shows, or a job is about to open one with, begins before the end of
its list, and so does the last page it can go to (`Backed`, `JobGood`). Rows and
tags are only ever added, so a page that was once there stays; that the page a handler computes is there (`PageNotEmpty`, `LastPage`)
rests on counting the rows of a list by their ranks (`RankTaken`, `PagesInOrder`).

**Supervision_proofs.** `DumpsTellAll` from `DumpInv`: while the descriptor is
published, every acknowledgement is of a thread whose trace is in the file
(`Counting`), and only threads that were signalled return, so that as many
acknowledgements as signals are the traces of all of them (`AllTraced`). It
holds for any number of deploys, as `TypeCorrect` does. `OneBotPerDeploy` and
`OnlySickAreDumped` assume `MaxWatchdogs <= 2`, one deploy: `Succession` says
that the first watchdog has been told to stop, and is then without a bot, before
the second is there, and `BeatsFresh` that the file of a thread that runs, and
could write it, is fresh (`AfterBeats`). The assumption is needed: a second deploy may meet a `watchdog.pid` that
the first watchdog has removed (the run `watchdog_deploy`), the watchdog it does
not stop starts its bot again, and `OneBot` is violated in that run's instance.
`OneBotOverDeploys` and `OnlySickOverDeploys` are for any number of deploys, under
`ShortPauses`: a deploy's `pkill` finds no watchdog in a pause that outlasts the
deploy's sleep. Then `OrderInv` is inductive: one watchdog at a time, named by the
pid file until it is signalled (`Orderly`), and a signalled one is out of its pause
before the deploy wakes (`PausesEnd`). With the intervals of the scripts the pauses
are 2, 4, 8 and 16 s after the first four failures in a row, and the deploy sleeps
20 s; only from the fifth on (32 to 300 s) is the premise an assumption.
`BotsAreWatched` needs no premise: a bot that runs has a monitor or is about to get
one, and no watchdog leaves that was not told to. The one exception it states is a
watchdog told to stop between starting its bot and keeping its pid
(`watchdog.sh:138-139`), whose bot is left to the deploy's `pkill`. It is what
`SickBotEnds` and `DeadBotRestarts` need besides fairness. `TracesAreInTurn`: the
mutex of the dump is held by the thread that writes, and by no other.

**Only model-checked.** Liveness: `QueuedAudioDrains`, `QuietConnectionCloses`,
`SessionEnds`, `ArmedIsPlayed`, `FetchEnds`, `SickBotEnds` and `DeadBotRestarts`
rest on weak fairness, and so on ENABLED, which the prover does not reason about;
the safety halves of `ArmedIsPlayed` and of the last two are theorems. Every
invariant and every action property of the passing runs is a theorem.

## 5. Not modelled

Real time in the ticker (the pacing of 501-510), volumes and samples, names and
wording, the dump file of a recording, HTTP and JSON, the voice changer, the
command router (a dispatch by name, without state after start-up), the creation
of the SQLite tables, the wait of the destructor for the pool, tracing and the
build. Of the crash handler only the thread dump: its report on a fatal signal is
one way the bot exits. The watchdog looks at two threads; the others may hang
unnoticed, and have no state here. DPP is modelled only by what `src/` relies on.

## 6. Plan

1. (done) `AudioMixer`, `VoicePlayback`, `RecorderSessions`, `JoinEffects`,
   `FetchCache`, `AddSessions`, with the proofs of section 4.
2. (done) `Pickers`, `Watchdog`, `ThreadDump` and `Supervision`; the abstract
   `Jukebox` and `SessionTable`, and the refinements that reach them.
3. (done) The proofs of section 4: every invariant and action property of the
   passing runs, the refinements of `Jukebox` (by the mixer) and `SessionTable` (by
   the pickers and by /add), and the theorems that confine what the violated runs
   find to its cause.
4. To come: the same for `playback_failure` and `add_expire`, and an abstract cache
   that `FetchCache` implements while fetches do not overlap.
