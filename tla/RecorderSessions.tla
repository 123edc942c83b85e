--------------------------- MODULE RecorderSessions ---------------------------
(***************************************************************************)
(* /parrot: ToolInterface keeps at most one RecorderSession per user.  The *)
(* voice packets of the user are recorded into it by pool jobs, a loop on  *)
(* the pool streams it back into the mixer every 60 ms, and both can end   *)
(* it: the loop when its time is over, a packet when the loop is late.     *)
(*                                                                         *)
(* recorder_mutex_ guards the map and each session's mutex_ its queue; a   *)
(* step below is what happens under one of them.  The loop may be late by  *)
(* any time, as RecorderSession.cpp:144-146 says it is.                    *)
(***************************************************************************)
EXTENDS Integers, Sequences

CONSTANTS
    Users,          \* the users whose voice is repeated
    NoUser,
    Callbacks,      \* the packets in flight: MAX_VOICE_RECV_INFLIGHT of them
    Duration,       \* of a recording: 5 to 120 s (BotRouter.cpp:683-686)
    EndDelay,       \* the loop goes on for this long after it (1 s)
    TimeoutGrace,   \* a packet this long after it ends the session (5 s)
    StreamDelay,    \* target_delay_ms_ (300 ms)
    ChunkSize,      \* bytes the loop streams at a time (60 ms)
    PacketSizes,    \* bytes of a packet; 0: nothing decoded
    MaxSessions,    \* bound: sessions started
    MaxPackets,     \* bound: packets with data
    MaxTime         \* bound: the clock

ASSUME RecorderAssumption ==
    /\ NoUser \notin Users
    /\ Duration \in Nat \ {0} /\ EndDelay \in Nat
    /\ TimeoutGrace \in Nat /\ StreamDelay \in Nat
    /\ ChunkSize \in Nat \ {0}
    /\ PacketSizes \subseteq Nat /\ 0 \in PacketSizes
    /\ MaxSessions \in Nat /\ MaxPackets \in Nat /\ MaxTime \in Nat

Sessions == 1 .. MaxSessions
NoSession == 0

VARIABLES
    now,
    recorder_sessions,                      \* the session of each user
    \* RecorderSession, and the stage of the loop that streams it
    user_id, start_time, is_shutting_down, audio_queue, headBufferPointer,
    loop,
    callback,                               \* what each packet in flight is at
    packets,                                \* the counter of the bound
    recorded, streamed                      \* history: bytes in and out

sessionVars == <<user_id, start_time, is_shutting_down>>
queueVars == <<audio_queue, headBufferPointer>>
historyVars == <<recorded, streamed>>
vars == <<now, recorder_sessions, sessionVars, queueVars, loop, callback,
          packets, historyVars>>

\* first is the place of the buffer's first byte in all that was recorded.
Buffer == [stamp : Nat, first : Nat, size : Nat]
Packet ==
    [pc : {"idle", "find"}, user : Users \cup {NoUser}, session : {NoSession},
     size : Nat]
        \cup
    [pc : {"decide", "record", "erase", "shutdown"}, user : Users,
     session : Sessions, size : Nat]
Idle == [pc |-> "idle", user |-> NoUser, session |-> NoSession, size |-> 0]

TypeOK ==
    /\ now \in Nat
    /\ recorder_sessions \in [Users -> Sessions \cup {NoSession}]
    /\ user_id \in [Sessions -> Users \cup {NoUser}]
    /\ start_time \in [Sessions -> Nat]
    /\ is_shutting_down \in [Sessions -> BOOLEAN]
    /\ audio_queue \in [Sessions -> Seq(Buffer)]
    /\ headBufferPointer \in [Sessions -> Nat]
    /\ loop \in [Sessions -> {"none", "sleep", "stream", "erase", "shutdown",
                              "done"}]
    /\ callback \in [Callbacks -> Packet]
    /\ packets \in Nat
    /\ recorded \in [Sessions -> Nat]
    /\ streamed \in [Sessions -> Nat]

Init ==
    /\ now = 0
    /\ recorder_sessions = [u \in Users |-> NoSession]
    /\ user_id = [s \in Sessions |-> NoUser]
    /\ start_time = [s \in Sessions |-> 0]
    /\ is_shutting_down = [s \in Sessions |-> FALSE]
    /\ audio_queue = [s \in Sessions |-> <<>>]
    /\ headBufferPointer = [s \in Sessions |-> 0]
    /\ loop = [s \in Sessions |-> "none"]
    /\ callback = [c \in Callbacks |-> Idle]
    /\ packets = 0
    /\ recorded = [s \in Sessions |-> 0]
    /\ streamed = [s \in Sessions |-> 0]

TimePasses ==
    /\ now < MaxTime
    /\ now' = now + 1
    /\ UNCHANGED <<recorder_sessions, sessionVars, queueVars, loop, callback,
                   packets, historyVars>>

-----------------------------------------------------------------------------
\* RecorderSession::shutdown: the queue is dropped with the session.
Shutdown(s) ==
    /\ is_shutting_down' = [is_shutting_down EXCEPT ![s] = TRUE]
    /\ audio_queue' = IF is_shutting_down[s] THEN audio_queue
                      ELSE [audio_queue EXCEPT ![s] = <<>>]
    /\ UNCHANGED <<user_id, start_time, headBufferPointer>>

\* recorder_sessions_.erase(user_id), whichever session the entry names.
EraseEntry(u) ==
    recorder_sessions' = [recorder_sessions EXCEPT ![u] = NoSession]

\* initRecordingService, where the user has no session; otherwise it refuses.
\* Sessions start early enough for the clock to see them end.
StartSession(u, s) ==
    /\ recorder_sessions[u] = NoSession
    /\ loop[s] = "none"
    /\ \A t \in Sessions : t < s => loop[t] # "none"
    /\ now + Duration + TimeoutGrace <= MaxTime
    /\ recorder_sessions' = [recorder_sessions EXCEPT ![u] = s]
    /\ user_id' = [user_id EXCEPT ![s] = u]
    /\ start_time' = [start_time EXCEPT ![s] = now]
    /\ loop' = [loop EXCEPT ![s] = "sleep"]
    /\ UNCHANGED <<now, is_shutting_down, queueVars, callback, packets,
                   historyVars>>

-----------------------------------------------------------------------------
\* The loop of one session.

\* 60 ms later, or much later, streamAudio tests the flag without the lock.
LoopWakes(s) ==
    /\ loop[s] = "sleep"
    /\ loop' = [loop EXCEPT ![s] = "stream"]
    /\ ~is_shutting_down[s]
    /\ UNCHANGED <<now, recorder_sessions, sessionVars, queueVars, callback,
                   packets, historyVars>>

\* now >= end_time
Over(s) == now >= start_time[s] + Duration + EndDelay

LoopGoesOn(s) ==
    loop' = [loop EXCEPT ![s] = IF Over(s) THEN "erase" ELSE "sleep"]

\* A session shut down meanwhile yields nothing; its loop still runs to its end.
LoopFindsShut(s) ==
    /\ loop[s] = "sleep"
    /\ is_shutting_down[s]
    /\ LoopGoesOn(s)
    /\ UNCHANGED <<now, recorder_sessions, sessionVars, queueVars, callback,
                   packets, historyVars>>

\* Mutant: the read position is kept when a buffer has been used up.
MutPour(acc, b) ==
    LET copied == IF b.size - acc.head < acc.need
                  THEN b.size - acc.head ELSE acc.need IN
    IF acc.need = 0 THEN [acc EXCEPT !.rest = Append(@, b)]
    ELSE IF acc.head + copied >= b.size
    THEN [acc EXCEPT !.head = @ + copied, !.need = @ - copied]
    ELSE [rest |-> Append(acc.rest, b), head |-> acc.head + copied, need |-> 0]

\* One turn of the copying loop of streamAudio.
Pour(acc, b) ==
    LET copied == IF b.size - acc.head < acc.need
                  THEN b.size - acc.head ELSE acc.need IN
    IF acc.need = 0 THEN [acc EXCEPT !.rest = Append(@, b)]
    ELSE IF acc.head + copied >= b.size
    THEN [acc EXCEPT !.head = 0, !.need = @ - copied]
    ELSE [rest |-> Append(acc.rest, b), head |-> acc.head + copied, need |-> 0]

\* What the loop holds after each of its turns, from the front of the queue.
Turns(queue, head) ==
    LET turn[n \in 0 .. Len(queue)] ==
          IF n = 0 THEN [rest |-> <<>>, head |-> head, need |-> ChunkSize]
          ELSE Pour(turn[n - 1], queue[n])
    IN turn

Poured(s) == Turns(audio_queue[s], headBufferPointer[s])[Len(audio_queue[s])]

\* Between two buffers, nothing is streamed before the next is old enough.
Streamable(s) ==
    /\ audio_queue[s] # <<>>
    /\ headBufferPointer[s] = 0 =>
           now - Head(audio_queue[s]).stamp >= StreamDelay

TakeChunk(s) ==
    /\ audio_queue' = [audio_queue EXCEPT ![s] = Poured(s).rest]
    /\ headBufferPointer' = [headBufferPointer EXCEPT ![s] = Poured(s).head]

\* streamAudio under the session's lock, and registerAudio of what it returns.
LoopStreams(s) ==
    /\ loop[s] = "stream"
    /\ Streamable(s)
    /\ TakeChunk(s)
    /\ streamed' = [streamed EXCEPT ![s] = @ + ChunkSize - Poured(s).need]
    /\ LoopGoesOn(s)
    /\ UNCHANGED <<now, recorder_sessions, sessionVars, callback, packets,
                   recorded>>

LoopHasNothing(s) ==
    /\ loop[s] = "stream"
    /\ ~Streamable(s)
    /\ LoopGoesOn(s)
    /\ UNCHANGED <<now, recorder_sessions, sessionVars, queueVars, callback,
                   packets, historyVars>>

\* Mutant: an error ends the loop but not the session.
MutLoopFails(s) ==
    /\ loop[s] = "stream"
    /\ Streamable(s)
    /\ TakeChunk(s)
    /\ loop' = [loop EXCEPT ![s] = "done"]
    /\ UNCHANGED <<now, recorder_sessions, sessionVars, callback, packets,
                   historyVars>>

\* The voice changer or the mixer throws: upon_error ends the session.
LoopFails(s) ==
    /\ loop[s] = "stream"
    /\ Streamable(s)
    /\ TakeChunk(s)
    /\ loop' = [loop EXCEPT ![s] = "erase"]
    /\ UNCHANGED <<now, recorder_sessions, sessionVars, callback, packets,
                   historyVars>>

\* The end of the loop: the entry goes first ...
LoopErases(s) ==
    /\ loop[s] = "erase"
    /\ EraseEntry(user_id[s])
    /\ loop' = [loop EXCEPT ![s] = "shutdown"]
    /\ UNCHANGED <<now, sessionVars, queueVars, callback, packets, historyVars>>

\* Mutant: the entry is erased and the session left as it is.
MutLoopShutsDown(s) ==
    /\ loop[s] = "shutdown"
    /\ loop' = [loop EXCEPT ![s] = "done"]
    /\ UNCHANGED <<now, recorder_sessions, sessionVars, queueVars, callback,
                   packets, historyVars>>

\* ... then the session is shut down, which may have happened before.
LoopShutsDown(s) ==
    /\ loop[s] = "shutdown"
    /\ Shutdown(s)
    /\ loop' = [loop EXCEPT ![s] = "done"]
    /\ UNCHANGED <<now, recorder_sessions, callback, packets, historyVars>>

-----------------------------------------------------------------------------
\* recordingVoiceCallback, run on the pool for every packet; packets of one
\* user run at the same time and in any order.

Proceed(c, stage) == callback' = [callback EXCEPT ![c].pc = stage]
Return(c) == callback' = [callback EXCEPT ![c] = Idle]

\* on_voice_receive hands a packet over unless too many are in flight.
VoiceReceive(c, u, size) ==
    /\ callback[c] = Idle
    /\ size > 0 => packets < MaxPackets
    /\ packets' = IF size > 0 THEN packets + 1 ELSE packets
    /\ callback' = [callback EXCEPT ![c] = [pc |-> "find", user |-> u,
                                            session |-> NoSession,
                                            size |-> size]]
    /\ UNCHANGED <<now, recorder_sessions, sessionVars, queueVars, loop,
                   historyVars>>

\* Mutant: the entry that was not found is used all the same.
MutCallbackFinds(c) ==
    /\ callback[c].pc = "find"
    /\ callback' = [callback EXCEPT ![c].pc = "decide",
                        ![c].session = recorder_sessions[callback[c].user]]
    /\ UNCHANGED <<now, recorder_sessions, sessionVars, queueVars, loop,
                   packets, historyVars>>

CallbackFinds(c) ==
    LET s == recorder_sessions[callback[c].user] IN
    /\ callback[c].pc = "find"
    /\ IF s = NoSession THEN Return(c)
       ELSE callback' = [callback EXCEPT ![c].pc = "decide", ![c].session = s]
    /\ UNCHANGED <<now, recorder_sessions, sessionVars, queueVars, loop,
                   packets, historyVars>>

\* isTimeout
TimedOut(s) == now - start_time[s] >= Duration + TimeoutGrace

\* isShuttingDown, isTimeout, and the test at the head of recordAudio.
CallbackDecides(c) ==
    LET s == callback[c].session IN
    /\ callback[c].pc = "decide"
    /\ IF is_shutting_down[s] THEN Return(c)
       ELSE IF TimedOut(s) THEN Proceed(c, "erase")
       ELSE Proceed(c, "record")
    /\ UNCHANGED <<now, recorder_sessions, sessionVars, queueVars, loop,
                   packets, historyVars>>

\* Mutant: only the flag decides what is recorded.
MutAccepts(s, size) == size > 0

\* What recordAudio pushes under the lock.  It does not test the flag again;
\* with a duration of zero it would record without end.
Accepts(s, size) ==
    /\ size > 0
    /\ Duration > 0 => now - start_time[s] < Duration

CallbackRecords(c) ==
    LET s == callback[c].session
        size == callback[c].size IN
    /\ callback[c].pc = "record"
    /\ IF Accepts(s, size)
       THEN /\ audio_queue' = [audio_queue EXCEPT ![s] = Append(@,
                   [stamp |-> now, first |-> recorded[s], size |-> size])]
            /\ recorded' = [recorded EXCEPT ![s] = @ + size]
       ELSE UNCHANGED <<audio_queue, recorded>>
    /\ Return(c)
    /\ UNCHANGED <<now, recorder_sessions, sessionVars, headBufferPointer,
                   loop, packets, streamed>>

\* Mutant: a timeout shuts the session down and leaves its entry.
MutCallbackErases(c) ==
    /\ callback[c].pc = "erase"
    /\ Proceed(c, "shutdown")
    /\ UNCHANGED <<now, recorder_sessions, sessionVars, queueVars, loop,
                   packets, historyVars>>

CallbackErases(c) ==
    /\ callback[c].pc = "erase"
    /\ EraseEntry(callback[c].user)
    /\ Proceed(c, "shutdown")
    /\ UNCHANGED <<now, sessionVars, queueVars, loop, packets, historyVars>>

CallbackShutsDown(c) ==
    /\ callback[c].pc = "shutdown"
    /\ Shutdown(callback[c].session)
    /\ Return(c)
    /\ UNCHANGED <<now, recorder_sessions, loop, packets, historyVars>>

-----------------------------------------------------------------------------
Loop(s) ==
    \/ LoopWakes(s) \/ LoopFindsShut(s) \/ LoopStreams(s) \/ LoopHasNothing(s)
    \/ LoopFails(s) \/ LoopErases(s) \/ LoopShutsDown(s)

Callback(c) ==
    \/ CallbackFinds(c) \/ CallbackDecides(c) \/ CallbackRecords(c)
    \/ CallbackErases(c) \/ CallbackShutsDown(c)

Next ==
    \/ TimePasses
    \/ \E u \in Users, s \in Sessions : StartSession(u, s)
    \/ \E s \in Sessions : Loop(s)
    \/ \E c \in Callbacks, u \in Users, size \in PacketSizes :
           VoiceReceive(c, u, size)
    \/ \E c \in Callbacks : Callback(c)

Spec == Init /\ [][Next]_vars

\* The pool runs the jobs it is given.  Of the loops nothing is assumed here.
FairSpec ==
    /\ Spec
    /\ WF_vars(TimePasses)
    /\ \A c \in Callbacks : WF_vars(Callback(c))

-----------------------------------------------------------------------------
\* Safety.

\* The entry of a user never names a session that is shut down, which would
\* refuse every later /parrot of the user: each end of a session erases before
\* it shuts down, and no later step puts the session back
\* (ToolInterface.cpp:293-316, 343-349).
NoDeadEntry ==
    \A u \in Users : recorder_sessions[u] # NoSession =>
        ~is_shutting_down[recorder_sessions[u]]

\* The next byte to stream is the first one not streamed yet, wherever the
\* chunks cut the packets: none is repeated, skipped or reordered
\* (RecorderSession::streamAudio's headBufferPointer_).
StreamsInOrder ==
    \A s \in Sessions : loop[s] \in {"sleep", "stream"} =>
        /\ audio_queue[s] # <<>> =>
               Head(audio_queue[s]).first + headBufferPointer[s] = streamed[s]
        /\ audio_queue[s] = <<>> /\ ~is_shutting_down[s] =>
               recorded[s] = streamed[s]

\* What keeps a session alive: its entry, its loop, a packet that found it.
Held(s) ==
    \/ \E u \in Users : recorder_sessions[u] = s
    \/ loop[s] # "done"
    \/ \E c \in Callbacks : callback[c].session = s

\* The last reference to a session is dropped only after it was shut down: its
\* destructor calls shutdown() with the lock shutdown() takes
\* (RecorderSession.cpp:46-50, 158-159).
DestroyedOnlyWhenShut ==
    \A s \in Sessions : ~Held(s) => is_shutting_down[s]

\* A session that was shut down streams nothing more, although the loop tests
\* the flag before it takes the lock and a packet that tested it earlier may
\* still record (RecorderSession.cpp:55-58, 83-86).
SilentOnceShut ==
    [][\A s \in Sessions : is_shutting_down[s] => streamed'[s] = streamed[s]]_vars

\* A session whose end has not begun.
Running(s) ==
    /\ loop[s] \in {"sleep", "stream"}
    /\ ~is_shutting_down[s]
    /\ \A c \in Callbacks :
           callback[c].pc = "shutdown" => callback[c].session # s

\* ToolInterface.cpp:262-266, "Recording session already exists for user_id":
\* a user has one session at a time that records and streams.
OneSessionPerUser ==
    \A s, t \in Sessions :
        Running(s) /\ Running(t) /\ user_id[s] = user_id[t] => s = t

-----------------------------------------------------------------------------
\* Liveness.

\* Where the pool runs the loop of a session, it ends the session by itself:
\* no packet has to come (ToolInterface.cpp:274-316).
LoopEndsSession ==
    \A s \in Sessions :
        WF_vars(Loop(s)) => (loop[s] = "sleep" ~> is_shutting_down[s])

\* Where the loop does not run, the packets of the user end the session: its
\* entry does not stay and refuse every later one (RecorderSession.cpp:144-156,
\* ToolInterface.cpp:342-349).
PacketsEndSession ==
    \A u \in Users :
        WF_vars(\E c \in Callbacks : VoiceReceive(c, u, 0)) =>
            \A s \in Sessions :
                recorder_sessions[u] = s ~> recorder_sessions[u] # s

\* Every session ends, by its loop or by its user's packets, whichever is
\* served.
SessionEnds == LoopEndsSession /\ PacketsEndSession

===============================================================================
