------------------------ MODULE RecorderSessions_proofs ------------------------
(***************************************************************************)
(* Proofs about RecorderSessions for any users, durations and delays, any  *)
(* number of packets in flight and of sessions.                            *)
(***************************************************************************)
EXTENDS RecorderSessions, WellFoundedInduction, TLAPS

\* Who refers to a session, and as what.
Shape ==
    /\ recorder_sessions \in [Users -> Sessions \cup {NoSession}]
    /\ is_shutting_down \in [Sessions -> BOOLEAN]
    /\ user_id \in [Sessions -> Users \cup {NoUser}]
    /\ loop \in [Sessions -> {"none", "sleep", "stream", "erase", "shutdown",
                              "done"}]
    /\ callback \in [Callbacks ->
           [pc : {"idle", "find", "decide", "record", "erase", "shutdown"},
            user : Users \cup {NoUser},
            session : Sessions \cup {NoSession},
            size : Nat]]

\* The entry of u names a session of u of which nobody has begun to shut down.
EntryAlive(u) ==
    LET s == recorder_sessions[u] IN
    s # NoSession =>
        /\ user_id[s] = u
        /\ loop[s] \in {"sleep", "stream", "erase"}
        /\ ~is_shutting_down[s]
        /\ \A c \in Callbacks :
               callback[c].session = s => callback[c].pc # "shutdown"

\* A packet works for the user of the session it found.
CallbackOwn(c) ==
    /\ callback[c].pc # "idle" => callback[c].user \in Users
    /\ callback[c].pc \in {"decide", "record", "erase", "shutdown"} =>
           callback[c].session \in Sessions
    /\ callback[c].session \in Sessions =>
           /\ loop[callback[c].session] # "none"
           /\ user_id[callback[c].session] = callback[c].user

SessionStage(s) ==
    /\ loop[s] = "none" => ~is_shutting_down[s]
    /\ loop[s] = "done" => is_shutting_down[s]
    /\ loop[s] # "none" => user_id[s] \in Users

Inv ==
    /\ Shape
    /\ \A u \in Users : EntryAlive(u)
    /\ \A c \in Callbacks : CallbackOwn(c)
    /\ \A s \in Sessions : SessionStage(s)

LEMMA NoSessionIsNone == NoSession \notin Sessions
  BY DEF NoSession, Sessions

LEMMA InvInit == Init => Inv
<1> SUFFICES ASSUME Init PROVE Inv
  OBVIOUS
<1>1. Shape
  BY DEF Init, Shape, Idle
<1>2. \A u \in Users : EntryAlive(u)
  BY DEF Init, EntryAlive
<1>3. \A c \in Callbacks : CallbackOwn(c)
  BY DEF Init, CallbackOwn, Idle, Sessions, NoSession
<1>4. \A s \in Sessions : SessionStage(s)
  BY DEF Init, SessionStage
<1> QED
  BY <1>1, <1>2, <1>3, <1>4 DEF Inv

\* A session that starts is new: no entry, packet or loop refers to it.
LEMMA StartKeeps ==
    ASSUME Inv, NEW u \in Users, NEW s \in Sessions, StartSession(u, s)
    PROVE  Inv'
<1> USE DEF StartSession
<1>1. Shape'
  BY DEF Inv, Shape, queueVars, historyVars
<1>2. ASSUME NEW v \in Users PROVE EntryAlive(v)'
  BY DEF Inv, Shape, EntryAlive, CallbackOwn, SessionStage, NoSession, Sessions
<1>3. ASSUME NEW c \in Callbacks PROVE CallbackOwn(c)'
  BY DEF Inv, Shape, CallbackOwn
<1>4. ASSUME NEW t \in Sessions PROVE SessionStage(t)'
  BY DEF Inv, Shape, SessionStage
<1> QED
  BY <1>1, <1>2, <1>3, <1>4 DEF Inv

\* The loop moves on without touching entries, packets or the flag.
LEMMA LoopMoves ==
    ASSUME Inv, NEW s \in Sessions,
           NEW next \in {"sleep", "stream", "erase"},
           loop[s] \in {"sleep", "stream"},
           loop' = [loop EXCEPT ![s] = next],
           UNCHANGED <<recorder_sessions, sessionVars, callback>>
    PROVE  Inv'
<1> USE DEF sessionVars
<1>1. Shape'
  BY DEF Inv, Shape
<1>2. ASSUME NEW v \in Users PROVE EntryAlive(v)'
  BY DEF Inv, Shape, EntryAlive
<1>3. ASSUME NEW c \in Callbacks PROVE CallbackOwn(c)'
  BY DEF Inv, Shape, CallbackOwn
<1>4. ASSUME NEW t \in Sessions PROVE SessionStage(t)'
  BY DEF Inv, Shape, SessionStage
<1> QED
  BY <1>1, <1>2, <1>3, <1>4 DEF Inv

LEMMA LoopKeeps ==
    ASSUME Inv, NEW s \in Sessions, Loop(s)
    PROVE  Inv'
<1>1. CASE LoopWakes(s)
  BY <1>1, LoopMoves DEF LoopWakes
<1>2. CASE LoopFindsShut(s)
  BY <1>2, LoopMoves DEF LoopFindsShut, LoopGoesOn
<1>3. CASE LoopStreams(s)
  BY <1>3, LoopMoves DEF LoopStreams, LoopGoesOn
<1>4. CASE LoopHasNothing(s)
  BY <1>4, LoopMoves DEF LoopHasNothing, LoopGoesOn
<1>5. CASE LoopFails(s)
  BY <1>5, LoopMoves DEF LoopFails
<1>6. CASE LoopErases(s)
  <2> USE <1>6 DEF LoopErases, EraseEntry, sessionVars
  <2>1. Shape'
    BY DEF Inv, Shape
  <2>2. ASSUME NEW v \in Users PROVE EntryAlive(v)'
    BY DEF Inv, Shape, EntryAlive, SessionStage
  <2>3. ASSUME NEW c \in Callbacks PROVE CallbackOwn(c)'
    BY DEF Inv, Shape, CallbackOwn
  <2>4. ASSUME NEW t \in Sessions PROVE SessionStage(t)'
    BY DEF Inv, Shape, SessionStage
  <2> QED
    BY <2>1, <2>2, <2>3, <2>4 DEF Inv
<1>7. CASE LoopShutsDown(s)
  <2> USE <1>7 DEF LoopShutsDown, Shutdown
  <2>1. Shape'
    BY DEF Inv, Shape
  <2>2. ASSUME NEW v \in Users PROVE EntryAlive(v)'
    BY DEF Inv, Shape, EntryAlive
  <2>3. ASSUME NEW c \in Callbacks PROVE CallbackOwn(c)'
    BY DEF Inv, Shape, CallbackOwn
  <2>4. ASSUME NEW t \in Sessions PROVE SessionStage(t)'
    BY DEF Inv, Shape, SessionStage
  <2> QED
    BY <2>1, <2>2, <2>3, <2>4 DEF Inv
<1> QED
  BY <1>1, <1>2, <1>3, <1>4, <1>5, <1>6, <1>7 DEF Loop

\* A packet returns, or moves to a stage before its shutdown.
LEMMA CallbackMoves ==
    ASSUME Inv, NEW c \in Callbacks,
           \/ Return(c)
           \/ /\ callback[c].pc \in {"decide", "record"}
              /\ \/ Proceed(c, "erase") \/ Proceed(c, "record"),
           UNCHANGED <<recorder_sessions, sessionVars, loop>>
    PROVE  Inv'
<1> USE DEF sessionVars, Return, Proceed, Idle
<1>1. Shape'
  BY DEF Inv, Shape
<1>2. ASSUME NEW v \in Users PROVE EntryAlive(v)'
  BY DEF Inv, Shape, EntryAlive, NoSession
<1>3. ASSUME NEW d \in Callbacks PROVE CallbackOwn(d)'
  <2>1. CallbackOwn(d) /\ CallbackOwn(c)
    BY DEF Inv
  <2>2. CASE Return(c)
    BY <2>1, <2>2, NoSessionIsNone DEF Inv, Shape, CallbackOwn
  <2>3. CASE ~Return(c)
    BY <2>1, <2>3 DEF Inv, Shape, CallbackOwn
  <2> QED
    BY <2>2, <2>3
<1>4. ASSUME NEW t \in Sessions PROVE SessionStage(t)'
  BY DEF Inv, Shape, SessionStage
<1> QED
  BY <1>1, <1>2, <1>3, <1>4 DEF Inv

LEMMA ReceiveKeeps ==
    ASSUME Inv, NEW c \in Callbacks, NEW u \in Users, NEW size \in PacketSizes,
           VoiceReceive(c, u, size)
    PROVE  Inv'
<1> USE RecorderAssumption DEF VoiceReceive, sessionVars
<1>1. Shape'
  BY DEF Inv, Shape
<1>2. ASSUME NEW v \in Users PROVE EntryAlive(v)'
  BY DEF Inv, Shape, EntryAlive
<1>3. ASSUME NEW d \in Callbacks PROVE CallbackOwn(d)'
  BY DEF Inv, Shape, CallbackOwn, Sessions, NoSession
<1>4. ASSUME NEW t \in Sessions PROVE SessionStage(t)'
  BY DEF Inv, Shape, SessionStage
<1> QED
  BY <1>1, <1>2, <1>3, <1>4 DEF Inv

LEMMA CallbackKeeps ==
    ASSUME Inv, NEW c \in Callbacks, Callback(c)
    PROVE  Inv'
<1>1. CASE CallbackFinds(c)
  <2> USE <1>1 DEF CallbackFinds, sessionVars, Return, Idle
  <2>1. Shape'
    BY DEF Inv, Shape, CallbackOwn
  <2>2. ASSUME NEW v \in Users PROVE EntryAlive(v)'
    BY DEF Inv, Shape, EntryAlive, NoSession
  <2>3. ASSUME NEW d \in Callbacks PROVE CallbackOwn(d)'
    <3> DEFINE u == callback[c].user
               s == recorder_sessions[u]
    <3>1. u \in Users /\ CallbackOwn(d) /\ EntryAlive(u)
      BY DEF Inv, CallbackOwn
    <3>2. CASE s = NoSession
      BY <3>1, <3>2, NoSessionIsNone DEF Inv, Shape, CallbackOwn
    <3>3. CASE s # NoSession
      <4>1. s \in Sessions /\ loop[s] # "none" /\ user_id[s] = u
        BY <3>1, <3>3 DEF Inv, Shape, EntryAlive
      <4>2. callback' = [callback EXCEPT ![c].pc = "decide", ![c].session = s]
        BY <3>3
      <4>3. callback'[c].pc = "decide" /\ callback'[c].session = s
                /\ callback'[c].user = u
        BY <4>2 DEF Inv, Shape
      <4>4. d # c => callback'[d] = callback[d]
        BY <4>2 DEF Inv, Shape
      <4>5. UNCHANGED <<loop, user_id>>
        OBVIOUS
      <4> HIDE DEF s, u
      <4> QED
        BY <3>1, <4>1, <4>3, <4>4, <4>5 DEF CallbackOwn
    <3> QED
      BY <3>2, <3>3
  <2>4. ASSUME NEW t \in Sessions PROVE SessionStage(t)'
    BY DEF Inv, Shape, SessionStage
  <2> QED
    BY <2>1, <2>2, <2>3, <2>4 DEF Inv
<1>2. CASE CallbackDecides(c)
  BY <1>2, CallbackMoves DEF CallbackDecides
<1>3. CASE CallbackRecords(c)
  BY <1>3, CallbackMoves DEF CallbackRecords
<1>4. CASE CallbackErases(c)
  <2> USE <1>4 DEF CallbackErases, EraseEntry, Proceed, sessionVars
  <2>1. Shape'
    BY DEF Inv, Shape
  <2>2. ASSUME NEW v \in Users PROVE EntryAlive(v)'
    BY DEF Inv, Shape, EntryAlive, CallbackOwn
  <2>3. ASSUME NEW d \in Callbacks PROVE CallbackOwn(d)'
    BY DEF Inv, Shape, CallbackOwn
  <2>4. ASSUME NEW t \in Sessions PROVE SessionStage(t)'
    BY DEF Inv, Shape, SessionStage
  <2> QED
    BY <2>1, <2>2, <2>3, <2>4 DEF Inv
<1>5. CASE CallbackShutsDown(c)
  <2> USE <1>5 DEF CallbackShutsDown, Shutdown, Return, Idle
  <2>0. callback[c].session \in Sessions
    BY DEF Inv, CallbackOwn
  <2>1. Shape'
    BY <2>0 DEF Inv, Shape
  <2>2. ASSUME NEW v \in Users PROVE EntryAlive(v)'
    BY <2>0 DEF Inv, Shape, EntryAlive, NoSession
  <2>3. ASSUME NEW d \in Callbacks PROVE CallbackOwn(d)'
    BY DEF Inv, Shape, CallbackOwn, Sessions, NoSession
  <2>4. ASSUME NEW t \in Sessions PROVE SessionStage(t)'
    BY <2>0 DEF Inv, Shape, CallbackOwn, SessionStage
  <2> QED
    BY <2>1, <2>2, <2>3, <2>4 DEF Inv
<1> QED
  BY <1>1, <1>2, <1>3, <1>4, <1>5 DEF Callback

LEMMA InvNext == Inv /\ [Next]_vars => Inv'
<1> SUFFICES ASSUME Inv, [Next]_vars PROVE Inv'
  OBVIOUS
<1>1. CASE UNCHANGED vars
  BY <1>1 DEF vars, sessionVars, Inv, Shape, EntryAlive, CallbackOwn,
              SessionStage
<1>2. CASE TimePasses
  BY <1>2 DEF TimePasses, sessionVars, Inv, Shape, EntryAlive, CallbackOwn,
              SessionStage
<1> QED
  BY <1>1, <1>2, StartKeeps, LoopKeeps, ReceiveKeeps, CallbackKeeps DEF Next

\* For any durations, delays and number of packets in flight: the entry of a
\* user never names a session that was shut down, so /parrot is never refused
\* for a session that has ended.
THEOREM EntriesAlive == Spec => []NoDeadEntry
<1>1. Inv => NoDeadEntry
  BY DEF Inv, EntryAlive, NoDeadEntry
<1> QED
  BY <1>1, InvInit, InvNext, PTL DEF Spec

\* For any durations, delays and number of packets in flight: a session nobody
\* refers to any more was shut down, so its destructor never calls shutdown()
\* under the lock it already holds.
THEOREM DestructorSafe == Spec => []DestroyedOnlyWhenShut
<1>1. Inv => DestroyedOnlyWhenShut
  BY DEF Inv, SessionStage, DestroyedOnlyWhenShut, Held
<1> QED
  BY <1>1, InvInit, InvNext, PTL DEF Spec

-----------------------------------------------------------------------------
\* One session at a time, as long as whoever erases an entry erases the one of
\* the session it ends.  The code erases by the user alone, and what then goes
\* wrong is what the violation of OneSessionPerUser shows.

ErasesItsOwn ==
    /\ \A s \in Sessions :
         LoopErases(s) => recorder_sessions[user_id[s]] \in {s, NoSession}
    /\ \A c \in Callbacks :
         CallbackErases(c) =>
           recorder_sessions[callback[c].user] \in {callback[c].session, NoSession}

\* A session whose end has not begun is the one its user's entry names.
Named(s) == Running(s) => recorder_sessions[user_id[s]] = s

NamedInv == \A s \in Sessions : Named(s)

LEMMA NamedInit == Init => NamedInv
  BY DEF Init, NamedInv, Named, Running

\* No session comes to run, and entries stay.
LEMMA NobodyRuns ==
    ASSUME NEW t \in Sessions, Named(t),
           recorder_sessions' = recorder_sessions, user_id' = user_id,
           Running(t)' => Running(t)
    PROVE  Named(t)'
  BY DEF Named

LEMMA LoopKeepsNamed ==
    ASSUME Inv, NEW s \in Sessions, Loop(s), ErasesItsOwn,
           NEW t \in Sessions, Named(t)
    PROVE  Named(t)'
<1>1. CASE LoopErases(s)
  <2> SUFFICES ASSUME Running(t)' PROVE recorder_sessions'[user_id'[t]] = t
    BY DEF Named
  <2>1. t # s
    BY <1>1 DEF LoopErases, Running, Inv, Shape
  <2>2. Running(t)
    BY <1>1, <2>1 DEF LoopErases, Running, sessionVars, Inv, Shape
  <2>3. recorder_sessions[user_id[t]] = t /\ user_id[t] \in Users
    BY <2>2 DEF Named, Running, Inv, SessionStage
  <2>4. user_id[t] # user_id[s]
    BY <1>1, <2>1, <2>3, NoSessionIsNone DEF ErasesItsOwn
  <2> QED
    BY <1>1, <2>3, <2>4 DEF LoopErases, EraseEntry, sessionVars, Inv, Shape
<1>2. CASE ~LoopErases(s)
  <2>1. UNCHANGED <<recorder_sessions, user_id, callback>>
    BY <1>2 DEF Loop, LoopWakes, LoopFindsShut, LoopStreams, LoopHasNothing,
       LoopFails, LoopShutsDown, Shutdown, sessionVars
  <2>2. is_shutting_down[t] => is_shutting_down'[t]
    BY <1>2 DEF Loop, LoopWakes, LoopFindsShut, LoopStreams, LoopHasNothing,
       LoopFails, LoopShutsDown, Shutdown, sessionVars, Inv, Shape
  <2>3. loop'[t] \in {"sleep", "stream"} => loop[t] \in {"sleep", "stream"}
    BY <1>2 DEF Loop, LoopWakes, LoopFindsShut, LoopStreams, LoopHasNothing,
       LoopFails, LoopShutsDown, LoopGoesOn, Inv, Shape
  <2> QED
    BY <2>1, <2>2, <2>3, NobodyRuns DEF Running
<1> QED
  BY <1>1, <1>2

LEMMA CallbackKeepsNamed ==
    ASSUME Inv, NEW c \in Callbacks, Callback(c), ErasesItsOwn,
           NEW t \in Sessions, Named(t)
    PROVE  Named(t)'
<1>1. CASE CallbackErases(c)
  <2> DEFINE s == callback[c].session
  <2> SUFFICES ASSUME Running(t)' PROVE recorder_sessions'[user_id'[t]] = t
    BY DEF Named
  <2>1. /\ callback' = [callback EXCEPT ![c].pc = "shutdown"]
        /\ callback[c].pc = "erase"
        /\ UNCHANGED <<user_id, is_shutting_down, loop>>
    BY <1>1 DEF CallbackErases, Proceed, sessionVars
  <2>2. callback'[c].pc = "shutdown" /\ callback'[c].session = s
    BY <2>1 DEF Inv, Shape
  <2>3. t # s
    BY <2>2 DEF Running
  <2>4. Running(t)
    <3>1. ASSUME NEW d \in Callbacks, callback[d].pc = "shutdown"
          PROVE  callback[d].session # t
      <4>1. callback'[d] = callback[d]
        BY <2>1, <3>1 DEF Inv, Shape
      <4> QED
        BY <3>1, <4>1 DEF Running
    <3> QED
      BY <2>1, <3>1 DEF Running
  <2>5. recorder_sessions[user_id[t]] = t /\ user_id[t] \in Users
    BY <2>4 DEF Named, Running, Inv, SessionStage
  <2>6. user_id[t] # callback[c].user
    BY <1>1, <2>3, <2>5, NoSessionIsNone DEF ErasesItsOwn
  <2> QED
    BY <1>1, <2>1, <2>5, <2>6 DEF CallbackErases, EraseEntry, Inv, Shape
<1>2. CASE ~CallbackErases(c)
  <2>1. UNCHANGED <<recorder_sessions, user_id, loop>>
    BY <1>2 DEF Callback, CallbackFinds, CallbackDecides, CallbackRecords,
       CallbackShutsDown, Shutdown, sessionVars
  <2>2. is_shutting_down[t] => is_shutting_down'[t]
    BY <1>2 DEF Callback, CallbackFinds, CallbackDecides, CallbackRecords,
       CallbackShutsDown, Shutdown, sessionVars, Inv, Shape
  <2>3. callback[c].pc # "shutdown" \/ CallbackShutsDown(c)
    BY <1>2 DEF Callback, CallbackFinds, CallbackDecides, CallbackRecords
  <2>4. \A d \in Callbacks : d # c => callback'[d] = callback[d]
    BY <1>2 DEF Callback, CallbackFinds, CallbackDecides, CallbackRecords,
       CallbackShutsDown, Return, Proceed, Inv, Shape
  <2>5. CallbackShutsDown(c) => is_shutting_down'[callback[c].session]
    BY DEF CallbackShutsDown, Shutdown, Inv, Shape, CallbackOwn
  <2>6. Running(t)' => Running(t)
    BY <2>1, <2>2, <2>3, <2>4, <2>5 DEF Running
  <2> QED
    BY <2>1, <2>6, NobodyRuns
<1> QED
  BY <1>1, <1>2

LEMMA NamedKept ==
    Inv /\ NamedInv /\ [Next]_vars /\ [ErasesItsOwn]_vars => NamedInv'
<1> SUFFICES ASSUME Inv, \A s \in Sessions : Named(s), [Next]_vars,
                    [ErasesItsOwn]_vars, NEW t \in Sessions
             PROVE  Named(t)'
  BY DEF NamedInv
<1>1. CASE UNCHANGED vars
  BY <1>1 DEF vars, sessionVars, Named, Running
<1>2. CASE TimePasses
  BY <1>2 DEF TimePasses, sessionVars, Named, Running
<1>3. ASSUME NEW u \in Users, NEW s \in Sessions, StartSession(u, s)
      PROVE  Named(t)'
  <2>1. /\ recorder_sessions[u] = NoSession
        /\ recorder_sessions' = [recorder_sessions EXCEPT ![u] = s]
        /\ user_id' = [user_id EXCEPT ![s] = u]
        /\ loop' = [loop EXCEPT ![s] = "sleep"]
        /\ UNCHANGED <<is_shutting_down, callback>>
    BY <1>3 DEF StartSession
  <2>2. CASE t = s
    BY <2>1, <2>2 DEF Named, Inv, Shape
  <2>3. CASE t # s
    <3>1. Running(t)' => Running(t)
      BY <2>1, <2>3 DEF Running, Inv, Shape
    <3>2. Running(t) => user_id[t] \in Users /\ recorder_sessions[user_id[t]] = t
      BY DEF Named, Running, Inv, SessionStage
    <3>3. Running(t) => user_id[t] # u
      BY <2>1, <3>2, NoSessionIsNone
    <3> QED
      BY <2>1, <2>3, <3>1, <3>2, <3>3 DEF Named, Inv, Shape
  <2> QED
    BY <2>2, <2>3
<1>4. ASSUME NEW c \in Callbacks, NEW u \in Users, NEW size \in PacketSizes,
             VoiceReceive(c, u, size)
      PROVE  Named(t)'
  <2>1. /\ callback[c] = Idle
        /\ \A d \in Callbacks : d # c => callback'[d] = callback[d]
        /\ UNCHANGED <<recorder_sessions, user_id, is_shutting_down, loop>>
    BY <1>4 DEF VoiceReceive, sessionVars, Inv, Shape
  <2>2. callback[c].pc # "shutdown"
    BY <2>1 DEF Idle
  <2> QED
    BY <2>1, <2>2, NobodyRuns DEF Running
<1>5. ErasesItsOwn \/ UNCHANGED vars
  OBVIOUS
<1> QED
  BY <1>1, <1>2, <1>3, <1>4, <1>5, LoopKeepsNamed, CallbackKeepsNamed DEF Next

\* A user has one session at a time that records and streams, for any number of
\* sessions and packets, as long as no late end erases the entry of a session
\* that was started since (ToolInterface.cpp:262-266, and the erases at 295, 305,
\* 313 and 346): the late erase is the only way to two.
THEOREM OneSessionWhereEndsAreOwn ==
    Spec /\ [][ErasesItsOwn]_vars => []OneSessionPerUser
<1>1. Inv /\ NamedInv => OneSessionPerUser
  BY DEF NamedInv, Named, OneSessionPerUser
<1> QED
  BY <1>1, NamedInit, NamedKept, InvInit, InvNext, PTL DEF Spec

-----------------------------------------------------------------------------
\* Silence after the shutdown.  While the loop of a session that was shut down
\* still runs, its time is long over, so nothing is recorded into it any more.

Clock ==
    /\ now \in Nat
    /\ start_time \in [Sessions -> Nat]
    /\ DOMAIN audio_queue = Sessions
    /\ DOMAIN streamed = Sessions

Quiet(s) ==
    is_shutting_down[s] /\ loop[s] # "done" =>
        audio_queue[s] = <<>> /\ TimedOut(s)

TooLate(c) ==
    callback[c].pc \in {"erase", "shutdown"} => TimedOut(callback[c].session)

SilenceInv ==
    /\ Clock
    /\ \A s \in Sessions : Quiet(s)
    /\ \A c \in Callbacks : TooLate(c)

LEMMA SilenceInit == Init => SilenceInv
<1> SUFFICES ASSUME Init PROVE SilenceInv
  OBVIOUS
<1>1. Clock
  BY DEF Init, Clock
<1>2. ASSUME NEW s \in Sessions PROVE Quiet(s)
  BY DEF Init, Quiet
<1>3. ASSUME NEW c \in Callbacks PROVE TooLate(c)
  BY DEF Init, TooLate, Idle
<1> QED
  BY <1>1, <1>2, <1>3 DEF SilenceInv

\* A session that is timed out stays so, whatever is started later.
LEMMA TimedOutStays ==
    ASSUME Clock, NEW s \in Sessions, TimedOut(s),
           now' \in Nat, now' >= now, start_time'[s] = start_time[s]
    PROVE  TimedOut(s)'
<1>1. start_time[s] \in Nat /\ now \in Nat
  BY DEF Clock
<1> QED
  BY <1>1, RecorderAssumption DEF TimedOut

LEMMA RecordsNothingLate ==
    ASSUME Clock, NEW s \in Sessions, TimedOut(s), NEW size
    PROVE  ~Accepts(s, size)
<1>1. start_time[s] \in Nat /\ now \in Nat
  BY DEF Clock
<1> QED
  BY <1>1, RecorderAssumption DEF TimedOut, Accepts

LEMMA SilenceKeeps == Inv /\ SilenceInv /\ [Next]_vars => SilenceInv'
<1> SUFFICES ASSUME Inv, SilenceInv, [Next]_vars PROVE SilenceInv'
  OBVIOUS
<1>1. CASE UNCHANGED vars
  BY <1>1 DEF vars, sessionVars, queueVars, historyVars, SilenceInv, Clock,
              Quiet, TooLate, TimedOut
<1>2. CASE TimePasses
  <2> USE <1>2 DEF TimePasses, sessionVars, queueVars, historyVars
  <2>1. Clock'
    BY DEF SilenceInv, Clock
  <2>2. now' \in Nat /\ now' >= now
    BY DEF SilenceInv, Clock
  <2>3. ASSUME NEW s \in Sessions PROVE Quiet(s)'
    BY <2>2, TimedOutStays DEF SilenceInv, Quiet
  <2>4. ASSUME NEW c \in Callbacks PROVE TooLate(c)'
    BY <2>2, TimedOutStays DEF SilenceInv, TooLate, Inv, CallbackOwn
  <2> QED
    BY <2>1, <2>3, <2>4 DEF SilenceInv
<1>3. ASSUME NEW u \in Users, NEW s \in Sessions, StartSession(u, s)
      PROVE  SilenceInv'
  <2> USE <1>3 DEF StartSession, queueVars, historyVars
  <2>1. Clock'
    BY DEF SilenceInv, Clock
  <2>2. ASSUME NEW t \in Sessions PROVE Quiet(t)'
    <3>1. CASE t = s
      BY <3>1 DEF Inv, SessionStage, Quiet
    <3>2. CASE t # s
      <4>1. start_time'[t] = start_time[t] /\ loop'[t] = loop[t]
        BY <3>2 DEF SilenceInv, Clock, Inv, Shape
      <4> QED
        BY <4>1 DEF SilenceInv, Quiet, TimedOut
    <3> QED
      BY <3>1, <3>2
  <2>3. ASSUME NEW c \in Callbacks PROVE TooLate(c)'
    <3>1. callback[c].pc \in {"erase", "shutdown"} =>
              callback[c].session \in Sessions /\ callback[c].session # s
      BY DEF Inv, CallbackOwn
    <3> QED
      BY <3>1 DEF SilenceInv, TooLate, TimedOut, Clock
  <2> QED
    BY <2>1, <2>2, <2>3 DEF SilenceInv
<1>4. ASSUME NEW s \in Sessions, Loop(s) PROVE SilenceInv'
  <2>1. UNCHANGED <<now, start_time, callback>>
    BY <1>4 DEF Loop, LoopWakes, LoopFindsShut, LoopStreams, LoopHasNothing,
                LoopFails, LoopErases, LoopShutsDown, Shutdown, sessionVars
  <2>2. Clock'
    BY <1>4, <2>1 DEF SilenceInv, Clock, Loop, LoopWakes, LoopFindsShut,
       LoopStreams, LoopHasNothing, LoopFails, LoopErases, LoopShutsDown,
       Shutdown, TakeChunk, queueVars, historyVars
  <2>3. ASSUME NEW t \in Sessions PROVE Quiet(t)'
    <3> USE DEF SilenceInv, Clock, Quiet, TimedOut, Inv, Shape
    <3>1. CASE LoopWakes(s)
      BY <3>1, <2>1 DEF LoopWakes, sessionVars, queueVars
    <3>2. CASE LoopFindsShut(s)
      BY <3>2, <2>1 DEF LoopFindsShut, LoopGoesOn, sessionVars, queueVars
    <3>3. CASE LoopStreams(s) \/ LoopFails(s)
      BY <3>3, <2>1 DEF LoopStreams, LoopFails, LoopGoesOn, Streamable,
                        TakeChunk, sessionVars
    <3>4. CASE LoopHasNothing(s)
      BY <3>4, <2>1 DEF LoopHasNothing, LoopGoesOn, sessionVars, queueVars
    <3>5. CASE LoopErases(s)
      BY <3>5, <2>1 DEF LoopErases, sessionVars, queueVars
    <3>6. CASE LoopShutsDown(s)
      BY <3>6, <2>1 DEF LoopShutsDown, Shutdown
    <3> QED
      BY <1>4, <3>1, <3>2, <3>3, <3>4, <3>5, <3>6 DEF Loop
  <2>4. ASSUME NEW c \in Callbacks PROVE TooLate(c)'
    BY <2>1 DEF SilenceInv, TooLate, TimedOut
  <2> QED
    BY <2>2, <2>3, <2>4 DEF SilenceInv
<1>5. ASSUME NEW c \in Callbacks, NEW u \in Users, NEW size \in PacketSizes,
             VoiceReceive(c, u, size)
      PROVE  SilenceInv'
  <2> USE <1>5 DEF VoiceReceive, sessionVars, queueVars, historyVars
  <2>1. Clock' /\ \A s \in Sessions : Quiet(s)'
    BY DEF SilenceInv, Clock, Quiet, TimedOut
  <2>2. ASSUME NEW d \in Callbacks PROVE TooLate(d)'
    BY DEF SilenceInv, TooLate, TimedOut, Inv, Shape
  <2> QED
    BY <2>1, <2>2 DEF SilenceInv
<1>6. ASSUME NEW c \in Callbacks, Callback(c) PROVE SilenceInv'
  <2> DEFINE s == callback[c].session
  <2>1. UNCHANGED <<now, start_time, loop>>
    BY <1>6 DEF Callback, CallbackFinds, CallbackDecides, CallbackRecords,
                CallbackErases, CallbackShutsDown, Shutdown, sessionVars
  <2>2. Clock'
    BY <1>6, <2>1 DEF SilenceInv, Clock, Callback, CallbackFinds,
       CallbackDecides, CallbackRecords, CallbackErases, CallbackShutsDown,
       Shutdown, queueVars, historyVars
  <2>3. callback[c].pc \in {"decide", "record", "erase", "shutdown"} =>
            s \in Sessions
    BY DEF Inv, CallbackOwn
  <2>4. ASSUME NEW t \in Sessions PROVE Quiet(t)'
    <3>1. CASE CallbackFinds(c) \/ CallbackDecides(c) \/ CallbackErases(c)
      BY <3>1, <2>1 DEF CallbackFinds, CallbackDecides, CallbackErases,
         SilenceInv, Quiet, TimedOut, sessionVars, queueVars
    <3>2. CASE CallbackRecords(c)
      <4>1. Quiet(t)
        BY DEF SilenceInv
      <4>2. TimedOut(t)' <=> TimedOut(t)
        BY <2>1 DEF TimedOut
      <4>3. is_shutting_down' = is_shutting_down
        BY <3>2 DEF CallbackRecords, sessionVars
      <4>4. TimedOut(t) => audio_queue'[t] = audio_queue[t]
        BY <3>2, <2>3, RecordsNothingLate
           DEF CallbackRecords, SilenceInv, Clock
      <4> QED
        BY <4>1, <4>2, <4>3, <4>4, <2>1 DEF Quiet
    <3>3. CASE CallbackShutsDown(c)
      BY <3>3, <2>1, <2>3 DEF CallbackShutsDown, Shutdown, SilenceInv, Clock,
         Quiet, TooLate, TimedOut, Inv, Shape
    <3> QED
      BY <1>6, <3>1, <3>2, <3>3 DEF Callback
  <2>5. ASSUME NEW d \in Callbacks PROVE TooLate(d)'
    <3>1. TooLate(d)
      BY DEF SilenceInv
    <3>2. CASE d # c
      <4>1. callback'[d] = callback[d]
        BY <1>6, <3>2 DEF Callback, CallbackFinds, CallbackDecides,
           CallbackRecords, CallbackErases, CallbackShutsDown, Proceed, Return,
           Inv, Shape
      <4> QED
        BY <3>1, <4>1, <2>1 DEF TooLate, TimedOut
    <3>3. CASE d = c
      <4>1. CASE CallbackFinds(c)
        BY <3>3, <4>1 DEF CallbackFinds, Return, Idle, TooLate, Inv, Shape
      <4>2. CASE CallbackDecides(c)
        BY <3>3, <4>2, <2>1 DEF CallbackDecides, Return, Proceed, Idle, TooLate,
           TimedOut, Inv, Shape
      <4>3. CASE CallbackRecords(c)
        BY <3>3, <4>3 DEF CallbackRecords, Return, Idle, TooLate, Inv, Shape
      <4>4. CASE CallbackErases(c)
        BY <3>1, <3>3, <4>4, <2>1 DEF CallbackErases, Proceed, TooLate,
           TimedOut, Inv, Shape
      <4>5. CASE CallbackShutsDown(c)
        BY <3>3, <4>5 DEF CallbackShutsDown, Return, Idle, TooLate, Inv, Shape
      <4> QED
        BY <1>6, <4>1, <4>2, <4>3, <4>4, <4>5 DEF Callback
    <3> QED
      BY <3>2, <3>3
  <2> QED
    BY <2>2, <2>4, <2>5 DEF SilenceInv
<1> QED
  BY <1>1, <1>2, <1>3, <1>4, <1>5, <1>6 DEF Next

\* For any durations, delays and number of packets in flight: a session that
\* was shut down streams nothing more, although streamAudio tests the flag
\* before it takes the lock and a packet may record after the shutdown.
THEOREM SilenceKept == Spec => SilentOnceShut
<1>1. ASSUME Inv, SilenceInv, [Next]_vars
      PROVE  [\A s \in Sessions :
                 is_shutting_down[s] => streamed'[s] = streamed[s]]_vars
  <2> SUFFICES ASSUME NEW s \in Sessions, is_shutting_down[s], Next
               PROVE  streamed'[s] = streamed[s]
    BY <1>1 DEF vars, historyVars
  <2>1. ASSUME NEW t \in Sessions, LoopStreams(t)
        PROVE  streamed'[s] = streamed[s]
    <3>1. t # s
      BY <1>1, <2>1 DEF LoopStreams, Streamable, SilenceInv, Quiet
    <3> QED
      BY <1>1, <2>1, <3>1 DEF LoopStreams, SilenceInv, Clock
  <2>2. ASSUME NEW t \in Sessions, Loop(t), ~LoopStreams(t)
        PROVE  UNCHANGED streamed
    BY <2>2 DEF Loop, LoopWakes, LoopFindsShut, LoopHasNothing, LoopFails,
                LoopErases, LoopShutsDown, historyVars
  <2>3. ASSUME NEW c \in Callbacks, Callback(c) PROVE UNCHANGED streamed
    BY <2>3 DEF Callback, CallbackFinds, CallbackDecides, CallbackRecords,
                CallbackErases, CallbackShutsDown, historyVars
  <2> QED
    BY <2>1, <2>2, <2>3
       DEF Next, TimePasses, StartSession, VoiceReceive, historyVars
<1> QED
  BY <1>1, InvInit, InvNext, SilenceInit, SilenceKeeps, PTL
     DEF Spec, SilentOnceShut

-----------------------------------------------------------------------------
\* The copying loop of streamAudio, turn by turn.  Its length is the queue's,
\* so what it does is shown by induction on the turns.

\* Induction on the naturals: a nonempty set of them has a least element.
LEMMA LeastNat ==
    ASSUME NEW T \in SUBSET Nat, T # {}
    PROVE  \E x \in T : \A y \in T : x <= y
<1> DEFINE R == OpToRel(<, Nat)
<1>1. IsWellFoundedOn(R, Nat)
  BY NatLessThanWellFounded, Zenon
<1>2. \A x, y \in Nat : <<x, y>> \in R <=> x < y
  BY DEF OpToRel
<1> HIDE DEF R
<1>3. \E x \in T : \A y \in T : <<y, x>> \notin R
  BY <1>1, WFMin
<1>4. PICK x \in T : \A y \in T : <<y, x>> \notin R
  BY <1>3
<1>5. \A y \in T : ~(y < x) /\ y \in Nat /\ x \in Nat
  BY <1>2, <1>4
<1>6. \A y \in T : x <= y
  BY <1>5
<1> QED
  BY <1>6

LEMMA Induct ==
    ASSUME NEW S, 0 \in S, \A n \in Nat : n \in S => n + 1 \in S
    PROVE  Nat \subseteq S
<1> DEFINE T == {n \in Nat : n \notin S}
<1> SUFFICES ASSUME T # {} PROVE FALSE
  OBVIOUS
<1>1. PICK x \in T : \A y \in T : x <= y
  BY LeastNat
<1>2. x \in Nat /\ x # 0 /\ x - 1 \in Nat /\ ~(x <= x - 1)
  BY <1>1
<1>3. x - 1 \in S
  BY <1>1, <1>2
<1>4. x - 1 + 1 = x
  BY <1>2
<1> QED
  BY <1>1, <1>2, <1>3, <1>4

\* What the loop holds before its first turn.
Unpoured(head) == [rest |-> <<>>, head |-> head, need |-> ChunkSize]

\* f holds what the loop does in its first n turns.
Copies(f, queue, head, n) ==
    f = [k \in 0 .. n |-> IF k = 0 THEN Unpoured(head)
                          ELSE Pour(f[k - 1], queue[k])]

\* There is such a function for every number of turns: each longer one adds a
\* turn to a shorter one.
LEMMA CopiesExist ==
    ASSUME NEW queue, NEW head, NEW n \in Nat
    PROVE  \E f : Copies(f, queue, head, n)
<1> DEFINE S == {k \in Nat : \E f : Copies(f, queue, head, k)}
<1>1. 0 \in S
  <2> DEFINE f == [k \in 0 .. 0 |-> Unpoured(head)]
  <2>1. Copies(f, queue, head, 0)
    BY DEF Copies
  <2> HIDE DEF f
  <2> QED
    BY <2>1
<1>2. ASSUME NEW k \in Nat, k \in S PROVE k + 1 \in S
  <2>1. PICK f : Copies(f, queue, head, k)
    BY <1>2
  <2> DEFINE last == Pour(f[k], queue[k + 1])
             g == [j \in 0 .. k + 1 |-> IF j = k + 1 THEN last ELSE f[j]]
  <2>2. ASSUME NEW j \in 0 .. k + 1
        PROVE  g[j] = IF j = 0 THEN Unpoured(head) ELSE Pour(g[j - 1], queue[j])
    <3> HIDE DEF last
    <3>1. CASE j = k + 1
      <4>1. j # 0 /\ j - 1 = k /\ k \in 0 .. k + 1 /\ k # k + 1
        BY <3>1
      <4>2. g[j] = last /\ g[j - 1] = f[k]
        BY <3>1, <4>1
      <4> QED
        BY <3>1, <4>1, <4>2 DEF last
    <3>2. CASE j # k + 1
      <4>1. j \in 0 .. k /\ g[j] = f[j]
        BY <3>2
      <4>2. CASE j = 0
        BY <2>1, <4>1, <4>2 DEF Copies
      <4>3. CASE j # 0
        <5>1. j - 1 \in 0 .. k + 1 /\ j - 1 # k + 1
          BY <4>1, <4>3
        <5>2. g[j - 1] = f[j - 1]
          BY <5>1
        <5> QED
          BY <2>1, <4>1, <4>3, <5>2 DEF Copies
      <4> QED
        BY <4>2, <4>3
    <3> QED
      BY <3>1, <3>2
  <2>3. Copies(g, queue, head, k + 1)
    <3>1. g = [j \in 0 .. k + 1 |-> g[j]]
      OBVIOUS
    <3> HIDE DEF g
    <3> QED
      BY <2>2, <3>1 DEF Copies
  <2> HIDE DEF g
  <2> QED
    BY <2>3
<1> HIDE DEF S
<1>3. Nat \subseteq S
  BY <1>1, <1>2, Induct
<1> QED
  BY <1>3 DEF S

LEMMA TurnsDefined ==
    ASSUME NEW queue, NEW head, Len(queue) \in Nat
    PROVE  /\ Turns(queue, head)[0] = Unpoured(head)
           /\ \A n \in 1 .. Len(queue) :
                  Turns(queue, head)[n] =
                      Pour(Turns(queue, head)[n - 1], queue[n])
<1> DEFINE Is(f) == Copies(f, queue, head, Len(queue))
<1>1. Turns(queue, head) = CHOOSE f : Is(f)
  BY DEF Turns, Copies, Unpoured
<1>2. \E f : Is(f)
  BY CopiesExist
<1>3. Is(Turns(queue, head))
  <2> HIDE DEF Is
  <2> QED
    BY <1>1, <1>2
<1> QED
  BY <1>3 DEF Copies

\* A queue without a gap: each buffer starts where the one before it ends.
Unbroken(queue) ==
    /\ queue \in Seq(Buffer)
    /\ \A i \in 1 .. Len(queue) : queue[i].size > 0
    /\ \A i \in 1 .. Len(queue) - 1 :
           queue[i + 1].first = queue[i].first + queue[i].size

\* The place of the first byte of the queue that was not streamed
Front(queue, head) == queue[1].first + head

Turn == [rest : Seq(Buffer), head : Nat, need : 0 .. ChunkSize]

\* After n turns acc holds the end of the queue, and its front is where the
\* bytes that were copied end.
AfterTurns(queue, head, n, acc) ==
    LET reached == (Front(queue, head) + ChunkSize) - acc.need
        m == Len(acc.rest)
    IN  /\ acc \in Turn
        /\ m <= n
        /\ \A i \in 1 .. m : acc.rest[i] = queue[n - m + i]
        /\ acc.need > 0 => m = 0
        /\ m > 0 => /\ acc.head < acc.rest[1].size
                    /\ acc.rest[1].first + acc.head = reached
        /\ m = 0 /\ n < Len(queue) => /\ acc.head < queue[n + 1].size
                                      /\ queue[n + 1].first + acc.head = reached
        /\ m = 0 /\ n = Len(queue) => /\ acc.head = 0
                                      /\ queue[n].first + queue[n].size = reached

LEMMA PourSkips ==
    ASSUME NEW acc \in Turn, NEW b \in Buffer, acc.need = 0
    PROVE  Pour(acc, b) = [rest |-> Append(acc.rest, b), head |-> acc.head,
                           need |-> 0]
BY DEF Pour, Turn

\* Whether a buffer is used up or not, the bytes that were copied end where the
\* next to copy is.
LEMMA PourUsesUp ==
    ASSUME NEW acc \in Turn, NEW b \in Buffer, NEW end \in Int,
           acc.head < b.size, acc.need >= b.size - acc.head,
           b.first + acc.head = end - acc.need
    PROVE  LET next == Pour(acc, b) IN
           /\ next \in Turn /\ next.rest = acc.rest /\ next.head = 0
           /\ b.first + b.size = end - next.need
<1> DEFINE left == b.size - acc.head
           need == acc.need - left
<1>1. /\ b.size \in Nat /\ b.first \in Nat /\ acc.head \in Nat
      /\ acc.need \in 0 .. ChunkSize /\ ChunkSize \in Nat
  BY RecorderAssumption DEF Buffer, Turn
<1>2. acc.need # 0 /\ need \in 0 .. ChunkSize /\ b.first + b.size = end - need
  BY <1>1
<1>3. (IF left < acc.need THEN left ELSE acc.need) = left
      /\ acc.head + left >= b.size
  BY <1>1
<1>4. acc = [rest |-> acc.rest, head |-> acc.head, need |-> acc.need]
      /\ acc.rest \in Seq(Buffer)
  BY DEF Turn
<1>5. Pour(acc, b) = [acc EXCEPT !.head = 0, !.need = need]
  <2> HIDE DEF left
  <2>1. b.size - acc.head = left
    BY DEF left
  <2> QED
    BY <1>2, <1>3, <2>1 DEF Pour
<1> HIDE DEF need
<1>6. Pour(acc, b) = [rest |-> acc.rest, head |-> 0, need |-> need]
  BY <1>4, <1>5
<1>7. Pour(acc, b).need = need /\ Pour(acc, b) \in Turn
      /\ Pour(acc, b).rest = acc.rest /\ Pour(acc, b).head = 0
  BY <1>2, <1>4, <1>6 DEF Turn
<1> QED
  BY <1>2, <1>7

LEMMA PourStops ==
    ASSUME NEW acc \in Turn, NEW b \in Buffer, NEW end \in Int,
           acc.need > 0, acc.need < b.size - acc.head,
           b.first + acc.head = end - acc.need
    PROVE  LET next == Pour(acc, b) IN
           /\ next \in Turn /\ next.rest = Append(acc.rest, b) /\ next.need = 0
           /\ next.head < b.size /\ b.first + next.head = end
<1> DEFINE head == acc.head + acc.need
<1>1. /\ b.size \in Nat /\ b.first \in Nat /\ acc.head \in Nat
      /\ acc.need \in Nat /\ ChunkSize \in Nat
  BY RecorderAssumption DEF Buffer, Turn
<1>2. /\ acc.need # 0
      /\ ~(b.size - acc.head < acc.need)
      /\ ~(acc.head + acc.need >= b.size)
      /\ head < b.size /\ head \in Nat /\ b.first + head = end
  BY <1>1
<1>3. Pour(acc, b) = [rest |-> Append(acc.rest, b), head |-> head, need |-> 0]
  BY <1>2 DEF Pour
<1>4. Append(acc.rest, b) \in Seq(Buffer)
  BY DEF Turn
<1> HIDE DEF head
<1>5. Pour(acc, b).head = head /\ Pour(acc, b).need = 0
      /\ Pour(acc, b).rest = Append(acc.rest, b) /\ Pour(acc, b) \in Turn
  BY <1>1, <1>2, <1>3, <1>4 DEF Turn
<1> QED
  BY <1>2, <1>5

LEMMA FirstTurn ==
    ASSUME NEW queue, NEW head \in Nat, Unbroken(queue), Len(queue) > 0,
           head < queue[1].size
    PROVE  AfterTurns(queue, head, 0, Unpoured(head))
<1>1. queue[1] \in Buffer /\ Len(queue) \in Nat
  BY DEF Unbroken
<1>2. queue[1].first \in Nat /\ queue[1].size \in Nat
  BY <1>1 DEF Buffer
<1>3. Unpoured(head) \in Turn
  BY RecorderAssumption DEF Unpoured, Turn
<1> QED
  BY <1>1, <1>2, <1>3, RecorderAssumption DEF AfterTurns, Unpoured, Front

LEMMA NextTurn ==
    ASSUME NEW queue, NEW head \in Nat, Unbroken(queue), Len(queue) > 0,
           NEW n \in Nat, n < Len(queue), NEW acc,
           AfterTurns(queue, head, n, acc)
    PROVE  AfterTurns(queue, head, n + 1, Pour(acc, queue[n + 1]))
<1> DEFINE b == queue[n + 1]
           left == b.size - acc.head
           after == Pour(acc, b)
           start == Front(queue, head)
<1>1. Len(queue) \in Nat /\ queue \in Seq(Buffer)
  BY DEF Unbroken
<1>2. /\ acc.rest \in Seq(Buffer) /\ acc.head \in Nat
      /\ acc.need \in 0 .. ChunkSize
      /\ acc \in Turn
  BY DEF AfterTurns, Turn
<1>3. /\ b \in Buffer /\ b.size \in Nat /\ b.first \in Nat /\ b.size > 0
      /\ queue[1] \in Buffer /\ queue[1].first \in Nat
  <2>1. n + 1 \in 1 .. Len(queue) /\ 1 \in 1 .. Len(queue)
    BY <1>1
  <2>2. b \in Buffer /\ queue[1] \in Buffer /\ b.size > 0
    BY <1>1, <2>1 DEF Unbroken
  <2> HIDE DEF b
  <2> QED
    BY <2>2 DEF Buffer
<1>4. start \in Nat /\ ChunkSize \in Nat
  BY <1>3, RecorderAssumption DEF Front
<1>5. n + 1 < Len(queue) =>
        /\ queue[n + 2].first = b.first + b.size
        /\ queue[n + 2].size > 0 /\ queue[n + 2] \in Buffer
  <2> SUFFICES ASSUME n + 1 < Len(queue)
               PROVE  /\ queue[n + 2].first = b.first + b.size
                      /\ queue[n + 2].size > 0 /\ queue[n + 2] \in Buffer
    OBVIOUS
  <2>1. n + 1 \in 1 .. Len(queue) - 1 /\ n + 2 \in 1 .. Len(queue)
        /\ (n + 1) + 1 = n + 2
    BY <1>1
  <2>2. queue[n + 2].size > 0 /\ queue[n + 2] \in Buffer
    BY <1>1, <2>1 DEF Unbroken
  <2>3. queue[(n + 1) + 1].first = b.first + b.size
    BY <2>1 DEF Unbroken
  <2> QED
    BY <2>1, <2>2, <2>3
<1> DEFINE longer == Append(acc.rest, b)
<1>6. /\ longer \in Seq(Buffer) /\ Len(longer) = Len(acc.rest) + 1
      /\ longer[Len(longer)] = b
      /\ \A i \in 1 .. Len(acc.rest) : longer[i] = acc.rest[i]
      /\ Len(acc.rest) \in Nat
  BY <1>2, <1>3
<1>7. \A i \in 1 .. Len(longer) : longer[i] = queue[n + 1 - Len(longer) + i]
  <2> TAKE i \in 1 .. Len(longer)
  <2>1. CASE i = Len(longer)
    BY <1>6, <2>1
  <2>2. CASE i # Len(longer)
    <3>1. i \in 1 .. Len(acc.rest)
      BY <1>6, <2>2
    <3>2. n + 1 - Len(longer) + i = n - Len(acc.rest) + i
      BY <1>6, <3>1
    <3>3. acc.rest[i] = queue[n - Len(acc.rest) + i]
      BY <3>1 DEF AfterTurns
    <3> QED
      BY <1>6, <3>1, <3>2, <3>3
  <2> QED
    BY <2>1, <2>2
<1>8. CASE acc.need = 0
  <2>1. after = [rest |-> longer, head |-> acc.head, need |-> 0]
    BY <1>2, <1>3, <1>8, PourSkips
  <2>2. acc.head < longer[1].size /\ longer[1].first + acc.head = start + ChunkSize
    <3>1. CASE Len(acc.rest) = 0
      <4>1. longer[1] = b
        BY <1>6, <3>1
      <4> QED
        BY <1>1, <1>4, <1>8, <3>1, <4>1 DEF AfterTurns
    <3>2. CASE Len(acc.rest) > 0
      <4>1. longer[1] = acc.rest[1]
        BY <1>6, <3>2
      <4> QED
        BY <1>4, <1>8, <3>2, <4>1 DEF AfterTurns
    <3> QED
      BY <1>6, <3>1, <3>2
  <2>3. Len(longer) <= n + 1 /\ Len(longer) > 0
    BY <1>6 DEF AfterTurns
  <2> HIDE DEF longer, after, start
  <2>4. after.rest = longer /\ after.head = acc.head /\ after.need = 0
        /\ after \in Turn
    BY <1>2, <1>4, <1>6, <2>1 DEF Turn
  <2>5. AfterTurns(queue, head, n + 1, after)
    <3>1. start = Front(queue, head)
      BY DEF start
    <3>2. (start + ChunkSize) - after.need = start + ChunkSize
      BY <1>4, <2>4
    <3>3. \A i \in 1 .. Len(longer) : longer[i] = queue[n + 1 - Len(longer) + i]
      BY <1>7
    <3>4. after.need > 0 => Len(after.rest) = 0
      BY <2>4
    <3>5. Len(longer) # 0
      BY <2>3
    <3> QED
      BY <2>2, <2>3, <2>4, <3>1, <3>2, <3>3, <3>4, <3>5 DEF AfterTurns
  <2> QED
    BY <2>5 DEF after
<1>9. CASE acc.need > 0
  <2>1. /\ acc.rest = <<>> /\ Len(acc.rest) = 0
        /\ acc.head < b.size
        /\ b.first + acc.head = (start + ChunkSize) - acc.need
    <3>1. Len(acc.rest) = 0
      BY <1>9 DEF AfterTurns
    <3> QED
      BY <1>1, <1>2, <3>1 DEF AfterTurns
  <2> DEFINE end == start + ChunkSize
  <2>2. end \in Int /\ b.first + acc.head = end - acc.need
    BY <1>4, <2>1
  <2> HIDE DEF end
  <2>3. CASE left <= acc.need
    <3>1. /\ after \in Turn /\ after.rest = <<>> /\ after.head = 0
          /\ b.first + b.size = end - after.need
      <4>1. acc.need >= b.size - acc.head
        BY <1>2, <1>3, <2>3
      <4> HIDE DEF b
      <4> QED
        BY <1>2, <1>3, <2>1, <2>2, <4>1, PourUsesUp
    <3> HIDE DEF after, b
    <3>2. Len(after.rest) = 0
      BY <3>1
    <3>3. n + 1 < Len(queue) =>
            /\ after.head < queue[(n + 1) + 1].size
            /\ queue[(n + 1) + 1].first + after.head = end - after.need
      <4>1. (n + 1) + 1 = n + 2
        OBVIOUS
      <4> QED
        BY <1>3, <1>5, <3>1, <4>1
    <3>4. AfterTurns(queue, head, n + 1, after)
      BY <3>1, <3>2, <3>3 DEF AfterTurns, end, start, b
    <3> QED
      BY <3>4 DEF after, b
  <2>4. CASE left > acc.need
    <3>1. /\ after \in Turn /\ after.rest = longer /\ after.need = 0
          /\ after.head < b.size /\ b.first + after.head = end
      <4>1. acc.need < b.size - acc.head
        BY <1>2, <1>3, <2>4
      <4> HIDE DEF b
      <4> QED
        BY <1>2, <1>3, <1>9, <2>1, <2>2, <4>1, PourStops
    <3>2. longer[1] = b /\ Len(longer) = 1
      BY <1>6, <2>1
    <3> HIDE DEF after, longer, b
    <3>3. after.head < longer[1].size
          /\ longer[1].first + after.head = end - after.need
      <4>1. end - 0 = end
        BY <2>2
      <4> QED
        BY <3>1, <3>2, <4>1
    <3>4. \A i \in 1 .. Len(longer) : longer[i] = queue[n + 1 - Len(longer) + i]
      BY <1>7
    <3>5. AfterTurns(queue, head, n + 1, after)
      <4>1. Len(longer) <= n + 1 /\ Len(longer) > 0 /\ Len(longer) # 0
        BY <1>1, <3>2
      <4>2. ~(after.need > 0)
        BY <3>1
      <4> QED
        BY <3>1, <3>3, <3>4, <4>1, <4>2 DEF AfterTurns, end, start
    <3> QED
      BY <3>5 DEF after, b
  <2> QED
    BY <1>2, <1>3, <2>3, <2>4
<1> QED
  BY <1>2, <1>8, <1>9

\* After its last turn the loop holds what streamAudio leaves in the queue.
LEMMA AllTurns ==
    ASSUME NEW queue, NEW head \in Nat, Unbroken(queue), Len(queue) > 0,
           head < queue[1].size
    PROVE  AfterTurns(queue, head, Len(queue), Turns(queue, head)[Len(queue)])
<1> DEFINE t == Turns(queue, head)
           S == {n \in Nat : n <= Len(queue) => AfterTurns(queue, head, n, t[n])}
<1>1. Len(queue) \in Nat
  BY DEF Unbroken
<1>2. t[0] = Unpoured(head)
      /\ \A n \in 1 .. Len(queue) : t[n] = Pour(t[n - 1], queue[n])
  BY <1>1, TurnsDefined
<1> HIDE DEF t
<1>3. 0 \in S
  BY <1>2, FirstTurn
<1>4. ASSUME NEW n \in Nat, n \in S PROVE n + 1 \in S
  <2> SUFFICES ASSUME n + 1 <= Len(queue)
               PROVE  AfterTurns(queue, head, n + 1, t[n + 1])
    OBVIOUS
  <2>1. n < Len(queue) /\ n + 1 \in 1 .. Len(queue)
        /\ (n + 1) - 1 = n /\ n <= Len(queue)
    BY <1>1
  <2>2. AfterTurns(queue, head, n, t[n])
    BY <1>4, <2>1
  <2>3. t[n + 1] = Pour(t[n], queue[n + 1])
    BY <1>2, <2>1
  <2> QED
    BY <2>1, <2>2, <2>3, NextTurn
<1> HIDE DEF S
<1>5. Nat \subseteq S
  BY <1>3, <1>4, Induct
<1>6. AfterTurns(queue, head, Len(queue), t[Len(queue)])
  BY <1>1, <1>5 DEF S
<1> QED
  BY <1>6 DEF t

-----------------------------------------------------------------------------
\* What a session holds and where its streaming stands.

DataType ==
    /\ audio_queue \in [Sessions -> Seq(Buffer)]
    /\ headBufferPointer \in [Sessions -> Nat]
    /\ recorded \in [Sessions -> Nat]
    /\ streamed \in [Sessions -> Nat]
    /\ packets \in Nat
    /\ \A c \in Callbacks :
           callback[c].pc \in {"idle", "find"} => callback[c].session = NoSession

\* The queue is what was recorded and not streamed, to the byte.
Backlog(queue, head, in, out) ==
    /\ Unbroken(queue)
    /\ Len(queue) > 0 => /\ head < queue[1].size
                         /\ Front(queue, head) = out
                         /\ queue[Len(queue)].first + queue[Len(queue)].size = in

InStep(s) ==
    loop[s] \in {"none", "sleep", "stream"} =>
        /\ Backlog(audio_queue[s], headBufferPointer[s], recorded[s], streamed[s])
        /\ audio_queue[s] = <<>> /\ ~is_shutting_down[s] =>
               headBufferPointer[s] = 0 /\ recorded[s] = streamed[s]

StreamInv == DataType /\ \A s \in Sessions : InStep(s)

LEMMA StreamInit == Init => StreamInv
<1> SUFFICES ASSUME Init PROVE StreamInv
  OBVIOUS
<1>1. DataType
  BY DEF Init, DataType, Idle
<1>2. ASSUME NEW s \in Sessions PROVE InStep(s)
  <2>1. audio_queue[s] = <<>> /\ headBufferPointer[s] = 0
        /\ recorded[s] = 0 /\ streamed[s] = 0
    BY DEF Init
  <2>2. Backlog(<<>>, 0, 0, 0)
    BY DEF Backlog, Unbroken
  <2> QED
    BY <2>1, <2>2 DEF InStep
<1> QED
  BY <1>1, <1>2 DEF StreamInv

\* A packet that is recorded follows on the last byte of all that was.
LEMMA BacklogGrows ==
    ASSUME NEW queue, NEW head \in Nat, NEW in \in Nat, NEW out \in Nat,
           Backlog(queue, head, in, out),
           queue = <<>> => head = 0 /\ in = out,
           NEW stamp \in Nat, NEW size \in Nat \ {0}
    PROVE  LET b == [stamp |-> stamp, first |-> in, size |-> size] IN
           Backlog(Append(queue, b), head, in + size, out)
<1> DEFINE b == [stamp |-> stamp, first |-> in, size |-> size]
           longer == Append(queue, b)
           n == Len(queue)
<1>1. queue \in Seq(Buffer) /\ n \in Nat
  BY DEF Backlog, Unbroken
<1>2. b \in Buffer /\ b.first = in /\ b.size = size
  BY DEF Buffer
<1> HIDE DEF b
<1>3. /\ longer \in Seq(Buffer) /\ Len(longer) = n + 1 /\ longer[n + 1] = b
      /\ \A i \in 1 .. n : longer[i] = queue[i]
  BY <1>1, <1>2
<1>5. ASSUME NEW i \in 1 .. Len(longer) PROVE longer[i].size > 0
  <2>1. CASE i = n + 1
    BY <1>2, <1>3, <2>1
  <2>2. CASE i # n + 1
    <3>1. i \in 1 .. n
      BY <1>1, <1>3, <2>2
    <3> QED
      BY <1>3, <3>1 DEF Backlog, Unbroken
  <2> QED
    BY <2>1, <2>2
<1>6. ASSUME NEW i \in 1 .. Len(longer) - 1
      PROVE  longer[i + 1].first = longer[i].first + longer[i].size
  <2>0. i \in 1 .. n /\ i \in Nat
    BY <1>1, <1>3
  <2>1. CASE i = n
    <3>1. longer[i + 1] = b /\ longer[i] = queue[n] /\ n > 0
      BY <1>1, <1>3, <2>0, <2>1
    <3>2. queue[n].first + queue[n].size = in
      BY <3>1 DEF Backlog
    <3> QED
      BY <1>2, <3>1, <3>2
  <2>2. CASE i # n
    <3>1. i \in 1 .. n - 1 /\ i + 1 \in 1 .. n
      BY <1>1, <2>0, <2>2
    <3>2. queue[i + 1].first = queue[i].first + queue[i].size
      BY <3>1 DEF Backlog, Unbroken
    <3>3. longer[i + 1] = queue[i + 1] /\ longer[i] = queue[i]
      BY <1>3, <2>0, <3>1
    <3> QED
      BY <3>2, <3>3
  <2> QED
    BY <2>1, <2>2
<1>7. Unbroken(longer)
  BY <1>3, <1>5, <1>6 DEF Unbroken
<1>8. head < longer[1].size /\ longer[1].first + head = out
  <2>1. CASE n = 0
    <3>1. queue = <<>>
      BY <1>1, <2>1
    <3>2. longer[1] = b
      BY <1>3, <2>1
    <3> QED
      BY <1>2, <3>1, <3>2
  <2>2. CASE n > 0
    <3>1. longer[1] = queue[1]
      BY <1>1, <1>3, <2>2
    <3> QED
      BY <2>2, <3>1 DEF Backlog, Front
  <2> QED
    BY <1>1, <2>1, <2>2
<1>9. longer[Len(longer)].first + longer[Len(longer)].size = in + size
  BY <1>2, <1>3
<1> HIDE DEF longer
<1>10. Backlog(longer, head, in + size, out)
  BY <1>7, <1>8, <1>9 DEF Backlog, Front
<1> QED
  BY <1>10 DEF longer, b

\* A chunk that is taken from a backlog leaves one, whose front is as much
\* further as the chunk is long.
LEMMA BacklogPoured ==
    ASSUME NEW queue, NEW head \in Nat, NEW in \in Nat, NEW out \in Nat,
           Backlog(queue, head, in, out), queue # <<>>
    PROVE  LET left == Turns(queue, head)[Len(queue)] IN
           /\ left \in Turn
           /\ Backlog(left.rest, left.head, in, out + (ChunkSize - left.need))
           /\ left.rest = <<>> =>
                left.head = 0 /\ in = out + (ChunkSize - left.need)
<1> DEFINE left == Turns(queue, head)[Len(queue)]
           n == Len(queue)
           rest == left.rest
           m == Len(rest)
           reached == out + (ChunkSize - left.need)
<1>1. queue \in Seq(Buffer) /\ n \in Nat /\ n > 0
  BY DEF Backlog, Unbroken
<1>2. head < queue[1].size /\ Front(queue, head) = out /\ Unbroken(queue)
      /\ queue[n].first + queue[n].size = in
  BY <1>1 DEF Backlog
<1>3. AfterTurns(queue, head, n, left)
  BY <1>1, <1>2, AllTurns
<1> HIDE DEF left
<1>4. left \in Turn /\ rest \in Seq(Buffer) /\ left.need \in 0 .. ChunkSize
      /\ left.head \in Nat /\ m \in Nat /\ ChunkSize \in Nat
  BY <1>3, RecorderAssumption DEF AfterTurns, Turn
<1>5. (out + ChunkSize) - left.need = reached
  BY <1>4
<1>6. /\ m <= n
      /\ \A i \in 1 .. m : rest[i] = queue[n - m + i]
      /\ m > 0 => left.head < rest[1].size /\ rest[1].first + left.head = reached
      /\ m = 0 => left.head = 0 /\ in = reached
  BY <1>2, <1>3, <1>5 DEF AfterTurns
<1> HIDE DEF reached
<1>7. Unbroken(rest)
  <2>1. ASSUME NEW i \in 1 .. m PROVE rest[i].size > 0
    <3>1. n - m + i \in 1 .. n
      BY <1>1, <1>4, <1>6
    <3>2. queue[n - m + i].size > 0
      BY <1>2, <3>1 DEF Unbroken
    <3> QED
      BY <1>6, <3>2
  <2>2. ASSUME NEW i \in 1 .. m - 1
        PROVE  rest[i + 1].first = rest[i].first + rest[i].size
    <3>1. /\ n - m + i \in 1 .. n - 1 /\ i \in 1 .. m /\ i + 1 \in 1 .. m
          /\ n - m + (i + 1) = (n - m + i) + 1
      BY <1>1, <1>4, <1>6
    <3>2. queue[(n - m + i) + 1].first =
            queue[n - m + i].first + queue[n - m + i].size
      BY <1>2, <3>1 DEF Unbroken
    <3>3. rest[i] = queue[n - m + i] /\ rest[i + 1] = queue[n - m + (i + 1)]
      <4> HIDE DEF n, m
      <4> QED
        BY <1>6, <3>1
    <3> QED
      BY <3>1, <3>2, <3>3
  <2> QED
    BY <1>4, <2>1, <2>2 DEF Unbroken
<1>8. m > 0 => rest[m] = queue[n]
  <2> SUFFICES ASSUME m > 0 PROVE rest[m] = queue[n]
    OBVIOUS
  <2>1. m \in 1 .. m /\ n - m + m = n
    BY <1>1, <1>4
  <2> QED
    BY <1>6, <2>1
<1>9. Backlog(rest, left.head, in, reached)
  BY <1>2, <1>6, <1>7, <1>8 DEF Backlog, Front
<1>10. rest = <<>> => m = 0
  BY <1>4
<1> QED
  BY <1>4, <1>6, <1>9, <1>10 DEF left, reached

LEMMA StaysInStep ==
    ASSUME NEW s \in Sessions, InStep(s),
           loop'[s] \in {"none", "sleep", "stream"} =>
               loop[s] \in {"none", "sleep", "stream"},
           is_shutting_down[s] => is_shutting_down'[s],
           audio_queue'[s] = audio_queue[s],
           headBufferPointer'[s] = headBufferPointer[s],
           recorded'[s] = recorded[s], streamed'[s] = streamed[s]
    PROVE  InStep(s)'
BY DEF InStep

\* What the loop of s takes from the queue.
LEMMA TakesChunk ==
    ASSUME Inv, SilenceInv, StreamInv, NEW s \in Sessions,
           loop[s] = "stream", Streamable(s)
    PROVE  /\ Poured(s) \in Turn
           /\ Backlog(Poured(s).rest, Poured(s).head, recorded[s],
                      streamed[s] + (ChunkSize - Poured(s).need))
           /\ Poured(s).rest = <<>> =>
                /\ Poured(s).head = 0
                /\ recorded[s] = streamed[s] + (ChunkSize - Poured(s).need)
<1>1. /\ Backlog(audio_queue[s], headBufferPointer[s], recorded[s], streamed[s])
      /\ audio_queue[s] # <<>>
  BY DEF StreamInv, InStep, Streamable
<1>2. headBufferPointer[s] \in Nat /\ recorded[s] \in Nat /\ streamed[s] \in Nat
  BY DEF StreamInv, DataType
<1> QED
  BY <1>1, <1>2, BacklogPoured DEF Poured

LEMMA LoopKeepsStream ==
    ASSUME Inv, SilenceInv, StreamInv, NEW s \in Sessions, Loop(s)
    PROVE  StreamInv'
<1> USE DEF sessionVars, queueVars, historyVars
<1>1. UNCHANGED <<callback, packets, recorded>>
  BY DEF Loop, LoopWakes, LoopFindsShut, LoopStreams, LoopHasNothing,
         LoopFails, LoopErases, LoopShutsDown
<1>2. loop \in [Sessions -> {"none", "sleep", "stream", "erase", "shutdown",
                             "done"}]
      /\ is_shutting_down \in [Sessions -> BOOLEAN]
  BY DEF Inv, Shape
<1>3. DataType /\ \A t \in Sessions : InStep(t)
  BY DEF StreamInv
<1>4. CASE \/ LoopWakes(s) \/ LoopFindsShut(s) \/ LoopHasNothing(s)
           \/ LoopErases(s)
  <2>1. UNCHANGED <<is_shutting_down, audio_queue, headBufferPointer, streamed>>
    BY <1>4 DEF LoopWakes, LoopFindsShut, LoopHasNothing, LoopErases
  <2>2. DataType'
    BY <1>1, <1>3, <2>1 DEF DataType
  <2>3. ASSUME NEW t \in Sessions PROVE InStep(t)'
    <3>1. loop'[t] \in {"none", "sleep", "stream"} =>
              loop[t] \in {"none", "sleep", "stream"}
      BY <1>2, <1>4 DEF LoopWakes, LoopFindsShut, LoopHasNothing, LoopErases,
                        LoopGoesOn
    <3> QED
      BY <1>1, <1>3, <2>1, <3>1, StaysInStep
  <2> QED
    BY <2>2, <2>3 DEF StreamInv
<1>5. CASE LoopStreams(s) \/ LoopFails(s)
  <2> DEFINE left == Poured(s)
  <2>1. loop[s] = "stream" /\ Streamable(s) /\ TakeChunk(s)
        /\ UNCHANGED is_shutting_down
    BY <1>5 DEF LoopStreams, LoopFails
  <2>2. left \in Turn
    BY <2>1, TakesChunk
  <2>3. /\ Backlog(left.rest, left.head, recorded[s],
                   streamed[s] + (ChunkSize - left.need))
        /\ left.rest = <<>> =>
             left.head = 0 /\ recorded[s] = streamed[s] + (ChunkSize - left.need)
    BY <2>1, TakesChunk
  <2>4. /\ audio_queue' = [audio_queue EXCEPT ![s] = left.rest]
        /\ headBufferPointer' = [headBufferPointer EXCEPT ![s] = left.head]
    BY <2>1 DEF TakeChunk
  <2> HIDE DEF left
  <2>5. /\ left.rest \in Seq(Buffer) /\ left.head \in Nat
        /\ ChunkSize - left.need \in Nat
    BY <2>2, RecorderAssumption DEF Turn
  <2>6. \/ streamed' = [streamed EXCEPT
                          ![s] = streamed[s] + (ChunkSize - left.need)]
        \/ streamed' = streamed /\ loop' = [loop EXCEPT ![s] = "erase"]
    BY <1>5 DEF LoopStreams, LoopFails, left
  <2>7. DataType'
    <3>1. streamed' \in [Sessions -> Nat]
      BY <1>3, <2>5, <2>6 DEF DataType
    <3> QED
      BY <1>1, <1>3, <2>4, <2>5, <3>1 DEF DataType
  <2>8. ASSUME NEW t \in Sessions PROVE InStep(t)'
    <3>1. CASE t # s
      <4>1. loop'[t] = loop[t]
        BY <1>2, <1>5, <3>1 DEF LoopStreams, LoopFails, LoopGoesOn
      <4>2. /\ audio_queue'[t] = audio_queue[t]
            /\ headBufferPointer'[t] = headBufferPointer[t]
            /\ streamed'[t] = streamed[t]
        BY <1>3, <2>4, <2>6, <3>1 DEF DataType
      <4> QED
        BY <1>1, <1>3, <2>1, <4>1, <4>2, StaysInStep
    <3>2. CASE t = s
      <4>1. audio_queue'[s] = left.rest /\ headBufferPointer'[s] = left.head
        BY <1>3, <2>4 DEF DataType
      <4>2. CASE streamed' = [streamed EXCEPT
                                ![s] = streamed[s] + (ChunkSize - left.need)]
        <5>1. streamed'[s] = streamed[s] + (ChunkSize - left.need)
          BY <1>3, <4>2 DEF DataType
        <5> QED
          BY <1>1, <2>3, <3>2, <4>1, <5>1 DEF InStep
      <4>3. CASE loop' = [loop EXCEPT ![s] = "erase"]
        BY <1>2, <3>2, <4>3 DEF InStep
      <4> QED
        BY <2>6, <4>2, <4>3
    <3> QED
      BY <3>1, <3>2
  <2> QED
    BY <2>7, <2>8 DEF StreamInv
<1>6. CASE LoopShutsDown(s)
  <2>1. /\ loop' = [loop EXCEPT ![s] = "done"]
        /\ is_shutting_down' = [is_shutting_down EXCEPT ![s] = TRUE]
        /\ audio_queue' \in {audio_queue, [audio_queue EXCEPT ![s] = <<>>]}
        /\ UNCHANGED <<headBufferPointer, streamed>>
    BY <1>6 DEF LoopShutsDown, Shutdown
  <2>2. DataType'
    <3>1. audio_queue' \in [Sessions -> Seq(Buffer)]
      <4>1. <<>> \in Seq(Buffer)
        OBVIOUS
      <4> HIDE DEF Buffer
      <4> QED
        BY <1>3, <2>1, <4>1 DEF DataType
    <3> QED
      BY <1>1, <1>3, <2>1, <3>1 DEF DataType
  <2>3. ASSUME NEW t \in Sessions PROVE InStep(t)'
    <3>1. CASE t = s
      BY <1>2, <2>1, <3>1 DEF InStep
    <3>2. CASE t # s
      <4>1. /\ loop'[t] = loop[t] /\ is_shutting_down'[t] = is_shutting_down[t]
            /\ audio_queue'[t] = audio_queue[t]
        BY <1>2, <1>3, <2>1, <3>2 DEF DataType
      <4> QED
        BY <1>1, <1>3, <2>1, <4>1, StaysInStep
    <3> QED
      BY <3>1, <3>2
  <2> QED
    BY <2>2, <2>3 DEF StreamInv
<1> QED
  BY <1>4, <1>5, <1>6 DEF Loop

LEMMA RecordKeepsStream ==
    ASSUME Inv, SilenceInv, StreamInv, NEW c \in Callbacks, CallbackRecords(c)
    PROVE  StreamInv'
<1> USE DEF sessionVars, queueVars, historyVars
<1> DEFINE s == callback[c].session
           size == callback[c].size
           b == [stamp |-> now, first |-> recorded[s], size |-> size]
<1>1. s \in Sessions /\ loop[s] # "none" /\ size \in Nat
  BY DEF CallbackRecords, Inv, Shape, CallbackOwn
<1>2. DataType /\ \A t \in Sessions : InStep(t)
  BY DEF StreamInv
<1>3. /\ Return(c)
      /\ UNCHANGED <<is_shutting_down, loop, headBufferPointer, streamed, packets>>
  BY DEF CallbackRecords
<1>4. \A d \in Callbacks :
        callback'[d].pc \in {"idle", "find"} => callback'[d].session = NoSession
  BY <1>2, <1>3 DEF Return, Idle, DataType, Inv, Shape
<1>5. CASE ~Accepts(s, size)
  <2>1. UNCHANGED <<audio_queue, recorded>>
    BY <1>5 DEF CallbackRecords
  <2> QED
    BY <1>2, <1>3, <1>4, <2>1, StaysInStep DEF StreamInv, DataType
<1>6. CASE Accepts(s, size)
  <2>1. /\ audio_queue' = [audio_queue EXCEPT ![s] = Append(audio_queue[s], b)]
        /\ recorded' = [recorded EXCEPT ![s] = recorded[s] + size]
    BY <1>6 DEF CallbackRecords
  <2>2. /\ audio_queue[s] \in Seq(Buffer) /\ recorded[s] \in Nat
        /\ streamed[s] \in Nat /\ headBufferPointer[s] \in Nat
        /\ now \in Nat /\ size \in Nat \ {0}
    BY <1>1, <1>2, <1>6 DEF DataType, SilenceInv, Clock, Accepts
  <2>3. b \in Buffer
    BY <2>2 DEF Buffer
  <2> HIDE DEF s, size
  <2>4. DataType'
    <3>1. Append(audio_queue[s], b) \in Seq(Buffer) /\ recorded[s] + size \in Nat
      BY <2>2, <2>3
    <3> HIDE DEF b
    <3>2. audio_queue' \in [Sessions -> Seq(Buffer)]
          /\ recorded' \in [Sessions -> Nat]
      BY <1>2, <2>1, <3>1 DEF DataType
    <3> QED
      BY <1>2, <1>3, <1>4, <3>2 DEF DataType
  <2>5. ASSUME NEW t \in Sessions PROVE InStep(t)'
    <3>1. CASE t # s
      <4>1. audio_queue'[t] = audio_queue[t] /\ recorded'[t] = recorded[t]
        BY <1>2, <2>1, <3>1 DEF DataType
      <4> QED
        BY <1>2, <1>3, <4>1, StaysInStep
    <3>2. CASE t = s
      <4>1. /\ audio_queue'[s] = Append(audio_queue[s], b)
            /\ recorded'[s] = recorded[s] + size
        BY <1>1, <1>2, <2>1 DEF DataType
      <4>2. audio_queue'[s] # <<>>
        <5> HIDE DEF b
        <5> QED
          BY <2>2, <2>3, <4>1
      <4>3. SUFFICES ASSUME loop[s] \in {"sleep", "stream"}
                     PROVE  Backlog(audio_queue'[s], headBufferPointer[s],
                                    recorded'[s], streamed[s])
        BY <1>1, <1>3, <3>2, <4>2 DEF InStep
      \* A session that is shut down while its loop runs is timed out.
      <4>4. ~is_shutting_down[s]
        <5>1. is_shutting_down[s] => TimedOut(s)
          BY <1>1, <4>3 DEF SilenceInv, Quiet
        <5> QED
          BY <1>1, <1>6, <5>1, RecordsNothingLate DEF SilenceInv
      <4>5. /\ Backlog(audio_queue[s], headBufferPointer[s], recorded[s],
                       streamed[s])
            /\ audio_queue[s] = <<>> =>
                 headBufferPointer[s] = 0 /\ recorded[s] = streamed[s]
        BY <1>1, <1>2, <4>3, <4>4 DEF InStep
      <4> QED
        BY <2>2, <4>1, <4>5, BacklogGrows
    <3> QED
      BY <3>1, <3>2
  <2> QED
    BY <2>4, <2>5 DEF StreamInv
<1> QED
  BY <1>5, <1>6

LEMMA CallbackKeepsStream ==
    ASSUME Inv, SilenceInv, StreamInv, NEW c \in Callbacks, Callback(c)
    PROVE  StreamInv'
<1> USE DEF sessionVars, queueVars, historyVars
<1>1. DataType /\ \A t \in Sessions : InStep(t)
  BY DEF StreamInv
<1>2. CASE CallbackRecords(c)
  BY <1>2, RecordKeepsStream
<1>3. CASE \/ CallbackFinds(c) \/ CallbackDecides(c) \/ CallbackErases(c)
  <2>1. UNCHANGED <<is_shutting_down, loop, audio_queue, headBufferPointer,
                    packets, recorded, streamed>>
    BY <1>3 DEF CallbackFinds, CallbackDecides, CallbackErases
  <2>2. \A d \in Callbacks :
          callback'[d].pc \in {"idle", "find"} => callback'[d].session = NoSession
    <3>1. \A d \in Callbacks : d # c => callback'[d] = callback[d]
      BY <1>3 DEF CallbackFinds, CallbackDecides, CallbackErases, Proceed,
                  Return, Inv, Shape
    <3>2. callback'[c] = Idle
          \/ callback'[c].pc \in {"decide", "record", "erase", "shutdown"}
      BY <1>3 DEF CallbackFinds, CallbackDecides, CallbackErases, Proceed,
                  Return, Inv, Shape
    <3>3. ASSUME NEW d \in Callbacks, callback'[d].pc \in {"idle", "find"}
          PROVE  callback'[d].session = NoSession
      <4>1. CASE d # c
        BY <1>1, <3>1, <3>3, <4>1 DEF DataType
      <4>2. CASE d = c
        BY <3>2, <3>3, <4>2 DEF Idle
      <4> QED
        BY <4>1, <4>2
    <3> QED
      BY <3>3
  <2>3. DataType'
    BY <1>1, <2>1, <2>2 DEF DataType
  <2>4. ASSUME NEW t \in Sessions PROVE InStep(t)'
    BY <1>1, <2>1, StaysInStep
  <2> QED
    BY <2>3, <2>4 DEF StreamInv
<1>4. CASE CallbackShutsDown(c)
  <2> DEFINE s == callback[c].session
  <2>1. s \in Sessions /\ loop[s] # "none"
    BY <1>4 DEF CallbackShutsDown, Inv, CallbackOwn
  <2>2. /\ is_shutting_down' = [is_shutting_down EXCEPT ![s] = TRUE]
        /\ audio_queue' = IF is_shutting_down[s] THEN audio_queue
                          ELSE [audio_queue EXCEPT ![s] = <<>>]
        /\ UNCHANGED <<loop, headBufferPointer, packets, recorded, streamed>>
        /\ Return(c)
    BY <1>4 DEF CallbackShutsDown, Shutdown
  <2> HIDE DEF s
  <2>3. DataType'
    BY <1>1, <2>1, <2>2 DEF DataType, Return, Idle, Inv, Shape
  <2>4. ASSUME NEW t \in Sessions PROVE InStep(t)'
    <3>1. CASE t # s
      <4>1. audio_queue'[t] = audio_queue[t]
            /\ is_shutting_down'[t] = is_shutting_down[t]
        BY <1>1, <2>2, <3>1 DEF DataType, Inv, Shape
      <4> QED
        BY <1>1, <2>2, <4>1, StaysInStep
    <3>2. CASE t = s /\ is_shutting_down[s]
      <4>1. audio_queue'[t] = audio_queue[t] /\ is_shutting_down'[t]
        BY <2>1, <2>2, <3>2 DEF Inv, Shape
      <4> QED
        BY <1>1, <2>2, <4>1, StaysInStep
    <3>3. CASE t = s /\ ~is_shutting_down[s]
      <4>1. audio_queue'[s] = <<>> /\ is_shutting_down'[s]
        BY <1>1, <2>1, <2>2, <3>3 DEF DataType, Inv, Shape
      <4>2. Backlog(<<>>, headBufferPointer'[s], recorded'[s], streamed'[s])
        BY DEF Backlog, Unbroken
      <4> QED
        BY <3>3, <4>1, <4>2 DEF InStep
    <3> QED
      BY <3>1, <3>2, <3>3
  <2> QED
    BY <2>3, <2>4 DEF StreamInv
<1> QED
  BY <1>2, <1>3, <1>4 DEF Callback

LEMMA StreamKeeps == Inv /\ SilenceInv /\ StreamInv /\ [Next]_vars => StreamInv'
<1> SUFFICES ASSUME Inv, SilenceInv, StreamInv, [Next]_vars PROVE StreamInv'
  OBVIOUS
<1> USE DEF sessionVars, queueVars, historyVars
<1>0. DataType /\ \A t \in Sessions : InStep(t)
  BY DEF StreamInv
<1>1. CASE UNCHANGED vars \/ TimePasses
  <2>1. UNCHANGED <<is_shutting_down, loop, audio_queue, headBufferPointer,
                    packets, recorded, streamed, callback>>
    BY <1>1 DEF vars, TimePasses
  <2>2. DataType'
    BY <1>0, <2>1 DEF DataType
  <2> QED
    BY <1>0, <2>1, <2>2, StaysInStep DEF StreamInv
<1>2. ASSUME NEW u \in Users, NEW s \in Sessions, StartSession(u, s)
      PROVE  StreamInv'
  <2>1. /\ UNCHANGED <<is_shutting_down, audio_queue, headBufferPointer,
                       packets, recorded, streamed, callback>>
        /\ loop[s] = "none" /\ loop' = [loop EXCEPT ![s] = "sleep"]
    BY <1>2 DEF StartSession
  <2>2. DataType'
    BY <1>0, <2>1 DEF DataType
  <2>3. ASSUME NEW t \in Sessions PROVE InStep(t)'
    <3>1. loop'[t] \in {"none", "sleep", "stream"} =>
              loop[t] \in {"none", "sleep", "stream"}
      BY <2>1 DEF Inv, Shape
    <3> QED
      BY <1>0, <2>1, <3>1, StaysInStep
  <2> QED
    BY <2>2, <2>3 DEF StreamInv
<1>3. ASSUME NEW c \in Callbacks, NEW u \in Users, NEW size \in PacketSizes,
             VoiceReceive(c, u, size)
      PROVE  StreamInv'
  <2>1. /\ UNCHANGED <<is_shutting_down, loop, audio_queue, headBufferPointer,
                       recorded, streamed>>
        /\ packets' \in {packets, packets + 1}
        /\ callback' = [callback EXCEPT ![c] = [pc |-> "find", user |-> u,
                                                session |-> NoSession,
                                                size |-> size]]
    BY <1>3 DEF VoiceReceive
  <2>2. DataType'
    BY <1>0, <2>1 DEF DataType, Inv, Shape
  <2> QED
    BY <1>0, <2>1, <2>2, StaysInStep DEF StreamInv
<1> QED
  BY <1>1, <1>2, <1>3, LoopKeepsStream, CallbackKeepsStream DEF Next

\* For any durations, delays, sizes and number of packets in flight: the next
\* byte to stream is the first one not streamed yet, wherever the chunks cut
\* the packets, and an empty queue means that all was streamed.
THEOREM StreamedInOrder == Spec => []StreamsInOrder
<1>1. StreamInv => StreamsInOrder
  <2> SUFFICES ASSUME StreamInv, NEW s \in Sessions,
                      loop[s] \in {"sleep", "stream"}
               PROVE  /\ audio_queue[s] # <<>> =>
                           Head(audio_queue[s]).first + headBufferPointer[s]
                             = streamed[s]
                      /\ audio_queue[s] = <<>> /\ ~is_shutting_down[s] =>
                           recorded[s] = streamed[s]
    BY DEF StreamsInOrder
  <2>1. audio_queue[s] \in Seq(Buffer) /\ InStep(s)
    BY DEF StreamInv, DataType
  <2>2. audio_queue[s] # <<>> =>
          Len(audio_queue[s]) > 0 /\ Head(audio_queue[s]) = audio_queue[s][1]
    BY <2>1
  <2> QED
    BY <2>1, <2>2 DEF InStep, Backlog, Front
<1> QED
  BY <1>1, InvInit, InvNext, SilenceInit, SilenceKeeps, StreamInit, StreamKeeps,
     PTL DEF Spec

\* While the loop runs, no byte is lost or repeated: the queue holds, without
\* a gap, from the first byte that was not streamed to the last one recorded.
QueuesAreBacklogs ==
    \A s \in Sessions : loop[s] \in {"sleep", "stream"} =>
        Backlog(audio_queue[s], headBufferPointer[s], recorded[s], streamed[s])

\* For any durations, delays, sizes and number of packets in flight: what
\* recordAudio appends and streamAudio takes off leaves the bytes in between.
THEOREM NothingIsLost == Spec => []QueuesAreBacklogs
<1>1. StreamInv => QueuesAreBacklogs
  BY DEF StreamInv, InStep, QueuesAreBacklogs
<1> QED
  BY <1>1, InvInit, InvNext, SilenceInit, SilenceKeeps, StreamInit, StreamKeeps,
     PTL DEF Spec

\* The sessions, queues and packets are of the program's types: no read
\* position and no number of bytes falls below zero, and a packet beyond its
\* lookup has a user and a session.
THEOREM TypeCorrect == Spec => []TypeOK
<1>1. Inv /\ SilenceInv /\ StreamInv => TypeOK
  <2> SUFFICES ASSUME Inv, SilenceInv, StreamInv PROVE TypeOK
    OBVIOUS
  <2>1. ASSUME NEW c \in Callbacks PROVE callback[c] \in Packet
    <3> DEFINE p == callback[c]
    <3>1. /\ p = [pc |-> p.pc, user |-> p.user, session |-> p.session,
                  size |-> p.size]
          /\ p.pc \in {"idle", "find", "decide", "record", "erase", "shutdown"}
          /\ p.user \in Users \cup {NoUser} /\ p.size \in Nat
      BY DEF Inv, Shape
    <3>2. /\ p.pc \in {"idle", "find"} => p.session = NoSession
          /\ p.pc \notin {"idle", "find"} =>
               p.user \in Users /\ p.session \in Sessions
      BY <3>1 DEF Inv, CallbackOwn, StreamInv, DataType
    <3> HIDE DEF p
    <3>3. p \in Packet
      BY <3>1, <3>2 DEF Packet
    <3> QED
      BY <3>3 DEF p
  <2>2. DOMAIN callback = Callbacks /\ callback = [c \in Callbacks |-> callback[c]]
    BY DEF Inv, Shape
  <2>3. callback \in [Callbacks -> Packet]
    BY <2>1, <2>2
  <2> QED
    BY <2>3 DEF TypeOK, Inv, Shape, SilenceInv, Clock, StreamInv, DataType
<1> QED
  BY <1>1, InvInit, InvNext, SilenceInit, SilenceKeeps, StreamInit, StreamKeeps,
     PTL DEF Spec

===============================================================================
