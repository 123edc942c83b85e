-------------------------- MODULE Supervision_proofs --------------------------
(***************************************************************************)
(* Proofs about the watchdog and the thread dump, for any intervals.       *)
(***************************************************************************)
EXTENDS Supervision, FiniteSetTheorems, TLAPS

(***************************************************************************)
(* The thread dump                                                         *)
(***************************************************************************)
Places == {"idle", "signalled", "loaded", "tracing", "traced", "returned"}
Files == [traces : SUBSET Dump!Dumpers, tail : BOOLEAN, open : BOOLEAN]

NobodyAsked == sent = {} /\ \A t \in Threads : peer[t] = "idle"
Returned == {t \in Threads : peer[t] = "returned"}

\* While the dispatcher signals and waits, the acknowledgements are those of
\* threads whose traces are in the file.
Counting ==
    /\ file.open /\ g_dump_fd /\ "main" \in file.traces
    /\ \A t \in Threads :
         peer[t] \in {"traced", "returned"} => t \in file.traces
    /\ g_dump_acks = Cardinality(Returned)

\* What the file says once the dispatcher no longer counts.
Told ==
    \/ file.tail \/ sent \cup {"main"} \subseteq file.traces
    \/ file.traces = {} /\ NobodyAsked

DumpInv ==
    /\ sent \subseteq Threads /\ peer \in [Threads -> Places] /\ file \in Files
    /\ dispatcher \in {"idle", "opened", "tracing", "traced"} => NobodyAsked
    /\ \A t \in Threads : t \notin sent => peer[t] = "idle"
    /\ dispatcher = "idle" => file.traces = {}
    /\ dispatcher \in {"opened", "tracing", "traced"} => file.open
    /\ dispatcher = "traced" => "main" \in file.traces
    /\ dispatcher \in {"signalling", "waiting"} => Counting
    /\ dispatcher \in {"unpublish", "closing", "returned"} => Told

LEMMA FreshInv ==
    ASSUME Dump!Fresh(dispatcher, sent, peer, g_dump_fd, g_dump_acks,
                      g_dump_mutex, file)
    PROVE  DumpInv
<1>1. /\ dispatcher = "idle" /\ sent = {} /\ peer = [t \in Threads |-> "idle"]
      /\ file = [traces |-> {}, tail |-> FALSE, open |-> FALSE]
  BY DEF Dump!Fresh
<1> QED
  BY <1>1 DEF DumpInv, NobodyAsked, Places, Files

LEMMA FileFlags ==
    ASSUME file \in Files
    PROVE  /\ file' = [file EXCEPT !.open = TRUE] =>
                file' \in Files /\ file'.open /\ file'.traces = file.traces
           /\ file' = [file EXCEPT !.open = FALSE] =>
                /\ file' \in Files
                /\ file'.tail = file.tail /\ file'.traces = file.traces
           /\ file' = [file EXCEPT !.tail = TRUE] =>
                file' \in Files /\ file'.tail
BY DEF Files

LEMMA FileTraces ==
    ASSUME file \in Files, NEW t \in Dump!Dumpers, Dump!Traces(t)
    PROVE  /\ file' \in Files
           /\ file'.open = file.open /\ file'.tail = file.tail
           /\ file'.traces = IF file.open THEN file.traces \cup {t}
                             ELSE file.traces
<1>1. file' = [file EXCEPT !.traces = IF file.open THEN file.traces \cup {t}
                                     ELSE file.traces]
  BY DEF Dump!Traces
<1> QED
  BY <1>1 DEF Files

LEMMA ThreadsFinite == IsFiniteSet(Threads)
<1>1. IsFiniteSet({"gateway"}) /\ IsFiniteSet({"gateway"} \cup {"pool"})
  BY FS_Singleton, FS_AddElement
<1>2. Threads = {"gateway"} \cup {"pool"}
  BY DEF Threads
<1> QED
  BY <1>1, <1>2

\* As many acknowledgements as signals are the traces of all who got one.
LEMMA AllTraced ==
    ASSUME DumpInv, dispatcher = "waiting", Dump!AllAcked
    PROVE  sent \cup {"main"} \subseteq file.traces
<1>1. Counting /\ IsFiniteSet(sent)
  BY ThreadsFinite, FS_Subset DEF DumpInv
<1>2. Returned \subseteq sent
  BY DEF DumpInv, Returned
<1>3. /\ Cardinality(Returned) \in Nat /\ Cardinality(sent) \in Nat
      /\ Cardinality(Returned) <= Cardinality(sent)
  BY <1>1, <1>2, FS_Subset, FS_CardinalityType
<1>4. Cardinality(Returned) = Cardinality(sent)
  <2>1. Dump!Cardinality(sent) = Cardinality(sent)
    BY DEF Dump!Cardinality, Cardinality
  <2>2. g_dump_acks >= Cardinality(sent)
    BY <2>1 DEF Dump!AllAcked
  <2> QED
    BY <1>1, <1>3, <2>2 DEF Counting
<1>5. Returned = sent
  BY <1>1, <1>2, <1>4, FS_Subset
<1> QED
  BY <1>1, <1>5 DEF Returned, Counting

LEMMA ThreadsDump == Dump!Dumpers = Threads \cup {"main"}
BY DEF Dump!Dumpers

LEMMA DispatchKeeps ==
    ASSUME DumpInv, Dump!Opens \/ Dump!Dispatch
    PROVE  DumpInv'
<1> USE DEF Dump!At
<1>0. /\ file \in Files /\ peer \in [Threads -> Places] /\ sent \subseteq Threads
      /\ "main" \in Dump!Dumpers
  BY ThreadsDump DEF DumpInv
<1>1. CASE Dump!Opens
  <2>1. file' = [file EXCEPT !.open = TRUE] \/ file' = file
    BY <1>1 DEF Dump!Opens
  <2>2. file' \in Files /\ file'.traces = file.traces
    BY <1>0, <2>1, FileFlags
  <2>3. dispatcher' = "opened" => file'.open
    BY <1>0, <1>1, FileFlags DEF Dump!Opens
  <2> QED
    BY <1>1, <2>2, <2>3 DEF Dump!Opens, DumpInv, NobodyAsked, Told
<1>2. CASE Dump!LocksForSelf \/ Dump!Unpublishes
  BY <1>2 DEF Dump!LocksForSelf, Dump!Unpublishes, DumpInv, NobodyAsked, Told
<1>3. CASE Dump!TracesSelf
  <2>1. file.open /\ Dump!Traces("main")
    BY <1>3 DEF Dump!TracesSelf, DumpInv
  <2>2. /\ file' \in Files /\ file'.open
        /\ file'.traces = file.traces \cup {"main"}
    BY <1>0, <2>1, FileTraces
  <2> QED
    BY <1>3, <2>2 DEF Dump!TracesSelf, DumpInv, NobodyAsked
<1>4. CASE Dump!Publishes
  <2>1. NobodyAsked /\ file.open /\ "main" \in file.traces
    BY <1>4 DEF Dump!Publishes, DumpInv
  <2>2. Returned' = {}
    BY <1>4, <2>1 DEF Dump!Publishes, NobodyAsked, Returned
  <2>3. Cardinality(Returned') = 0
    BY <2>2, FS_EmptySet
  <2>4. Counting'
    BY <1>4, <2>1, <2>3 DEF Dump!Publishes, NobodyAsked, Counting
  <2> QED
    BY <1>4, <2>4 DEF Dump!Publishes, DumpInv
<1>5. ASSUME NEW t \in Threads, Dump!Signals(t)
      PROVE  DumpInv'
  <2>1. /\ peer' = [peer EXCEPT ![t] = "signalled"]
        /\ UNCHANGED <<g_dump_fd, g_dump_acks, file>>
        /\ dispatcher = "signalling" /\ dispatcher' = "signalling"
        /\ sent' = sent \cup {t}
    BY <1>5 DEF Dump!Signals
  <2>2. t \notin sent /\ peer[t] = "idle"
    BY <1>5 DEF Dump!Signals, DumpInv
  <2>3. Returned' = Returned
    BY <1>0, <2>1, <2>2 DEF Returned
  <2>4. Counting'
    BY <1>0, <2>1, <2>3 DEF DumpInv, Counting
  <2> QED
    BY <1>0, <2>1, <2>4 DEF DumpInv, Places
<1>6. CASE Dump!BroadcastEnds
  <2>1. Counting /\ Counting'
    BY <1>6 DEF Dump!BroadcastEnds, DumpInv, Counting, Returned
  <2> QED
    BY <1>6, <2>1 DEF Dump!BroadcastEnds, DumpInv
<1>7. CASE Dump!StopsWaiting
  <2>1. Dump!AllAcked => Told'
    BY <1>7, AllTraced DEF Dump!StopsWaiting, Told
  <2> QED
    BY <1>7, <2>1 DEF Dump!StopsWaiting, DumpInv
<1>8. CASE Dump!WritesTail
  <2>1. file' \in Files /\ file'.tail
    BY <1>0, <1>8, FileFlags DEF Dump!WritesTail
  <2> QED
    BY <1>8, <2>1 DEF Dump!WritesTail, DumpInv, Told
<1>9. CASE Dump!Closes
  <2>1. /\ file' \in Files /\ file'.tail = file.tail
        /\ file'.traces = file.traces
    BY <1>0, <1>9, FileFlags DEF Dump!Closes
  <2> QED
    BY <1>9, <2>1 DEF Dump!Closes, DumpInv, Told, NobodyAsked
<1> QED
  BY <1>1, <1>2, <1>3, <1>4, <1>5, <1>6, <1>7, <1>8, <1>9 DEF Dump!Dispatch

LEMMA AnswerKeeps ==
    ASSUME DumpInv, NEW t \in Threads, Dump!Answer(t)
    PROVE  DumpInv'
<1>0. /\ file \in Files /\ peer \in [Threads -> Places] /\ sent \subseteq Threads
      /\ t \in Dump!Dumpers
  BY ThreadsDump DEF DumpInv
<1>1. /\ UNCHANGED <<dispatcher, sent>>
      /\ peer[t] # "idle"
      /\ \E p \in Places : p # "idle" /\ peer' = [peer EXCEPT ![t] = p]
  BY DEF Dump!Answer, Dump!Loads, Dump!ComesTooLate, Dump!PeerLocks,
     Dump!PeerTraces, Dump!PeerAcks, Dump!PeerAt, Places
<1>2. /\ peer' \in [Threads -> Places] /\ t \in sent /\ ~NobodyAsked
      /\ \A u \in Threads : u # t => peer'[u] = peer[u]
  BY <1>0, <1>1 DEF DumpInv, NobodyAsked
<1>3. \/ file' = file
      \/ /\ file' \in Files /\ file'.tail = file.tail /\ file'.open = file.open
         /\ file.traces \subseteq file'.traces
         /\ file'.traces \subseteq Dump!Dumpers
  <2>1. file' = file \/ Dump!Traces(t)
    BY DEF Dump!Answer, Dump!Loads, Dump!ComesTooLate, Dump!PeerLocks,
       Dump!PeerTraces, Dump!PeerAcks
  <2>2. CASE Dump!Traces(t)
    <3>1. file' \in Files => file'.traces \subseteq Dump!Dumpers
      BY DEF Files
    <3> QED
      BY <1>0, <2>2, <3>1, FileTraces
  <2> QED
    BY <2>1, <2>2
<1>4. ASSUME Counting PROVE Counting'
  <2>1. CASE Dump!Loads(t) \/ Dump!PeerLocks(t)
    <3>1. /\ UNCHANGED <<g_dump_fd, g_dump_acks, file>>
          /\ peer[t] \in {"signalled", "loaded"}
          /\ peer'[t] \in {"loaded", "tracing"}
      BY <1>0, <2>1 DEF Dump!Loads, Dump!PeerLocks, Dump!PeerAt
    <3>2. Returned' = Returned
      BY <1>2, <3>1 DEF Returned
    <3> QED
      BY <1>2, <1>4, <3>1, <3>2 DEF Counting
  <2>2. CASE Dump!PeerTraces(t)
    <3>1. /\ UNCHANGED <<g_dump_fd, g_dump_acks>> /\ Dump!Traces(t)
          /\ peer[t] = "tracing" /\ peer'[t] = "traced"
      BY <1>0, <2>2 DEF Dump!PeerTraces, Dump!PeerAt
    <3>2. file'.open /\ file'.traces = file.traces \cup {t}
      BY <1>0, <1>4, <3>1, FileTraces DEF Counting
    <3>3. Returned' = Returned
      BY <1>2, <3>1 DEF Returned
    <3> QED
      BY <1>2, <1>4, <3>1, <3>2, <3>3 DEF Counting
  <2>3. CASE Dump!PeerAcks(t)
    <3>1. /\ UNCHANGED <<g_dump_fd, file>> /\ g_dump_acks' = g_dump_acks + 1
          /\ peer[t] = "traced" /\ peer'[t] = "returned"
      BY <1>0, <2>3 DEF Dump!PeerAcks, Dump!PeerAt
    <3>2. Returned' = Returned \cup {t} /\ t \notin Returned
      BY <1>2, <3>1 DEF Returned
    <3>3. IsFiniteSet(Returned)
      BY ThreadsFinite, FS_Subset DEF Returned
    <3>4. Cardinality(Returned') = Cardinality(Returned) + 1
      BY <3>2, <3>3, FS_AddElement
    <3> QED
      BY <1>2, <1>4, <3>1, <3>4 DEF Counting
  <2>4. ~Dump!ComesTooLate(t)
    BY <1>4 DEF Counting, Dump!ComesTooLate
  <2> QED
    BY <2>1, <2>2, <2>3, <2>4 DEF Dump!Answer
<1>5. dispatcher \in {"unpublish", "closing", "returned"} => Told'
  BY <1>1, <1>2, <1>3 DEF DumpInv, Told
<1> QED
  BY <1>1, <1>2, <1>3, <1>4, <1>5 DEF DumpInv

\* A dump that was closed without the line that threads did not respond has the
\* trace of every thread that a signal reached, wherever each of them is slow or
\* stops for good, whichever the broadcast misses, and in whatever state the bot
\* is killed or started again (CrashHandler.cpp:115-193).
THEOREM DumpsTellAll == SupervisedSpec => []DumpTellsAll
<1>1. SupervisedInit => DumpInv
  BY FreshInv DEF SupervisedInit, Dump!Init
<1>2. DumpInv /\ [SupervisedNext]_supervisedVars => DumpInv'
  <2> SUFFICES ASSUME DumpInv, [SupervisedNext]_supervisedVars PROVE DumpInv'
    OBVIOUS
  <2>1. CASE UNCHANGED dumpVars
    BY <2>1 DEF dumpVars, DumpInv, NobodyAsked, Counting, Returned, Told
  <2>2. CASE Dump!Fresh(dispatcher', sent', peer', g_dump_fd', g_dump_acks',
                        g_dump_mutex', file')
    <3>1. /\ dispatcher' = "idle" /\ sent' = {}
          /\ peer' = [t \in Threads |-> "idle"]
          /\ file' = [traces |-> {}, tail |-> FALSE, open |-> FALSE]
      BY <2>2 DEF Dump!Fresh
    <3> QED
      BY <3>1 DEF DumpInv, NobodyAsked, Places, Files
  <2>3. SupervisedNext => \/ UNCHANGED dumpVars \/ Dump!Opens \/ Dump!Dispatch
                          \/ \E t \in Threads : Dump!Answer(t)
                          \/ Dump!Fresh(dispatcher', sent', peer', g_dump_fd',
                                        g_dump_acks', g_dump_mutex', file')
    BY DEF SupervisedNext, WatchdogGoesOn, DumpGoesOn, AsksForDump, DumpDies
  <2> QED
    BY <2>1, <2>2, <2>3, DispatchKeeps, AnswerKeeps DEF supervisedVars
<1>3. DumpInv => DumpTellsAll
  BY DEF DumpInv, Told, DumpTellsAll, Dump!DumpTellsAll
<1> QED
  BY <1>1, <1>2, <1>3, PTL DEF SupervisedSpec

(***************************************************************************)
(* The mutex of the dump                                                   *)
(***************************************************************************)
HeldByTracer ==
    /\ peer \in [Threads -> Places]
    /\ \A t \in Threads : peer[t] = "tracing" => g_dump_mutex = {t}
    /\ dispatcher = "tracing" => g_dump_mutex = {"main"}

TracesInTurn ==
    \A t \in Threads : peer[t] = "tracing" =>
        /\ dispatcher # "tracing"
        /\ \A u \in Threads : peer[u] = "tracing" => u = t

LEMMA FreshHeld ==
    ASSUME Dump!Fresh(dispatcher, sent, peer, g_dump_fd, g_dump_acks,
                      g_dump_mutex, file)
    PROVE  HeldByTracer
BY DEF Dump!Fresh, HeldByTracer, Places

LEMMA DispatchHolds ==
    ASSUME HeldByTracer, Dump!Opens \/ Dump!Dispatch
    PROVE  HeldByTracer'
<1> USE DEF HeldByTracer, Dump!At
<1>1. "main" \notin Threads
  BY DEF Threads
<1>2. CASE Dump!TracesSelf
  <2>1. \A t \in Threads : peer[t] # "tracing"
    BY <1>1, <1>2 DEF Dump!TracesSelf
  <2> QED
    BY <1>2, <2>1 DEF Dump!TracesSelf
<1>3. CASE Dump!LocksForSelf
  BY <1>3 DEF Dump!LocksForSelf, Dump!Locks
<1>4. ASSUME NEW t \in Threads, Dump!Signals(t)
      PROVE  HeldByTracer'
  BY <1>4 DEF Dump!Signals, Places
<1> QED
  BY <1>2, <1>3, <1>4
     DEF Dump!Opens, Dump!Dispatch, Dump!Publishes, Dump!BroadcastEnds,
         Dump!StopsWaiting, Dump!WritesTail, Dump!Unpublishes, Dump!Closes

LEMMA AnswerHolds ==
    ASSUME HeldByTracer, NEW t \in Threads, Dump!Answer(t)
    PROVE  HeldByTracer'
<1> USE DEF HeldByTracer, Dump!PeerAt, Places
<1>1. CASE Dump!PeerLocks(t)
  BY <1>1 DEF Dump!PeerLocks, Dump!Locks
<1>2. CASE Dump!PeerTraces(t)
  <2>1. t # "main"
    BY DEF Threads
  <2>2. /\ \A u \in Threads : u # t => peer[u] # "tracing"
        /\ dispatcher # "tracing"
    BY <1>2, <2>1 DEF Dump!PeerTraces
  <2> QED
    BY <1>2, <2>2 DEF Dump!PeerTraces
<1>3. CASE Dump!Loads(t) \/ Dump!ComesTooLate(t) \/ Dump!PeerAcks(t)
  BY <1>3 DEF Dump!Loads, Dump!ComesTooLate, Dump!PeerAcks
<1> QED
  BY <1>1, <1>2, <1>3 DEF Dump!Answer

\* No two threads write their traces at once, the dispatcher included, and a
\* trace that ends releases its own lock only (CrashHandler.cpp:75-88).
THEOREM TracesAreInTurn == SupervisedSpec => []TracesInTurn
<1>1. SupervisedInit => HeldByTracer
  BY FreshHeld DEF SupervisedInit, Dump!Init
<1>2. HeldByTracer /\ [SupervisedNext]_supervisedVars => HeldByTracer'
  <2> SUFFICES ASSUME HeldByTracer, [SupervisedNext]_supervisedVars
               PROVE  HeldByTracer'
    OBVIOUS
  <2>1. CASE UNCHANGED dumpVars
    BY <2>1 DEF dumpVars, HeldByTracer
  <2>2. CASE Dump!Fresh(dispatcher', sent', peer', g_dump_fd', g_dump_acks',
                        g_dump_mutex', file')
    BY <2>2 DEF Dump!Fresh, HeldByTracer, Places
  <2>3. SupervisedNext => \/ UNCHANGED dumpVars \/ Dump!Opens \/ Dump!Dispatch
                          \/ \E t \in Threads : Dump!Answer(t)
                          \/ Dump!Fresh(dispatcher', sent', peer', g_dump_fd',
                                        g_dump_acks', g_dump_mutex', file')
    BY DEF SupervisedNext, WatchdogGoesOn, DumpGoesOn, AsksForDump, DumpDies
  <2> QED
    BY <2>1, <2>2, <2>3, DispatchHolds, AnswerHolds DEF supervisedVars
<1>3. HeldByTracer => TracesInTurn
  BY DEF HeldByTracer, TracesInTurn, Threads
<1> QED
  BY <1>1, <1>2, <1>3, PTL DEF SupervisedSpec

(***************************************************************************)
(* The watchdogs                                                           *)
(***************************************************************************)
\* The file of a thread that runs is fresh if it could be written; a watchdog
\* about to start its bot has none.
BeatsFresh ==
    /\ \A w \in Watchdogs : bot[w] = "up" =>
         \A t \in Threads : t \notin hung[w] \cup unwritten => age[t] = 0
    /\ \A w \in Watchdogs :
         wpc[w] \in {"unborn", "loop", "backoff"} => ~Alive(w)

\* A deploy that has stopped the first watchdog: told to stop, then without a
\* bot, before the second one is there.
Succession ==
    /\ wpc[1] # "unborn"
    /\ \A w \in Watchdogs : w # 1 /\ wpc[w] = "unborn" /\ Running(1) =>
         pidfile = 1
    /\ deploy \in {"killed", "sleep"} /\ Running(1) => term[1]
    /\ deploy = "sleep" => ~Alive(1)
    /\ \A w \in Watchdogs : w # 1 /\ wpc[w] # "unborn" =>
         /\ Running(1) => term[1]
         /\ ~Alive(1)

WatchInv == TypeOK /\ BeatsFresh /\ Succession

\* What the bot does concerns the bot only, and brings none to life.
LEMMA BotMoves ==
    ASSUME TypeOK, NEW w \in Watchdogs, Bot(w)
    PROVE  /\ UNCHANGED <<shellVars, monitorVars, deployVars>>
           /\ bot' \in [Watchdogs -> {"none", "starting", "up", "dead"}]
           /\ hung' \in [Watchdogs -> SUBSET Threads]
           /\ \A v \in Watchdogs : Alive(v)' => Alive(v)
<1> USE DEF TypeOK, Alive
<1>1. CASE BotStarts(w)
  BY <1>1 DEF BotStarts
<1>2. CASE BotExits(w)
  BY <1>2 DEF BotExits, BotsEnd
<1>3. ASSUME NEW t \in Threads, BotHangs(w, t) \/ BotRecovers(w, t)
      PROVE  /\ UNCHANGED <<shellVars, monitorVars, deployVars, bot>>
             /\ hung' \in [Watchdogs -> SUBSET Threads]
  BY <1>3 DEF BotHangs, BotRecovers
<1>4. Bot(w) => \/ BotStarts(w) \/ BotExits(w)
                \/ \E t \in Threads : BotHangs(w, t) \/ BotRecovers(w, t)
  BY DEF Bot
<1> QED
  BY <1>1, <1>2, <1>3, <1>4

\* What a write leaves: who was to write and did has a fresh file, and the
\* files of the others are as old as they are.
LEMMA AfterBeats ==
    ASSUME TypeOK, NEW ts \in SUBSET Threads, NEW passed \in Nat,
           WriteHeartbeats(ts, passed)
    PROVE  /\ age' \in [Threads -> 0 .. Stale] /\ unwritten' \subseteq Threads
           /\ \A t \in ts : t \notin unwritten' => age'[t] = 0
           /\ \A t \in Threads \ ts :
                /\ t \in unwritten' <=> t \in unwritten
                /\ age'[t] = Least(Stale, age[t] + passed)
           /\ passed = 0 =>
                \A t \in Threads \ ts : age'[t] = age[t]
<1>1. PICK failed \in SUBSET ts :
        /\ unwritten' = (unwritten \ ts) \cup failed
        /\ age' = [t \in Threads |-> IF t \in ts \ failed THEN 0
                                    ELSE Least(Stale, age[t] + passed)]
  BY DEF WriteHeartbeats
<1>2. \A t \in Threads : /\ age[t] \in 0 .. Stale
                         /\ Least(Stale, age[t] + passed) \in 0 .. Stale
                         /\ passed = 0 => Least(Stale, age[t] + passed) = age[t]
  BY WatchdogAssumption DEF TypeOK, Least
<1>3. 0 \in 0 .. Stale /\ unwritten \subseteq Threads
  BY WatchdogAssumption DEF TypeOK
<1> QED
  BY <1>1, <1>2, <1>3

LEMMA WatchTypeKept ==
    ASSUME TypeOK, [Next]_vars
    PROVE  TypeOK'
<1> USE WatchdogAssumption DEF TypeOK
<1>1. CASE UNCHANGED vars
  BY <1>1 DEF vars, shellVars, monitorVars, botVars, deployVars
<1>2. CASE Tick
  <2>1. age' \in [Threads -> 0 .. Stale] /\ unwritten' \subseteq Threads
    BY <1>2, AfterBeats DEF Tick, Beating
  <2> QED
    BY <1>2, <2>1 DEF Tick, Least, Most, LongUptime
<1>3. CASE DeployKills
  BY <1>3 DEF DeployKills, monitorVars, botVars
<1>3a. CASE DeployPkills
  BY <1>3a DEF DeployPkills, BotsEnd, shellVars, monitorVars
<1>3b. CASE DeployStarts
  BY <1>3b DEF DeployStarts, Unborn, monitorVars, botVars
<1>4. ASSUME NEW w \in Watchdogs, StartBot(w)
      PROVE  TypeOK'
  <2>1. 0 \in 0 .. LongUptime /\ Stale \in 0 .. Stale
    BY DEF LongUptime, Most
  <2> QED
    BY <1>4, <2>1 DEF StartBot, monitorVars, deployVars
<1>4a. ASSUME NEW w \in Watchdogs, KeepPid(w)
       PROVE  TypeOK'
  <2>1. Check \in 0 .. Check
    OBVIOUS
  <2> QED
    BY <1>4a, <2>1 DEF KeepPid, botVars, deployVars
<1>4c. ASSUME NEW w \in Watchdogs, Restart(w)
       PROVE  TypeOK'
  BY <1>4c DEF Restart, monitorVars, botVars, deployVars
<1>4b. ASSUME NEW w \in Watchdogs, Shutdown(w)
       PROVE  TypeOK'
  BY <1>4b DEF Shutdown, BotsEnd, NoFile
<1>5. ASSUME NEW w \in Watchdogs, Reap(w)
      PROVE  TypeOK'
  <2>1. Backoff(w) \in BackoffStart .. BackoffMax
    BY DEF Backoff
  <2>2. Doubled(Backoff(w)) \in BackoffStart .. BackoffMax
    BY <2>1 DEF Doubled, Least
  <2> QED
    BY <1>5, <2>1, <2>2 DEF Reap, botVars, deployVars
<1>6. ASSUME NEW w \in Watchdogs, Monitor(w)
      PROVE  TypeOK'
  BY <1>6 DEF Monitor, MonitorPasses, MonitorAsksForDump, MonitorTerminates,
     BotsEnd, shellVars, botVars, deployVars
<1>7. ASSUME NEW w \in Watchdogs, Bot(w)
      PROVE  TypeOK'
  <2>1. age' \in [Threads -> 0 .. Stale] /\ unwritten' \subseteq Threads
    <3>1. CASE BotStarts(w)
      BY <3>1, AfterBeats DEF BotStarts
    <3>2. ASSUME NEW t \in Threads, BotRecovers(w, t)
          PROVE  age' \in [Threads -> 0 .. Stale] /\ unwritten' \subseteq Threads
      BY <3>2, AfterBeats DEF BotRecovers
    <3>3. BotExits(w) \/ (\E t \in Threads : BotHangs(w, t)) =>
            age' = age /\ unwritten' \subseteq unwritten
      BY DEF BotExits, BotHangs
    <3> QED
      BY <1>7, <3>1, <3>2, <3>3 DEF Bot
  <2> QED
    BY <1>7, <2>1, BotMoves DEF shellVars, monitorVars, deployVars
<1> QED
  BY <1>1, <1>2, <1>3, <1>3a, <1>3b, <1>4, <1>4a, <1>4b, <1>4c, <1>5, <1>6, <1>7
     DEF Next, Deploy, Shell

LEMMA TwoWatchdogs ==
    ASSUME MaxWatchdogs <= 2
    PROVE  1 \in Watchdogs /\ \A w \in Watchdogs : w = 1 \/ w = 2
BY WatchdogAssumption DEF Watchdogs

\* What keeps the beats: there is one bot, and none is started beside it.
StartsAlone ==
    /\ \A v, w \in Watchdogs : Alive(v) /\ Alive(w) => v = w
    /\ \A v, w \in Watchdogs : wpc[w] = "loop" /\ ~term[w] /\ v # w => ~Alive(v)

LEMMA FreshKept ==
    ASSUME TypeOK, BeatsFresh, StartsAlone, [Next]_vars
    PROVE  BeatsFresh'
<1> USE DEF TypeOK, BeatsFresh, Alive
<1>1. CASE UNCHANGED vars
  BY <1>1 DEF vars, shellVars, monitorVars, botVars, deployVars
<1>2. CASE Tick
  <2> SUFFICES ASSUME NEW w \in Watchdogs, bot[w] = "up",
                      NEW t \in Threads, t \notin hung[w] \cup unwritten'
               PROVE  age'[t] = 0
    BY <1>2 DEF Tick
  <2>1. t \in Beating /\ WriteHeartbeats(Beating, 1)
    BY <1>2 DEF Tick, Beating
  <2> QED
    BY <2>1, AfterBeats DEF Beating
<1>3. CASE DeployKills
  BY <1>3 DEF DeployKills, monitorVars, botVars
<1>3a. CASE DeployPkills
  BY <1>3a DEF DeployPkills, BotsEnd, shellVars, monitorVars
<1>3b. CASE DeployStarts
  BY <1>3b DEF DeployStarts, Unborn, monitorVars, botVars
<1>4. ASSUME NEW w \in Watchdogs, StartBot(w)
      PROVE  BeatsFresh'
  <2>1. \A v \in Watchdogs : v # w => ~Alive(v)
    BY <1>4 DEF StartBot, StartsAlone
  <2> QED
    BY <1>4, <2>1 DEF StartBot, monitorVars, deployVars
<1>5. ASSUME NEW w \in Watchdogs, Shell(w), ~StartBot(w)
      PROVE  BeatsFresh'
  BY <1>5 DEF Shell, KeepPid, Reap, Restart, Shutdown, BotsEnd, monitorVars, botVars,
     deployVars
<1>6. ASSUME NEW w \in Watchdogs, Monitor(w)
      PROVE  BeatsFresh'
  BY <1>6 DEF Monitor, MonitorPasses, MonitorAsksForDump, MonitorTerminates,
     BotsEnd, shellVars, botVars, deployVars
<1>7. ASSUME NEW w \in Watchdogs, Bot(w)
      PROVE  BeatsFresh'
  <2>1. CASE BotStarts(w)
    <3>1. \A t \in Threads : t \notin unwritten' => age'[t] = 0
      BY <2>1, AfterBeats DEF BotStarts
    <3>2. wpc' = wpc /\ bot' = [bot EXCEPT ![w] = "up"] /\ bot[w] = "starting"
      BY <2>1 DEF BotStarts, shellVars
    <3> QED
      BY <3>1, <3>2
  <2>2. ASSUME NEW t \in Threads, BotHangs(w, t)
        PROVE  BeatsFresh'
    <3>1. /\ UNCHANGED <<wpc, bot, age>> /\ unwritten' = unwritten \ {t}
          /\ hung'[w] = hung[w] \cup {t} /\ bot[w] = "up"
      BY <2>2 DEF BotHangs, shellVars
    <3>2. \A v \in Watchdogs : bot[v] = "up" => v = w
      BY <3>1 DEF StartsAlone
    <3> QED
      BY <3>1, <3>2
  <2>3. ASSUME NEW t \in Threads, BotRecovers(w, t)
        PROVE  BeatsFresh'
    <3>1. /\ t \notin unwritten' => age'[t] = 0
          /\ \A u \in Threads \ {t} :
               (u \in unwritten' <=> u \in unwritten) /\ age'[u] = age[u]
      BY <2>3, AfterBeats DEF BotRecovers
    <3> QED
      BY <2>3, <3>1 DEF BotRecovers, shellVars
  <2>4. CASE BotExits(w)
    BY <2>4 DEF BotExits, BotsEnd, shellVars
  <2> QED
    BY <1>7, <2>1, <2>2, <2>3, <2>4 DEF Bot
<1> QED
  BY <1>1, <1>2, <1>3, <1>3a, <1>3b, <1>4, <1>5, <1>6, <1>7 DEF Next, Deploy

LEMMA OneStartsAlone ==
    ASSUME WatchInv, MaxWatchdogs <= 2
    PROVE  StartsAlone
BY TwoWatchdogs DEF WatchInv, TypeOK, BeatsFresh, Succession, Running, Alive,
   StartsAlone

LEMMA SuccessionKept ==
    ASSUME WatchInv, MaxWatchdogs <= 2, [Next]_vars
    PROVE  Succession'
<1> USE TwoWatchdogs DEF WatchInv, TypeOK, Succession, Alive, Running
<1>1. CASE UNCHANGED vars
  BY <1>1 DEF vars, shellVars, monitorVars, botVars, deployVars
<1>2. CASE Tick
  BY <1>2 DEF Tick
<1>3. CASE DeployKills
  BY <1>3 DEF DeployKills, Unborn, monitorVars, botVars
<1>3a. CASE DeployPkills
  BY <1>3a DEF DeployPkills, BotsEnd, shellVars, monitorVars
<1>3b. CASE DeployStarts
  BY <1>3b DEF DeployStarts, Unborn, monitorVars, botVars
<1>4. ASSUME NEW w \in Watchdogs, StartBot(w)
      PROVE  Succession'
  BY <1>4 DEF StartBot, monitorVars, deployVars
<1>5. ASSUME NEW w \in Watchdogs, KeepPid(w) \/ Reap(w) \/ Restart(w)
      PROVE  Succession'
  BY <1>5 DEF KeepPid, Reap, Restart, monitorVars, botVars, deployVars
<1>5a. ASSUME NEW w \in Watchdogs, Shutdown(w)
       PROVE  Succession'
  BY <1>5a DEF Shutdown, BotsEnd, TrapRuns
<1>6. ASSUME NEW w \in Watchdogs, Monitor(w)
      PROVE  Succession'
  BY <1>6 DEF Monitor, MonitorPasses, MonitorAsksForDump, MonitorTerminates,
     BotsEnd, shellVars, botVars, deployVars
<1>7. ASSUME NEW w \in Watchdogs, Bot(w)
      PROVE  Succession'
  BY <1>7, BotMoves DEF shellVars, monitorVars, deployVars
<1> QED
  BY <1>1, <1>2, <1>3, <1>3a, <1>3b, <1>4, <1>5, <1>5a, <1>6, <1>7
     DEF Next, Deploy, Shell

LEMMA StepsOfWatchdogs ==
    ASSUME [SupervisedNext]_supervisedVars
    PROVE  [Next]_vars
BY DEF SupervisedNext, WatchdogGoesOn, DumpGoesOn, AsksForDump, Next, Monitor,
   supervisedVars

LEMMA WatchInvHolds ==
    ASSUME MaxWatchdogs <= 2
    PROVE  SupervisedSpec => []WatchInv
<1>1. SupervisedInit => WatchInv
  BY WatchdogAssumption DEF SupervisedInit, Init, WatchInv, TypeOK, BeatsFresh,
     Succession, Watchdogs, Alive, Running, LongUptime, Most
<1>2. WatchInv /\ [SupervisedNext]_supervisedVars => WatchInv'
  <2> SUFFICES ASSUME WatchInv, [SupervisedNext]_supervisedVars PROVE WatchInv'
    OBVIOUS
  <2>1. [Next]_vars /\ StartsAlone
    BY StepsOfWatchdogs, OneStartsAlone
  <2>2. TypeOK' /\ BeatsFresh'
    BY <2>1, WatchTypeKept, FreshKept DEF WatchInv
  <2>3. Succession'
    BY <2>1, SuccessionKept
  <2> QED
    BY <2>2, <2>3 DEF WatchInv
<1> QED
  BY <1>1, <1>2, PTL DEF SupervisedSpec

\* Every acknowledgement is of a handler that has returned.
DumpTypeInv ==
    /\ DumpInv /\ Dump!TypeOK
    /\ g_dump_acks = Cardinality(Returned)

LEMMA ReturnedBounded ==
    ASSUME DumpInv
    PROVE  /\ IsFiniteSet(Returned)
           /\ Cardinality(Returned) \in 0 .. Cardinality(Threads)
<1>1. Returned \subseteq Threads
  BY DEF Returned
<1>2. /\ IsFiniteSet(Returned)
      /\ Cardinality(Returned) \in Nat /\ Cardinality(Threads) \in Nat
      /\ Cardinality(Returned) <= Cardinality(Threads)
  BY <1>1, ThreadsFinite, FS_Subset, FS_CardinalityType
<1> QED
  BY <1>2

LEMMA DispatchTypes ==
    ASSUME DumpTypeInv, Dump!Opens \/ Dump!Dispatch, DumpInv'
    PROVE  DumpTypeInv'
<1> USE DEF Dump!At
<1>1. "main" \in Dump!Dumpers
  BY ThreadsDump
<1>2. Dump!Cardinality(Threads) = Cardinality(Threads)
  BY DEF Dump!Cardinality, Cardinality
<1>3. /\ peer' \in [Threads -> Places] /\ file' \in Files
      /\ sent' \subseteq Threads
      /\ Cardinality(Returned') \in 0 .. Cardinality(Threads)
  <2>1. Cardinality(Returned') \in 0 .. Cardinality(Threads)
    <3>1. IsFiniteSet(Returned') /\ Returned' \subseteq Threads
      BY ThreadsFinite, FS_Subset DEF Returned
    <3>2. /\ Cardinality(Returned') \in Nat /\ Cardinality(Threads) \in Nat
          /\ Cardinality(Returned') <= Cardinality(Threads)
      BY <3>1, ThreadsFinite, FS_Subset, FS_CardinalityType
    <3> QED
      BY <3>2
  <2> QED
    BY <2>1 DEF DumpInv
<1>4. g_dump_acks' = Cardinality(Returned')
  <2>1. CASE Dump!Publishes
    <3>1. NobodyAsked
      BY <2>1 DEF Dump!Publishes, DumpInv, DumpTypeInv
    <3>2. Returned' = {}
      BY <2>1, <3>1 DEF Dump!Publishes, NobodyAsked, Returned
    <3> QED
      BY <2>1, <3>2, FS_EmptySet DEF Dump!Publishes
  <2>2. ASSUME NEW t \in Threads, Dump!Signals(t)
        PROVE  g_dump_acks' = Cardinality(Returned')
    <3>1. peer[t] = "idle"
      BY <2>2 DEF Dump!Signals, DumpInv, DumpTypeInv
    <3>2. Returned' = Returned
      BY <2>2, <3>1 DEF Dump!Signals, DumpInv, DumpTypeInv, Returned
    <3> QED
      BY <2>2, <3>2 DEF Dump!Signals, DumpTypeInv
  <2>3. UNCHANGED <<peer, g_dump_acks>> => g_dump_acks' = Cardinality(Returned')
    BY DEF Returned, DumpTypeInv
  <2> QED
    BY <2>1, <2>2, <2>3 DEF Dump!Opens, Dump!Dispatch, Dump!LocksForSelf,
       Dump!TracesSelf, Dump!BroadcastEnds, Dump!StopsWaiting, Dump!WritesTail,
       Dump!Unpublishes, Dump!Closes
<1>5. /\ dispatcher' \in {"idle", "opened", "tracing", "traced", "signalling",
                          "waiting", "late", "unpublish", "closing", "returned"}
      /\ g_dump_fd' \in BOOLEAN
      /\ g_dump_mutex' \in {{}} \cup {{t} : t \in Dump!Dumpers}
  BY <1>1 DEF DumpTypeInv, Dump!TypeOK, Dump!Opens, Dump!Dispatch,
     Dump!LocksForSelf, Dump!TracesSelf, Dump!Publishes, Dump!Signals,
     Dump!BroadcastEnds, Dump!StopsWaiting, Dump!WritesTail, Dump!Unpublishes,
     Dump!Closes, Dump!Locks, Dump!Traces
<1> QED
  BY <1>2, <1>3, <1>4, <1>5 DEF DumpTypeInv, Dump!TypeOK, Files, Places

LEMMA AnswerTypes ==
    ASSUME DumpTypeInv, NEW t \in Threads, Dump!Answer(t), DumpInv'
    PROVE  DumpTypeInv'
<1> USE DEF Dump!PeerAt
<1>1. Dump!Cardinality(Threads) = Cardinality(Threads) /\ t \in Dump!Dumpers
  BY ThreadsDump DEF Dump!Cardinality, Cardinality
<1>2. /\ peer \in [Threads -> Places] /\ IsFiniteSet(Returned)
  BY ReturnedBounded DEF DumpTypeInv, DumpInv
<1>3. /\ IsFiniteSet(Returned') /\ Cardinality(Returned') \in Nat
      /\ Cardinality(Threads) \in Nat
      /\ Cardinality(Returned') <= Cardinality(Threads)
  <2>1. Returned' \subseteq Threads
    BY DEF Returned
  <2> QED
    BY <2>1, ThreadsFinite, FS_Subset, FS_CardinalityType
<1>4. g_dump_acks' = Cardinality(Returned')
  <2>1. CASE Dump!ComesTooLate(t) \/ Dump!PeerAcks(t)
    <3>1. /\ peer' = [peer EXCEPT ![t] = "returned"] /\ peer[t] # "returned"
          /\ g_dump_acks' = g_dump_acks + 1
      BY <2>1 DEF Dump!ComesTooLate, Dump!PeerAcks
    <3>2. Returned' = Returned \cup {t} /\ t \notin Returned
      BY <1>2, <3>1 DEF Returned
    <3>3. Cardinality(Returned') = Cardinality(Returned) + 1
      BY <1>2, <3>2, FS_AddElement
    <3> QED
      BY <3>1, <3>3 DEF DumpTypeInv
  <2>2. CASE Dump!Loads(t) \/ Dump!PeerLocks(t) \/ Dump!PeerTraces(t)
    <3>1. \E p \in {"loaded", "tracing", "traced"} :
            peer' = [peer EXCEPT ![t] = p] /\ peer[t] # "returned"
      BY <2>2 DEF Dump!Loads, Dump!PeerLocks, Dump!PeerTraces
    <3>2. Returned' = Returned
      BY <1>2, <3>1 DEF Returned
    <3> QED
      BY <2>2, <3>2 DEF Dump!Loads, Dump!PeerLocks, Dump!PeerTraces, DumpTypeInv
  <2> QED
    BY <2>1, <2>2 DEF Dump!Answer
<1>5. /\ dispatcher' = dispatcher /\ g_dump_fd' = g_dump_fd
      /\ g_dump_mutex' \in {{}} \cup {{u} : u \in Dump!Dumpers}
  BY <1>1 DEF DumpTypeInv, Dump!TypeOK, Dump!Answer, Dump!Loads,
     Dump!ComesTooLate, Dump!PeerLocks, Dump!PeerTraces, Dump!PeerAcks,
     Dump!Locks, Dump!Traces
<1> QED
  BY <1>1, <1>3, <1>4, <1>5
     DEF DumpTypeInv, Dump!TypeOK, DumpInv, Files, Places

\* Types of the whole, for any number of deploys.
THEOREM TypeCorrect == SupervisedSpec => []SupervisedTypeOK
<1> DEFINE Fresh == Dump!Fresh(dispatcher, sent, peer, g_dump_fd, g_dump_acks,
                               g_dump_mutex, file)
           Inv == TypeOK /\ DumpTypeInv
<1>1. Fresh => DumpTypeInv
  <2> SUFFICES ASSUME Fresh PROVE DumpTypeInv
    OBVIOUS
  <2>1. /\ dispatcher = "idle" /\ sent = {} /\ peer = [t \in Threads |-> "idle"]
        /\ g_dump_fd = FALSE /\ g_dump_acks = 0 /\ g_dump_mutex = {}
        /\ file = [traces |-> {}, tail |-> FALSE, open |-> FALSE]
    BY DEF Dump!Fresh
  <2>2. Returned = {}
    BY <2>1 DEF Returned
  <2>3. g_dump_acks = Cardinality(Returned)
    BY <2>1, <2>2, FS_EmptySet
  <2>4. Dump!Cardinality(Threads) = Cardinality(Threads)
    BY DEF Dump!Cardinality, Cardinality
  <2>5. Cardinality(Threads) \in Nat
    BY ThreadsFinite, FS_CardinalityType
  <2>6. DumpInv
    BY FreshInv
  <2>7. g_dump_acks \in 0 .. Cardinality(Threads)
    BY <2>1, <2>5
  <2>8. peer \in [Threads -> Places] /\ file \in Files /\ sent \subseteq Threads
    BY <2>1 DEF Places, Files
  <2> HIDE DEF Fresh
  <2> QED
    BY <2>1, <2>3, <2>4, <2>6, <2>7, <2>8
       DEF DumpTypeInv, Dump!TypeOK, Places, Files
<1>2. Fresh' => DumpTypeInv'
  BY <1>1, PTL
<1>3. SupervisedInit => Inv
  <2>1. Init => TypeOK
    <3>1. /\ 0 \in 0 .. LongUptime /\ BackoffStart \in BackoffStart .. BackoffMax
          /\ 1 \in Watchdogs
      BY WatchdogAssumption DEF LongUptime, Most, Watchdogs
    <3> QED
      BY <3>1, WatchdogAssumption DEF Init, TypeOK
  <2> QED
    BY <1>1, <2>1 DEF SupervisedInit, Dump!Init
<1>4. Inv /\ [SupervisedNext]_supervisedVars => Inv'
  <2> SUFFICES ASSUME Inv, [SupervisedNext]_supervisedVars PROVE Inv'
    OBVIOUS
  <2>1. TypeOK'
    BY StepsOfWatchdogs, WatchTypeKept
  <2>2. CASE UNCHANGED dumpVars
    BY <2>1, <2>2 DEF dumpVars, DumpTypeInv, DumpInv, Dump!TypeOK, NobodyAsked,
       Counting, Returned, Told
  <2>3. CASE Dump!Opens \/ Dump!Dispatch
    BY <2>1, <2>3, DispatchKeeps, DispatchTypes DEF DumpTypeInv
  <2>4. ASSUME NEW t \in Threads, Dump!Answer(t)
        PROVE  Inv'
    BY <2>1, <2>4, AnswerKeeps, AnswerTypes DEF DumpTypeInv
  <2>5. CASE Fresh'
    BY <1>2, <2>1, <2>5
  <2> QED
    BY <2>2, <2>3, <2>4, <2>5
       DEF SupervisedNext, WatchdogGoesOn, DumpGoesOn, AsksForDump, DumpDies,
           supervisedVars
<1>5. Inv => SupervisedTypeOK
  BY DEF DumpTypeInv, SupervisedTypeOK
<1> QED
  BY <1>3, <1>4, <1>5, PTL DEF SupervisedSpec

\* There is never a second bot while one deploy replaces the watchdog, whatever
\* the intervals (watchdog.sh:111-145, ci.yml:86-93).
THEOREM OneBotPerDeploy ==
    ASSUME MaxWatchdogs <= 2
    PROVE  SupervisedSpec => []OneBot
<1>1. WatchInv => OneBot
  <2> SUFFICES ASSUME WatchInv PROVE OneBot
    OBVIOUS
  <2>1. PICK v : {w \in Watchdogs : Alive(w)} \in {{}, {v}}
    <3>1. \A w \in Watchdogs : w # 1 /\ Alive(w) => ~Alive(1)
      BY DEF WatchInv, BeatsFresh, Succession
    <3>2. \A w \in Watchdogs : w \in {1, 2}
      BY WatchdogAssumption DEF Watchdogs
    <3>3. {w \in Watchdogs : Alive(w)} \in {{}, {1}, {2}}
      BY <3>1, <3>2
    <3> QED
      BY <3>3
  <2> QED
    BY <2>1, FS_EmptySet, FS_Singleton DEF OneBot
<1> QED
  BY <1>1, WatchInvHolds, PTL

\* Who is asked for a dump has a file that is not fresh.
LEMMA AskedIsSick ==
    ASSUME TypeOK, BeatsFresh, [Next]_vars
    PROVE  [AsksOnlySick]_vars
<1> SUFFICES ASSUME Next, NEW w \in Watchdogs,
                    mpc'[w] = "dump", mpc[w] # "dump", bot[w] = "up"
             PROVE  hung[w] # {} \/ unwritten # {}
  BY DEF AsksOnlySick, Sick, Alive
<1>1. mpc \in [Watchdogs -> {"none", "sleep", "dump"}]
  BY DEF TypeOK
<1>2. MonitorAsksForDump(w)
  BY <1>1 DEF Next, Tick, Deploy, DeployKills, DeployPkills, DeployStarts,
     Shell, StartBot, KeepPid, Reap, Restart, Shutdown, BotsEnd, Monitor,
     MonitorPasses, MonitorAsksForDump, MonitorTerminates, Bot, BotStarts,
     BotExits, BotHangs, BotRecovers, monitorVars
<1>3. PICK t \in Threads : ~(age[t] < Stale)
  BY <1>2 DEF MonitorAsksForDump, Enforced, HeartbeatFresh
<1>4. age[t] # 0
  BY <1>3, WatchdogAssumption
<1> QED
  BY <1>4 DEF BeatsFresh

\* A bot that is dumped and killed has not come up, has a hung thread or could
\* not write a beat: it is not killed for the beats of another or for files that
\* one left behind (watchdog.sh:67-86 and 136, BotRouter.cpp:61-82 and 361-364),
\* across one deploy.
THEOREM OnlySickAreDumped ==
    ASSUME MaxWatchdogs <= 2
    PROVE  SupervisedSpec => DumpsOnlySick
<1>1. WatchInv /\ [SupervisedNext]_supervisedVars =>
        [AsksOnlySick]_vars
  BY StepsOfWatchdogs, AskedIsSick DEF WatchInv
<1> QED
  BY <1>1, WatchInvHolds, PTL DEF SupervisedSpec, DumpsOnlySick

(***************************************************************************)
(* Any number of deploys                                                   *)
(*                                                                         *)
(* What one deploy does not need and the next ones do: that no watchdog is *)
(* in a pause that outlasts the sleep of the deploy step, since a trap     *)
(* waits for the pause to end (TrapRuns).  The pauses after the first four *)
(* failures in a row are as short (2, 4, 8 and 16 s, and 20 s).            *)
(***************************************************************************)
ShortPauses ==
    DeployPkills => \A w \in Watchdogs : Running(w) => nap[w] < DeploySleep

\* A signalled watchdog in a pause leaves it before the deploy wakes up, and one
\* that is in no pause is gone before the clock goes on.
PausesEnd ==
    deploy = "sleep" => \A w \in Watchdogs : Running(w) =>
      /\ dnap > 0
      /\ wpc[w] = "backoff" => nap[w] < dnap

\* One watchdog at a time, which the pid file names until a deploy signals it
\* and which is signalled from then on; one bot at a time, of the watchdog that
\* runs unless a deploy is about to kill it.
Orderly ==
    /\ \A w \in Watchdogs : wpc[w] = "unborn" => ~term[w] /\ ~Alive(w)
    /\ \A v, w \in Watchdogs : Running(v) /\ Running(w) => v = w
    /\ \A v, w \in Watchdogs : Alive(v) /\ Alive(w) => v = w
    /\ deploy = "idle" => \A w \in Watchdogs :
         /\ Alive(w) => Running(w)
         /\ Running(w) => pidfile = w /\ ~term[w]
    /\ deploy # "idle" => \A w \in Watchdogs : Running(w) => term[w]
    /\ deploy = "sleep" => \A w \in Watchdogs : ~Alive(w)

OrderInv == TypeOK /\ BeatsFresh /\ Orderly /\ PausesEnd

LEMMA OrderlyInit == SupervisedInit => OrderInv
BY WatchdogAssumption DEF SupervisedInit, Init, OrderInv, TypeOK, BeatsFresh,
   Orderly, PausesEnd, Watchdogs, Alive, Running, LongUptime, Most

LEMMA OrderlyStarts ==
    ASSUME OrderInv
    PROVE  StartsAlone
BY DEF OrderInv, TypeOK, BeatsFresh, Orderly, Running, Alive, StartsAlone

LEMMA OrderlyKept ==
    ASSUME OrderInv, [Next]_vars
    PROVE  Orderly'
<1> USE DEF OrderInv, TypeOK, Orderly, Alive, Running
<1>1. CASE UNCHANGED vars
  BY <1>1 DEF vars, shellVars, monitorVars, botVars, deployVars
<1>2. CASE Tick
  BY <1>2 DEF Tick
<1>3. CASE DeployKills
  BY <1>3 DEF DeployKills, Unborn, monitorVars, botVars
<1>4. CASE DeployPkills
  BY <1>4 DEF DeployPkills, BotsEnd, shellVars, monitorVars
<1>5. CASE DeployStarts
  BY <1>5 DEF DeployStarts, PausesEnd, Unborn, monitorVars, botVars
<1>6. ASSUME NEW w \in Watchdogs, StartBot(w)
      PROVE  Orderly'
  <2>1. deploy = "idle" /\ \A v \in Watchdogs : v # w => ~Alive(v)
    BY <1>6, OrderlyStarts DEF StartBot, StartsAlone
  <2> QED
    BY <1>6, <2>1 DEF StartBot, monitorVars, deployVars
<1>7. ASSUME NEW w \in Watchdogs, KeepPid(w) \/ Reap(w) \/ Restart(w)
      PROVE  Orderly'
  BY <1>7 DEF KeepPid, Reap, Restart, monitorVars, botVars, deployVars
<1>8. ASSUME NEW w \in Watchdogs, Shutdown(w)
      PROVE  Orderly'
  BY <1>8 DEF Shutdown, BotsEnd, TrapRuns
<1>9. ASSUME NEW w \in Watchdogs, Monitor(w)
      PROVE  Orderly'
  BY <1>9 DEF Monitor, MonitorPasses, MonitorAsksForDump, MonitorTerminates,
     BotsEnd, shellVars, botVars, deployVars
<1>10. ASSUME NEW w \in Watchdogs, Bot(w)
       PROVE  Orderly'
  BY <1>10, BotMoves DEF shellVars, monitorVars, deployVars
<1> QED
  BY <1>1, <1>2, <1>3, <1>4, <1>5, <1>6, <1>7, <1>8, <1>9, <1>10
     DEF Next, Deploy, Shell

LEMMA PausesEndKept ==
    ASSUME OrderInv, [Next]_vars, [ShortPauses]_vars
    PROVE  PausesEnd'
<1> USE WatchdogAssumption DEF OrderInv, TypeOK, Orderly, PausesEnd, Running
<1>1. CASE UNCHANGED vars
  BY <1>1 DEF vars, shellVars, monitorVars, botVars, deployVars
<1>2. CASE Tick
  <2> SUFFICES ASSUME deploy = "sleep", NEW w \in Watchdogs, Running(w)
               PROVE  /\ dnap' > 0
                      /\ wpc[w] = "backoff" => nap'[w] < dnap'
    BY <1>2 DEF Tick
  <2>1. wpc[w] = "backoff" /\ nap[w] > 0
    BY <1>2 DEF Tick, Settled, TrapRuns
  <2>2. dnap > nap[w] /\ nap[w] \in Nat /\ dnap \in Nat
    BY <2>1
  <2>3. nap'[w] = Most(0, nap[w] - 1) /\ dnap' = Most(0, dnap - 1)
    BY <1>2 DEF Tick
  <2> QED
    BY <2>1, <2>2, <2>3 DEF Most
<1>3. CASE DeployKills
  BY <1>3 DEF DeployKills
<1>4. CASE DeployPkills
  <2>1. ShortPauses
    BY <1>4 DEF DeployPkills, BotsEnd, vars, deployVars
  <2>2. \A w \in Watchdogs : Running(w) => nap[w] < DeploySleep /\ nap[w] \in Nat
    BY <1>4, <2>1 DEF ShortPauses
  <2> QED
    BY <1>4, <2>2 DEF DeployPkills, BotsEnd, shellVars, monitorVars
<1>5. CASE DeployStarts
  BY <1>5 DEF DeployStarts
<1>6. ASSUME NEW w \in Watchdogs, Shell(w)
      PROVE  PausesEnd'
  BY <1>6 DEF Shell, StartBot, KeepPid, Reap, Restart, Shutdown, BotsEnd, deployVars
<1>7. ASSUME NEW w \in Watchdogs, Monitor(w) \/ Bot(w)
      PROVE  PausesEnd'
  BY <1>7 DEF Monitor, MonitorPasses, MonitorAsksForDump, MonitorTerminates,
     Bot, BotStarts, BotExits, BotHangs, BotRecovers,
     BotsEnd, shellVars, deployVars
<1> QED
  BY <1>1, <1>2, <1>3, <1>4, <1>5, <1>6, <1>7 DEF Next, Deploy

LEMMA OrderInvKept ==
    OrderInv /\ [SupervisedNext]_supervisedVars /\ [ShortPauses]_vars => OrderInv'
<1> SUFFICES ASSUME OrderInv, [SupervisedNext]_supervisedVars,
                    [ShortPauses]_vars
             PROVE  OrderInv'
  OBVIOUS
<1>1. [Next]_vars /\ StartsAlone
  BY StepsOfWatchdogs, OrderlyStarts
<1>2. TypeOK' /\ BeatsFresh'
  BY <1>1, WatchTypeKept, FreshKept DEF OrderInv
<1>3. Orderly' /\ PausesEnd'
  BY <1>1, OrderlyKept, PausesEndKept
<1> QED
  BY <1>2, <1>3 DEF OrderInv

LEMMA OrderInvHolds == SupervisedSpec /\ [][ShortPauses]_vars => []OrderInv
BY OrderlyInit, OrderInvKept, PTL DEF SupervisedSpec

LEMMA OrderlyOneBot ==
    ASSUME Orderly
    PROVE  OneBot
<1>1. CASE \A w \in Watchdogs : ~Alive(w)
  <2>1. {w \in Watchdogs : Alive(w)} = {}
    BY <1>1
  <2> QED
    BY <2>1, FS_EmptySet DEF OneBot
<1>2. ASSUME NEW v \in Watchdogs, Alive(v)
      PROVE  OneBot
  <2>1. {w \in Watchdogs : Alive(w)} = {v}
    BY <1>2 DEF Orderly
  <2>2. Cardinality({w \in Watchdogs : Alive(w)}) = 1
    BY <2>1, FS_Singleton
  <2> QED
    BY <2>2 DEF OneBot
<1> QED
  BY <1>1, <1>2

\* However often one deploys: as long as no deploy comes in a pause that outlasts
\* its sleep, there is never a second bot, and nobody runs that the next deploy
\* does not stop (ci.yml:86-96, watchdog.sh:111-165).  That the pauses may be
\* longer (up to 300 s) is what the violation of StoppedByDeploy is due to.
THEOREM OneBotOverDeploys ==
    SupervisedSpec /\ [][ShortPauses]_vars => [](OneBot /\ StoppedByDeploy)
<1>1. OrderInv => OneBot /\ StoppedByDeploy
  BY OrderlyOneBot DEF OrderInv, Orderly, StoppedByDeploy, Watchdogs
<1> QED
  BY <1>1, OrderInvHolds, PTL

\* Likewise no bot is killed for the beats of another, over any number of
\* deploys (watchdog.sh:67-86 and 136).
THEOREM OnlySickOverDeploys ==
    SupervisedSpec /\ [][ShortPauses]_vars => DumpsOnlySick
<1>1. OrderInv /\ [SupervisedNext]_supervisedVars =>
        [AsksOnlySick]_vars
  BY StepsOfWatchdogs, AskedIsSick DEF OrderInv
<1> QED
  BY <1>1, OrderInvHolds, PTL DEF SupervisedSpec, DumpsOnlySick

(***************************************************************************)
(* Nobody runs unwatched: the safety half of SickBotEnds and               *)
(* DeadBotRestarts, for any number of deploys and pauses of any length.    *)
(***************************************************************************)
\* The pid of a bot that its watchdog has not noted is lost with the watchdog.
Orphan(w) == wpc[w] = "gone" /\ term[w] /\ ~child_pid[w]

Watched(w) ==
    \/ wpc[w] = "spawned" /\ ~child_pid[w]
    \/ wpc[w] = "waiting" /\ child_pid[w] /\ mpc[w] \in {"sleep", "dump"}

NoBotUnwatched ==
    \A w \in Watchdogs :
      /\ Alive(w) => Watched(w) \/ Orphan(w)
      /\ wpc[w] = "gone" => term[w]

WatchedInv ==
    /\ NoBotUnwatched
    /\ \A w \in Watchdogs :
         /\ wpc[w] \in {"unborn", "loop", "spawned", "backoff"} => ~child_pid[w]
         /\ wpc[w] = "waiting" => child_pid[w]

LEMMA WatchedKept ==
    ASSUME TypeOK, WatchedInv, [Next]_vars
    PROVE  WatchedInv'
<1> USE DEF TypeOK, WatchedInv, NoBotUnwatched, Watched, Orphan, Alive
<1>1. CASE UNCHANGED vars
  BY <1>1 DEF vars, shellVars, monitorVars, botVars, deployVars
<1>2. CASE Tick
  BY <1>2 DEF Tick
<1>3. CASE DeployKills
  BY <1>3 DEF DeployKills, monitorVars, botVars
<1>4. CASE DeployPkills
  BY <1>4 DEF DeployPkills, BotsEnd, shellVars, monitorVars
<1>5. CASE DeployStarts
  BY <1>5 DEF DeployStarts, Unborn, monitorVars, botVars
<1>6. ASSUME NEW w \in Watchdogs, StartBot(w) \/ KeepPid(w)
      PROVE  WatchedInv'
  BY <1>6 DEF StartBot, KeepPid, monitorVars, botVars, deployVars
<1>7. ASSUME NEW w \in Watchdogs, Reap(w) \/ Restart(w)
      PROVE  WatchedInv'
  BY <1>7 DEF Reap, Restart, monitorVars, botVars, deployVars
<1>8. ASSUME NEW w \in Watchdogs, Shutdown(w)
      PROVE  WatchedInv'
  BY <1>8 DEF Shutdown, BotsEnd, TrapRuns, Running
<1>9. ASSUME NEW w \in Watchdogs, Monitor(w)
      PROVE  WatchedInv'
  BY <1>9 DEF Monitor, MonitorPasses, MonitorAsksForDump, MonitorTerminates,
     BotsEnd, shellVars, botVars, deployVars
<1>10. ASSUME NEW w \in Watchdogs, Bot(w)
       PROVE  WatchedInv'
  BY <1>10, BotMoves DEF shellVars, monitorVars, deployVars
<1> QED
  BY <1>1, <1>2, <1>3, <1>4, <1>5, <1>6, <1>7, <1>8, <1>9, <1>10
     DEF Next, Deploy, Shell

\* Whatever dies, hangs, is killed or deployed when: a bot that runs has a
\* monitor, or is about to get one, and a watchdog only leaves when told to.
\* Only a SIGTERM between "$BIN" & and child_pid=$! leaves a bot behind, which
\* is why the deploy step kills by name too (watchdog.sh:67-109 and 138-165,
\* ci.yml:86-93).
THEOREM BotsAreWatched == SupervisedSpec => []NoBotUnwatched
<1>1. SupervisedInit => WatchedInv
  BY DEF SupervisedInit, Init, WatchedInv, NoBotUnwatched, Alive
<1>2. TypeOK /\ WatchedInv /\ [SupervisedNext]_supervisedVars => WatchedInv'
  BY StepsOfWatchdogs, WatchedKept
<1>3. SupervisedTypeOK => TypeOK
  BY DEF SupervisedTypeOK
<1>4. WatchedInv => NoBotUnwatched
  BY DEF WatchedInv
<1> QED
  BY <1>1, <1>2, <1>3, <1>4, TypeCorrect, PTL DEF SupervisedSpec

===============================================================================
