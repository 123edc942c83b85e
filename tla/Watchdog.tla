------------------------------ MODULE Watchdog ------------------------------
(***************************************************************************)
(* scripts/watchdog.sh around the bot: it starts the bot, a monitor in the *)
(* background kills the bot when one of its two heartbeat files goes       *)
(* stale, and the loop starts it again after a pause that doubles while    *)
(* the bot fails fast.  The deploy step of ci.yml stops the watchdog that  *)
(* logs/watchdog.pid names, and starts another.                            *)
(*                                                                         *)
(* Time is counted in ticks no shorter than the bot's longest beat (10 s): *)
(* a thread that is not hung beats in every tick, and what takes seconds   *)
(* (the thread dump, the waits for a killed process) is within a tick.     *)
(* Times are kept as ages and as what is left of a sleep, so that the      *)
(* states are finitely many without a bound on the clock.                  *)
(***************************************************************************)
EXTENDS Integers, FiniteSets

CONSTANTS
    MaxWatchdogs,   \* bound: runs of watchdog.sh, so MaxWatchdogs - 1 deploys
    Check, Grace, Stale,    \* HEARTBEAT_CHECK_INTERVAL, _GRACE_SECS, _STALE_SECS
    MinUptime, BackoffStart, BackoffMax,
    DeploySleep     \* sleep 20

ASSUME WatchdogAssumption ==
    /\ MaxWatchdogs \in Nat \ {0}
    /\ Check \in Nat \ {0} /\ Grace \in Nat /\ Stale \in Nat \ {0, 1}
    /\ MinUptime \in Nat
    /\ BackoffStart \in Nat \ {0} /\ BackoffMax \in Nat /\ BackoffStart <= BackoffMax
    /\ DeploySleep \in Nat

VARIABLES
    \* by run of watchdog.sh: where its shell is, what is left of its sleep,
    \* its variables backoff and child_pid (whether it is set), how long ago
    \* the bot was started, and whether a SIGTERM waits for the trap
    wpc, nap, backoff, child_pid, uptime, term,
    mpc, mnap,          \* its monitor_heartbeats
    bot, hung,          \* its latest bot, and the bot's threads that do not run
    age,                \* of the two heartbeat files; Stale if there is none
    unwritten,          \* history: those that run and whose last beat could
                        \* not be written
    pidfile,            \* logs/watchdog.pid
    deploy, dnap        \* the deploy step

shellVars == <<wpc, nap, backoff, child_pid, uptime, term>>
monitorVars == <<mpc, mnap>>
botVars == <<bot, hung, age, unwritten>>
deployVars == <<pidfile, deploy, dnap>>
vars == <<shellVars, monitorVars, botVars, deployVars>>

Watchdogs == 1 .. MaxWatchdogs
NoFile == 0
Threads == {"gateway", "pool"}

Least(a, b) == IF a < b THEN a ELSE b
Most(a, b) == IF a < b THEN b ELSE a
LongUptime == Most(Grace, MinUptime)

Alive(w) == bot[w] \in {"starting", "up"}
Running(w) == wpc[w] \notin {"unborn", "gone"}

TypeOK ==
    /\ wpc \in [Watchdogs -> {"unborn", "loop", "spawned", "waiting", "backoff", "gone"}]
    /\ nap \in [Watchdogs -> 0 .. BackoffMax]
    /\ backoff \in [Watchdogs -> BackoffStart .. BackoffMax]
    /\ child_pid \in [Watchdogs -> BOOLEAN]
    /\ uptime \in [Watchdogs -> 0 .. LongUptime]
    /\ term \in [Watchdogs -> BOOLEAN]
    /\ mpc \in [Watchdogs -> {"none", "sleep", "dump"}]
    /\ mnap \in [Watchdogs -> 0 .. Check]
    /\ bot \in [Watchdogs -> {"none", "starting", "up", "dead"}]
    /\ hung \in [Watchdogs -> SUBSET Threads]
    /\ age \in [Threads -> 0 .. Stale] /\ unwritten \subseteq Threads
    /\ pidfile \in Watchdogs \cup {NoFile}
    /\ deploy \in {"idle", "killed", "sleep"} /\ dnap \in 0 .. DeploySleep

Init ==
    /\ wpc = [w \in Watchdogs |-> IF w = 1 THEN "loop" ELSE "unborn"]
    /\ nap = [w \in Watchdogs |-> 0]
    /\ backoff = [w \in Watchdogs |-> BackoffStart]
    /\ child_pid = [w \in Watchdogs |-> FALSE]
    /\ uptime = [w \in Watchdogs |-> 0]
    /\ term = [w \in Watchdogs |-> FALSE]
    /\ mpc = [w \in Watchdogs |-> "none"] /\ mnap = [w \in Watchdogs |-> 0]
    /\ bot = [w \in Watchdogs |-> "none"] /\ hung = [w \in Watchdogs |-> {}]
    /\ age = [t \in Threads |-> Stale] /\ unwritten = {}
    /\ pidfile = 1 /\ deploy = "idle" /\ dnap = 0

(***************************************************************************)
(* The main loop                                                           *)
(***************************************************************************)
\* rm -f of the heartbeat files, then "$BIN" &
StartBot(w) ==
    /\ wpc[w] = "loop" /\ ~term[w]
    /\ age' = [t \in Threads |-> Stale] /\ unwritten' = {}
    /\ bot' = [bot EXCEPT ![w] = "starting"] /\ hung' = [hung EXCEPT ![w] = {}]
    /\ uptime' = [uptime EXCEPT ![w] = 0]
    /\ wpc' = [wpc EXCEPT ![w] = "spawned"]
    /\ UNCHANGED <<nap, backoff, child_pid, term, monitorVars, deployVars>>

\* child_pid=$!, and the monitor in the background
KeepPid(w) ==
    /\ wpc[w] = "spawned" /\ ~term[w]
    /\ child_pid' = [child_pid EXCEPT ![w] = TRUE]
    /\ mpc' = [mpc EXCEPT ![w] = "sleep"] /\ mnap' = [mnap EXCEPT ![w] = Check]
    /\ wpc' = [wpc EXCEPT ![w] = "waiting"]
    /\ UNCHANGED <<nap, backoff, uptime, term, botVars, deployVars>>

\* Mutant: the pause is not capped.
MutDoubled(b) == 2 * b

Doubled(b) == Least(BackoffMax, 2 * b)

\* A run of MIN_UPTIME starts over with short pauses.
Backoff(w) == IF uptime[w] >= MinUptime THEN BackoffStart ELSE backoff[w]

\* wait returns; the monitor is killed and the pause begins.
Reap(w) ==
    /\ wpc[w] = "waiting" /\ ~Alive(w) /\ ~term[w]
    /\ child_pid' = [child_pid EXCEPT ![w] = FALSE]
    /\ mpc' = [mpc EXCEPT ![w] = "none"] /\ mnap' = [mnap EXCEPT ![w] = 0]
    /\ nap' = [nap EXCEPT ![w] = Backoff(w)]
    /\ backoff' = [backoff EXCEPT ![w] = Doubled(Backoff(w))]
    /\ wpc' = [wpc EXCEPT ![w] = "backoff"]
    /\ UNCHANGED <<uptime, term, botVars, deployVars>>

\* Mutant: gives up after the longest pause.
MutRestart(w) ==
    /\ wpc[w] = "backoff" /\ nap[w] = 0 /\ ~term[w]
    /\ wpc' = [wpc EXCEPT ![w] = IF backoff[w] = BackoffMax THEN "gone" ELSE "loop"]
    /\ UNCHANGED <<nap, backoff, child_pid, uptime, term, monitorVars, botVars,
                   deployVars>>

Restart(w) ==
    /\ wpc[w] = "backoff" /\ nap[w] = 0 /\ ~term[w]
    /\ wpc' = [wpc EXCEPT ![w] = "loop"]
    /\ UNCHANGED <<nap, backoff, child_pid, uptime, term, monitorVars, botVars,
                   deployVars>>

\* The process is gone, with its threads.
BotsEnd(ws) ==
    /\ bot' = [w \in Watchdogs |-> IF w \in ws THEN "dead" ELSE bot[w]]
    /\ hung' = [w \in Watchdogs |-> IF w \in ws THEN {} ELSE hung[w]]

\* bash runs a trap between commands: wait is cut short, a sleep is not.
TrapRuns(w) ==
    /\ term[w] /\ Running(w)
    /\ wpc[w] = "backoff" => nap[w] = 0

\* Mutant: without exit the loop goes on after the trap.
MutShutdown(w) ==
    /\ TrapRuns(w)
    /\ mpc' = [mpc EXCEPT ![w] = "none"] /\ mnap' = [mnap EXCEPT ![w] = 0]
    /\ BotsEnd({v \in {w} : child_pid[v]})
    /\ pidfile' = NoFile
    /\ wpc' = [wpc EXCEPT ![w] = "loop"] /\ term' = [term EXCEPT ![w] = FALSE]
    /\ UNCHANGED <<nap, backoff, child_pid, uptime, age, unwritten, deploy, dnap>>

\* It kills what child_pid names, and removes the pid file whoever wrote it.
Shutdown(w) ==
    /\ TrapRuns(w)
    /\ mpc' = [mpc EXCEPT ![w] = "none"] /\ mnap' = [mnap EXCEPT ![w] = 0]
    /\ BotsEnd({v \in {w} : child_pid[v]})
    /\ pidfile' = NoFile
    /\ wpc' = [wpc EXCEPT ![w] = "gone"]
    /\ UNCHANGED <<nap, backoff, child_pid, uptime, term, age, unwritten, deploy,
                   dnap>>

(***************************************************************************)
(* monitor_heartbeats                                                      *)
(***************************************************************************)
HeartbeatFresh(t) == age[t] < Stale

Asleep(w) == mpc[w] = "sleep" /\ mnap[w] = 0

\* Mutant: the second file is not looked at.
MutEnforced(w) == uptime[w] >= Grace /\ ~HeartbeatFresh("gateway")

Enforced(w) == uptime[w] >= Grace /\ \E t \in Threads : ~HeartbeatFresh(t)

\* The grace period, or both files fresh.  kill -0 ends the loop of a dead bot.
MonitorPasses(w) ==
    /\ Asleep(w) /\ ~Enforced(w)
    /\ mpc' = [mpc EXCEPT ![w] = IF Alive(w) THEN "sleep" ELSE "none"]
    /\ mnap' = [mnap EXCEPT ![w] = IF Alive(w) THEN Check ELSE 0]
    /\ UNCHANGED <<shellVars, botVars, deployVars>>

\* SIGUSR1
MonitorAsksForDump(w) ==
    /\ Asleep(w) /\ Enforced(w)
    /\ mpc' = [mpc EXCEPT ![w] = "dump"]
    /\ UNCHANGED <<shellVars, mnap, botVars, deployVars>>

\* SIGTERM, which the bot does not catch: the SIGKILL after it finds nobody.
MonitorTerminates(w) ==
    /\ mpc[w] = "dump"
    /\ BotsEnd({w})
    /\ mpc' = [mpc EXCEPT ![w] = "none"]
    /\ UNCHANGED <<shellVars, mnap, age, unwritten, deployVars>>

(***************************************************************************)
(* The bot                                                                 *)
(***************************************************************************)
\* writeHeartbeat by the threads ts, of whose files any may not be written:
\* it says nothing then, and the file is as old as it was.
WriteHeartbeats(ts, passed) ==
    \E failed \in SUBSET ts :
      /\ unwritten' = (unwritten \ ts) \cup failed
      /\ age' = [t \in Threads |-> IF t \in ts \ failed THEN 0
                                  ELSE Least(Stale, age[t] + passed)]

\* Mutant: the files come with the first beats.
MutBotStarts(w) ==
    /\ bot[w] = "starting"
    /\ bot' = [bot EXCEPT ![w] = "up"]
    /\ UNCHANGED <<shellVars, monitorVars, age, unwritten, hung, deployVars>>

\* startBgTask writes both files and starts what will refresh them.
BotStarts(w) ==
    /\ bot[w] = "starting"
    /\ bot' = [bot EXCEPT ![w] = "up"]
    /\ WriteHeartbeats(Threads, 0)
    /\ UNCHANGED <<shellVars, monitorVars, hung, deployVars>>

\* DPP's thread or the ticker stops running, or runs again and beats: its
\* timer, its loop is overdue.
BotHangs(w, t) ==
    /\ bot[w] = "up" /\ t \notin hung[w]
    /\ hung' = [hung EXCEPT ![w] = @ \cup {t}]
    /\ unwritten' = unwritten \ {t}
    /\ UNCHANGED <<shellVars, monitorVars, bot, age, deployVars>>

BotRecovers(w, t) ==
    /\ bot[w] = "up" /\ t \in hung[w]
    /\ hung' = [hung EXCEPT ![w] = @ \ {t}]
    /\ WriteHeartbeats({t}, 0)
    /\ UNCHANGED <<shellVars, monitorVars, bot, deployVars>>

BotExits(w) ==
    /\ Alive(w)
    /\ BotsEnd({w})
    /\ UNCHANGED <<shellVars, monitorVars, age, unwritten, deployVars>>

(***************************************************************************)
(* The deploy step and the clock                                           *)
(***************************************************************************)
Unborn == {w \in Watchdogs : wpc[w] = "unborn"}

\* kill "$(cat logs/watchdog.pid)", if there is the file
DeployKills ==
    /\ deploy = "idle" /\ Unborn # {}
    /\ term' = [w \in Watchdogs |-> term[w] \/ (w = pidfile /\ Running(w))]
    /\ deploy' = "killed"
    /\ UNCHANGED <<wpc, nap, backoff, child_pid, uptime, monitorVars, botVars,
                   pidfile, dnap>>

\* pkill -f Dash-N-Bark
DeployPkills ==
    /\ deploy = "killed"
    /\ BotsEnd({w \in Watchdogs : Alive(w)})
    /\ deploy' = "sleep" /\ dnap' = DeploySleep
    /\ UNCHANGED <<shellVars, monitorVars, age, unwritten, pidfile>>

\* nohup ./scripts/watchdog.sh, which writes its pid
DeployStarts ==
    /\ deploy = "sleep" /\ dnap = 0
    /\ \E w \in Unborn :
         /\ \A v \in Unborn : w <= v
         /\ wpc' = [wpc EXCEPT ![w] = "loop"]
         /\ pidfile' = w
    /\ deploy' = "idle"
    /\ UNCHANGED <<nap, backoff, child_pid, uptime, term, monitorVars, botVars, dnap>>

\* What takes less than a tick has been done.
Settled ==
    /\ deploy # "killed" /\ ~(deploy = "sleep" /\ dnap = 0)
    /\ \A w \in Watchdogs :
         /\ wpc[w] \notin {"loop", "spawned"} /\ ~TrapRuns(w)
         /\ wpc[w] = "waiting" => Alive(w)
         /\ wpc[w] = "backoff" => nap[w] > 0
         /\ mpc[w] # "dump" /\ ~Asleep(w)

Beating == {t \in Threads : \E w \in Watchdogs : bot[w] = "up" /\ t \notin hung[w]}

\* A tick: whoever is not hung beats, at least once, and who sleeps has less
\* left to sleep.
Tick ==
    /\ Settled
    /\ WriteHeartbeats(Beating, 1)
    /\ uptime' = [w \in Watchdogs |-> Least(LongUptime, uptime[w] + 1)]
    /\ nap' = [w \in Watchdogs |-> Most(0, nap[w] - 1)]
    /\ mnap' = [w \in Watchdogs |-> Most(0, mnap[w] - 1)]
    /\ dnap' = Most(0, dnap - 1)
    /\ UNCHANGED <<wpc, backoff, child_pid, term, mpc, bot, hung, pidfile, deploy>>

(***************************************************************************)
(* The specification                                                       *)
(***************************************************************************)
Shell(w) == StartBot(w) \/ KeepPid(w) \/ Reap(w) \/ Restart(w) \/ Shutdown(w)

Monitor(w) ==
    MonitorPasses(w) \/ MonitorAsksForDump(w) \/ MonitorTerminates(w)

Bot(w) ==
    \/ BotStarts(w) \/ BotExits(w)
    \/ \E t \in Threads : BotHangs(w, t) \/ BotRecovers(w, t)

Deploy == DeployKills \/ DeployPkills \/ DeployStarts

Next ==
    \/ Tick \/ Deploy
    \/ \E w \in Watchdogs : Shell(w) \/ Monitor(w) \/ Bot(w)

Spec == Init /\ [][Next]_vars

\* Shells, monitors and the clock go on; the bot need not do anything, and
\* nobody need deploy.
FairSpec ==
    /\ Spec
    /\ WF_vars(Tick) /\ WF_vars(DeployPkills) /\ WF_vars(DeployStarts)
    /\ \A w \in Watchdogs : WF_vars(Shell(w)) /\ WF_vars(Monitor(w))

(***************************************************************************)
(* Properties                                                              *)
(***************************************************************************)
\* There is never a second bot: nobody else uses the bot's token, its files
\* and its heartbeats.
OneBot == Cardinality({w \in Watchdogs : Alive(w)}) <= 1

\* A bot is sick if it has not come up, if one of its threads is hung, or if
\* one could not write its last beat: "if the filesystem is broken the
\* watchdog detects the missing mtime updates and restarts us".
Sick(w) == bot[w] = "starting" \/ hung[w] # {} \/ unwritten # {}

AsksOnlySick ==
    \A w \in Watchdogs :
      mpc'[w] = "dump" /\ mpc[w] # "dump" /\ Alive(w) => Sick(w)

\* A thread dump is asked of, and so a bot is killed, only if it is sick: no
\* bot whose threads run and write their files is killed for the beats of
\* another, or for files that one left behind, or for want of one.
DumpsOnlySick == [][AsksOnlySick]_vars

\* A bot does not stay sick: it comes up, its thread recovers and its file is
\* written, or the bot is killed.
SickBotEnds ==
    \A w \in Watchdogs :
      /\ \A t \in Threads : []<>~(Alive(w) /\ t \in hung[w] \cup unwritten)
      /\ []<>(bot[w] # "starting")

\* A dead bot is started again, unless its watchdog is told to stop.
DeadBotRestarts ==
    \A w \in Watchdogs :
      wpc[w] # "unborn" ~> (Alive(w) \/ term[w])

\* "Writes its own pid to logs/watchdog.pid so the deploy step can stop it
\* cleanly": when a deploy has started a watchdog, all the older ones are
\* gone or have been told to stop.
StoppedByDeploy ==
    \A v, w \in Watchdogs : v < w /\ Running(w) /\ Running(v) => term[v]

=============================================================================
