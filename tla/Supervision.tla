---------------------------- MODULE Supervision -----------------------------
(***************************************************************************)
(* The watchdog and the thread dump it asks for: SIGUSR1 starts the dump   *)
(* in the bot that is stuck, its threads answer while the monitor waits,   *)
(* and SIGTERM ends the bot wherever the dump is.  At most one bot runs    *)
(* (OneBot), so there is one process whose handlers are followed.          *)
(***************************************************************************)
EXTENDS Watchdog

VARIABLES dispatcher, sent, peer, g_dump_fd, g_dump_acks, g_dump_mutex, file

dumpVars == <<dispatcher, sent, peer, g_dump_fd, g_dump_acks, g_dump_mutex, file>>

Dump == INSTANCE ThreadDump WITH Peers <- Threads, Main <- "main"

SupervisedInit == Init /\ Dump!Init

\* DEADLOCK_DUMP_GRACE_SECS: the dump has the 3 s until SIGTERM.
DumpGoesOn ==
    /\ \E w \in Watchdogs : Alive(w)
    /\ Dump!Dispatch \/ \E t \in Threads : Dump!Answer(t)
    /\ UNCHANGED vars

AsksForDump(w) ==
    /\ MonitorAsksForDump(w)
    /\ IF Alive(w) THEN Dump!Opens ELSE UNCHANGED dumpVars

\* The handlers' state goes with the process.
DumpDies ==
    IF \E w \in Watchdogs : Alive(w)' THEN UNCHANGED dumpVars
    ELSE Dump!Fresh(dispatcher', sent', peer', g_dump_fd', g_dump_acks',
                    g_dump_mutex', file')

WatchdogGoesOn ==
    /\ \/ Tick \/ Deploy
       \/ \E w \in Watchdogs :
            Shell(w) \/ MonitorPasses(w) \/ MonitorTerminates(w) \/ Bot(w)
    /\ DumpDies

SupervisedNext ==
    \/ WatchdogGoesOn \/ DumpGoesOn
    \/ \E w \in Watchdogs : AsksForDump(w)

supervisedVars == <<vars, dumpVars>>

SupervisedMonitor(w) ==
    \/ AsksForDump(w)
    \/ (MonitorPasses(w) \/ MonitorTerminates(w)) /\ DumpDies

\* As FairSpec, and nothing is assumed of the handlers.
SupervisedSpec ==
    /\ SupervisedInit /\ [][SupervisedNext]_supervisedVars
    /\ WF_supervisedVars(Tick /\ DumpDies)
    /\ WF_supervisedVars(DeployPkills /\ DumpDies)
    /\ WF_supervisedVars(DeployStarts /\ DumpDies)
    /\ \A w \in Watchdogs :
         /\ WF_supervisedVars(Shell(w) /\ DumpDies)
         /\ WF_supervisedVars(SupervisedMonitor(w))

SupervisedTypeOK == TypeOK /\ Dump!TypeOK

\* A dump that does not say so lacks no thread that was signalled.
DumpTellsAll == Dump!DumpTellsAll

=============================================================================
