----------------------------- MODULE ThreadDump -----------------------------
(***************************************************************************)
(* The thread dump of CrashHandler.cpp.  SIGUSR1 runs the dispatcher in    *)
(* the main thread: it opens the file, writes its own trace, publishes the *)
(* descriptor and sends SIGUSR2 to every other thread; each of these       *)
(* writes its trace under g_dump_mutex and then counts itself in           *)
(* g_dump_acks.  The dispatcher waits for the acknowledgements, at most    *)
(* two seconds, and closes the file.  Any thread may be slow, or may never *)
(* go on: a trace takes memory, whose lock the thread may have held when   *)
(* the signal came.                                                        *)
(***************************************************************************)
EXTENDS Integers, FiniteSets

CONSTANTS Peers, Main   \* a finite set of threads, and the one that dispatches

VARIABLES
    dispatcher,     \* where deadlock_dump_handler is
    sent,           \* threads that were sent SIGUSR2
    peer,           \* where per_thread_dump_handler is in each of these
    g_dump_fd,      \* whether the descriptor is published
    g_dump_acks,
    g_dump_mutex,   \* who holds it
    file            \* the traces in it, and whether it says that some lack

vars == <<dispatcher, sent, peer, g_dump_fd, g_dump_acks, g_dump_mutex, file>>

Dumpers == Peers \cup {Main}

TypeOK ==
    /\ dispatcher \in {"idle", "opened", "tracing", "traced", "signalling",
                       "waiting", "late", "unpublish", "closing", "returned"}
    /\ sent \subseteq Peers
    /\ peer \in [Peers -> {"idle", "signalled", "loaded", "tracing", "traced",
                           "returned"}]
    /\ g_dump_fd \in BOOLEAN /\ g_dump_acks \in 0 .. Cardinality(Peers)
    /\ g_dump_mutex \in {{}} \cup {{t} : t \in Dumpers}
    /\ file \in [traces : SUBSET Dumpers, tail : BOOLEAN, open : BOOLEAN]

Fresh(d, s, p, fd, acks, mutex, f) ==
    /\ d = "idle" /\ s = {} /\ p = [t \in Peers |-> "idle"]
    /\ fd = FALSE /\ acks = 0 /\ mutex = {}
    /\ f = [traces |-> {}, tail |-> FALSE, open |-> FALSE]

Init ==
    Fresh(dispatcher, sent, peer, g_dump_fd, g_dump_acks, g_dump_mutex, file)

(***************************************************************************)
(* deadlock_dump_handler                                                   *)
(***************************************************************************)
At(here, there) == dispatcher = here /\ dispatcher' = there

\* The file may not open: then there is no dump.
Opens ==
    /\ \/ At("idle", "opened") /\ file' = [file EXCEPT !.open = TRUE]
       \/ At("idle", "returned") /\ UNCHANGED file
    /\ UNCHANGED <<sent, peer, g_dump_fd, g_dump_acks, g_dump_mutex>>

\* dump_trace_to_fd takes the mutex, writes the trace to the descriptor it was
\* given, and releases the mutex.
Locks(t) == g_dump_mutex = {} /\ g_dump_mutex' = {t}

Traces(t) ==
    /\ g_dump_mutex' = {}
    /\ file' = [file EXCEPT !.traces = IF file.open THEN @ \cup {t} ELSE @]

LocksForSelf ==
    /\ At("opened", "tracing") /\ Locks(Main)
    /\ UNCHANGED <<sent, peer, g_dump_fd, g_dump_acks, file>>

TracesSelf ==
    /\ At("tracing", "traced") /\ Traces(Main)
    /\ UNCHANGED <<sent, peer, g_dump_fd, g_dump_acks>>

Publishes ==
    /\ At("traced", "signalling")
    /\ g_dump_acks' = 0 /\ g_dump_fd' = TRUE
    /\ UNCHANGED <<sent, peer, g_dump_mutex, file>>

\* One tgkill of signal_all_threads_except_self
Signals(t) ==
    /\ At("signalling", "signalling")
    /\ t \notin sent
    /\ sent' = sent \cup {t}
    /\ peer' = [peer EXCEPT ![t] = "signalled"]
    /\ UNCHANGED <<g_dump_fd, g_dump_acks, g_dump_mutex, file>>

\* All of /proc/self/task has been gone through, or it did not open: whom no
\* tgkill reached is not in "sent", and is not waited for.
BroadcastEnds ==
    /\ At("signalling", "waiting")
    /\ UNCHANGED <<sent, peer, g_dump_fd, g_dump_acks, g_dump_mutex, file>>

AllAcked == g_dump_acks >= Cardinality(sent)

\* The loop is over, by the acknowledgements or by its 200 turns, and the
\* count is read once more.
StopsWaiting ==
    /\ At("waiting", IF AllAcked THEN "unpublish" ELSE "late")
    /\ UNCHANGED <<sent, peer, g_dump_fd, g_dump_acks, g_dump_mutex, file>>

\* "[only ... peer threads responded before timeout]", without the mutex
WritesTail ==
    /\ At("late", "unpublish") /\ file' = [file EXCEPT !.tail = TRUE]
    /\ UNCHANGED <<sent, peer, g_dump_fd, g_dump_acks, g_dump_mutex>>

Unpublishes ==
    /\ At("unpublish", "closing") /\ g_dump_fd' = FALSE
    /\ UNCHANGED <<sent, peer, g_dump_acks, g_dump_mutex, file>>

Closes ==
    /\ At("closing", "returned") /\ file' = [file EXCEPT !.open = FALSE]
    /\ UNCHANGED <<sent, peer, g_dump_fd, g_dump_acks, g_dump_mutex>>

(***************************************************************************)
(* per_thread_dump_handler                                                 *)
(***************************************************************************)
PeerAt(t, here, there) ==
    peer[t] = here /\ peer' = [peer EXCEPT ![t] = there]

\* Mutant: a thread counts itself before it writes.
MutLoads(t) ==
    /\ g_dump_fd
    /\ PeerAt(t, "signalled", "loaded")
    /\ g_dump_acks' = g_dump_acks + 1
    /\ UNCHANGED <<dispatcher, sent, g_dump_fd, g_dump_mutex, file>>

Loads(t) ==
    /\ g_dump_fd
    /\ PeerAt(t, "signalled", "loaded")
    /\ UNCHANGED <<dispatcher, sent, g_dump_fd, g_dump_acks, g_dump_mutex, file>>

ComesTooLate(t) ==
    /\ ~g_dump_fd
    /\ PeerAt(t, "signalled", "returned")
    /\ g_dump_acks' = g_dump_acks + 1
    /\ UNCHANGED <<dispatcher, sent, g_dump_fd, g_dump_mutex, file>>

PeerLocks(t) ==
    /\ PeerAt(t, "loaded", "tracing") /\ Locks(t)
    /\ UNCHANGED <<dispatcher, sent, g_dump_fd, g_dump_acks, file>>

PeerTraces(t) ==
    /\ PeerAt(t, "tracing", "traced") /\ Traces(t)
    /\ UNCHANGED <<dispatcher, sent, g_dump_fd, g_dump_acks>>

PeerAcks(t) ==
    /\ PeerAt(t, "traced", "returned")
    /\ g_dump_acks' = g_dump_acks + 1
    /\ UNCHANGED <<dispatcher, sent, g_dump_fd, g_dump_mutex, file>>

(***************************************************************************)
(* The specification                                                       *)
(***************************************************************************)
Dispatch ==
    \/ LocksForSelf \/ TracesSelf \/ Publishes \/ BroadcastEnds
    \/ StopsWaiting \/ WritesTail \/ Unpublishes \/ Closes
    \/ \E t \in Peers : Signals(t)

Answer(t) ==
    Loads(t) \/ ComesTooLate(t) \/ PeerLocks(t) \/ PeerTraces(t) \/ PeerAcks(t)

Next == Opens \/ Dispatch \/ \E t \in Peers : Answer(t)

Spec == Init /\ [][Next]_vars

(***************************************************************************)
(* Properties                                                              *)
(***************************************************************************)
\* A dump that was closed without the line that threads did not respond has
\* the trace of every thread that was signalled, and the dispatcher's: it does
\* not take an acknowledgement for a trace that is still to be written, or
\* that went to a closed file.  Of threads that no signal reached it says
\* nothing ("even if the per-thread broadcast fails").
DumpTellsAll ==
    dispatcher = "returned" /\ file.traces # {} /\ ~file.tail =>
        sent \cup {Main} \subseteq file.traces

=============================================================================
