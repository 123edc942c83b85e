------------------------------ MODULE Pickers -------------------------------
(***************************************************************************)
(* The paged pickers: /soundpad, /joineffect and /search each keep a table *)
(* of sessions under a mutex, one per slash command, and every message     *)
(* they send has buttons that name their session and the time the message  *)
(* was built.  Anyone may click, on what the message shows at that moment; *)
(* the click is handled by a pool thread later.                            *)
(*                                                                         *)
(* The three commands share no state but the soundpad's rows, so one of    *)
(* them is chosen in Init.  A session's view is what build_soundpad_       *)
(* message, build_picker_message and buildSearchMessage put into buttons;  *)
(* the wording of the status line is left out.  An answer without buttons  *)
(* leaves the old ones where they are: nothing promises that Discord       *)
(* removes them, and a dead session's buttons must do no harm.             *)
(***************************************************************************)
EXTENDS Integers, Sequences, FiniteSets

CONSTANTS
    Users,
    MaxSessions,    \* MAX_SESSIONS of each: 10, 3 and 10
    Expire,         \* SESSION_EXPIRE_SECS: 180, 180 and 300
    Cleanup,        \* SESSION_CLEANUP_SECS: 216 and 216; /search uses Expire
    PageSize,       \* PAGE_SIZE, RESULTS_PER_PAGE
    MaxVolume,      \* 100, in steps of 10; the least is one step
    NTags,          \* bound: names a tag may have, in order of name
    FirstSounds,    \* sounds there are at first, all with the first tag
    MaxSounds,      \* bound: rows of the soundpad, results of a search
    MaxUids,        \* bound: slash commands; and one more than fit the table
    MaxClicks,      \* bound: clicks
    MaxTime         \* bound: the clock

Commands == {"soundpad", "joineffect", "search"}

ASSUME PickersAssumption ==
    /\ MaxSessions \in [Commands -> Nat \ {0}] /\ PageSize \in Nat \ {0}
    /\ Expire \in Nat /\ Cleanup \in Nat /\ MaxVolume \in Nat \ {0}
    /\ NTags \in Nat /\ FirstSounds \in Nat /\ MaxSounds \in Nat /\ MaxUids \in Nat
    /\ MaxClicks \in Nat /\ MaxTime \in Nat

VARIABLES
    command,        \* whose table this is; never changes
    store,          \* the soundpad's rows: tags, and each sound's tags by id
    table,          \* sessions_: created_at and the view, by uid
    opened,         \* uids drawn so far; they are numbered as they are drawn
    shown,          \* by uid, what the session's message shows on Discord
    job,            \* by user, the handler that works for them
    writes,         \* by uid, setJoinEffect and removeJoinEffect calls made
    now, clicks

vars == <<command, store, table, opened, shown, job, writes, now, clicks>>
unmoved == <<command, opened, writes, now, clicks>>

Uids == 1 .. MaxUids
Tags == 1 .. NTags
AllClips == 0
TagList == NTags + 1
Tabs == 0 .. NTags + 1

Least(a, b) == IF a < b THEN a ELSE b
Most(a, b) == IF a < b THEN b ELSE a
Put(f, u, x) == [v \in DOMAIN f \cup {u} |-> IF v = u THEN x ELSE f[v]]
Without(f, u) == [v \in DOMAIN f \ {u} |-> f[v]]

(***************************************************************************)
(* The soundpad's rows and their pages                                     *)
(***************************************************************************)
\* What the tables hold after at most one more row of some /add: a tag comes
\* before the sound it is for.  Rows are never deleted.
Grown(s) ==
    {s} \cup {[s EXCEPT !.tags = @ \cup {t}] : t \in Tags \ s.tags}
        \cup {[s EXCEPT !.sounds = Append(@, ts)] :
                ts \in {x \in SUBSET s.tags :
                          Len(s.sounds) < MaxSounds /\ Cardinality(x) <= 2}}

\* A tag's name is its number, so this is the order of the index on names;
\* tags are added in any order, so the order of ids is among the cases.
Items(tab, s) ==
    CASE tab = TagList -> s.tags
      [] tab = AllClips -> DOMAIN s.sounds
      [] OTHER -> {i \in DOMAIN s.sounds : tab \in s.sounds[i]}

\* LIMIT :limit OFFSET :offset
Page(items, page) ==
    {i \in items : Cardinality({j \in items : j < i}) \div PageSize = page}

\* The count is asked for twice: once for the quotient, once for the remainder.
TotalPages(first, second) ==
    (first \div PageSize) + (IF second % PageSize = 0 THEN 0 ELSE 1)

\* countSounds, countTags: 0 when the query fails.
Counts(tab, s) == {0, Cardinality(Items(tab, s))}

\* The page, then the counts: three queries with no lock around them, so rows
\* may come between.  A page that cannot be read is answered like a total of 0.
ListPaged(tab, page) ==
    UNION {UNION {{[ids |-> Page(Items(tab, store), page), store |-> second,
                    total |-> TotalPages(m, n)] :
                     m \in Counts(tab, first), n \in Counts(tab, second)} :
                    second \in Grown(first)} : first \in Grown(store)}

\* /add saves a row; /search does not look at them.
Save ==
    /\ command # "search"
    /\ store' \in Grown(store)
    /\ UNCHANGED <<unmoved, table, shown, job>>

(***************************************************************************)
(* Sessions, their messages and the buttons on them                        *)
(***************************************************************************)
View == [page : Nat, total : Nat, tab : Tabs, ids : SUBSET Nat,
         volume : 1 .. MaxVolume, results : 0 .. MaxSounds]
Message == [ts : Nat, view : View]

FirstView(tab, ids, total, results) ==
    [page |-> 0, total |-> total, tab |-> tab, ids |-> ids,
     volume |-> MaxVolume, results |-> results]

\* Every message is built with the time in its buttons.
Built(view) == [ts |-> now, view |-> view]

Button(cmd, arg) == [cmd |-> cmd, arg |-> arg]

PageButtons(v) ==
    {b \in {Button("prev", 0), Button("next", 0)} :
       IF b.cmd = "prev" THEN v.page > 0 ELSE v.page < v.total - 1}

JumpButton(v) == IF v.total > 1 THEN {Button("jump", 0)} ELSE {}

SoundpadButtons(v) ==
    IF v.ids = {} THEN {}
    ELSE PageButtons(v) \cup JumpButton(v)
         \cup {Button(IF v.tab = TagList THEN "tag" ELSE "play", i) : i \in v.ids}
         \cup (IF v.volume > 1 THEN {Button("vol", -1)} ELSE {})
         \cup (IF v.volume < MaxVolume THEN {Button("vol", 1)} ELSE {})

JoinEffectButtons(v) ==
    PageButtons(v) \cup JumpButton(v) \cup {Button("unbind", 0)}
      \cup {Button("bind", i) : i \in v.ids}

SearchButtons(v) == PageButtons(v) \cup {Button("select", i) : i \in v.ids}

Buttons(v) ==
    CASE command = "soundpad" -> SoundpadButtons(v)
      [] command = "joineffect" -> JoinEffectButtons(v)
      [] OTHER -> SearchButtons(v)

Idle == [pc |-> "idle"]
Doing(p, j) == job' = [job EXCEPT ![p] = j]
Replying(u, msg) == [pc |-> "replying", uid |-> u, msg |-> msg]

Cap == MaxSessions[command]

CleanupSecs == IF command = "search" THEN Expire ELSE Cleanup

\* Mutant: sessions go until there is room for two.
MutEvictOldSessions ==
    LET young == {u \in DOMAIN table : now - table[u].at < CleanupSecs}
    IN  {kept \in SUBSET young :
           Cardinality(kept) = Least(Cardinality(young), Most(0, Cap - 2))}

\* The sessions that evict_old_sessions may leave; of several that are equally
\* old the first in the map's order goes, which the random uids decide.
EvictOldSessions ==
    LET young == {u \in DOMAIN table : now - table[u].at < CleanupSecs}
        oldest == {u \in young : \A v \in young : table[u].at <= table[v].at}
    IN  IF Cardinality(young) >= Cap
        THEN {young \ {u} : u \in oldest} ELSE {young}

(***************************************************************************)
(* The slash commands: list, then insert under the mutex, then reply       *)
(***************************************************************************)
ExecuteSoundpad(p) ==
    /\ command = "soundpad" /\ job[p] = Idle
    /\ \E tab \in {AllClips, TagList} : \E r \in ListPaged(tab, 0) :
         /\ r.total # 0
         /\ store' = r.store
         /\ Doing(p, [pc |-> "opening", view |-> FirstView(tab, r.ids, r.total, 0)])
    /\ UNCHANGED <<unmoved, table, shown>>

ExecuteJoinEffect(p) ==
    /\ command = "joineffect" /\ job[p] = Idle
    /\ \E r \in ListPaged(AllClips, 0) :
         /\ r.total # 0
         /\ store' = r.store
         /\ Doing(p, [pc |-> "opening",
                      view |-> FirstView(AllClips, r.ids, r.total, 0)])
    /\ UNCHANGED <<unmoved, table, shown>>

\* searchByPlatform on a thread of its own; its results are kept whole.
ExecuteSearch(p) ==
    /\ command = "search" /\ job[p] = Idle
    /\ \E n \in 1 .. MaxSounds :
         Doing(p, [pc |-> "opening",
                   view |-> FirstView(AllClips, Page(1 .. n, 0),
                                      TotalPages(n, n), n)])
    /\ UNCHANGED <<unmoved, store, table, shown>>

\* Under the mutex: draw a uid, make room, insert.
Open(p) ==
    /\ job[p].pc = "opening" /\ opened < MaxUids /\ opened <= Cap
    /\ LET u == opened + 1
       IN  /\ \E kept \in EvictOldSessions :
                table' = [v \in kept \cup {u} |->
                            IF v = u THEN [at |-> now, view |-> job[p].view]
                            ELSE table[v]]
           /\ opened' = u
           /\ Doing(p, Replying(u, Built(job[p].view)))
    /\ UNCHANGED <<command, store, shown, writes, now, clicks>>

\* A reply that is sent after the mutex was released shows the view that was
\* copied under it.
Reply(p) ==
    /\ job[p].pc = "replying"
    /\ shown' = Put(shown, job[p].uid, job[p].msg)
    /\ Doing(p, Idle)
    /\ UNCHANGED <<unmoved, store, table>>

(***************************************************************************)
(* The handlers of a click                                                 *)
(***************************************************************************)
Click(p) ==
    /\ job[p] = Idle /\ clicks < MaxClicks
    /\ \E u \in DOMAIN shown : \E b \in Buttons(shown[u].view) :
         Doing(p, [pc |-> "clicked", uid |-> u, cmd |-> b.cmd, arg |-> b.arg,
                   ts |-> shown[u].ts])
    /\ clicks' = clicks + 1
    /\ UNCHANGED <<command, store, table, opened, shown, writes, now>>

Expired(ts) == now - ts > Expire

\* The timestamp is the button's or the modal's own, not the session's.
ClickExpired(p) ==
    /\ job[p].pc \in {"clicked", "modal"} /\ Expired(job[p].ts)
    /\ table' = Without(table, job[p].uid)
    /\ Doing(p, Idle)
    /\ UNCHANGED <<unmoved, store, shown>>

\* "no longer valid"
ClickGone(p) ==
    /\ job[p].pc \in {"clicked", "modal"} /\ ~Expired(job[p].ts)
    /\ job[p].uid \notin DOMAIN table
    /\ Doing(p, Idle)
    /\ UNCHANGED <<unmoved, store, table, shown>>

\* The click is handled now: its session is there and the mutex is held.
Handles(p, cmds) ==
    /\ job[p].pc = "clicked" /\ job[p].cmd \in cmds
    /\ ~Expired(job[p].ts)
    /\ job[p].uid \in DOMAIN table

\* update_button_page and update_page_edit_response, the mutex held
SoundpadRefresh(u, view) ==
    \E r \in ListPaged(view.tab, view.page) :
      /\ store' = r.store
      /\ IF r.total = 0
         THEN table' = Without(table, u) /\ UNCHANGED shown
         ELSE LET fresh == [view EXCEPT !.ids = r.ids, !.total = r.total]
              IN  /\ table' = [table EXCEPT ![u].view = fresh]
                  /\ shown' = Put(shown, u, Built(fresh))

\* The same of JoinEffectCommand, which always lists every clip.
JoinEffectRefresh(u, view) == SoundpadRefresh(u, [view EXCEPT !.tab = AllClips])

Refresh(u, view) ==
    IF command = "soundpad" THEN SoundpadRefresh(u, view)
    ELSE JoinEffectRefresh(u, view)

\* Mutant: the next page is taken to be there, for the button was enabled.
MutTurned(view, cmd) ==
    IF cmd = "prev" THEN [view EXCEPT !.page = Most(0, @ - 1)]
    ELSE [view EXCEPT !.page = @ + 1]

Turned(view, cmd) ==
    IF cmd = "prev" THEN [view EXCEPT !.page = Most(0, @ - 1)]
    ELSE [view EXCEPT !.page = Least(view.total - 1, @ + 1)]

Turn(p) ==
    /\ command # "search" /\ Handles(p, {"prev", "next"})
    /\ Refresh(job[p].uid, Turned(table[job[p].uid].view, job[p].cmd))
    /\ Doing(p, Idle)
    /\ UNCHANGED unmoved

\* The mutex is released before the answer is sent.
TurnSearch(p) ==
    /\ command = "search" /\ Handles(p, {"prev", "next"})
    /\ LET u == job[p].uid
           turned == Turned(table[u].view, job[p].cmd)
           view == [turned EXCEPT !.ids = Page(1 .. turned.results, turned.page)]
       IN  /\ table' = [table EXCEPT ![u].view = view]
           /\ Doing(p, Replying(u, Built(view)))
    /\ UNCHANGED <<unmoved, store, shown>>

\* Mutant: the volume is not clamped, for the button was enabled.
MutChangeVolume(p) ==
    /\ Handles(p, {"vol"})
    /\ LET u == job[p].uid
           view == [table[u].view EXCEPT !.volume = @ + job[p].arg]
       IN  /\ table' = [table EXCEPT ![u].view = view]
           /\ Doing(p, Replying(u, Built(view)))
    /\ UNCHANGED <<unmoved, store, shown>>

ChangeVolume(p) ==
    /\ Handles(p, {"vol"})
    /\ LET u == job[p].uid
           view == [table[u].view EXCEPT
                      !.volume = Most(1, Least(MaxVolume, @ + job[p].arg))]
       IN  /\ table' = [table EXCEPT ![u].view = view]
           /\ Doing(p, Replying(u, Built(view)))
    /\ UNCHANGED <<unmoved, store, shown>>

ChooseTag(p) ==
    /\ Handles(p, {"tag"})
    /\ LET u == job[p].uid
       IN  SoundpadRefresh(u, [table[u].view EXCEPT !.page = 0, !.tab = job[p].arg])
    /\ Doing(p, Idle)
    /\ UNCHANGED unmoved

\* The answer is built here, before the voice channel is joined.
PlayClip(p) ==
    /\ Handles(p, {"play"})
    /\ LET u == job[p].uid
       IN  IF job[p].arg \in table[u].view.ids
           THEN Doing(p, [pc |-> "joining", uid |-> u, msg |-> Built(table[u].view)])
           ELSE Doing(p, Idle)
    /\ UNCHANGED <<unmoved, store, table, shown>>

\* joinVoiceChannel, up to 3 s, and playSoundpadClip; either may fail.
PlayedClip(p) ==
    /\ job[p].pc = "joining"
    /\ shown' \in {shown, Put(shown, job[p].uid, job[p].msg)}
    /\ Doing(p, Idle)
    /\ UNCHANGED <<unmoved, store, table>>

OpenModal(p) ==
    /\ Handles(p, {"jump"})
    /\ Doing(p, [pc |-> "modal", uid |-> job[p].uid, ts |-> now])
    /\ UNCHANGED <<unmoved, store, table, shown>>

\* The user may write any number into the modal, or what is none, or close it.
SubmitModal(p) ==
    /\ job[p].pc = "modal" /\ ~Expired(job[p].ts)
    /\ job[p].uid \in DOMAIN table
    /\ \E requested \in -1 .. MaxSounds :
         LET u == job[p].uid
             view == table[u].view
         IN  Refresh(u, [view EXCEPT
                           !.page = Most(0, Least(view.total - 1, requested))])
    /\ Doing(p, Idle)
    /\ UNCHANGED unmoved

CloseModal(p) ==
    /\ job[p].pc = "modal"
    /\ Doing(p, Idle)
    /\ UNCHANGED <<unmoved, store, table, shown>>

\* Mutant: the session outlives the selection.
MutBind(p) ==
    /\ Handles(p, {"bind"})
    /\ Doing(p, [pc |-> "choosing", uid |-> job[p].uid])
    /\ UNCHANGED <<unmoved, store, table, shown>>

\* Selection finalizes the picker: the session goes before the table of join
\* effects is written.
Bind(p) ==
    /\ Handles(p, {"bind"})
    /\ LET u == job[p].uid
       IN  IF job[p].arg \in table[u].view.ids
           THEN table' = Without(table, u) /\ Doing(p, [pc |-> "choosing", uid |-> u])
           ELSE UNCHANGED table /\ Doing(p, Idle)
    /\ UNCHANGED <<unmoved, store, shown>>

Unbind(p) ==
    /\ Handles(p, {"unbind"})
    /\ table' = Without(table, job[p].uid)
    /\ Doing(p, [pc |-> "choosing", uid |-> job[p].uid])
    /\ UNCHANGED <<unmoved, store, shown>>

WriteJoinEffect(p) ==
    /\ job[p].pc = "choosing"
    /\ writes' = [writes EXCEPT ![job[p].uid] = @ + 1]
    /\ Doing(p, Idle)
    /\ UNCHANGED <<command, opened, now, clicks, store, table, shown>>

SelectVideo(p) ==
    /\ Handles(p, {"select"})
    /\ Doing(p, [pc |-> "fetching", uid |-> job[p].uid])
    /\ UNCHANGED <<unmoved, store, table, shown>>

\* Mutant: the session is looked up with sessions_[uid].
MutSelectedVideo(p) ==
    /\ job[p].pc = "fetching"
    /\ LET u == job[p].uid
           empty == [at |-> 0, view |-> FirstView(AllClips, {}, 0, 0)]
           session == IF u \in DOMAIN table THEN table[u] ELSE empty
       IN  /\ table' = Put(table, u, session)
           /\ Doing(p, Replying(u, Built(session.view)))
    /\ UNCHANGED <<unmoved, store, shown>>

\* The channel was joined and the video fetched, or not; the session is looked
\* up again, and left alone if another /search has evicted it.
SelectedVideo(p) ==
    /\ job[p].pc = "fetching"
    /\ LET u == job[p].uid
       IN  \/ Doing(p, Idle)
           \/ u \in DOMAIN table /\ Doing(p, Replying(u, Built(table[u].view)))
    /\ UNCHANGED <<unmoved, store, table, shown>>

Tick ==
    /\ now < MaxTime
    /\ now' = now + 1
    /\ UNCHANGED <<command, opened, writes, clicks, store, table, shown, job>>

(***************************************************************************)
(* The specification                                                       *)
(***************************************************************************)
Init ==
    /\ command \in Commands
    /\ store = [tags |-> {1} \cap Tags,
                sounds |-> [i \in 1 .. FirstSounds |-> {1} \cap Tags]]
    /\ table = <<>> /\ shown = <<>>
    /\ opened = 0
    /\ job = [p \in Users |-> Idle]
    /\ writes = [u \in Uids |-> 0]
    /\ now = 0 /\ clicks = 0

Execute(p) ==
    ExecuteSoundpad(p) \/ ExecuteJoinEffect(p) \/ ExecuteSearch(p) \/ Open(p)

Handle(p) ==
    \/ ClickExpired(p) \/ ClickGone(p)
    \/ Turn(p) \/ TurnSearch(p) \/ ChangeVolume(p) \/ ChooseTag(p)
    \/ OpenModal(p) \/ SubmitModal(p) \/ CloseModal(p)
    \/ PlayClip(p) \/ PlayedClip(p) \/ Bind(p) \/ Unbind(p) \/ WriteJoinEffect(p)
    \/ SelectVideo(p) \/ SelectedVideo(p)

Next ==
    \/ Save \/ Tick
    \/ \E p \in Users : Execute(p) \/ Reply(p) \/ Click(p) \/ Handle(p)

Spec == Init /\ [][Next]_vars

(***************************************************************************)
(* Properties                                                              *)
(***************************************************************************)
ButtonNames == {"prev", "next", "jump", "tag", "play", "vol", "bind", "unbind",
                "select"}

Job ==
    {Idle} \cup [pc : {"opening"}, view : View]
      \cup [pc : {"clicked"}, uid : Uids, cmd : ButtonNames, arg : Int, ts : Nat]
      \cup [pc : {"modal"}, uid : Uids, ts : Nat]
      \cup [pc : {"joining", "replying"}, uid : Uids, msg : Message]
      \cup [pc : {"choosing", "fetching"}, uid : Uids]

\* Sessions, messages and handlers are of the program's types; the volume of
\* every view stays between one step and 100.
TypeOK ==
    /\ command \in Commands
    /\ store.tags \subseteq Tags /\ store.sounds \in Seq(SUBSET Tags)
    /\ opened \in 0 .. MaxUids
    /\ DOMAIN table \subseteq 1 .. opened /\ DOMAIN shown \subseteq 1 .. opened
    /\ \A u \in DOMAIN table : table[u] \in [at : 0 .. now, view : View]
    /\ \A u \in DOMAIN shown : shown[u] \in Message
    /\ job \in [Users -> Job]
    /\ writes \in [Uids -> Nat]
    /\ now \in 0 .. MaxTime /\ clicks \in 0 .. MaxClicks

\* However the pages were turned, and whatever rows and failures came between
\* the queries, a session never stands on a page behind the last: only a first
\* page, listed when its tag had no sound yet, can be without clips.
\* Otherwise build_soundpad_component leaves the message without any button
\* and the session is lost to its users.
PageHasClips ==
    \A u \in DOMAIN table : table[u].view.ids = {} => table[u].view.page = 0

\* "Selection finalizes the picker": of all the clicks on a /joineffect
\* picker, several at once included, one at most writes the table of join
\* effects.
ChoosesOnce == \A u \in Uids : writes[u] <= 1

\* A click on a button of u's message is handled.
OwnClick(u) ==
    \E p \in Users : /\ job[p].pc \in {"clicked", "modal"}
                     /\ job[p].uid = u /\ job'[p] # job[p]

\* u makes room for a new session: it is past the cleanup time, or the table
\* is full and no session that stays is older.
MakesRoom(u) ==
    /\ opened' = opened + 1 /\ u \notin DOMAIN table'
    /\ \/ now - table[u].at >= CleanupSecs
       \/ /\ Cardinality(DOMAIN table') = Cap
          /\ \A v \in DOMAIN table \cap DOMAIN table' : table[u].at <= table[v].at

Touched(u) ==
    (u \in DOMAIN table' /\ table'[u] = table[u]) \/ OwnClick(u) \/ MakesRoom(u)

\* A session is changed or ended by a handler of one of its own clicks, or
\* makes room for another: no step of one session touches another that should
\* have stayed.
ChangedByItsOwn == [][\A u \in DOMAIN table : Touched(u)]_vars

\* The sessions are those of SessionTable: never more than MAX_SESSIONS, and
\* one that was ended, evicted or expired is not brought back by a handler
\* that still works for it.
Sessions == INSTANCE SessionTable WITH
    cap <- Cap, live <- DOMAIN table, gone <- (1 .. opened) \ DOMAIN table

KeepsSessionTable == Sessions!Spec

=============================================================================
