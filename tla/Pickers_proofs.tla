---------------------------- MODULE Pickers_proofs ----------------------------
(***************************************************************************)
(* Proofs about Pickers for any users, tables, pages and bounds.           *)
(***************************************************************************)
EXTENDS Pickers, FiniteSetTheorems, TLAPS

(***************************************************************************)
(* Types                                                                   *)
(***************************************************************************)
Store == [tags : SUBSET Tags, sounds : Seq(SUBSET Tags)]

\* A view a session can have: it has a page, and lists tags as tags; the list of
\* a search is none of tags.
GoodView ==
    {v \in View : /\ v.total > 0
                  /\ v.tab = TagList => v.ids \subseteq Tags /\ v.results = 0}
GoodMessage == [ts : Nat, view : GoodView]

\* A handler's place when n uids are drawn
GoodJob(n) ==
    {Idle} \cup [pc : {"opening"}, view : GoodView]
      \cup {j \in [pc : {"clicked"}, uid : 1 .. n, cmd : ButtonNames, arg : Int,
                   ts : Nat] : j.cmd = "tag" => j.arg \in Tags}
      \cup [pc : {"modal"}, uid : 1 .. n, ts : Nat]
      \cup [pc : {"joining", "replying"}, uid : 1 .. n, msg : GoodMessage]
      \cup [pc : {"choosing", "fetching"}, uid : 1 .. n]

TableType ==
    /\ DOMAIN table \subseteq 1 .. opened
    /\ \A u \in DOMAIN table : table[u] \in [at : 0 .. now, view : GoodView]

ShownType ==
    /\ DOMAIN shown \subseteq 1 .. opened
    /\ \A u \in DOMAIN shown : shown[u] \in GoodMessage

JobType == job \in [Users -> GoodJob(opened)]

CountType ==
    /\ command \in Commands
    /\ opened \in 0 .. MaxUids
    /\ now \in 0 .. MaxTime /\ clicks \in 0 .. MaxClicks
    /\ writes \in [Uids -> Nat]

TypeInv == CountType /\ store \in Store /\ TableType /\ ShownType /\ JobType

LEMMA TypeInvImplies == TypeInv => TypeOK
<1> SUFFICES ASSUME TypeInv PROVE TypeOK
  OBVIOUS
<1>1. GoodView \subseteq View /\ GoodMessage \subseteq Message
  BY DEF GoodView, GoodMessage, Message
<1>2. GoodJob(opened) \subseteq Job
  <2>1. 1 .. opened \subseteq Uids
    BY PickersAssumption DEF TypeInv, CountType, Uids
  <2> QED
    BY <1>1, <2>1 DEF GoodJob, Job
<1>3. job \in [Users -> Job]
  BY <1>2 DEF TypeInv, JobType
<1>4. store.tags \subseteq Tags /\ store.sounds \in Seq(SUBSET Tags)
  BY DEF TypeInv, Store
<1> QED
  BY <1>1, <1>3, <1>4 DEF TypeInv, CountType, TableType, ShownType, TypeOK

LEMMA Bounds == PageSize \in Nat \ {0} /\ MaxVolume \in Nat \ {0} /\ NTags \in Nat
                /\ MaxUids \in Nat /\ MaxSounds \in Nat
BY PickersAssumption

LEMMA TotalPagesType ==
    ASSUME NEW m \in Nat, NEW n \in Nat
    PROVE  TotalPages(m, n) \in Nat
BY PickersAssumption DEF TotalPages

LEMMA SomePages ==
    ASSUME NEW n \in Nat \ {0}
    PROVE  TotalPages(n, n) > 0
<1>1. n = PageSize * (n \div PageSize) + (n % PageSize)
  BY PickersAssumption
<1>2. n \div PageSize \in Nat /\ n % PageSize \in Nat
  BY PickersAssumption
<1>3. CASE n \div PageSize = 0
  BY <1>1, <1>2, <1>3, PickersAssumption DEF TotalPages
<1>4. CASE n \div PageSize # 0
  BY <1>2, <1>4 DEF TotalPages
<1> QED
  BY <1>3, <1>4

LEMMA GrownType ==
    ASSUME NEW s \in Store, NEW r \in Grown(s)
    PROVE  r \in Store
BY DEF Grown, Store

LEMMA ItemsType ==
    ASSUME NEW s \in Store, NEW tab
    PROVE  /\ Items(tab, s) \subseteq Nat
           /\ tab = TagList => Items(tab, s) \subseteq Tags
           /\ Counts(tab, s) \subseteq Nat
<1>1. IsFiniteSet(Tags) /\ IsFiniteSet(1 .. Len(s.sounds))
  BY FS_Interval, PickersAssumption DEF Store, Tags
<1>2. s.tags \subseteq Tags /\ DOMAIN s.sounds = 1 .. Len(s.sounds)
  BY DEF Store
<1>3. Items(tab, s) \subseteq s.tags \/ Items(tab, s) \subseteq DOMAIN s.sounds
  BY DEF Items
<1>4. IsFiniteSet(Items(tab, s))
  BY <1>1, <1>2, <1>3, FS_Subset
<1>5. Counts(tab, s) \subseteq Nat
  BY <1>4, FS_CardinalityType DEF Counts
<1>6. tab = TagList => Items(tab, s) = s.tags
  BY PickersAssumption DEF Items, TagList, AllClips
<1>7. Items(tab, s) \subseteq Nat
  BY <1>2, <1>3, PickersAssumption DEF Tags
<1> QED
  BY <1>2, <1>5, <1>6, <1>7

\* A page as it is listed.
LEMMA ListPagedType ==
    ASSUME store \in Store, NEW tab, NEW page, NEW r \in ListPaged(tab, page)
    PROVE  /\ r.store \in Store
           /\ r.total \in Nat
           /\ r.ids \in SUBSET Nat
           /\ tab = TagList => r.ids \subseteq Tags
<1>1. PICK first \in Grown(store) : \E second \in Grown(first) :
        \E m \in Counts(tab, first), n \in Counts(tab, second) :
          r = [ids |-> Page(Items(tab, store), page), store |-> second,
               total |-> TotalPages(m, n)]
  BY DEF ListPaged
<1>2. PICK second \in Grown(first) :
        \E m \in Counts(tab, first), n \in Counts(tab, second) :
          r = [ids |-> Page(Items(tab, store), page), store |-> second,
               total |-> TotalPages(m, n)]
  BY <1>1
<1>3. PICK m \in Counts(tab, first), n \in Counts(tab, second) :
        r = [ids |-> Page(Items(tab, store), page), store |-> second,
             total |-> TotalPages(m, n)]
  BY <1>2
<1>4. first \in Store /\ second \in Store
  BY GrownType
<1>5. m \in Nat /\ n \in Nat
  BY <1>4, ItemsType
<1>6. Page(Items(tab, store), page) \subseteq Items(tab, store)
  BY DEF Page
<1> QED
  BY <1>3, <1>4, <1>5, <1>6, ItemsType, TotalPagesType

LEMMA ViewFields ==
    ASSUME NEW page \in Nat, NEW total \in Nat, NEW tab \in Tabs,
           NEW ids \in SUBSET Nat, NEW volume \in 1 .. MaxVolume,
           NEW results \in 0 .. MaxSounds
    PROVE  [page |-> page, total |-> total, tab |-> tab, ids |-> ids,
            volume |-> volume, results |-> results] \in View
BY DEF View

LEMMA FirstViewType ==
    ASSUME NEW tab \in Tabs, NEW ids \in SUBSET Nat, NEW total \in Nat \ {0},
           NEW results \in 0 .. MaxSounds,
           tab = TagList => ids \subseteq Tags /\ results = 0
    PROVE  FirstView(tab, ids, total, results) \in GoodView
<1>1. MaxVolume \in 1 .. MaxVolume /\ 0 \in Nat /\ total \in Nat
  BY PickersAssumption
<1>2. FirstView(tab, ids, total, results) \in View
  BY <1>1, ViewFields DEF FirstView
<1>3. /\ FirstView(tab, ids, total, results).total = total
      /\ FirstView(tab, ids, total, results).tab = tab
      /\ FirstView(tab, ids, total, results).ids = ids
      /\ FirstView(tab, ids, total, results).results = results
  BY DEF FirstView
<1>4. total > 0
  BY <1>1
<1> QED
  BY <1>2, <1>3, <1>4 DEF GoodView

LEMMA ButtonsType ==
    ASSUME command \in Commands, NEW v \in GoodView, NEW b \in Buttons(v)
    PROVE  b.cmd \in ButtonNames /\ b.arg \in Int /\ (b.cmd = "tag" => b.arg \in Tags)
<1>1. v.ids \subseteq Nat /\ (v.tab = TagList => v.ids \subseteq Tags)
  BY DEF GoodView, View
<1>2. PageButtons(v) \cup JumpButton(v)
        \subseteq {Button("prev", 0), Button("next", 0), Button("jump", 0)}
  BY DEF PageButtons, JumpButton
<1>3. \/ b \in {Button("prev", 0), Button("next", 0), Button("jump", 0),
               Button("unbind", 0), Button("vol", -1), Button("vol", 1)}
      \/ \E i \in v.ids : \/ b \in {Button("play", i), Button("bind", i),
                                    Button("select", i)}
                          \/ v.tab = TagList /\ b = Button("tag", i)
  <2>1. CASE command = "soundpad"
    <3>1. b \in SoundpadButtons(v)
      BY <2>1 DEF Buttons
    <3> QED
      BY <1>2, <3>1 DEF SoundpadButtons
  <2>2. CASE command = "joineffect"
    <3>1. b \in JoinEffectButtons(v)
      BY <2>2 DEF Buttons
    <3> QED
      BY <1>2, <3>1 DEF JoinEffectButtons
  <2>3. CASE command = "search"
    <3>1. b \in SearchButtons(v)
      BY <2>3 DEF Buttons
    <3> QED
      BY <1>2, <3>1 DEF SearchButtons
  <2> QED
    BY <2>1, <2>2, <2>3 DEF Commands
<1> QED
  BY <1>1, <1>3 DEF Button, ButtonNames

\* A handler's new place
LEMMA JobTypeKept ==
    ASSUME JobType, NEW p \in Users, NEW j \in GoodJob(opened), Doing(p, j),
           UNCHANGED opened
    PROVE  JobType'
<1>1. GoodJob(opened)' = GoodJob(opened)
  BY DEF GoodJob
<1> QED
  BY <1>1 DEF JobType, Doing

LEMMA JobsOfType ==
    /\ Idle \in GoodJob(opened)
    /\ \A v \in GoodView : [pc |-> "opening", view |-> v] \in GoodJob(opened)
    /\ \A u \in 1 .. opened :
         /\ [pc |-> "choosing", uid |-> u] \in GoodJob(opened)
         /\ [pc |-> "fetching", uid |-> u] \in GoodJob(opened)
         /\ \A t \in Nat : [pc |-> "modal", uid |-> u, ts |-> t] \in GoodJob(opened)
         /\ \A g \in GoodMessage :
              /\ Replying(u, g) \in GoodJob(opened)
              /\ [pc |-> "joining", uid |-> u, msg |-> g] \in GoodJob(opened)
BY DEF GoodJob, Replying

\* What is known of a handler by its place
LEMMA JobFields ==
    ASSUME JobType, NEW p \in Users
    PROVE  /\ job[p].pc = "opening" => job[p].view \in GoodView
           /\ job[p].pc \in {"clicked", "modal", "joining", "replying", "choosing",
                             "fetching"} => job[p].uid \in 1 .. opened
           /\ job[p].pc \in {"joining", "replying"} => job[p].msg \in GoodMessage
           /\ job[p].pc = "clicked" => /\ job[p].arg \in Int
                                       /\ job[p].cmd = "tag" => job[p].arg \in Tags
<1>1. job[p] \in GoodJob(opened)
  BY DEF JobType
<1> QED
  BY <1>1 DEF GoodJob, Idle
\* What the table and the messages can become
LEMMA TableTypeKept ==
    ASSUME TypeInv, UNCHANGED <<opened, now>>,
           \/ UNCHANGED table
           \/ \E u : table' = Without(table, u)
           \/ \E u \in DOMAIN table, view \in GoodView :
                table' = [table EXCEPT ![u].view = view]
    PROVE  TableType'
<1>1. TableType
  BY DEF TypeInv
<1>2. CASE UNCHANGED table
  BY <1>1, <1>2 DEF TableType
<1>3. CASE \E u : table' = Without(table, u)
  BY <1>1, <1>3 DEF TableType, Without
<1>4. ASSUME NEW u \in DOMAIN table, NEW view \in GoodView,
             table' = [table EXCEPT ![u].view = view]
      PROVE  TableType'
  <2>1. DOMAIN table' = DOMAIN table
    BY <1>4
  <2>2. ASSUME NEW v \in DOMAIN table
        PROVE  table'[v] \in [at : 0 .. now, view : GoodView]
    <3>1. table[v] \in [at : 0 .. now, view : GoodView]
      BY <1>1, <2>2 DEF TableType
    <3>2. table'[v] = table[v] \/ table'[v] = [table[v] EXCEPT !.view = view]
      BY <1>4, <2>2
    <3> QED
      BY <1>4, <3>1, <3>2
  <2> QED
    BY <1>1, <2>1, <2>2 DEF TableType
<1> QED
  BY <1>2, <1>3, <1>4

LEMMA ShownTypeKept ==
    ASSUME TypeInv, UNCHANGED opened,
           \/ UNCHANGED shown
           \/ \E u \in 1 .. opened, msg \in GoodMessage : shown' = Put(shown, u, msg)
    PROVE  ShownType'
BY DEF TypeInv, ShownType, Put

LEMMA BuiltType ==
    ASSUME TypeInv, NEW view \in GoodView
    PROVE  Built(view) \in GoodMessage
<1>1. now \in Nat
  BY PickersAssumption DEF TypeInv, CountType
<1> QED
  BY <1>1 DEF Built, GoodMessage

LEMMA SoundpadRefreshType ==
    ASSUME TypeInv, NEW u \in DOMAIN table, NEW view \in View,
           view.tab = TagList => view.results = 0,
           SoundpadRefresh(u, view), UNCHANGED unmoved
    PROVE  store' \in Store /\ TableType' /\ ShownType'
<1>1. PICK r \in ListPaged(view.tab, view.page) :
        /\ store' = r.store
        /\ IF r.total = 0
           THEN table' = Without(table, u) /\ UNCHANGED shown
           ELSE LET fresh == [view EXCEPT !.ids = r.ids, !.total = r.total]
                IN  /\ table' = [table EXCEPT ![u].view = fresh]
                    /\ shown' = Put(shown, u, Built(fresh))
  BY DEF SoundpadRefresh
<1>2. /\ r.store \in Store /\ r.total \in Nat /\ r.ids \in SUBSET Nat
      /\ view.tab = TagList => r.ids \subseteq Tags
  BY ListPagedType DEF TypeInv
<1>3. UNCHANGED <<opened, now>> /\ u \in 1 .. opened
  BY DEF unmoved, TypeInv, TableType
<1>4. CASE r.total = 0
  BY <1>1, <1>2, <1>3, <1>4, TableTypeKept, ShownTypeKept
<1>5. CASE r.total # 0
  <2> DEFINE fresh == [view EXCEPT !.ids = r.ids, !.total = r.total]
  <2>1. /\ fresh \in View /\ fresh.total = r.total /\ fresh.tab = view.tab /\ fresh.ids = r.ids
       /\ fresh.results = view.results
    BY <1>2 DEF View
  <2>2. table' = [table EXCEPT ![u].view = fresh] /\ shown' = Put(shown, u, Built(fresh))
    BY <1>1, <1>5
  <2> HIDE DEF fresh
  <2>3. r.total > 0
    BY <1>2, <1>5
  <2>4. fresh \in GoodView
    BY <1>2, <2>1, <2>3 DEF GoodView
  <2>5. Built(fresh) \in GoodMessage
    BY <2>4, BuiltType
  <2> QED
    BY <1>1, <1>2, <1>3, <2>2, <2>4, <2>5, TableTypeKept, ShownTypeKept
<1> QED
  BY <1>4, <1>5

LEMMA RefreshType ==
    ASSUME TypeInv, NEW u \in DOMAIN table, NEW view \in View,
           view.tab = TagList => view.results = 0,
           Refresh(u, view), UNCHANGED unmoved
    PROVE  store' \in Store /\ TableType' /\ ShownType'
<1>1. /\ [view EXCEPT !.tab = AllClips] \in View
      /\ [view EXCEPT !.tab = AllClips].tab # TagList
  BY PickersAssumption DEF View, AllClips, TagList, Tabs
<1> QED
  BY <1>1, SoundpadRefreshType DEF Refresh, JoinEffectRefresh

\* The view of a session, as a handler finds it
LEMMA ViewFound ==
    ASSUME TypeInv, NEW u \in DOMAIN table
    PROVE  /\ table[u].view \in GoodView /\ table[u].view \in View
           /\ table[u].view.page \in Nat /\ table[u].view.total \in Nat \ {0}
           /\ table[u].view.volume \in 1 .. MaxVolume
           /\ table[u].view.results \in 0 .. MaxSounds
           /\ table[u].view.tab = TagList =>
                table[u].view.ids \subseteq Tags /\ table[u].view.results = 0
           /\ u \in 1 .. opened /\ u \in Uids
<1>1. table[u].view \in GoodView
  BY DEF TypeInv, TableType
<1>2. u \in 1 .. opened /\ opened \in 0 .. MaxUids
  BY DEF TypeInv, TableType, CountType
<1> QED
  BY <1>1, <1>2, PickersAssumption DEF GoodView, View, Uids

\* Another page of the same list
LEMMA PageType ==
    ASSUME NEW view \in View, NEW page \in Nat
    PROVE  /\ [view EXCEPT !.page = page] \in View
           /\ [view EXCEPT !.page = page].tab = view.tab
           /\ [view EXCEPT !.page = page].results = view.results
           /\ [view EXCEPT !.page = page].total = view.total
BY DEF View

LEMMA TurnedType ==
    ASSUME NEW view \in View, view.total > 0, NEW cmd
    PROVE  /\ Turned(view, cmd) \in View
           /\ Turned(view, cmd).tab = view.tab
           /\ Turned(view, cmd).results = view.results
           /\ Turned(view, cmd).total = view.total
<1>1. view.page \in Nat /\ view.total \in Nat
  BY DEF View
<1>2. Most(0, view.page - 1) \in Nat /\ Least(view.total - 1, view.page + 1) \in Nat
  BY <1>1 DEF Most, Least
<1>3. Turned(view, cmd) \in {[view EXCEPT !.page = Most(0, view.page - 1)],
                             [view EXCEPT !.page = Least(view.total - 1, view.page + 1)]}
  BY DEF Turned
<1> QED
  BY <1>2, <1>3, PageType

(***************************************************************************)
(* The handlers of a click                                                 *)
(***************************************************************************)
LEMMA CountTypeKept ==
    ASSUME TypeInv, UNCHANGED unmoved
    PROVE  CountType'
BY DEF TypeInv, CountType, unmoved

LEMMA TurnType ==
    ASSUME TypeInv, NEW p \in Users, Turn(p)
    PROVE  TypeInv'
<1> DEFINE u == job[p].uid
           view == Turned(table[u].view, job[p].cmd)
<1>1. u \in DOMAIN table /\ Refresh(u, view) /\ Doing(p, Idle) /\ UNCHANGED unmoved
  BY DEF Turn, Handles
<1>2. view \in View /\ (view.tab = TagList => view.results = 0)
  BY <1>1, ViewFound, TurnedType
<1> HIDE DEF u, view
<1>3. store' \in Store /\ TableType' /\ ShownType'
  BY <1>1, <1>2, RefreshType
<1> QED
  BY <1>1, <1>3, CountTypeKept, JobTypeKept, JobsOfType
     DEF TypeInv, unmoved

LEMMA ReplyingType ==
    ASSUME TypeInv, NEW p \in Users, NEW u \in DOMAIN table, NEW view \in GoodView,
           table' = [table EXCEPT ![u].view = view],
           Doing(p, Replying(u, Built(view))),
           UNCHANGED <<unmoved, store, shown>>
    PROVE  TypeInv'
<1>1. UNCHANGED unmoved /\ UNCHANGED <<opened, now, store, shown>>
  BY DEF unmoved
<1>2. Built(view) \in GoodMessage /\ u \in 1 .. opened
  BY BuiltType, ViewFound
<1>3. JobType'
  BY <1>1, <1>2, JobTypeKept, JobsOfType DEF TypeInv
<1>4. TableType' /\ ShownType'
  BY <1>1, TableTypeKept, ShownTypeKept
<1> QED
  BY <1>1, <1>3, <1>4, CountTypeKept DEF TypeInv

LEMMA TurnSearchType ==
    ASSUME TypeInv, NEW p \in Users, TurnSearch(p)
    PROVE  TypeInv'
<1> DEFINE u == job[p].uid
           turned == Turned(table[u].view, job[p].cmd)
           ids == Page(1 .. turned.results, turned.page)
           view == [turned EXCEPT !.ids = ids]
<1>1. /\ u \in DOMAIN table
      /\ table' = [table EXCEPT ![u].view = view]
      /\ Doing(p, Replying(u, Built(view)))
      /\ UNCHANGED <<unmoved, store, shown>>
  BY DEF TurnSearch, Handles
<1>2. /\ turned \in View /\ turned.total > 0
      /\ turned.tab = TagList => turned.results = 0
  BY <1>1, ViewFound, TurnedType
<1> HIDE DEF turned
<1>3. ids \subseteq 1 .. turned.results
  BY DEF Page
<1>4. turned.results = 0 => ids = {}
  BY <1>3
<1> HIDE DEF ids
<1>5. turned.results \in Nat
  BY <1>2 DEF View
<1>6. ids \in SUBSET Nat
  BY <1>3, <1>5
<1>7. view \in View /\ view.total = turned.total /\ view.tab = turned.tab
      /\ view.ids = ids /\ view.results = turned.results
  BY <1>2, <1>6 DEF View
<1> HIDE DEF view
<1>8. view \in GoodView
  BY <1>2, <1>4, <1>7 DEF GoodView
<1> QED
  BY <1>1, <1>8, ReplyingType

LEMMA ChangeVolumeType ==
    ASSUME TypeInv, NEW p \in Users, ChangeVolume(p)
    PROVE  TypeInv'
<1> DEFINE u == job[p].uid
           volume == Most(1, Least(MaxVolume, table[u].view.volume + job[p].arg))
           view == [table[u].view EXCEPT !.volume = volume]
<1>1. /\ u \in DOMAIN table /\ job[p].pc = "clicked"
      /\ table' = [table EXCEPT ![u].view = view]
      /\ Doing(p, Replying(u, Built(view)))
      /\ UNCHANGED <<unmoved, store, shown>>
  BY DEF ChangeVolume, Handles
<1>2. job[p].arg \in Int
  BY <1>1, JobFields DEF TypeInv
<1>3. table[u].view \in GoodView /\ table[u].view.volume \in 1 .. MaxVolume
  BY <1>1, ViewFound
<1>4. volume \in 1 .. MaxVolume
  BY <1>2, <1>3, PickersAssumption DEF Most, Least
<1> HIDE DEF volume
<1>5. view \in GoodView
  BY <1>3, <1>4 DEF GoodView, View
<1> HIDE DEF view
<1> QED
  BY <1>1, <1>5, ReplyingType

LEMMA ChooseTagType ==
    ASSUME TypeInv, NEW p \in Users, ChooseTag(p)
    PROVE  TypeInv'
<1> DEFINE u == job[p].uid
           view == [table[u].view EXCEPT !.page = 0, !.tab = job[p].arg]
<1>1. /\ u \in DOMAIN table /\ job[p].pc = "clicked" /\ job[p].cmd = "tag"
      /\ SoundpadRefresh(u, view) /\ Doing(p, Idle) /\ UNCHANGED unmoved
  BY DEF ChooseTag, Handles
<1>2. job[p].arg \in Tags
  BY <1>1, JobFields DEF TypeInv
<1>3. job[p].arg \in Tabs /\ job[p].arg # TagList
  BY <1>2, PickersAssumption DEF Tags, Tabs, TagList
<1>4. table[u].view \in View
  BY <1>1, ViewFound
<1>5. view \in View /\ view.tab # TagList
  BY <1>3, <1>4 DEF View
<1> HIDE DEF u, view
<1>6. store' \in Store /\ TableType' /\ ShownType'
  BY <1>1, <1>5, SoundpadRefreshType
<1> QED
  BY <1>1, <1>6, CountTypeKept, JobTypeKept, JobsOfType
     DEF TypeInv, unmoved

LEMMA SubmitModalType ==
    ASSUME TypeInv, NEW p \in Users, SubmitModal(p)
    PROVE  TypeInv'
<1> DEFINE u == job[p].uid
           page(n) == Most(0, Least(table[u].view.total - 1, n))
           view(n) == [table[u].view EXCEPT !.page = page(n)]
<1>1. PICK requested \in -1 .. MaxSounds : Refresh(u, view(requested))
  BY DEF SubmitModal
<1>2. u \in DOMAIN table /\ Doing(p, Idle) /\ UNCHANGED unmoved
  BY DEF SubmitModal
<1>3. /\ table[u].view \in View /\ table[u].view.total \in Nat
      /\ table[u].view.tab = TagList => table[u].view.results = 0
  BY <1>2, ViewFound
<1>4. page(requested) \in Nat
  BY <1>3, PickersAssumption DEF Most, Least
<1> HIDE DEF page
<1>5. /\ view(requested) \in View
      /\ view(requested).tab = TagList => view(requested).results = 0
  BY <1>3, <1>4, PageType
<1> HIDE DEF u, view
<1>6. store' \in Store /\ TableType' /\ ShownType'
  BY <1>1, <1>2, <1>5, RefreshType
<1> QED
  BY <1>2, <1>6, CountTypeKept, JobTypeKept, JobsOfType
     DEF TypeInv, unmoved
\* A handler that leaves the views and the messages as they are
LEMMA JobMoves ==
    ASSUME TypeInv, NEW p \in Users, NEW j \in GoodJob(opened), Doing(p, j),
           UNCHANGED <<unmoved, store, shown>>,
           UNCHANGED table \/ \E u : table' = Without(table, u)
    PROVE  TypeInv'
<1>1. UNCHANGED unmoved /\ UNCHANGED <<opened, now, store, shown>>
  BY DEF unmoved
<1> QED
  BY <1>1, TableTypeKept, ShownTypeKept, CountTypeKept, JobTypeKept DEF TypeInv

LEMMA HandleType ==
    ASSUME TypeInv, NEW p \in Users, Handle(p)
    PROVE  TypeInv'
<1> DEFINE u == job[p].uid
<1>1. JobType /\ now \in Nat
  BY PickersAssumption DEF TypeInv, CountType
<1>2. CASE ClickExpired(p) \/ ClickGone(p) \/ CloseModal(p)
  BY <1>2, JobMoves, JobsOfType DEF ClickExpired, ClickGone, CloseModal
<1>3. CASE OpenModal(p)
  BY <1>1, <1>3, JobMoves, JobsOfType, JobFields DEF OpenModal, Handles
<1>4. CASE SelectVideo(p)
  BY <1>1, <1>4, JobMoves, JobsOfType, JobFields DEF SelectVideo, Handles
<1>5. CASE Bind(p) \/ Unbind(p)
  <2>1. u \in 1 .. opened
    BY <1>1, <1>5, JobFields DEF Bind, Unbind, Handles
  <2>2. \E j \in {Idle, [pc |-> "choosing", uid |-> u]} : Doing(p, j)
    BY <1>5 DEF Bind, Unbind
  <2>3. UNCHANGED table \/ table' = Without(table, u)
    BY <1>5 DEF Bind, Unbind
  <2>4. UNCHANGED <<unmoved, store, shown>>
    BY <1>5 DEF Bind, Unbind
  <2> QED
    BY <2>1, <2>2, <2>3, <2>4, JobMoves, JobsOfType
<1>6. CASE PlayClip(p)
  <2>1. u \in 1 .. opened /\ u \in DOMAIN table
    BY <1>1, <1>6, JobFields DEF PlayClip, Handles
  <2>2. Built(table[u].view) \in GoodMessage
    BY <2>1, ViewFound, BuiltType
  <2>3. \E j \in {Idle, [pc |-> "joining", uid |-> u, msg |-> Built(table[u].view)]} :
          Doing(p, j)
    BY <1>6 DEF PlayClip
  <2> QED
    BY <1>6, <2>1, <2>2, <2>3, JobMoves, JobsOfType DEF PlayClip
<1>7. CASE SelectedVideo(p)
  <2>1. CASE Doing(p, Idle)
    BY <1>7, <2>1, JobMoves, JobsOfType DEF SelectedVideo
  <2>2. CASE u \in DOMAIN table /\ Doing(p, Replying(u, Built(table[u].view)))
    <3>1. u \in 1 .. opened /\ Built(table[u].view) \in GoodMessage
      BY <2>2, ViewFound, BuiltType
    <3> QED
      BY <1>7, <2>2, <3>1, JobMoves, JobsOfType DEF SelectedVideo
  <2> QED
    BY <1>7, <2>1, <2>2 DEF SelectedVideo
<1>8. CASE PlayedClip(p)
  <2>1. u \in 1 .. opened /\ job[p].msg \in GoodMessage
    BY <1>1, <1>8, JobFields DEF PlayedClip
  <2>2. UNCHANGED <<unmoved, store, table>> /\ Doing(p, Idle)
        /\ shown' \in {shown, Put(shown, u, job[p].msg)}
    BY <1>8 DEF PlayedClip
  <2>3. JobType'
    BY <1>1, <1>8, JobTypeKept, JobsOfType DEF PlayedClip, unmoved
  <2>4. TableType' /\ ShownType'
    BY <2>1, <2>2, TableTypeKept, ShownTypeKept DEF unmoved
  <2> QED
    BY <2>2, <2>3, <2>4, CountTypeKept DEF TypeInv
<1>9. CASE WriteJoinEffect(p)
  <2>1. JobType'
    BY <1>1, <1>9, JobTypeKept, JobsOfType DEF WriteJoinEffect
  <2>2. TableType' /\ ShownType'
    BY <1>9, TableTypeKept, ShownTypeKept DEF WriteJoinEffect
  <2>3. u \in 1 .. opened
    BY <1>1, <1>9, JobFields DEF WriteJoinEffect
  <2>4. u \in Uids
    BY <2>3, PickersAssumption DEF TypeInv, CountType, Uids
  <2>5. writes' \in [Uids -> Nat]
    BY <1>9, <2>4 DEF WriteJoinEffect, TypeInv, CountType
  <2> QED
    BY <1>9, <2>1, <2>2, <2>5 DEF WriteJoinEffect, TypeInv, CountType
<1> QED
  BY <1>2, <1>3, <1>4, <1>5, <1>6, <1>7, <1>8, <1>9, TurnType, TurnSearchType,
     ChangeVolumeType, ChooseTagType, SubmitModalType DEF Handle

(***************************************************************************)
(* Slash commands, replies, clicks, rows and the clock                     *)
(***************************************************************************)
LEMMA ListsType ==
    ASSUME TypeInv, NEW p \in Users, NEW tab \in {AllClips, TagList},
           NEW r \in ListPaged(tab, 0), r.total # 0, store' = r.store,
           Doing(p, [pc |-> "opening", view |-> FirstView(tab, r.ids, r.total, 0)]),
           UNCHANGED <<unmoved, table, shown>>
    PROVE  TypeInv'
<1>1. /\ r.store \in Store /\ r.total \in Nat \ {0} /\ r.ids \in SUBSET Nat
      /\ tab = TagList => r.ids \subseteq Tags
  BY ListPagedType DEF TypeInv
<1>2. tab \in Tabs /\ 0 \in 0 .. MaxSounds
  BY PickersAssumption DEF AllClips, TagList, Tabs
<1>3. FirstView(tab, r.ids, r.total, 0) \in GoodView
  BY <1>1, <1>2, FirstViewType
<1>4. UNCHANGED <<opened, now, table, shown>> /\ UNCHANGED unmoved
  BY DEF unmoved
<1>5. JobType'
  BY <1>3, <1>4, JobTypeKept, JobsOfType DEF TypeInv
<1> QED
  BY <1>1, <1>4, <1>5, TableTypeKept, ShownTypeKept, CountTypeKept DEF TypeInv

LEMMA SearchType ==
    ASSUME TypeInv, NEW p \in Users, ExecuteSearch(p)
    PROVE  TypeInv'
<1>1. PICK n \in 1 .. MaxSounds :
        Doing(p, [pc |-> "opening",
                  view |-> FirstView(AllClips, Page(1 .. n, 0),
                                     TotalPages(n, n), n)])
  BY DEF ExecuteSearch
<1>2. n \in Nat \ {0} /\ n \in 0 .. MaxSounds
  BY PickersAssumption
<1>3. TotalPages(n, n) \in Nat \ {0}
  BY <1>2, TotalPagesType, SomePages
<1>4. Page(1 .. n, 0) \in SUBSET Nat
  BY <1>2 DEF Page
<1>5. AllClips \in Tabs /\ AllClips # TagList
  BY PickersAssumption DEF AllClips, TagList, Tabs
<1>6. FirstView(AllClips, Page(1 .. n, 0), TotalPages(n, n), n) \in GoodView
  BY <1>2, <1>3, <1>4, <1>5, FirstViewType
<1>7. /\ UNCHANGED <<opened, now, table, shown>>
      /\ UNCHANGED unmoved /\ UNCHANGED store
  BY DEF unmoved, ExecuteSearch
<1>8. JobType'
  BY <1>1, <1>6, <1>7, JobTypeKept, JobsOfType DEF TypeInv
<1> QED
  BY <1>7, <1>8, TableTypeKept, ShownTypeKept, CountTypeKept DEF TypeInv

LEMMA OpenType ==
    ASSUME TypeInv, NEW p \in Users, Open(p)
    PROVE  TypeInv'
<1> DEFINE u == opened + 1
           view == job[p].view
<1>1. /\ job[p].pc = "opening" /\ opened < MaxUids
      /\ opened' = u
      /\ Doing(p, Replying(u, Built(view)))
      /\ UNCHANGED <<command, store, shown, writes, now, clicks>>
  BY DEF Open
<1>2. PICK kept \in EvictOldSessions :
        table' = [v \in kept \cup {u} |->
                    IF v = u THEN [at |-> now, view |-> view] ELSE table[v]]
  BY DEF Open
<1>3. kept \subseteq DOMAIN table
  BY DEF EvictOldSessions
<1>4. view \in GoodView
  BY <1>1, JobFields DEF TypeInv
<1>5. opened \in Nat /\ now \in Nat /\ opened' \in 0 .. MaxUids
  BY <1>1, PickersAssumption DEF TypeInv, CountType
<1> HIDE DEF view
<1>6. CountType'
  BY <1>1, <1>5 DEF TypeInv, CountType
<1>7. TableType'
  <2>1. DOMAIN table' = kept \cup {u}
    BY <1>2
  <2>2. [at |-> now, view |-> view] \in [at : 0 .. now, view : GoodView]
    BY <1>4, <1>5
  <2>3. \A v \in kept : table[v] \in [at : 0 .. now, view : GoodView]
    BY <1>3 DEF TypeInv, TableType
  <2>4. \A v \in kept \cup {u} : table'[v] \in [at : 0 .. now, view : GoodView]
    BY <1>2, <2>2, <2>3
  <2>5. kept \cup {u} \subseteq 1 .. opened'
    BY <1>1, <1>3, <1>5 DEF TypeInv, TableType
  <2> QED
    BY <1>1, <2>1, <2>4, <2>5 DEF TableType
<1>8. ShownType'
  BY <1>1, <1>5 DEF TypeInv, ShownType
<1>9. JobType'
  <2>1. GoodJob(opened) \subseteq GoodJob(u)
    <3>1. 1 .. opened \subseteq 1 .. u
      BY <1>5
    <3> HIDE DEF u
    <3> QED
      BY <3>1 DEF GoodJob
  <2>2. Replying(u, Built(view)) \in GoodJob(u)
    <3>1. u \in 1 .. u
      BY <1>5
    <3>2. Built(view) \in GoodMessage
      BY <1>4, BuiltType
    <3> HIDE DEF u
    <3> QED
      BY <3>1, <3>2 DEF GoodJob, Replying
  <2>3. GoodJob(opened)' = GoodJob(u)
    BY <1>1 DEF GoodJob
  <2> QED
    BY <1>1, <2>1, <2>2, <2>3 DEF Doing, TypeInv, JobType
<1> QED
  BY <1>1, <1>6, <1>7, <1>8, <1>9 DEF TypeInv

LEMMA ReplyType ==
    ASSUME TypeInv, NEW p \in Users, Reply(p)
    PROVE  TypeInv'
<1>1. JobType
  BY DEF TypeInv
<1>2. job[p].uid \in 1 .. opened /\ job[p].msg \in GoodMessage
  BY <1>1, JobFields DEF Reply
<1>3. JobType'
  BY <1>1, JobTypeKept, JobsOfType DEF Reply, unmoved
<1>4. TableType' /\ ShownType'
  BY <1>2, TableTypeKept, ShownTypeKept DEF Reply, unmoved
<1> QED
  BY <1>3, <1>4, CountTypeKept DEF Reply, TypeInv

LEMMA ClickType ==
    ASSUME TypeInv, NEW p \in Users, Click(p)
    PROVE  TypeInv'
<1> PICK u \in DOMAIN shown :
      \E b \in Buttons(shown[u].view) :
        Doing(p, [pc |-> "clicked", uid |-> u, cmd |-> b.cmd, arg |-> b.arg,
                  ts |-> shown[u].ts])
  BY DEF Click
<1>1. PICK b \in Buttons(shown[u].view) :
        Doing(p, [pc |-> "clicked", uid |-> u, cmd |-> b.cmd, arg |-> b.arg,
                  ts |-> shown[u].ts])
  OBVIOUS
<1>2. u \in 1 .. opened /\ shown[u].view \in GoodView /\ shown[u].ts \in Nat
  BY DEF TypeInv, ShownType, GoodMessage
<1>3. /\ b.cmd \in ButtonNames /\ b.arg \in Int
      /\ b.cmd = "tag" => b.arg \in Tags
  BY <1>2, ButtonsType DEF TypeInv, CountType
<1>4. [pc |-> "clicked", uid |-> u, cmd |-> b.cmd, arg |-> b.arg,
       ts |-> shown[u].ts] \in GoodJob(opened)
  BY <1>2, <1>3 DEF GoodJob
<1>5. JobType'
  BY <1>1, <1>4, JobTypeKept DEF Click, TypeInv
<1>6. clicks' \in 0 .. MaxClicks
  BY PickersAssumption DEF Click, TypeInv, CountType
<1>7. CountType'
  BY <1>6 DEF Click, TypeInv, CountType
<1>8. TableType' /\ ShownType'
  BY TableTypeKept, ShownTypeKept DEF Click
<1> QED
  BY <1>5, <1>7, <1>8 DEF Click, TypeInv

LEMMA TickType ==
    ASSUME TypeInv, Tick
    PROVE  TypeInv'
<1>1. now' \in 0 .. MaxTime /\ 0 .. now \subseteq 0 .. now'
  BY PickersAssumption DEF Tick, TypeInv, CountType
<1>2. TableType'
  BY <1>1 DEF Tick, TypeInv, TableType
<1>3. GoodJob(opened)' = GoodJob(opened)
  BY DEF Tick, GoodJob
<1> QED
  BY <1>1, <1>2, <1>3 DEF Tick, TypeInv, CountType, ShownType, JobType

LEMMA SaveType ==
    ASSUME TypeInv, Save
    PROVE  TypeInv'
<1>1. store' \in Store
  BY GrownType DEF Save, TypeInv
<1>2. GoodJob(opened)' = GoodJob(opened)
  BY DEF Save, unmoved, GoodJob
<1> QED
  BY <1>1, <1>2 DEF Save, unmoved, TypeInv, CountType, TableType, ShownType, JobType

LEMMA TypeInit == Init => TypeInv
<1> SUFFICES ASSUME Init PROVE TypeInv
  OBVIOUS
<1>1. DOMAIN table = {} /\ DOMAIN shown = {}
  BY DEF Init
<1>2. store \in Store
  <2>1. {1} \cap Tags \in SUBSET Tags
    OBVIOUS
  <2>2. [i \in 1 .. FirstSounds |-> {1} \cap Tags] \in Seq(SUBSET Tags)
    BY <2>1, PickersAssumption
  <2> QED
    BY <2>1, <2>2 DEF Init, Store
<1>3. JobType
  BY DEF Init, JobType, GoodJob
<1>4. CountType
  BY PickersAssumption DEF Init, CountType
<1> QED
  BY <1>1, <1>2, <1>3, <1>4 DEF TypeInv, TableType, ShownType

LEMMA TypeStep == TypeInv /\ [Next]_vars => TypeInv'
<1> SUFFICES ASSUME TypeInv, [Next]_vars
             PROVE  TypeInv'
  OBVIOUS
<1>1. ASSUME NEW p \in Users, ExecuteSoundpad(p) PROVE TypeInv'
  BY <1>1, ListsType DEF ExecuteSoundpad
<1>2. ASSUME NEW p \in Users, ExecuteJoinEffect(p) PROVE TypeInv'
  BY <1>2, ListsType DEF ExecuteJoinEffect
<1>3. CASE UNCHANGED vars
  <2>1. GoodJob(opened)' = GoodJob(opened)
    BY <1>3 DEF vars, GoodJob
  <2> QED
    BY <1>3, <2>1 DEF vars, TypeInv, CountType, TableType, ShownType, JobType
<1> QED
  BY <1>1, <1>2, <1>3, SaveType, TickType, SearchType, OpenType, ReplyType,
     ClickType, HandleType DEF Next, Execute

\* Sessions, messages and handlers are of the program's types, and the volume
\* of every view stays between one step and 100.
THEOREM TypeCorrect == Spec => []TypeOK
<1>1. Spec => []TypeInv
  BY TypeInit, TypeStep, PTL DEF Spec
<1> QED
  BY <1>1, TypeInvImplies, PTL

(***************************************************************************)
(* The table of sessions                                                   *)
(***************************************************************************)
Young == {u \in DOMAIN table : now - table[u].at < CleanupSecs}

\* Whatever the handlers do to the views, the table's domain holds uids that
\* were drawn, and no more of them than fit.
TableInv ==
    /\ command \in Commands
    /\ opened \in 0 .. MaxUids
    /\ DOMAIN table \subseteq 1 .. opened
    /\ Cardinality(DOMAIN table) <= Cap

\* The effects a step can have on the sessions, but for Open: it leaves them
\* alone, or ends the session u.
Stays == UNCHANGED <<command, opened>> /\ DOMAIN table' = DOMAIN table
Ends(u) == UNCHANGED <<command, opened>> /\ DOMAIN table' = DOMAIN table \ {u}

LEMMA RefreshEnds ==
    ASSUME NEW u \in DOMAIN table, NEW view, Refresh(u, view),
           UNCHANGED <<command, opened>>
    PROVE  Stays \/ Ends(u)
BY DEF Refresh, JoinEffectRefresh, SoundpadRefresh, Without, Stays, Ends

LEMMA HandleEnds ==
    ASSUME NEW p \in Users, Handle(p)
    PROVE  Stays \/ Ends(job[p].uid)
<1>1. CASE ClickExpired(p)
  BY <1>1 DEF ClickExpired, Without, unmoved, Ends
<1>2. CASE \/ ClickGone(p) \/ PlayClip(p) \/ PlayedClip(p) \/ OpenModal(p)
           \/ CloseModal(p) \/ WriteJoinEffect(p) \/ SelectVideo(p)
           \/ SelectedVideo(p)
  BY <1>2 DEF ClickGone, PlayClip, PlayedClip, OpenModal, CloseModal,
              WriteJoinEffect, SelectVideo, SelectedVideo, unmoved, Stays
<1>3. CASE Turn(p)
  BY <1>3, RefreshEnds DEF Turn, Handles, unmoved
<1>4. CASE TurnSearch(p) \/ ChangeVolume(p)
  BY <1>4 DEF TurnSearch, ChangeVolume, unmoved, Stays
<1>5. CASE ChooseTag(p)
  BY <1>5 DEF ChooseTag, Handles, SoundpadRefresh, Without, unmoved, Stays, Ends
<1>6. CASE SubmitModal(p)
  <2>1. PICK requested \in -1 .. MaxSounds :
          Refresh(job[p].uid,
                  [table[job[p].uid].view EXCEPT
                     !.page = Most(0, Least(table[job[p].uid].view.total - 1,
                                            requested))])
    BY <1>6 DEF SubmitModal
  <2> QED
    BY <1>6, <2>1, RefreshEnds DEF SubmitModal, unmoved
<1>7. CASE Bind(p) \/ Unbind(p)
  BY <1>7 DEF Bind, Unbind, Without, unmoved, Stays, Ends
<1> QED
  BY <1>1, <1>2, <1>3, <1>4, <1>5, <1>6, <1>7 DEF Handle

\* Every step opens a session, ends one or leaves them.
LEMMA StepsOfSessions ==
    ASSUME [Next]_vars
    PROVE  \/ \E p \in Users : Open(p)
           \/ Stays
           \/ \E u : Ends(u)
<1>1. CASE Save \/ Tick
  BY <1>1 DEF Save, Tick, unmoved, Stays
<1>2. CASE \E p \in Users : Reply(p) \/ Click(p)
  BY <1>2 DEF Reply, Click, unmoved, Stays
<1>3. CASE \E p \in Users : Execute(p)
  BY <1>3 DEF Execute, ExecuteSoundpad, ExecuteJoinEffect, ExecuteSearch,
              unmoved, Stays
<1>4. CASE \E p \in Users : Handle(p)
  BY <1>4, HandleEnds
<1>5. CASE UNCHANGED vars
  BY <1>5 DEF vars, Stays
<1> QED
  BY <1>1, <1>2, <1>3, <1>4, <1>5 DEF Next

LEMMA CapIsPositive ==
    ASSUME command \in Commands
    PROVE  Cap \in Nat \ {0}
BY PickersAssumption DEF Cap

LEMMA TableIsFinite ==
    ASSUME TableInv, NEW S \in SUBSET DOMAIN table
    PROVE  IsFiniteSet(S) /\ Cardinality(S) <= Cardinality(DOMAIN table)
<1>1. IsFiniteSet(1 .. opened)
  BY FS_Interval DEF TableInv
<1>2. IsFiniteSet(DOMAIN table)
  BY <1>1, FS_Subset DEF TableInv
<1> QED
  BY <1>2, FS_Subset

\* evict_old_sessions leaves sessions that were there, and room for one more.
LEMMA EvictionMakesRoom ==
    ASSUME TableInv, NEW kept \in EvictOldSessions
    PROVE  kept \subseteq DOMAIN table /\ Cardinality(kept) < Cap
<1>1. Cap \in Nat \ {0}
  BY CapIsPositive DEF TableInv
<1>2. /\ Young \subseteq DOMAIN table
      /\ IsFiniteSet(Young)
      /\ Cardinality(Young) <= Cardinality(DOMAIN table)
  <2>1. Young \subseteq DOMAIN table
    BY DEF Young
  <2> QED
    BY <2>1, TableIsFinite
<1>3. Cardinality(Young) \in Nat /\ Cardinality(DOMAIN table) \in Nat
  BY <1>2, TableIsFinite, FS_CardinalityType
<1>4. CASE Cardinality(Young) >= Cap
  <2>1. PICK u \in Young : kept = Young \ {u}
    BY <1>4 DEF EvictOldSessions, Young
  <2>2. Cardinality(kept) = Cardinality(Young) - 1
    BY <1>2, <2>1, FS_RemoveElement
  <2> QED
    BY <1>1, <1>2, <1>3, <2>1, <2>2 DEF TableInv
<1>5. CASE ~(Cardinality(Young) >= Cap)
  <2>1. kept = Young
    BY <1>5 DEF EvictOldSessions, Young
  <2> QED
    BY <1>1, <1>2, <1>3, <1>5, <2>1
<1> QED
  BY <1>4, <1>5

LEMMA OpenOpens ==
    ASSUME TableInv, NEW p \in Users, Open(p)
    PROVE  \E kept \in SUBSET DOMAIN table :
             /\ Cardinality(kept) < Cap
             /\ opened < MaxUids /\ opened' = opened + 1
             /\ DOMAIN table' = kept \cup {opened'}
             /\ command' = command
<1>1. PICK kept \in EvictOldSessions :
        DOMAIN table' = kept \cup {opened + 1}
  BY DEF Open
<1>2. kept \subseteq DOMAIN table /\ Cardinality(kept) < Cap
  BY EvictionMakesRoom
<1> QED
  BY <1>1, <1>2 DEF Open

LEMMA TableInit == Init => TableInv
<1> SUFFICES ASSUME Init PROVE TableInv
  OBVIOUS
<1>1. DOMAIN table = {} /\ command \in Commands /\ opened = 0
  BY DEF Init
<1>2. Cap \in Nat
  BY <1>1, CapIsPositive
<1> QED
  BY <1>1, <1>2, FS_EmptySet, PickersAssumption DEF TableInv

LEMMA TableStep == TableInv /\ [Next]_vars => TableInv'
<1> SUFFICES ASSUME TableInv, [Next]_vars
             PROVE  TableInv'
  OBVIOUS
<1>1. MaxUids \in Nat /\ Cap \in Nat \ {0}
  BY PickersAssumption, CapIsPositive DEF TableInv
<1>2. CASE \E p \in Users : Open(p)
  <2>1. PICK kept \in SUBSET DOMAIN table :
          /\ Cardinality(kept) < Cap
          /\ opened < MaxUids /\ opened' = opened + 1
          /\ DOMAIN table' = kept \cup {opened'}
          /\ command' = command
    BY <1>2, OpenOpens
  <2>2. IsFiniteSet(kept) /\ Cardinality(kept) \in Nat
    BY TableIsFinite, FS_CardinalityType
  <2>3. opened' \notin kept
    BY <2>1 DEF TableInv
  <2>4. Cardinality(DOMAIN table') = Cardinality(kept) + 1
    BY <2>1, <2>2, <2>3, FS_AddElement
  <2>5. Cap' = Cap
    BY <2>1 DEF Cap
  <2> QED
    BY <1>1, <2>1, <2>2, <2>4, <2>5 DEF TableInv
<1>3. CASE Stays
  BY <1>3 DEF Stays, TableInv, Cap
<1>4. ASSUME NEW u, Ends(u)
      PROVE  TableInv'
  <2>1. DOMAIN table' \subseteq DOMAIN table
    BY <1>4 DEF Ends
  <2>2. /\ Cardinality(DOMAIN table') <= Cardinality(DOMAIN table)
        /\ Cardinality(DOMAIN table') \in Nat
        /\ Cardinality(DOMAIN table) \in Nat
    BY <2>1, TableIsFinite, FS_CardinalityType
  <2> QED
    BY <1>1, <1>4, <2>1, <2>2 DEF Ends, TableInv, Cap
<1> QED
  BY <1>2, <1>3, <1>4, StepsOfSessions

\* A command never keeps more sessions than MAX_SESSIONS, and every session in
\* its table is one it has opened.
THEOREM TableBounded == Spec => []TableInv
BY TableInit, TableStep, PTL DEF Spec

(***************************************************************************)
(* The sessions are those of SessionTable                                  *)
(***************************************************************************)
LEMMA SameCardinality ==
    ASSUME NEW S
    PROVE  Sessions!Cardinality(S) = Cardinality(S)
BY DEF Sessions!Cardinality, Cardinality

LEMMA OpenRefines ==
    ASSUME TableInv, NEW p \in Users, Open(p)
    PROVE  Sessions!Next
<1>1. PICK kept \in SUBSET DOMAIN table :
        /\ Cardinality(kept) < Cap
        /\ opened < MaxUids /\ opened' = opened + 1
        /\ DOMAIN table' = kept \cup {opened'}
        /\ command' = command
  BY OpenOpens
<1>2. opened' \in Uids /\ opened' \notin 1 .. opened
  BY <1>1, PickersAssumption DEF TableInv, Uids
<1>3. 1 .. opened' = 1 .. opened \cup {opened'}
  BY <1>1 DEF TableInv
<1>4. (1 .. opened') \ DOMAIN table' =
        ((1 .. opened) \ DOMAIN table) \cup (DOMAIN table \ kept)
  BY <1>1, <1>2, <1>3 DEF TableInv
<1>5. Cap' = Cap
  BY <1>1 DEF Cap
<1>6. Sessions!Open(opened', kept)
  BY <1>1, <1>2, <1>4, SameCardinality DEF Sessions!Open, TableInv
<1> QED
  BY <1>2, <1>5, <1>6 DEF Sessions!Next

LEMMA EndsRefines ==
    ASSUME TableInv, NEW u, Ends(u)
    PROVE  [Sessions!Next]_Sessions!vars
<1>1. Cap' = Cap
  BY DEF Ends, Cap
<1>2. CASE u \in DOMAIN table
  <2>1. u \in Uids
    BY <1>2, PickersAssumption DEF TableInv, Uids
  <2>2. (1 .. opened') \ DOMAIN table' = ((1 .. opened) \ DOMAIN table) \cup {u}
    BY <1>2 DEF Ends, TableInv
  <2>3. Sessions!Close(u)
    BY <1>2, <2>2 DEF Ends, Sessions!Close
  <2> QED
    BY <1>1, <2>1, <2>3 DEF Sessions!Next
<1>3. CASE u \notin DOMAIN table
  BY <1>1, <1>3 DEF Ends, Sessions!vars
<1> QED
  BY <1>2, <1>3

\* The sessions of every picker are those of SessionTable: never more than
\* MAX_SESSIONS, none opened twice, and none brought back once it was ended,
\* evicted or expired.
THEOREM SessionsAreKept == Spec => KeepsSessionTable
<1>1. Init => Sessions!Init
  <2> SUFFICES ASSUME Init PROVE Sessions!Init
    OBVIOUS
  <2>1. DOMAIN table = {} /\ opened = 0 /\ command \in Commands
    BY DEF Init
  <2>2. Cap \in Nat \ {0}
    BY <2>1, CapIsPositive
  <2>3. 1 .. opened = {}
    BY <2>1
  <2> QED
    BY <2>1, <2>2, <2>3 DEF Sessions!Init
<1>2. TableInv /\ [Next]_vars => [Sessions!Next]_Sessions!vars
  <2> SUFFICES ASSUME TableInv, [Next]_vars
               PROVE  [Sessions!Next]_Sessions!vars
    OBVIOUS
  <2>1. CASE Stays
    BY <2>1 DEF Stays, Cap, Sessions!vars
  <2> QED
    BY <2>1, OpenRefines, EndsRefines, StepsOfSessions
<1> QED
  BY <1>1, <1>2, TableBounded, PTL DEF Spec, KeepsSessionTable, Sessions!Spec

(***************************************************************************)
(* Who may touch a session                                                 *)
(***************************************************************************)
LEMMA OtherSessionsStay ==
    ASSUME NEW p \in Users, Handle(p), NEW u \in DOMAIN table, u # job[p].uid
    PROVE  u \in DOMAIN table' /\ table'[u] = table[u]
<1>1. ASSUME NEW v \in DOMAIN table, NEW view, Refresh(v, view), u # v
      PROVE  u \in DOMAIN table' /\ table'[u] = table[u]
  BY <1>1 DEF Refresh, JoinEffectRefresh, SoundpadRefresh, Without
<1>2. CASE ClickExpired(p)
  BY <1>2 DEF ClickExpired, Without
<1>3. CASE \/ ClickGone(p) \/ PlayClip(p) \/ PlayedClip(p) \/ OpenModal(p)
           \/ CloseModal(p) \/ WriteJoinEffect(p) \/ SelectVideo(p)
           \/ SelectedVideo(p)
  BY <1>3 DEF ClickGone, PlayClip, PlayedClip, OpenModal, CloseModal,
              WriteJoinEffect, SelectVideo, SelectedVideo, unmoved
<1>4. CASE Turn(p)
  BY <1>1, <1>4 DEF Turn, Handles
<1>5. CASE TurnSearch(p) \/ ChangeVolume(p)
  BY <1>5 DEF TurnSearch, ChangeVolume
<1>6. CASE ChooseTag(p)
  BY <1>6 DEF ChooseTag, Handles, SoundpadRefresh, Without
<1>7. CASE SubmitModal(p)
  <2>1. PICK view : Refresh(job[p].uid, view)
    BY <1>7 DEF SubmitModal
  <2> QED
    BY <1>1, <1>7, <2>1 DEF SubmitModal
<1>8. CASE Bind(p) \/ Unbind(p)
  BY <1>8 DEF Bind, Unbind, Without
<1> QED
  BY <1>2, <1>3, <1>4, <1>5, <1>6, <1>7, <1>8 DEF Handle

\* Of a handler's steps only those of the click itself touch the table, and
\* they end the click.
LEMMA OnlyClicksTouch ==
    ASSUME TypeInv, NEW p \in Users, Handle(p)
    PROVE  \/ UNCHANGED table
           \/ job[p].pc \in {"clicked", "modal"} /\ job'[p] # job[p]
<1>1. ASSUME NEW j, Doing(p, j), j.pc \notin {"clicked", "modal"}
      PROVE  job'[p].pc \notin {"clicked", "modal"}
  BY <1>1 DEF Doing, TypeInv, JobType
<1>2. CASE ClickExpired(p) \/ SubmitModal(p)
  BY <1>1, <1>2 DEF ClickExpired, SubmitModal, Idle
<1>3. CASE \/ ClickGone(p) \/ PlayClip(p) \/ PlayedClip(p) \/ OpenModal(p)
           \/ CloseModal(p) \/ WriteJoinEffect(p) \/ SelectVideo(p)
           \/ SelectedVideo(p)
  BY <1>3 DEF ClickGone, PlayClip, PlayedClip, OpenModal, CloseModal,
              WriteJoinEffect, SelectVideo, SelectedVideo, unmoved
<1>4. CASE Turn(p) \/ ChooseTag(p)
  BY <1>1, <1>4 DEF Turn, ChooseTag, Handles, Idle
<1>5. CASE TurnSearch(p) \/ ChangeVolume(p)
  BY <1>1, <1>5 DEF TurnSearch, ChangeVolume, Handles, Replying
<1>6. CASE Bind(p) \/ Unbind(p)
  BY <1>1, <1>6 DEF Bind, Unbind, Handles, Idle
<1> QED
  BY <1>2, <1>3, <1>4, <1>5, <1>6 DEF Handle

\* What a new session may drive out
LEMMA OpenEvicts ==
    ASSUME TypeInv, TableInv, NEW p \in Users, Open(p), NEW u \in DOMAIN table
    PROVE  \/ u \in DOMAIN table' /\ table'[u] = table[u]
           \/ /\ opened' = opened + 1 /\ u \notin DOMAIN table'
              /\ \/ now - table[u].at >= CleanupSecs
                 \/ /\ Cardinality(DOMAIN table') = Cap
                    /\ \A v \in DOMAIN table \cap DOMAIN table' :
                         table[u].at <= table[v].at
<1>1. PICK kept \in EvictOldSessions :
        table' = [v \in kept \cup {opened + 1} |->
                    IF v = opened + 1 THEN [at |-> now, view |-> job[p].view]
                    ELSE table[v]]
  BY DEF Open
<1>2. opened' = opened + 1 /\ DOMAIN table' = kept \cup {opened + 1}
  BY <1>1 DEF Open
<1>3. opened \in Nat /\ opened + 1 \notin DOMAIN table
  BY PickersAssumption DEF TableInv
<1>4. /\ now \in Int /\ CleanupSecs \in Int /\ Cap \in Nat
      /\ \A v \in DOMAIN table : table[v].at \in Int
  BY PickersAssumption, CapIsPositive
     DEF TypeInv, CountType, TableType, TableInv, CleanupSecs
<1>5. kept \subseteq DOMAIN table
  BY EvictionMakesRoom
<1>6. CASE u \in kept
  BY <1>1, <1>2, <1>3, <1>6
<1>7. CASE u \notin kept
  <2>1. u \notin DOMAIN table'
    BY <1>2, <1>3, <1>7
  <2>2. CASE u \notin Young
    BY <1>2, <1>4, <2>1, <2>2 DEF Young
  <2>3. CASE u \in Young
    <3>1. /\ Cardinality(Young) >= Cap
          /\ kept = Young \ {u}
          /\ \A v \in Young : table[u].at <= table[v].at
      BY <1>7, <2>3 DEF EvictOldSessions, Young
    <3>2. \A v \in DOMAIN table \cap DOMAIN table' : table[u].at <= table[v].at
      BY <1>2, <1>3, <3>1
    <3>3. Cardinality(DOMAIN table') = Cap
      <4>1. /\ Young \in SUBSET DOMAIN table
            /\ IsFiniteSet(Young) /\ Cardinality(Young) <= Cardinality(DOMAIN table)
            /\ Cardinality(Young) \in Nat /\ Cardinality(DOMAIN table) \in Nat
        BY TableIsFinite, FS_CardinalityType DEF Young
      <4>2. /\ IsFiniteSet(kept) /\ Cardinality(kept) = Cardinality(Young) - 1
        BY <2>3, <3>1, <4>1, FS_RemoveElement
      <4>3. opened' \notin kept /\ DOMAIN table' = kept \cup {opened'}
        BY <1>2, <1>3, <1>5
      <4>4. Cardinality(kept \cup {opened'}) = Cardinality(kept) + 1
        BY <4>2, <4>3, FS_AddElement
      <4>5. Cardinality(DOMAIN table') = Cardinality(Young)
        BY <4>1, <4>2, <4>3, <4>4
      <4> QED
        BY <1>4, <3>1, <4>1, <4>5 DEF TableInv
    <3> QED
      BY <1>2, <2>1, <3>2, <3>3
  <2> QED
    BY <2>2, <2>3
<1> QED
  BY <1>6, <1>7

\* A session is changed or ended by a handler of one of its own clicks, or it
\* makes room: it was past the cleanup time, or the table is full and no
\* session that stays is older.
THEOREM TouchedByItsOwn == Spec => ChangedByItsOwn
<1>1. TypeInv /\ TableInv /\ [Next]_vars => [\A u \in DOMAIN table : Touched(u)]_vars
  <2> SUFFICES ASSUME TypeInv, TableInv, Next, NEW u \in DOMAIN table
               PROVE  Touched(u)
    OBVIOUS
  <2>1. CASE UNCHANGED table
    BY <2>1 DEF Touched
  <2>2. ASSUME NEW p \in Users, Open(p) PROVE Touched(u)
    BY <2>2, OpenEvicts DEF Touched, MakesRoom
  <2>3. ASSUME NEW p \in Users, Handle(p) PROVE Touched(u)
    <3>1. CASE u # job[p].uid
      BY <2>3, <3>1, OtherSessionsStay DEF Touched
    <3>2. CASE u = job[p].uid
      BY <2>1, <2>3, <3>2, OnlyClicksTouch DEF Touched, OwnClick
    <3> QED
      BY <3>1, <3>2
  <2>4. \/ UNCHANGED table
        \/ \E p \in Users : Open(p) \/ Handle(p)
    BY DEF Next, Save, Tick, Execute, ExecuteSoundpad, ExecuteJoinEffect,
           ExecuteSearch, Reply, Click
  <2> QED
    BY <2>1, <2>2, <2>3, <2>4
<1>2. Spec => []TypeInv
  BY TypeInit, TypeStep, PTL DEF Spec
<1> QED
  BY <1>1, <1>2, TableBounded, PTL DEF Spec, ChangedByItsOwn

(***************************************************************************)
(* One choice per picker                                                   *)
(***************************************************************************)
\* p has taken u's session away and is about to write the table of join effects.
Choosing(p, u) == job[p].pc = "choosing" /\ job[p].uid = u

\* A picker that is open, or not drawn yet, has not been chosen on; one user at
\* a time chooses, and only while nothing was written.
ChoiceOf(u) ==
    /\ writes[u] <= 1
    /\ u \in DOMAIN table \/ u > opened =>
         writes[u] = 0 /\ \A p \in Users : ~Choosing(p, u)
    /\ \A p \in Users : Choosing(p, u) => writes[u] = 0
    /\ \A p, q \in Users : Choosing(p, u) /\ Choosing(q, u) => p = q

ChoiceInv == \A u \in Uids : ChoiceOf(u)

\* A step that is no choice
NoChoice ==
    /\ UNCHANGED writes
    /\ \A p \in Users : job'[p].pc = "choosing" => job'[p] = job[p]

LEMMA NoChoiceIs ==
    ASSUME TypeInv, NEW p \in Users, NEW j, Doing(p, j), j.pc # "choosing",
           UNCHANGED writes
    PROVE  NoChoice
BY DEF TypeInv, JobType, Doing, NoChoice

LEMMA ChoiceSteps ==
    ASSUME TypeInv, [Next]_vars
    PROVE  \/ NoChoice
           \/ \E p \in Users : Bind(p) \/ Unbind(p) \/ WriteJoinEffect(p)
<1>1. CASE Save \/ Tick \/ UNCHANGED vars
  BY <1>1 DEF Save, Tick, vars, unmoved, NoChoice
<1>2. ASSUME NEW p \in Users, Execute(p) PROVE NoChoice
  <2>1. CASE ExecuteSoundpad(p)
    BY <2>1, NoChoiceIs DEF ExecuteSoundpad, unmoved
  <2>2. CASE ExecuteJoinEffect(p)
    BY <2>2, NoChoiceIs DEF ExecuteJoinEffect, unmoved
  <2>3. CASE ExecuteSearch(p)
    BY <2>3, NoChoiceIs DEF ExecuteSearch, unmoved
  <2>4. CASE Open(p)
    BY <2>4, NoChoiceIs DEF Open, Replying
  <2> QED
    BY <1>2, <2>1, <2>2, <2>3, <2>4 DEF Execute
<1>3. ASSUME NEW p \in Users, Reply(p) \/ Click(p) PROVE NoChoice
  <2>1. CASE Reply(p)
    BY <2>1, NoChoiceIs DEF Reply, Idle, unmoved
  <2>2. CASE Click(p)
    BY <2>2, NoChoiceIs DEF Click
  <2> QED
    BY <1>3, <2>1, <2>2
<1>4. ASSUME NEW p \in Users, Handle(p)
      PROVE  NoChoice \/ Bind(p) \/ Unbind(p) \/ WriteJoinEffect(p)
  <2>1. CASE \/ ClickExpired(p) \/ ClickGone(p) \/ Turn(p) \/ ChooseTag(p)
             \/ SubmitModal(p) \/ CloseModal(p) \/ PlayedClip(p)
    BY <2>1, NoChoiceIs DEF ClickExpired, ClickGone, Turn, ChooseTag, SubmitModal,
                            CloseModal, PlayedClip, Idle, unmoved
  <2>2. CASE TurnSearch(p)
    BY <2>2, NoChoiceIs DEF TurnSearch, Replying, unmoved
  <2>3. CASE ChangeVolume(p)
    BY <2>3, NoChoiceIs DEF ChangeVolume, Replying, unmoved
  <2>4. CASE OpenModal(p)
    BY <2>4, NoChoiceIs DEF OpenModal, unmoved
  <2>5. CASE PlayClip(p)
    BY <2>5, NoChoiceIs DEF PlayClip, Idle, unmoved
  <2>6. CASE SelectVideo(p)
    BY <2>6, NoChoiceIs DEF SelectVideo, unmoved
  <2>7. CASE SelectedVideo(p)
    BY <2>7, NoChoiceIs DEF SelectedVideo, Idle, Replying, unmoved
  <2> QED
    BY <1>4, <2>1, <2>2, <2>3, <2>4, <2>5, <2>6, <2>7 DEF Handle
<1> QED
  BY <1>1, <1>2, <1>3, <1>4 DEF Next

LEMMA NoChoiceKeeps ==
    ASSUME TypeInv, TableInv, ChoiceInv, NoChoice, [Next]_vars
    PROVE  ChoiceInv'
<1> SUFFICES ASSUME NEW u \in Uids PROVE ChoiceOf(u)'
  BY DEF ChoiceInv
<1>1. ChoiceOf(u)
  BY DEF ChoiceInv
<1>2. \A p \in Users : Choosing(p, u)' => Choosing(p, u)
  BY DEF NoChoice, Choosing
<1>3. u \in DOMAIN table' \/ u > opened' => u \in DOMAIN table \/ u > opened
  <2>1. ASSUME NEW p \in Users, Open(p)
        PROVE  u \in DOMAIN table' \/ u > opened' => u \in DOMAIN table \/ u > opened
    <3>1. PICK kept \in SUBSET DOMAIN table :
            opened' = opened + 1 /\ DOMAIN table' = kept \cup {opened'}
      BY <2>1, OpenOpens
    <3>2. opened \in Nat /\ u \in Nat
      BY PickersAssumption DEF TableInv, Uids
    <3> QED
      BY <3>1, <3>2
  <2> QED
    BY <2>1, StepsOfSessions DEF Stays, Ends
<1> QED
  BY <1>1, <1>2, <1>3 DEF ChoiceOf, NoChoice

LEMMA BindKeeps ==
    ASSUME TypeInv, TableInv, ChoiceInv, NEW p \in Users, Bind(p) \/ Unbind(p)
    PROVE  ChoiceInv' \/ NoChoice
<1> DEFINE u == job[p].uid
<1>1. /\ job[p].pc = "clicked" /\ u \in DOMAIN table
      /\ UNCHANGED writes /\ UNCHANGED opened
  BY DEF Bind, Unbind, Handles, unmoved
<1>2. CASE Doing(p, Idle)
  BY <1>1, <1>2, NoChoiceIs DEF Idle
<1>3. CASE /\ Doing(p, [pc |-> "choosing", uid |-> u])
           /\ table' = Without(table, u)
  <2> SUFFICES ASSUME NEW v \in Uids PROVE ChoiceOf(v)'
    BY DEF ChoiceInv
  <2>1. ChoiceOf(v)
    BY DEF ChoiceInv
  <2>2. /\ \A q \in Users \ {p} : job'[q] = job[q]
        /\ job'[p] = [pc |-> "choosing", uid |-> u]
    BY <1>3 DEF Doing, TypeInv, JobType
  <2>3. DOMAIN table' = DOMAIN table \ {u} /\ ~(u > opened)
    BY <1>1, <1>3 DEF Without, TableInv
  <2>4. CASE v = u
    <3>1. writes[v] = 0 /\ \A q \in Users : ~Choosing(q, v)
      BY <1>1, <2>1, <2>4 DEF ChoiceOf
    <3>2. \A q \in Users : Choosing(q, v)' => q = p
      BY <2>2, <3>1 DEF Choosing
    <3> QED
      BY <1>1, <2>3, <2>4, <3>1, <3>2 DEF ChoiceOf
  <2>5. CASE v # u
    <3>1. \A q \in Users : Choosing(q, v)' => Choosing(q, v)
      BY <2>2, <2>5 DEF Choosing
    <3> QED
      BY <1>1, <2>1, <2>3, <3>1 DEF ChoiceOf
  <2> QED
    BY <2>4, <2>5
<1> QED
  BY <1>2, <1>3 DEF Bind, Unbind

LEMMA WriteKeeps ==
    ASSUME TypeInv, TableInv, ChoiceInv, NEW p \in Users, WriteJoinEffect(p)
    PROVE  ChoiceInv'
<1> DEFINE u == job[p].uid
<1>1. /\ Choosing(p, u)
      /\ writes' = [writes EXCEPT ![u] = @ + 1]
      /\ Doing(p, Idle) /\ UNCHANGED <<table, opened>>
  BY DEF WriteJoinEffect, Choosing
<1>2. /\ \A q \in Users \ {p} : job'[q] = job[q]
      /\ job'[p] = Idle
      /\ writes \in [Uids -> Nat]
  BY <1>1 DEF Doing, TypeInv, JobType, CountType
<1> SUFFICES ASSUME NEW v \in Uids PROVE ChoiceOf(v)'
  BY DEF ChoiceInv
<1>3. ChoiceOf(v)
  BY DEF ChoiceInv
<1>4. \A q \in Users : Choosing(q, v)' => Choosing(q, v) /\ q # p
  BY <1>2 DEF Choosing, Idle
<1>5. CASE v = u
  <2>1. /\ writes'[v] = 1
        /\ \A q \in Users : ~Choosing(q, v)'
        /\ ~(v \in DOMAIN table \/ v > opened)
    BY <1>1, <1>2, <1>3, <1>4, <1>5 DEF ChoiceOf
  <2> QED
    BY <1>1, <2>1 DEF ChoiceOf
<1>6. CASE v # u
  <2>1. writes'[v] = writes[v]
    BY <1>1, <1>2, <1>6
  <2> QED
    BY <1>1, <1>3, <1>4, <2>1 DEF ChoiceOf
<1> QED
  BY <1>5, <1>6

\* "Selection finalizes the picker": whoever clicks on a /joineffect picker,
\* and however many at once, one at most writes the table of join effects.
THEOREM EveryPickerChoosesOnce == Spec => []ChoosesOnce
<1>1. Init => ChoiceInv
  BY DEF Init, ChoiceInv, ChoiceOf, Choosing, Idle
<1>2. TypeInv /\ TableInv /\ ChoiceInv /\ [Next]_vars => ChoiceInv'
  BY ChoiceSteps, NoChoiceKeeps, BindKeeps, WriteKeeps
<1>3. ChoiceInv => ChoosesOnce
  BY DEF ChoiceInv, ChoiceOf, ChoosesOnce
<1>4. Spec => []TypeInv
  BY TypeInit, TypeStep, PTL DEF Spec
<1> QED
  BY <1>1, <1>2, <1>3, <1>4, TableBounded, PTL DEF Spec

(***************************************************************************)
(* Pages and counts                                                        *)
(*                                                                         *)
(* A page is a rank divided by PageSize, so that a page is not empty is    *)
(* shown by induction on the rank.                                         *)
(***************************************************************************)
LEMMA LeastNat ==
    ASSUME NEW T \in SUBSET Nat, T # {}
    PROVE  \E x \in T : \A y \in T : x <= y
<1> DEFINE R == OpToRel(<, Nat)
<1>1. IsWellFoundedOn(R, Nat)
  BY NatLessThanWellFounded, Zenon
<1>2. \A x, y \in Nat : <<x, y>> \in R <=> x < y
  BY DEF OpToRel
<1> HIDE DEF R
<1>3. PICK x \in T : \A y \in T : <<y, x>> \notin R
  BY <1>1, WFMin
<1>4. \A y \in T : ~(y < x) /\ y \in Nat /\ x \in Nat
  BY <1>2, <1>3
<1>5. \A y \in T : x <= y
  BY <1>4
<1> QED
  BY <1>5

LEMMA Induct ==
    ASSUME NEW S, 0 \in S, \A n \in Nat : n \in S => n + 1 \in S
    PROVE  Nat \subseteq S
<1> DEFINE T == {n \in Nat : n \notin S}
<1> SUFFICES ASSUME T # {} PROVE FALSE
  OBVIOUS
<1>1. PICK x \in T : \A y \in T : x <= y
  BY LeastNat
<1>2. x \in Nat /\ x # 0 /\ x - 1 \in Nat /\ ~(x <= x - 1)
  BY <1>1
<1>3. x - 1 \in S
  BY <1>1, <1>2
<1>4. x - 1 + 1 = x
  BY <1>2
<1> QED
  BY <1>1, <1>2, <1>3, <1>4

Below(items, x) == {j \in items : j < x}

\* Of more than k numbers one has rank k.
LEMMA RankTaken ==
    ASSUME NEW items \in SUBSET Nat, IsFiniteSet(items), NEW k \in Nat,
           k < Cardinality(items)
    PROVE  \E x \in items : Cardinality(Below(items, x)) = k
<1> DEFINE Taken(n) == \E x \in items : Cardinality(Below(items, x)) = n
           S == {n \in Nat : n < Cardinality(items) => Taken(n)}
<1>0. Cardinality(items) \in Nat
  BY FS_CardinalityType
<1>1. 0 \in S
  <2> SUFFICES ASSUME 0 < Cardinality(items) PROVE Taken(0)
    OBVIOUS
  <2>1. items # {}
    BY FS_EmptySet
  <2>2. PICK x \in items : \A y \in items : x <= y
    BY <2>1, LeastNat
  <2>3. \A y \in items : ~(y < x)
    BY <2>2
  <2>4. Below(items, x) = {}
    BY <2>3 DEF Below
  <2>5. Cardinality(Below(items, x)) = 0
    BY <2>4, FS_EmptySet
  <2> QED
    BY <2>5
<1>2. ASSUME NEW n \in Nat, n \in S PROVE n + 1 \in S
  <2> SUFFICES ASSUME n + 1 < Cardinality(items) PROVE Taken(n + 1)
    OBVIOUS
  <2>1. PICK x \in items : Cardinality(Below(items, x)) = n
    BY <1>0, <1>2
  <2> DEFINE low == Below(items, x)
             high == {y \in items : x < y}
  <2>2. IsFiniteSet(low) /\ x \notin low
    BY FS_Subset DEF Below
  <2>3. IsFiniteSet(low \cup {x}) /\ Cardinality(low \cup {x}) = n + 1
    BY <2>1, <2>2, FS_AddElement
  <2>4. high # {}
    <3> SUFFICES ASSUME high = {} PROVE FALSE
      OBVIOUS
    <3>1. \A y \in items : y < x \/ y = x
      OBVIOUS
    <3>2. items = low \cup {x}
      BY <3>1 DEF Below
    <3>3. Cardinality(items) = n + 1
      BY <2>3, <3>2
    <3> QED
      BY <1>0, <3>3
  <2>5. PICK z \in high : \A y \in high : z <= y
    BY <2>4, LeastNat
  <2>6. /\ z \in items /\ x < z /\ x \in Nat /\ z \in Nat
        /\ \A y \in items : y \in Nat /\ (x < y => z <= y)
    BY <2>5
  <2>7. \A y \in items : y < z <=> y < x \/ y = x
    BY <2>6
  <2>8. Below(items, z) = low \cup {x}
    BY <2>7 DEF Below
  <2> QED
    BY <2>3, <2>6, <2>8
<1> HIDE DEF S
<1>3. k \in S
  BY <1>1, <1>2, Induct
<1> QED
  BY <1>3 DEF S

\* Multiplying by the length of a page keeps the order.
LEMMA PagesInOrder ==
    ASSUME NEW q \in Nat, NEW r \in Nat, q <= r
    PROVE  q * PageSize \in Nat /\ q * PageSize <= r * PageSize
BY Bounds

LEMMA FirstOfPage ==
    ASSUME NEW q \in Nat
    PROVE  (q * PageSize) \div PageSize = q
<1> DEFINE p == PageSize
           d == (q * p) \div p
           m == (q * p) % p
<1>1. p \in Nat \ {0} /\ q * p \in Nat
  BY Bounds
<1>2. d \in Int /\ m \in 0 .. p - 1 /\ q * p = p * d + m
  BY <1>1
<1> HIDE DEF p, d, m
<1>3. CASE d >= q + 1
  <2>1. p * d >= p * (q + 1)
    BY <1>1, <1>2, <1>3
  <2>2. p * (q + 1) = q * p + p
    BY <1>1
  <2> QED
    BY <1>1, <1>2, <2>1, <2>2
<1>4. CASE d <= q - 1
  <2>1. p * d <= p * (q - 1)
    BY <1>1, <1>2, <1>4
  <2>2. p * (q - 1) = q * p - p
    BY <1>1
  <2> QED
    BY <1>1, <1>2, <2>1, <2>2
<1> QED
  BY <1>1, <1>2, <1>3, <1>4 DEF p, d

\* A page that starts before the end of the list has items.
LEMMA PageNotEmpty ==
    ASSUME NEW items \in SUBSET Nat, IsFiniteSet(items), NEW page \in Nat,
           page * PageSize < Cardinality(items)
    PROVE  Page(items, page) # {}
<1>1. page * PageSize \in Nat
  BY Bounds
<1>2. PICK x \in items : Cardinality(Below(items, x)) = page * PageSize
  BY <1>1, RankTaken
<1>3. Cardinality({j \in items : j < x}) \div PageSize = page
  BY <1>2, FirstOfPage DEF Below
<1> QED
  BY <1>3 DEF Page

\* The last page of those counted starts before the end of the list: the count
\* may grow between the quotient and the remainder, or fail, but not shrink.
LEMMA LastPage ==
    ASSUME NEW m \in Nat, NEW n \in Nat, NEW size \in Nat,
           m <= size, n \in {0, size},
           TotalPages(m, n) # 0
    PROVE  (TotalPages(m, n) - 1) * PageSize < size
<1> DEFINE p == PageSize
           d == m \div p
<1>1. p \in Nat \ {0}
  BY Bounds
<1>2. d \in Nat /\ m = p * d + (m % p) /\ m % p \in 0 .. p - 1
  BY <1>1
<1>3. d * p <= m /\ d * p \in Nat /\ p * d = d * p
  BY <1>1, <1>2
<1>4. CASE n % p = 0
  <2>1. TotalPages(m, n) = d /\ d \in Nat \ {0}
    BY <1>2, <1>4 DEF TotalPages
  <2> HIDE DEF d, p
  <2>2. (d - 1) * p = d * p - p
    BY <1>1, <2>1
  <2>3. (d - 1) * p < size
    BY <1>1, <1>3, <2>2
  <2> QED
    BY <2>1, <2>3 DEF p
<1>5. CASE n % p # 0
  <2>1. n # 0
    BY <1>1, <1>5
  <2>2. n = size
    BY <2>1
  <2>3. TotalPages(m, n) = d + 1
    BY <1>2, <1>5 DEF TotalPages
  <2>4. d * p # n
    <3> SUFFICES ASSUME d * p = n PROVE FALSE
      OBVIOUS
    <3>1. n = p * (n \div p) + (n % p) /\ n % p \in 0 .. p - 1 /\ n \div p \in Nat
      BY <1>1
    <3>2. n \div p = d
      BY <1>2, FirstOfPage
    <3> HIDE DEF d, p
    <3> QED
      BY <1>3, <1>5, <3>1, <3>2
  <2> HIDE DEF d, p
  <2>5. (d + 1) - 1 = d
    BY <1>2
  <2>6. d * p < size
    BY <1>3, <2>2, <2>4
  <2> QED
    BY <2>3, <2>5, <2>6 DEF p
<1> QED
  BY <1>4, <1>5

(***************************************************************************)
(* Pages of a store that grows                                             *)
(***************************************************************************)
\* No list of t is shorter than it is in s.
Bigger(s, t) ==
    \A tab \in Tabs : Cardinality(Items(tab, s)) <= Cardinality(Items(tab, t))

LEMMA ItemsFinite ==
    ASSUME NEW s \in Store, NEW tab
    PROVE  /\ IsFiniteSet(Items(tab, s)) /\ Items(tab, s) \in SUBSET Nat
           /\ Cardinality(Items(tab, s)) \in Nat
<1>1. IsFiniteSet(Tags) /\ IsFiniteSet(1 .. Len(s.sounds))
  BY FS_Interval, PickersAssumption DEF Store, Tags
<1>2. s.tags \subseteq Tags /\ DOMAIN s.sounds = 1 .. Len(s.sounds)
  BY DEF Store
<1>3. Items(tab, s) \subseteq s.tags \/ Items(tab, s) \subseteq DOMAIN s.sounds
  BY DEF Items
<1>4. IsFiniteSet(Items(tab, s))
  BY <1>1, <1>2, <1>3, FS_Subset
<1> QED
  BY <1>4, ItemsType, FS_CardinalityType

LEMMA GrownBigger ==
    ASSUME NEW s \in Store, NEW t \in Grown(s)
    PROVE  t \in Store /\ Bigger(s, t)
<1>1. t \in Store
  BY GrownType
<1>2. ASSUME NEW tab \in Tabs
      PROVE  Cardinality(Items(tab, s)) <= Cardinality(Items(tab, t))
  <2>1. s.tags \subseteq t.tags
    BY DEF Grown, Store
  <2>2. /\ DOMAIN s.sounds \subseteq DOMAIN t.sounds
        /\ \A i \in DOMAIN s.sounds : t.sounds[i] = s.sounds[i]
    <3>1. CASE t.sounds = s.sounds
      BY <3>1
    <3>2. CASE t.sounds # s.sounds
      <4>1. PICK ts \in SUBSET s.tags : t = [s EXCEPT !.sounds = Append(@, ts)]
        BY <3>2 DEF Grown, Store
      <4>2. s.sounds \in Seq(SUBSET Tags) /\ ts \in SUBSET Tags
            /\ t.sounds = Append(s.sounds, ts)
        BY <4>1 DEF Store
      <4> QED
        BY <4>2
    <3> QED
      BY <3>1, <3>2
  <2>3. Items(tab, s) \subseteq Items(tab, t)
    BY <2>1, <2>2 DEF Items
  <2> QED
    BY <1>1, <2>3, ItemsFinite, FS_Subset
<1> QED
  BY <1>1, <1>2 DEF Bigger

LEMMA BiggerTransitive ==
    ASSUME NEW s \in Store, NEW t \in Store, NEW r \in Store,
           Bigger(s, t), Bigger(t, r)
    PROVE  Bigger(s, r)
<1>1. ASSUME NEW tab \in Tabs
      PROVE  Cardinality(Items(tab, s)) <= Cardinality(Items(tab, r))
  <2>1. /\ Cardinality(Items(tab, s)) \in Nat
        /\ Cardinality(Items(tab, t)) \in Nat
        /\ Cardinality(Items(tab, r)) \in Nat
    BY ItemsFinite
  <2> QED
    BY <2>1 DEF Bigger
<1> QED
  BY <1>1 DEF Bigger

\* The length of the list a view is about
Length(cmd, s, v) ==
    IF cmd = "search" THEN v.results ELSE Cardinality(Items(v.tab, s))

\* The page of a view, if it is not the first, and the last page it offers
\* start before the end of its list.
Backed(cmd, s, v) ==
    /\ v.ids = {} => v.page = 0
    /\ v.page = 0 \/ v.page * PageSize < Length(cmd, s, v)
    /\ (v.total - 1) * PageSize < Length(cmd, s, v)
    /\ cmd = "joineffect" => v.tab = AllClips

LEMMA BackedStays ==
    ASSUME NEW cmd, NEW s \in Store, NEW t \in Store, Bigger(s, t),
           NEW v \in GoodView, Backed(cmd, s, v)
    PROVE  Backed(cmd, t, v)
<1>1. /\ v.tab \in Tabs /\ v.page \in Nat /\ v.total - 1 \in Nat
      /\ v.results \in Nat
  BY PickersAssumption DEF GoodView, View
<1>2. v.page * PageSize \in Nat /\ (v.total - 1) * PageSize \in Nat
  BY <1>1, PagesInOrder
<1>3. Length(cmd, s, v) \in Nat /\ Length(cmd, t, v) \in Nat
  BY <1>1, ItemsFinite DEF Length
<1>4. Length(cmd, s, v) <= Length(cmd, t, v)
  BY <1>1, <1>3 DEF Length, Bigger
<1> HIDE DEF Length
<1> QED
  BY <1>2, <1>3, <1>4 DEF Backed

\* What is listed from a page that starts before the end
LEMMA ListedIsBacked ==
    ASSUME store \in Store, NEW tab \in Tabs, NEW page \in Nat,
           NEW r \in ListPaged(tab, page),
           page = 0 \/ page * PageSize < Cardinality(Items(tab, store))
    PROVE  /\ r.store \in Store /\ Bigger(store, r.store)
           /\ r.ids = {} => page = 0
           /\ r.total # 0 =>
                (r.total - 1) * PageSize < Cardinality(Items(tab, r.store))
<1>1. PICK first \in Grown(store) : \E second \in Grown(first) :
        \E m \in Counts(tab, first), n \in Counts(tab, second) :
          r = [ids |-> Page(Items(tab, store), page), store |-> second,
               total |-> TotalPages(m, n)]
  BY DEF ListPaged
<1>2. PICK second \in Grown(first) :
        \E m \in Counts(tab, first), n \in Counts(tab, second) :
          r = [ids |-> Page(Items(tab, store), page), store |-> second,
               total |-> TotalPages(m, n)]
  BY <1>1
<1>3. PICK m \in Counts(tab, first), n \in Counts(tab, second) :
        r = [ids |-> Page(Items(tab, store), page), store |-> second,
             total |-> TotalPages(m, n)]
  BY <1>2
<1>4. first \in Store /\ Bigger(store, first)
  BY GrownBigger
<1>5. second \in Store /\ Bigger(first, second)
  BY <1>4, GrownBigger
<1>6. Bigger(store, second)
  BY <1>4, <1>5, BiggerTransitive
<1>7. r.ids = {} => page = 0
  <2>1. page * PageSize < Cardinality(Items(tab, store)) =>
          Page(Items(tab, store), page) # {}
    BY ItemsFinite, PageNotEmpty
  <2> QED
    BY <1>3, <2>1
<1>8. r.total # 0 =>
        (r.total - 1) * PageSize < Cardinality(Items(tab, second))
  <2> DEFINE size == Cardinality(Items(tab, second))
  <2>1. size \in Nat /\ Cardinality(Items(tab, first)) \in Nat
    BY <1>4, <1>5, ItemsFinite
  <2>2. m \in {0, Cardinality(Items(tab, first))} /\ n \in {0, size}
    BY DEF Counts
  <2>3. Cardinality(Items(tab, first)) <= size
    BY <1>5 DEF Bigger
  <2> HIDE DEF size
  <2>4. m \in Nat /\ n \in Nat /\ m <= size
    BY <2>1, <2>2, <2>3
  <2>5. TotalPages(m, n) # 0 => (TotalPages(m, n) - 1) * PageSize < size
    BY <2>1, <2>2, <2>4, LastPage
  <2> QED
    BY <1>3, <2>5 DEF size
<1> QED
  BY <1>3, <1>5, <1>6, <1>7, <1>8

\* A view that is listed anew, from a page that starts before the end
LEMMA FreshIsBacked ==
    ASSUME store \in Store, NEW cmd, cmd # "search", NEW view \in View,
           cmd = "joineffect" => view.tab = AllClips,
           NEW r \in ListPaged(view.tab, view.page), r.total # 0,
           \/ view.page = 0
           \/ view.page * PageSize < Cardinality(Items(view.tab, store)),
           NEW fresh \in View, fresh.page = view.page, fresh.tab = view.tab,
           fresh.ids = r.ids, fresh.total = r.total
    PROVE  Backed(cmd, r.store, fresh)
<1>1. view.tab \in Tabs /\ view.page \in Nat
  BY DEF View
<1>2. /\ r.store \in Store /\ Bigger(store, r.store)
      /\ r.ids = {} => view.page = 0
      /\ (r.total - 1) * PageSize < Cardinality(Items(view.tab, r.store))
  BY <1>1, ListedIsBacked
<1>3. view.page * PageSize \in Nat
  BY <1>1, PagesInOrder
<1>4. /\ Cardinality(Items(view.tab, store)) \in Nat
      /\ Cardinality(Items(view.tab, r.store)) \in Nat
      /\ Cardinality(Items(view.tab, store))
           <= Cardinality(Items(view.tab, r.store))
  BY <1>1, <1>2, ItemsFinite DEF Bigger
<1>5. fresh.page = 0
      \/ fresh.page * PageSize < Cardinality(Items(view.tab, r.store))
  BY <1>3, <1>4
<1> QED
  BY <1>2, <1>5 DEF Backed, Length

(***************************************************************************)
(* Every session stands on a page of its list                              *)
(***************************************************************************)
\* The buttons a click can be on, and the view a session will open with.
JobGood(cmd, s, j) ==
    /\ j.pc = "opening" => Backed(cmd, s, j.view)
    /\ j.pc = "clicked" => /\ j.cmd = "tag" => cmd = "soundpad"
                           /\ j.cmd = "jump" => cmd # "search"
    /\ j.pc = "modal" => cmd # "search"

PageInv ==
    /\ \A u \in DOMAIN table : Backed(command, store, table[u].view)
    /\ \A p \in Users : JobGood(command, store, job[p])

LEMMA JobStays ==
    ASSUME NEW cmd, NEW s \in Store, NEW t \in Store, Bigger(s, t),
           NEW j \in GoodJob(opened), JobGood(cmd, s, j)
    PROVE  JobGood(cmd, t, j)
<1>1. j.pc = "opening" => j.view \in GoodView
  BY DEF GoodJob, Idle
<1> QED
  BY <1>1, BackedStays DEF JobGood

LEMMA Unshrunk ==
    ASSUME NEW s \in Store
    PROVE  Bigger(s, s)
<1>1. \A tab \in Tabs : Cardinality(Items(tab, s)) \in Nat
  BY ItemsFinite
<1> QED
  BY <1>1 DEF Bigger

\* A step that leaves the sessions, ends one, or gives one a view that stands
\* on a page of its list
LEMMA PagesKept ==
    ASSUME TypeInv, PageInv, UNCHANGED command,
           store' \in Store, Bigger(store, store'),
           \/ UNCHANGED table
           \/ \E u : table' = Without(table, u)
           \/ \E u \in DOMAIN table, view \in GoodView :
                /\ Backed(command, store', view)
                /\ table' = [table EXCEPT ![u].view = view],
           \/ UNCHANGED job
           \/ \E p \in Users : \E j : Doing(p, j) /\ JobGood(command, store', j)
    PROVE  PageInv'
<1>1. store \in Store /\ TableType /\ JobType
  BY DEF TypeInv
<1>2. \A u \in DOMAIN table : Backed(command, store', table[u].view)
  BY <1>1, BackedStays DEF PageInv, TableType
<1>3. ASSUME NEW u \in DOMAIN table' PROVE Backed(command, store', table'[u].view)
  <2>1. CASE UNCHANGED table
    BY <1>2, <2>1
  <2>2. CASE \E v : table' = Without(table, v)
    BY <1>2, <2>2 DEF Without
  <2>3. ASSUME NEW v \in DOMAIN table, NEW view \in GoodView,
               Backed(command, store', view),
               table' = [table EXCEPT ![v].view = view]
        PROVE  Backed(command, store', table'[u].view)
    <3>1. u \in DOMAIN table /\ table[u] \in [at : 0 .. now, view : GoodView]
      BY <1>1, <2>3 DEF TableType
    <3>2. table'[u].view = view \/ table'[u].view = table[u].view
      BY <2>3, <3>1
    <3> QED
      BY <1>2, <2>3, <3>1, <3>2
  <2> QED
    BY <2>1, <2>2, <2>3
<1>4. \A p \in Users : JobGood(command, store', job[p])
  BY <1>1, JobStays DEF PageInv, JobType
<1>5. ASSUME NEW p \in Users PROVE JobGood(command, store', job'[p])
  BY <1>1, <1>4 DEF Doing, JobType
<1> QED
  BY <1>3, <1>5 DEF PageInv

\* No page up to the last that a view offers, or up to its own, is past the end.
LEMMA PageInside ==
    ASSUME NEW cmd, NEW s \in Store, NEW v \in GoodView, Backed(cmd, s, v),
           NEW q \in Nat, q <= v.total - 1 \/ q <= v.page
    PROVE  q = 0 \/ q * PageSize < Length(cmd, s, v)
<1>1. /\ v.tab \in Tabs /\ v.page \in Nat /\ v.total - 1 \in Nat
      /\ v.results \in Nat
  BY PickersAssumption DEF GoodView, View
<1>2. Length(cmd, s, v) \in Nat
  BY <1>1, ItemsFinite DEF Length
<1>3. /\ v.page * PageSize \in Nat /\ (v.total - 1) * PageSize \in Nat
      /\ q * PageSize \in Nat
  BY <1>1, PagesInOrder
<1>4. CASE q <= v.total - 1
  <2>1. q * PageSize <= (v.total - 1) * PageSize
    BY <1>1, <1>4, PagesInOrder
  <2> QED
    BY <1>2, <1>3, <2>1 DEF Backed
<1>5. CASE q <= v.page
  <2>1. q * PageSize <= v.page * PageSize
    BY <1>1, <1>5, PagesInOrder
  <2>2. v.page = 0 => q = 0
    BY <1>5
  <2> QED
    BY <1>2, <1>3, <2>1, <2>2 DEF Backed
<1> QED
  BY <1>4, <1>5

LEMMA TurnedInside ==
    ASSUME NEW cmd, NEW s \in Store, NEW v \in GoodView, Backed(cmd, s, v),
           NEW b
    PROVE  LET t == Turned(v, b) IN
           /\ t \in View /\ t.tab = v.tab /\ t.results = v.results
           /\ t.total = v.total
           /\ t.page = 0 \/ t.page * PageSize < Length(cmd, s, v)
<1>1. v \in View /\ v.page \in Nat /\ v.total - 1 \in Nat
  BY DEF GoodView, View
<1>2. Turned(v, b).page \in Nat
      /\ (Turned(v, b).page <= v.total - 1 \/ Turned(v, b).page <= v.page)
  <2> DEFINE back == Most(0, v.page - 1)
             on == Least(v.total - 1, v.page + 1)
  <2>1. back \in Nat /\ back <= v.page /\ on \in Nat /\ on <= v.total - 1
    BY <1>1 DEF Most, Least
  <2>2. Turned(v, b).page = back \/ Turned(v, b).page = on
    BY <1>1 DEF Turned, View
  <2> HIDE DEF back, on
  <2> QED
    BY <2>1, <2>2
<1>3. v.total > 0
  BY DEF GoodView
<1> QED
  BY <1>1, <1>2, <1>3, PageInside, TurnedType

\* update_button_page and update_page_edit_response from such a page
LEMMA RefreshBacks ==
    ASSUME TypeInv, NEW u \in DOMAIN table, NEW view \in View,
           view.tab = TagList => view.results = 0,
           command # "search", command = "joineffect" => view.tab = AllClips,
           \/ view.page = 0
           \/ view.page * PageSize < Cardinality(Items(view.tab, store)),
           SoundpadRefresh(u, view)
    PROVE  /\ store' \in Store /\ Bigger(store, store')
           /\ \/ table' = Without(table, u)
              \/ \E fresh \in GoodView :
                   /\ Backed(command, store', fresh)
                   /\ table' = [table EXCEPT ![u].view = fresh]
<1>1. store \in Store /\ view.tab \in Tabs /\ view.page \in Nat
  BY DEF TypeInv, View
<1>2. PICK r \in ListPaged(view.tab, view.page) :
        /\ store' = r.store
        /\ IF r.total = 0
           THEN table' = Without(table, u) /\ UNCHANGED shown
           ELSE LET fresh == [view EXCEPT !.ids = r.ids, !.total = r.total]
                IN  /\ table' = [table EXCEPT ![u].view = fresh]
                    /\ shown' = Put(shown, u, Built(fresh))
  BY DEF SoundpadRefresh
<1>3. r.store \in Store /\ Bigger(store, r.store)
  BY <1>1, ListedIsBacked
<1>4. /\ r.total \in Nat /\ r.ids \in SUBSET Nat
      /\ view.tab = TagList => r.ids \subseteq Tags
  BY <1>1, ListPagedType
<1>5. CASE r.total = 0
  BY <1>2, <1>3, <1>5
<1>6. CASE r.total # 0
  <2> DEFINE fresh == [view EXCEPT !.ids = r.ids, !.total = r.total]
  <2>1. /\ fresh \in View /\ fresh.page = view.page /\ fresh.tab = view.tab
        /\ fresh.ids = r.ids /\ fresh.total = r.total
        /\ fresh.results = view.results
    BY <1>4 DEF View
  <2>2. table' = [table EXCEPT ![u].view = fresh]
    BY <1>2, <1>6
  <2> HIDE DEF fresh
  <2>3. fresh \in GoodView
    BY <1>4, <1>6, <2>1 DEF GoodView
  <2>4. Backed(command, r.store, fresh)
    BY <1>1, <1>6, <2>1, FreshIsBacked
  <2> QED
    BY <1>2, <1>3, <2>2, <2>3, <2>4
<1> QED
  BY <1>5, <1>6

\* A handler of a click lists its session's view anew.
LEMMA RefreshKeepsPages ==
    ASSUME TypeInv, PageInv, NEW p \in Users, NEW u \in DOMAIN table,
           NEW view \in View,
           view.tab = TagList => view.results = 0,
           command # "search", command = "joineffect" => view.tab = AllClips,
           \/ view.page = 0
           \/ view.page * PageSize < Cardinality(Items(view.tab, store)),
           Refresh(u, view), Doing(p, Idle), UNCHANGED command
    PROVE  PageInv'
<1>1. SoundpadRefresh(u, view)
  <2>1. CASE command = "soundpad"
    BY <2>1 DEF Refresh
  <2>2. CASE command # "soundpad"
    <3>1. command = "joineffect"
      BY <2>2 DEF TypeInv, CountType, Commands
    <3>2. [view EXCEPT !.tab = AllClips] = view
      BY <3>1 DEF View
    <3> QED
      BY <2>2, <3>2 DEF Refresh, JoinEffectRefresh
  <2> QED
    BY <2>1, <2>2
<1>2. JobGood(command, store', Idle)
  BY DEF JobGood, Idle
<1> QED
  BY <1>1, <1>2, RefreshBacks, PagesKept

LEMMA TurnKeepsPages ==
    ASSUME TypeInv, PageInv, NEW p \in Users, Turn(p)
    PROVE  PageInv'
<1> DEFINE u == job[p].uid
           v == table[u].view
           view == Turned(v, job[p].cmd)
<1>1. /\ u \in DOMAIN table /\ Refresh(u, view) /\ Doing(p, Idle)
      /\ UNCHANGED command /\ command # "search"
  BY DEF Turn, Handles, unmoved
<1>2. /\ v \in GoodView /\ Backed(command, store, v) /\ store \in Store
      /\ v.tab = TagList => v.results = 0
  BY <1>1, ViewFound DEF PageInv, TypeInv
<1> HIDE DEF v
<1>3. /\ view \in View /\ view.tab = v.tab /\ view.results = v.results
      /\ view.page = 0 \/ view.page * PageSize < Length(command, store, v)
  BY <1>2, TurnedInside
<1>4. /\ Length(command, store, v) = Cardinality(Items(v.tab, store))
      /\ command = "joineffect" => v.tab = AllClips
  BY <1>1, <1>2 DEF Length, Backed
<1> HIDE DEF u, view
<1> QED
  BY <1>1, <1>2, <1>3, <1>4, RefreshKeepsPages

LEMMA SubmitKeepsPages ==
    ASSUME TypeInv, PageInv, NEW p \in Users, SubmitModal(p)
    PROVE  PageInv'
<1> DEFINE u == job[p].uid
           v == table[u].view
           page(n) == Most(0, Least(v.total - 1, n))
           view(n) == [v EXCEPT !.page = page(n)]
<1>1. PICK requested \in -1 .. MaxSounds : Refresh(u, view(requested))
  BY DEF SubmitModal
<1>2. u \in DOMAIN table /\ Doing(p, Idle) /\ UNCHANGED command
      /\ job[p].pc = "modal"
  BY DEF SubmitModal, unmoved
<1>3. command # "search"
  BY <1>2 DEF PageInv, JobGood
<1>4. /\ v \in GoodView /\ Backed(command, store, v) /\ store \in Store
      /\ v \in View /\ v.total \in Nat \ {0}
      /\ v.tab = TagList => v.results = 0
  BY <1>2, ViewFound DEF PageInv, TypeInv
<1> HIDE DEF v
<1>5. page(requested) \in Nat /\ page(requested) <= v.total - 1
  BY <1>4, PickersAssumption DEF Most, Least
<1> HIDE DEF page
<1>6. page(requested) = 0
      \/ page(requested) * PageSize < Length(command, store, v)
  BY <1>4, <1>5, PageInside
<1>7. /\ view(requested) \in View /\ view(requested).tab = v.tab
      /\ view(requested).results = v.results
      /\ view(requested).page = page(requested)
  BY <1>4, <1>5 DEF View
<1>8. /\ Length(command, store, v) = Cardinality(Items(v.tab, store))
      /\ command = "joineffect" => v.tab = AllClips
  BY <1>3, <1>4 DEF Length, Backed
<1> HIDE DEF u, view
<1> QED
  BY <1>1, <1>2, <1>3, <1>4, <1>6, <1>7, <1>8, RefreshKeepsPages

LEMMA ChooseTagKeepsPages ==
    ASSUME TypeInv, PageInv, NEW p \in Users, ChooseTag(p)
    PROVE  PageInv'
<1> DEFINE u == job[p].uid
           view == [table[u].view EXCEPT !.page = 0, !.tab = job[p].arg]
<1>1. /\ u \in DOMAIN table /\ job[p].pc = "clicked" /\ job[p].cmd = "tag"
      /\ SoundpadRefresh(u, view) /\ Doing(p, Idle) /\ UNCHANGED command
  BY DEF ChooseTag, Handles, unmoved
<1>2. command = "soundpad"
  BY <1>1 DEF PageInv, JobGood
<1>3. job[p].arg \in Tags
  BY <1>1, JobFields DEF TypeInv
<1>4. job[p].arg \in Tabs /\ job[p].arg # TagList
  BY <1>3, PickersAssumption DEF Tags, Tabs, TagList
<1>5. table[u].view \in View
  BY <1>1, ViewFound
<1>6. view \in View /\ view.page = 0 /\ view.tab # TagList
  BY <1>4, <1>5 DEF View
<1>7. Refresh(u, view)
  BY <1>1, <1>2 DEF Refresh
<1> HIDE DEF u, view
<1> QED
  BY <1>1, <1>2, <1>6, <1>7, RefreshKeepsPages

LEMMA FirstNumbers ==
    ASSUME NEW n \in Nat
    PROVE  /\ 1 .. n \in SUBSET Nat /\ IsFiniteSet(1 .. n)
           /\ Cardinality(1 .. n) = n
<1>1. Cardinality(1 .. n) = IF 1 > n THEN 0 ELSE n - 1 + 1
  BY FS_Interval
<1> QED
  BY <1>1, FS_Interval

\* A turn of /search shows another part of the results it kept.
LEMMA TurnSearchKeepsPages ==
    ASSUME TypeInv, PageInv, NEW p \in Users, TurnSearch(p)
    PROVE  PageInv'
<1> DEFINE u == job[p].uid
           v == table[u].view
           turned == Turned(v, job[p].cmd)
           ids == Page(1 .. turned.results, turned.page)
           view == [turned EXCEPT !.ids = ids]
<1>1. /\ u \in DOMAIN table /\ command = "search"
      /\ table' = [table EXCEPT ![u].view = view]
      /\ Doing(p, Replying(u, Built(view)))
      /\ UNCHANGED <<command, store>>
  BY DEF TurnSearch, Handles, unmoved
<1>2. /\ v \in GoodView /\ Backed(command, store, v) /\ store \in Store
      /\ v.results \in 0 .. MaxSounds /\ v.total \in Nat \ {0}
      /\ v.tab = TagList => v.results = 0
  BY <1>1, ViewFound DEF PageInv, TypeInv
<1> HIDE DEF v
<1>3. /\ turned \in View /\ turned.tab = v.tab /\ turned.results = v.results
      /\ turned.total = v.total /\ turned.page \in Nat
      /\ turned.page = 0 \/ turned.page * PageSize < v.results
  BY <1>1, <1>2, TurnedInside DEF Length, View
<1> HIDE DEF turned
<1>4. ids \subseteq 1 .. turned.results
  BY DEF Page
<1>5. ids = {} => turned.page = 0
  <2>1. /\ 1 .. v.results \in SUBSET Nat /\ IsFiniteSet(1 .. v.results)
        /\ Cardinality(1 .. v.results) = v.results
    BY <1>2, FirstNumbers, Bounds
  <2>2. turned.page * PageSize < v.results => ids # {}
    BY <1>3, <2>1, PageNotEmpty
  <2> QED
    BY <1>3, <2>2
<1> HIDE DEF ids
<1>6. /\ view \in View /\ view.page = turned.page /\ view.total = v.total
      /\ view.tab = v.tab /\ view.results = v.results /\ view.ids = ids
  <2>1. ids \in SUBSET Nat
    BY <1>2, <1>3, <1>4
  <2> QED
    BY <1>3, <2>1 DEF View
<1> HIDE DEF view
<1>7. view \in GoodView
  <2>1. v.results = 0 => ids = {}
    BY <1>3, <1>4
  <2> QED
    BY <1>2, <1>6, <2>1 DEF GoodView
<1>8. Backed(command, store', view)
  BY <1>1, <1>2, <1>3, <1>5, <1>6 DEF Backed, Length
<1>9. JobGood(command, store', Replying(u, Built(view)))
  BY DEF JobGood, Replying
<1>10. store' \in Store /\ Bigger(store, store')
  BY <1>1, <1>2, Unshrunk
<1> HIDE DEF u
<1> QED
  BY <1>1, <1>7, <1>8, <1>9, <1>10, PagesKept

LEMMA ChangeVolumeKeepsPages ==
    ASSUME TypeInv, PageInv, NEW p \in Users, ChangeVolume(p)
    PROVE  PageInv'
<1> DEFINE u == job[p].uid
           v == table[u].view
           volume == Most(1, Least(MaxVolume, v.volume + job[p].arg))
           view == [v EXCEPT !.volume = volume]
<1>1. /\ u \in DOMAIN table /\ job[p].pc = "clicked"
      /\ table' = [table EXCEPT ![u].view = view]
      /\ Doing(p, Replying(u, Built(view)))
      /\ UNCHANGED <<command, store>>
  BY DEF ChangeVolume, Handles, unmoved
<1>2. /\ v \in GoodView /\ Backed(command, store, v) /\ store \in Store
      /\ v.volume \in 1 .. MaxVolume
  BY <1>1, ViewFound DEF PageInv, TypeInv
<1>3. job[p].arg \in Int
  BY <1>1, JobFields DEF TypeInv
<1> HIDE DEF v
<1>4. volume \in 1 .. MaxVolume
  BY <1>2, <1>3, PickersAssumption DEF Most, Least
<1> HIDE DEF volume
<1>5. /\ view \in GoodView /\ view.page = v.page /\ view.total = v.total
      /\ view.tab = v.tab /\ view.results = v.results /\ view.ids = v.ids
  BY <1>2, <1>4 DEF GoodView, View
<1> HIDE DEF view
<1>6. Backed(command, store', view)
  BY <1>1, <1>2, <1>5 DEF Backed, Length
<1>7. JobGood(command, store', Replying(u, Built(view)))
  BY DEF JobGood, Replying
<1>8. store' \in Store /\ Bigger(store, store')
  BY <1>1, <1>2, Unshrunk
<1> HIDE DEF u
<1> QED
  BY <1>1, <1>5, <1>6, <1>7, <1>8, PagesKept

\* A step that leaves the store alone and no view behind
LEMMA MovesKeepPages ==
    ASSUME TypeInv, PageInv, UNCHANGED <<command, store>>,
           UNCHANGED table \/ \E u : table' = Without(table, u),
           \/ UNCHANGED job
           \/ \E p \in Users : \E j : Doing(p, j) /\ JobGood(command, store, j)
    PROVE  PageInv'
<1>1. store \in Store
  BY DEF TypeInv
<1>2. store' \in Store /\ Bigger(store, store')
  BY <1>1, Unshrunk
<1> QED
  BY <1>2, PagesKept

LEMMA GoodMoves ==
    ASSUME NEW u
    PROVE  /\ JobGood(command, store, Idle)
           /\ JobGood(command, store, [pc |-> "choosing", uid |-> u])
           /\ JobGood(command, store, [pc |-> "fetching", uid |-> u])
           /\ \A g : /\ JobGood(command, store, Replying(u, g))
                     /\ JobGood(command, store,
                                [pc |-> "joining", uid |-> u, msg |-> g])
BY DEF JobGood, Idle, Replying

LEMMA HandleKeepsPages ==
    ASSUME TypeInv, PageInv, NEW p \in Users, Handle(p)
    PROVE  PageInv'
<1> USE DEF unmoved
<1>1. CASE \/ ClickExpired(p) \/ ClickGone(p) \/ CloseModal(p)
           \/ PlayedClip(p) \/ WriteJoinEffect(p)
  BY <1>1, MovesKeepPages, GoodMoves
     DEF ClickExpired, ClickGone, CloseModal, PlayedClip, WriteJoinEffect
<1>2. CASE OpenModal(p)
  <2>1. command # "search"
    BY <1>2 DEF OpenModal, Handles, PageInv, JobGood
  <2>2. JobGood(command, store, [pc |-> "modal", uid |-> job[p].uid, ts |-> now])
    BY <2>1 DEF JobGood
  <2> QED
    BY <1>2, <2>2, MovesKeepPages DEF OpenModal
<1>3. CASE SelectVideo(p) \/ Unbind(p)
  BY <1>3, MovesKeepPages, GoodMoves DEF SelectVideo, Unbind
<1>4. CASE Bind(p)
  BY <1>4, MovesKeepPages, GoodMoves DEF Bind
<1>5. CASE PlayClip(p)
  BY <1>5, MovesKeepPages, GoodMoves DEF PlayClip
<1>6. CASE SelectedVideo(p)
  BY <1>6, MovesKeepPages, GoodMoves DEF SelectedVideo
<1> QED
  BY <1>1, <1>2, <1>3, <1>4, <1>5, <1>6, TurnKeepsPages, TurnSearchKeepsPages,
     ChangeVolumeKeepsPages, ChooseTagKeepsPages, SubmitKeepsPages DEF Handle

\* A session opens with the view that was listed for it, whatever rows came
\* since.
LEMMA OpenKeepsPages ==
    ASSUME TypeInv, PageInv, NEW p \in Users, Open(p)
    PROVE  PageInv'
<1> DEFINE n == opened + 1
           view == job[p].view
<1>1. /\ job[p].pc = "opening" /\ Doing(p, Replying(n, Built(view)))
      /\ UNCHANGED <<command, store>>
  BY DEF Open
<1>2. PICK kept \in EvictOldSessions :
        table' = [v \in kept \cup {n} |->
                    IF v = n THEN [at |-> now, view |-> view] ELSE table[v]]
  BY DEF Open
<1>3. kept \subseteq DOMAIN table
  BY DEF EvictOldSessions
<1>4. Backed(command, store, view)
  BY <1>1 DEF PageInv, JobGood
<1> HIDE DEF n, view
<1>5. \A u \in DOMAIN table' : Backed(command, store, table'[u].view)
  BY <1>2, <1>3, <1>4 DEF PageInv
<1>6. \A q \in Users : JobGood(command, store, job'[q])
  BY <1>1, GoodMoves DEF PageInv, TypeInv, JobType, Doing
<1> QED
  BY <1>1, <1>5, <1>6 DEF PageInv

\* The first page is there whatever the list is.
LEMMA ListsKeepPages ==
    ASSUME TypeInv, PageInv, command # "search", NEW p \in Users,
           NEW tab \in {AllClips, TagList},
           command = "joineffect" => tab = AllClips,
           NEW r \in ListPaged(tab, 0), r.total # 0, store' = r.store,
           Doing(p, [pc |-> "opening", view |-> FirstView(tab, r.ids, r.total, 0)]),
           UNCHANGED <<command, table>>
    PROVE  PageInv'
<1>1. tab \in Tabs /\ store \in Store
  BY PickersAssumption DEF AllClips, TagList, Tabs, TypeInv
<1>2. /\ r.store \in Store /\ Bigger(store, r.store)
      /\ (r.total - 1) * PageSize < Cardinality(Items(tab, r.store))
  BY <1>1, ListedIsBacked
<1>3. Backed(command, r.store, FirstView(tab, r.ids, r.total, 0))
  BY <1>2 DEF Backed, Length, FirstView
<1>4. JobGood(command, store',
              [pc |-> "opening", view |-> FirstView(tab, r.ids, r.total, 0)])
  BY <1>3 DEF JobGood
<1> QED
  BY <1>2, <1>4, PagesKept

LEMMA SearchKeepsPages ==
    ASSUME TypeInv, PageInv, NEW p \in Users, ExecuteSearch(p)
    PROVE  PageInv'
<1>1. PICK n \in 1 .. MaxSounds :
        Doing(p, [pc |-> "opening",
                  view |-> FirstView(AllClips, Page(1 .. n, 0),
                                     TotalPages(n, n), n)])
  BY DEF ExecuteSearch
<1> DEFINE view == FirstView(AllClips, Page(1 .. n, 0), TotalPages(n, n), n)
<1>2. n \in Nat \ {0} /\ command = "search" /\ UNCHANGED <<command, store, table>>
  BY Bounds DEF ExecuteSearch, unmoved
<1>3. (TotalPages(n, n) - 1) * PageSize < n
  <2>1. TotalPages(n, n) # 0
    BY <1>2, TotalPagesType, SomePages
  <2> QED
    BY <1>2, <2>1, LastPage
<1>4. Backed(command, store, view)
  BY <1>2, <1>3 DEF Backed, Length, FirstView
<1> HIDE DEF view
<1>5. JobGood(command, store, [pc |-> "opening", view |-> view])
  BY <1>4 DEF JobGood
<1> QED
  BY <1>1, <1>2, <1>5, MovesKeepPages DEF view

\* Anyone may click, on buttons of the command the table is of.
LEMMA ClickKeepsPages ==
    ASSUME TypeInv, PageInv, NEW p \in Users, Click(p)
    PROVE  PageInv'
<1>1. PICK u \in DOMAIN shown : \E b \in Buttons(shown[u].view) :
        Doing(p, [pc |-> "clicked", uid |-> u, cmd |-> b.cmd, arg |-> b.arg,
                  ts |-> shown[u].ts])
  BY DEF Click
<1> DEFINE v == shown[u].view
<1>2. PICK b \in Buttons(v) :
        Doing(p, [pc |-> "clicked", uid |-> u, cmd |-> b.cmd, arg |-> b.arg,
                  ts |-> shown[u].ts])
  BY <1>1
<1> HIDE DEF v
<1>3. (b.cmd = "tag" => command = "soundpad")
      /\ (b.cmd = "jump" => command # "search")
  <2>1. CASE command = "soundpad"
    BY <2>1
  <2>2. CASE command = "joineffect"
    <3>1. b \in JoinEffectButtons(v)
      BY <2>2 DEF Buttons
    <3>2. b.cmd # "tag"
      BY <3>1 DEF JoinEffectButtons, PageButtons, JumpButton, Button
    <3> QED
      BY <2>2, <3>2
  <2>3. CASE command = "search"
    <3>1. b \in SearchButtons(v)
      BY <2>3 DEF Buttons
    <3>2. b.cmd # "tag" /\ b.cmd # "jump"
      BY <3>1 DEF SearchButtons, PageButtons, Button
    <3> QED
      BY <3>2
  <2> QED
    BY <2>1, <2>2, <2>3 DEF TypeInv, CountType, Commands
<1>4. JobGood(command, store, [pc |-> "clicked", uid |-> u, cmd |-> b.cmd,
                               arg |-> b.arg, ts |-> shown[u].ts])
  BY <1>3 DEF JobGood
<1> QED
  BY <1>2, <1>4, MovesKeepPages DEF Click

LEMMA PageInit == Init => PageInv
BY DEF Init, PageInv, JobGood, Idle

LEMMA PageStep == TypeInv /\ PageInv /\ [Next]_vars => PageInv'
<1> SUFFICES ASSUME TypeInv, PageInv, [Next]_vars PROVE PageInv'
  OBVIOUS
<1>1. CASE UNCHANGED vars \/ Tick
  BY <1>1, MovesKeepPages DEF vars, Tick
<1>2. CASE Save
  <2>1. store' \in Store /\ Bigger(store, store')
    BY <1>2, GrownBigger DEF Save, TypeInv
  <2> QED
    BY <1>2, <2>1, PagesKept DEF Save, unmoved
<1>3. ASSUME NEW p \in Users, ExecuteSoundpad(p) PROVE PageInv'
  BY <1>3, ListsKeepPages DEF ExecuteSoundpad, unmoved
<1>4. ASSUME NEW p \in Users, ExecuteJoinEffect(p) PROVE PageInv'
  BY <1>4, ListsKeepPages DEF ExecuteJoinEffect, unmoved
<1>5. ASSUME NEW p \in Users, Reply(p) PROVE PageInv'
  BY <1>5, MovesKeepPages, GoodMoves DEF Reply, unmoved
<1> QED
  BY <1>1, <1>2, <1>3, <1>4, <1>5, SearchKeepsPages, OpenKeepsPages,
     ClickKeepsPages, HandleKeepsPages DEF Next, Execute

\* For any pages, rows and failures of the queries between them: a session
\* stands on a page that has clips, or on the first.
THEOREM PagesAreThere == Spec => []PageHasClips
<1>1. PageInv => PageHasClips
  BY DEF PageInv, Backed, PageHasClips
<1> QED
  BY <1>1, TypeInit, TypeStep, PageInit, PageStep, PTL DEF Spec

===============================================================================
