-------------------------- MODULE AddSessions_proofs --------------------------
(***************************************************************************)
(* The end of every /add session and the soundpad's rows and files, for    *)
(* any number of sessions, names, tags and crashes.                        *)
(***************************************************************************)
EXTENDS AddSessions, FiniteSetTheorems, TLAPS

-----------------------------------------------------------------------------
\* Types.  A save finds the name and the tags that were asked for.

Asked ==
    /\ active_session # None => asked[active_session] \in Request
    /\ \A i \in DOMAIN saves : asked[saves[i].uid] \in Request

TypeInv == TypeOK /\ Asked

LEMMA TypeInit == Init => TypeInv
<1> SUFFICES ASSUME Init PROVE TypeInv
  OBVIOUS
<1>1. now \in Times /\ crashes \in 0 .. MaxCrashes
  BY AddAssumption DEF Init, Times
<1>2. /\ asked \in [Adds -> Request \cup {None}]
      /\ files \in [Names -> SUBSET Adds]
      /\ rows \in [Names -> Row \cup {None}]
  BY DEF Init
<1>3. saves \in Seq(Save) /\ DOMAIN saves = {}
  BY DEF Init
<1>4. Asked
  BY <1>3 DEF Init, Asked
<1> QED BY <1>1, <1>2, <1>3, <1>4 DEF Init, TypeInv, TypeOK

LEMMA SaveRequest ==
    ASSUME TypeInv, NEW i \in DOMAIN saves
    PROVE  /\ saves[i] \in Save /\ saves[i].uid \in Adds
           /\ NameOf(i) \in Names /\ TagsOf(i) \subseteq Tags
<1>1. saves[i] \in Save
  BY DEF TypeInv, TypeOK
<1>2. asked[saves[i].uid] \in Request
  BY DEF TypeInv, Asked
<1> QED BY <1>1, <1>2 DEF Save, Request, NameOf, TagsOf

\* What a step of a save does to saves.
LEMMA SaveMoves ==
    ASSUME TypeOK, NEW i \in DOMAIN saves, NEW from,
           NEW to \in {"write", "tags", "insert", "saved", "failed"},
           SaveGoes(i, from, to)
    PROVE  /\ saves' \in Seq(Save)
           /\ DOMAIN saves' = DOMAIN saves
           /\ saves[i].pc = from /\ saves'[i].pc = to
           /\ \A j \in DOMAIN saves : j # i => saves'[j] = saves[j]
           /\ \A j \in DOMAIN saves : saves'[j].uid = saves[j].uid
           /\ UNCHANGED <<now, asked, sessionVars, historyVars, crashes>>
<1>0. saves[i] \in Save
  BY DEF TypeOK
<1>1. saves[i] \in Save /\ [saves[i] EXCEPT !.pc = to] \in Save
  BY <1>0 DEF Save
<1>2. saves' = [saves EXCEPT ![i] = [saves[i] EXCEPT !.pc = to]]
  BY DEF SaveGoes
<1>3. saves' \in Seq(Save) /\ DOMAIN saves' = DOMAIN saves
  BY <1>1, <1>2 DEF TypeOK
<1>4. saves'[i] = [saves[i] EXCEPT !.pc = to]
  BY <1>2
<1>5. saves'[i].uid = saves[i].uid /\ saves'[i].pc = to
  BY <1>1, <1>4 DEF Save
<1>6. \A j \in DOMAIN saves : j # i => saves'[j] = saves[j]
  BY <1>2 DEF TypeOK
<1>7. \A j \in DOMAIN saves : saves'[j].uid = saves[j].uid
  BY <1>5, <1>6
<1>8. saves[i].pc = from /\ UNCHANGED <<now, asked, sessionVars, historyVars, crashes>>
  BY DEF SaveGoes
<1> QED BY <1>3, <1>5, <1>6, <1>7, <1>8

\* The steps of a save by the places they lead between.
LEMMA SaveSteps ==
    ASSUME NEW i \in DOMAIN saves, SaveAudioClip(i)
    PROVE  \E from \in {"open", "write", "tags", "insert"},
              to \in {"write", "tags", "insert", "saved", "failed"} :
                 SaveGoes(i, from, to)
BY DEF SaveAudioClip, SaveOpens, SaveWrites, SaveAddsTags, SaveInserts,
       OpenFails, SqlFails

LEMMA ConfirmAppends ==
    ASSUME TypeOK, NEW b \in buttons, ClickConfirm(b)
    PROVE  /\ saves' \in Seq(Save)
           /\ DOMAIN saves' = DOMAIN saves \cup {Len(saves) + 1}
           /\ Len(saves) + 1 \notin DOMAIN saves
           /\ \A j \in DOMAIN saves : saves'[j] = saves[j]
           /\ saves'[Len(saves) + 1] = [uid |-> active_session, pc |-> "open"]
BY DEF TypeOK, ClickConfirm, Save

\* A crash moves the saves that were under way and no other.
LEMMA CrashLoses ==
    ASSUME TypeOK, Crash
    PROVE  /\ saves' \in Seq(Save)
           /\ DOMAIN saves' = DOMAIN saves
           /\ \A j \in DOMAIN saves :
                 /\ saves'[j].uid = saves[j].uid
                 /\ saves[j].pc \in {"saved", "failed"} => saves'[j] = saves[j]
                 /\ saves[j].pc \notin {"saved", "failed"} => saves'[j].pc = "lost"
<1>1. \A j \in DOMAIN saves : saves[j] \in Save
  BY DEF TypeOK
<1>2. \A j \in DOMAIN saves : [saves[j] EXCEPT !.pc = "lost"] \in Save
  BY <1>1 DEF Save
<1>3. DOMAIN saves = 1 .. Len(saves) /\ Len(saves) \in Nat
  BY DEF TypeOK
<1>4. \A j \in DOMAIN saves : saves'[j] =
         IF saves[j].pc \in {"saved", "failed"} THEN saves[j]
         ELSE [saves[j] EXCEPT !.pc = "lost"]
  BY DEF Crash
<1>5. DOMAIN saves' = DOMAIN saves
  BY DEF Crash
<1>6. saves' \in Seq(Save)
  BY <1>1, <1>2, <1>3 DEF Crash
<1> QED BY <1>1, <1>4, <1>5, <1>6 DEF Save

LEMMA TypeOfSave ==
    ASSUME TypeInv, NEW i \in DOMAIN saves, SaveAudioClip(i)
    PROVE  TypeInv'
<1>1. /\ saves[i].uid \in Adds
      /\ NameOf(i) \in Names /\ TagsOf(i) \subseteq Tags
  BY SaveRequest DEF TypeInv
<1>2. PICK from \in {"open", "write", "tags", "insert"},
           to \in {"write", "tags", "insert", "saved", "failed"} :
              SaveGoes(i, from, to)
  BY SaveSteps
<1>3. /\ saves' \in Seq(Save)
      /\ DOMAIN saves' = DOMAIN saves
      /\ \A j \in DOMAIN saves : saves'[j].uid = saves[j].uid
      /\ UNCHANGED <<now, asked, sessionVars, historyVars, crashes>>
  BY <1>2, SaveMoves DEF TypeInv
<1>4. files' \in [Names -> SUBSET Adds]
  <2>1. CASE SaveOpens(i)
    BY <2>1 DEF SaveOpens, TypeInv, TypeOK
  <2>2. CASE SaveWrites(i)
    BY <2>2, <1>1 DEF SaveWrites, Puts, TypeInv, TypeOK
  <2>3. CASE UNCHANGED files
    BY <2>3 DEF TypeInv, TypeOK
  <2> QED BY <2>1, <2>2, <2>3 DEF SaveAudioClip, SaveAddsTags, SaveInserts,
                                  OpenFails, SqlFails, storeVars
<1>5. rows' \in [Names -> Row \cup {None}]
  <2>1. CASE SaveInserts(i)
    <3>1. [clip |-> saves[i].uid, tags |-> TagsOf(i)] \in Row
      BY <1>1 DEF Row
    <3> QED BY <2>1, <3>1 DEF SaveInserts, TypeInv, TypeOK
  <2>2. CASE UNCHANGED rows
    BY <2>2 DEF TypeInv, TypeOK
  <2> QED BY <2>1, <2>2 DEF SaveAudioClip, SaveOpens, SaveWrites, SaveAddsTags,
                            OpenFails, SqlFails, storeVars
<1>6. tags' \subseteq Tags /\ short' \subseteq Adds
  BY <1>1 DEF SaveAudioClip, SaveOpens, SaveWrites, SaveAddsTags, SaveInserts,
              OpenFails, SqlFails, storeVars, TypeInv, TypeOK
<1>7. Asked'
  BY <1>3 DEF TypeInv, Asked, sessionVars
<1> QED BY <1>3, <1>4, <1>5, <1>6, <1>7
        DEF TypeInv, TypeOK, sessionVars, historyVars
LEMMA TypeStep == TypeInv /\ [Next]_vars => TypeInv'
<1> SUFFICES ASSUME TypeInv, [Next]_vars PROVE TypeInv'
  OBVIOUS
<1> USE AddAssumption
<1>1. ASSUME NEW a \in Adds, NEW request \in Request,
             Refuses(a, request) \/ Opens(a, request)
      PROVE  TypeInv'
  <2>1. /\ asked' \in [Adds -> Request \cup {None}] /\ asked'[a] = request
        /\ \A c \in Adds : asked[c] \in Request => asked'[c] = asked[c]
    BY <1>1 DEF Refuses, Opens, TypeInv, TypeOK, Request
  <2>2. saves' = saves /\ active_session' \in {active_session, a}
    BY <1>1 DEF Refuses, Opens, sessionVars
  <2>3. Asked'
    BY <2>1, <2>2, SaveRequest DEF TypeInv, TypeOK, Asked
  <2> QED BY <1>1, <2>1, <2>3
          DEF Refuses, Opens, TypeInv, TypeOK, sessionVars, storeVars, historyVars
<1>2. ASSUME NEW a \in Adds, Replies(a) \/ PreviewPlays(a) \/ PreviewEnds(a)
      PROVE  TypeInv'
  BY <1>2 DEF Replies, PreviewPlays, PreviewEnds, TypeInv, TypeOK, Asked,
              storeVars, historyVars
<1>3. ASSUME NEW b \in buttons,
             ClickExpired(b) \/ ClickPreview(b) \/ ClickCancel(b)
      PROVE  TypeInv'
  BY <1>3 DEF ClickExpired, ClickPreview, ClickCancel, Resets, TypeInv, TypeOK,
              Asked, storeVars, historyVars
<1>4. ASSUME NEW b \in buttons, ClickConfirm(b) PROVE TypeInv'
  <2>1. saves' \in Seq(Save) /\ Asked'
    BY <1>4, ConfirmAppends DEF ClickConfirm, TypeInv, TypeOK, Asked
  <2> QED BY <1>4, <2>1
          DEF ClickConfirm, TypeInv, TypeOK, storeVars, historyVars
<1>5. CASE Crash
  <2>1. saves' \in Seq(Save) /\ Asked'
    BY <1>5, CrashLoses DEF Crash, TypeInv, TypeOK, Asked
  <2> QED BY <1>5, <2>1
          DEF Crash, TypeInv, TypeOK, storeVars, historyVars
<1>6. CASE Tick
  BY <1>6 DEF Tick, TypeInv, TypeOK, Asked, Times, sessionVars, storeVars,
              historyVars
<1>7. CASE UNCHANGED vars
  BY <1>7 DEF vars, TypeInv, TypeOK, Asked, sessionVars, storeVars, historyVars
<1> QED BY <1>1, <1>2, <1>3, <1>4, <1>5, <1>6, <1>7, TypeOfSave
        DEF Next, Execute, Button

LEMMA TypeInvariant == Spec => []TypeInv
BY TypeInit, TypeStep, PTL DEF Spec

\* What sessions, saves and the soundpad are made of.
THEOREM TypeCorrect == Spec => []TypeOK
<1>1. TypeInv => TypeOK
  BY DEF TypeInv
<1> QED BY <1>1, TypeInvariant, PTL

-----------------------------------------------------------------------------
\* Every session comes to one end.

\* What is there of a session that nobody has asked for.
NotAskedYet ==
    \A a \in Adds : asked[a] = None =>
        ~Saved(a) /\ a \notin dropped /\ active_session # a

EndInv == OneEnd /\ NotAskedYet

LEMMA EndInit == Init => EndInv
<1> SUFFICES ASSUME Init PROVE EndInv
  OBVIOUS
<1>1. DOMAIN saves = {}
  BY DEF Init
<1> QED BY <1>1, AddAssumption DEF Init, EndInv, OneEnd, NotAskedYet, Saved

\* Steps that leave every save with its session.
LEMMA SavedKept ==
    ASSUME DOMAIN saves' = DOMAIN saves,
           \A j \in DOMAIN saves : saves'[j].uid = saves[j].uid
    PROVE  \A a \in Adds : Saved(a)' <=> Saved(a)
BY DEF Saved

LEMMA EndStep == TypeInv /\ EndInv /\ [Next]_vars => EndInv'
<1> SUFFICES ASSUME TypeInv, EndInv, [Next]_vars PROVE EndInv'
  OBVIOUS
<1> USE AddAssumption
\* A step of no session's.
<1>0. ASSUME DOMAIN saves' = DOMAIN saves,
             \A j \in DOMAIN saves : saves'[j].uid = saves[j].uid,
             UNCHANGED <<asked, active_session, historyVars, crashes>>
      PROVE  EndInv'
  BY <1>0, SavedKept DEF EndInv, OneEnd, NotAskedYet, historyVars
<1>1. ASSUME NEW a \in Adds, NEW request \in Request, Refuses(a, request)
      PROVE  EndInv'
  <2>1. /\ asked'[a] # None /\ \A c \in Adds : c # a => asked'[c] = asked[c]
        /\ saves' = saves
    BY <1>1 DEF Refuses, TypeInv, TypeOK, Request
  <2>2. \A c \in Adds : Saved(c)' <=> Saved(c)
    BY <2>1, SavedKept
  <2> QED BY <1>1, <2>1, <2>2
          DEF Refuses, EndInv, OneEnd, NotAskedYet, sessionVars
<1>2. ASSUME NEW a \in Adds, NEW request \in Request, Opens(a, request)
      PROVE  EndInv'
  <2>1. /\ asked'[a] # None /\ \A c \in Adds : c # a => asked'[c] = asked[c]
        /\ saves' = saves
    BY <1>2 DEF Opens, TypeInv, TypeOK, Request
  <2>2. \A c \in Adds : Saved(c)' <=> Saved(c)
    BY <2>1, SavedKept
  <2> QED BY <1>2, <2>1, <2>2
          DEF Opens, EndInv, OneEnd, NotAskedYet, historyVars
<1>3. ASSUME NEW a \in Adds, Replies(a) \/ PreviewPlays(a) \/ PreviewEnds(a)
      PROVE  EndInv'
  BY <1>3, <1>0 DEF Replies, PreviewPlays, PreviewEnds
<1>4. ASSUME NEW b \in buttons, ClickPreview(b) PROVE EndInv'
  BY <1>4, <1>0 DEF ClickPreview
<1>5. ASSUME NEW b \in buttons, ClickExpired(b) \/ ClickCancel(b) PROVE EndInv'
  <2>1. /\ b.uid \in Adds /\ saves' = saves /\ asked' = asked
        /\ active_session = b.uid /\ active_session' = None
        /\ dropped' = dropped \cup {b.uid}
        /\ refused' = refused /\ crashes' = crashes
    BY <1>5 DEF ClickExpired, ClickCancel, Resets, TypeInv, TypeOK
  <2>2. \A c \in Adds : Saved(c)' <=> Saved(c)
    BY <2>1, SavedKept
  <2> QED BY <2>1, <2>2 DEF EndInv, OneEnd, NotAskedYet
<1>6. ASSUME NEW b \in buttons, ClickConfirm(b) PROVE EndInv'
  <2> DEFINE a == active_session
             k == Len(saves) + 1
  <2>1. /\ a \in Adds /\ active_session' = None /\ asked' = asked
        /\ dropped' = dropped /\ refused' = refused /\ crashes' = crashes
    BY <1>6 DEF ClickConfirm, TypeInv, TypeOK, historyVars
  <2>2. /\ DOMAIN saves' = DOMAIN saves \cup {k} /\ k \notin DOMAIN saves
        /\ \A j \in DOMAIN saves : saves'[j] = saves[j]
        /\ saves'[k].uid = a
    <3>1. TypeOK
      BY DEF TypeInv
    <3>2. saves'[k] = [uid |-> a, pc |-> "open"]
      BY <3>1, <1>6, ConfirmAppends
    <3>3. /\ DOMAIN saves' = DOMAIN saves \cup {k} /\ k \notin DOMAIN saves
          /\ \A j \in DOMAIN saves : saves'[j] = saves[j]
      BY <3>1, <1>6, ConfirmAppends
    <3> QED BY <3>2, <3>3
  <2>3. ~Saved(a) /\ a \notin dropped /\ asked[a] # None
    BY <2>1 DEF EndInv, OneEnd, NotAskedYet
  <2>4. \A c \in Adds : Saved(c)' <=> Saved(c) \/ c = a
    BY <2>2 DEF Saved
  <2>5. \A i, j \in DOMAIN saves' : saves'[i].uid = saves'[j].uid => i = j
    BY <2>2, <2>3 DEF Saved, EndInv, OneEnd
  <2> QED BY <2>1, <2>3, <2>4, <2>5 DEF EndInv, OneEnd, NotAskedYet
<1>7. ASSUME NEW i \in DOMAIN saves, SaveAudioClip(i) PROVE EndInv'
  <2>1. PICK from \in {"open", "write", "tags", "insert"},
             to \in {"write", "tags", "insert", "saved", "failed"} :
                SaveGoes(i, from, to)
    BY <1>7, SaveSteps
  <2>2. /\ DOMAIN saves' = DOMAIN saves
        /\ \A j \in DOMAIN saves : saves'[j].uid = saves[j].uid
        /\ UNCHANGED <<now, asked, sessionVars, historyVars, crashes>>
    BY <2>1, SaveMoves DEF TypeInv
  <2> QED BY <2>2, <1>0 DEF sessionVars
<1>8. CASE Crash
  <2>1. /\ asked' = asked /\ active_session' = None /\ crashes' # 0
        /\ dropped' = dropped /\ refused' = refused
    BY <1>8 DEF Crash, TypeInv, TypeOK, historyVars
  <2>2. /\ DOMAIN saves' = DOMAIN saves
        /\ \A j \in DOMAIN saves : saves'[j].uid = saves[j].uid
    BY <1>8, CrashLoses DEF TypeInv
  <2> QED BY <2>1, <2>2, SavedKept DEF EndInv, OneEnd, NotAskedYet
<1>9. CASE Tick
  BY <1>9, <1>0 DEF Tick, sessionVars
<1>10. CASE UNCHANGED vars
  BY <1>10, <1>0 DEF vars, sessionVars
<1> QED BY <1>1, <1>2, <1>3, <1>4, <1>5, <1>6, <1>7, <1>8, <1>9, <1>10
        DEF Next, Execute, Button

LEMMA EndInvariant == Spec => []EndInv
BY EndInit, EndStep, TypeInvariant, PTL DEF Spec

\* No session is both cancelled and saved, saved twice, or lost, whatever
\* clicks come from whichever reply and however late.
THEOREM EverySessionEndsOnce == Spec => []OneEnd
<1>1. EndInv => OneEnd
  BY DEF EndInv
<1> QED BY <1>1, EndInvariant, PTL

-----------------------------------------------------------------------------
\* A row's clip is in its file.

\* How far the file of a save is that has its name to itself.
FilesFollow ==
    \A i \in DOMAIN saves : OnlySaveOf(NameOf(i), saves[i].uid) =>
        /\ saves[i].pc = "write" => files[NameOf(i)] = {}
        /\ saves[i].pc \in {"tags", "insert"} => Has(NameOf(i), saves[i].uid)

\* A row is of a save that is over.
RowsAreSaved ==
    \A n \in Names : rows[n] # None =>
        \E i \in DOMAIN saves : /\ saves[i].uid = rows[n].clip
                               /\ NameOf(i) = n
                               /\ saves[i].pc = "saved"

RowInv == FilesFollow /\ RowsAreSaved /\ RowHasItsClip

LEMMA RowInit == Init => RowInv
<1> SUFFICES ASSUME Init PROVE RowInv
  OBVIOUS
<1>1. DOMAIN saves = {} /\ \A n \in Names : rows[n] = None
  BY DEF Init
<1> QED BY <1>1 DEF RowInv, FilesFollow, RowsAreSaved, RowHasItsClip

\* A step that leaves the files and the rows alone, and every save with its
\* name at least; new saves have not begun, and no save comes to a file.
LEMMA RowsKept ==
    ASSUME RowInv,
           DOMAIN saves \subseteq DOMAIN saves',
           \A i \in DOMAIN saves :
              /\ saves'[i].uid = saves[i].uid /\ NameOf(i)' = NameOf(i)
              /\ \/ saves'[i].pc = saves[i].pc
                 \/ /\ saves[i].pc # "saved"
                    /\ saves'[i].pc \notin {"write", "tags", "insert"},
           \A i \in DOMAIN saves' \ DOMAIN saves : saves'[i].pc = "open",
           UNCHANGED <<files, rows, short>>
    PROVE  RowInv'
<1>1. /\ \A n, a : OnlySaveOf(n, a)' => OnlySaveOf(n, a)
      /\ \A n, a : Has(n, a)' <=> Has(n, a)
  BY DEF OnlySaveOf, Has
<1>2. FilesFollow'
  <2> SUFFICES ASSUME NEW i \in DOMAIN saves', OnlySaveOf(NameOf(i), saves[i].uid)'
               PROVE  /\ saves'[i].pc = "write" => files[NameOf(i)'] = {}
                      /\ saves'[i].pc \in {"tags", "insert"} =>
                            Has(NameOf(i)', saves'[i].uid)
    BY <1>1 DEF FilesFollow, Has
  <2>1. CASE i \in DOMAIN saves
    <3>1. OnlySaveOf(NameOf(i), saves[i].uid)
      BY <2>1, <1>1
    <3> QED BY <2>1, <3>1 DEF RowInv, FilesFollow
  <2>2. CASE i \notin DOMAIN saves
    BY <2>2
  <2> QED BY <2>1, <2>2
<1>3. RowsAreSaved'
  <2> SUFFICES ASSUME NEW n \in Names, rows[n] # None
               PROVE  \E i \in DOMAIN saves' : /\ saves'[i].uid = rows[n].clip
                                               /\ NameOf(i)' = n
                                               /\ saves'[i].pc = "saved"
    BY DEF RowsAreSaved
  <2>1. PICK i \in DOMAIN saves : /\ saves[i].uid = rows[n].clip
                                  /\ NameOf(i) = n
                                  /\ saves[i].pc = "saved"
    BY DEF RowInv, RowsAreSaved
  <2> QED BY <2>1
<1>4. RowHasItsClip'
  BY <1>1 DEF RowInv, RowHasItsClip
<1> QED BY <1>2, <1>3, <1>4 DEF RowInv

\* A step of save i finds no row of its clip, and none that counts on the file
\* of its name.
LEMMA RowOfAnother ==
    ASSUME EndInv, RowInv, NEW i \in DOMAIN saves, saves[i].pc # "saved",
           NEW n \in Names, rows[n] # None
    PROVE  /\ saves[i].uid # rows[n].clip
           /\ OnlySaveOf(n, rows[n].clip) => NameOf(i) # n
<1>1. PICK j \in DOMAIN saves : saves[j].uid = rows[n].clip /\ saves[j].pc = "saved"
  BY DEF RowInv, RowsAreSaved
<1>2. saves[i].uid # rows[n].clip
  BY <1>1 DEF EndInv, OneEnd
<1> QED BY <1>2 DEF OnlySaveOf

\* Another save of the same name is no reason to look at this one.
LEMMA OthersName ==
    ASSUME EndInv, NEW i \in DOMAIN saves, NEW j \in DOMAIN saves, i # j,
           OnlySaveOf(NameOf(j), saves[j].uid)
    PROVE  NameOf(i) # NameOf(j) /\ saves[i].uid # saves[j].uid
BY DEF EndInv, OneEnd, OnlySaveOf

LEMMA RowStepOfSave ==
    ASSUME TypeInv, EndInv, RowInv, NEW i \in DOMAIN saves, SaveAudioClip(i)
    PROVE  RowInv'
<1> DEFINE n == NameOf(i)
           a == saves[i].uid
<1>0. a \in Adds /\ n \in Names
  BY SaveRequest
<1>1. PICK from \in {"open", "write", "tags", "insert"},
           to \in {"write", "tags", "insert", "saved", "failed"} :
              SaveGoes(i, from, to)
  BY SaveSteps
<1>2. /\ DOMAIN saves' = DOMAIN saves /\ asked' = asked
      /\ saves[i].pc # "saved"
      /\ \A j \in DOMAIN saves : saves'[j].uid = saves[j].uid
      /\ \A j \in DOMAIN saves : j # i => saves'[j] = saves[j]
  BY <1>1, SaveMoves DEF TypeInv
<1>3. /\ \A j \in DOMAIN saves : NameOf(j)' = NameOf(j)
      /\ \A m, b : OnlySaveOf(m, b)' <=> OnlySaveOf(m, b)
  BY <1>2 DEF NameOf, OnlySaveOf
\* What is left to show of a step that writes at most the file of n.
<1>4. ASSUME \A m \in Names \ {n} : files'[m] = files[m], rows' = rows,
             short' = short \/ short' = short \cup {a},
             OnlySaveOf(n, a) =>
                /\ saves'[i].pc = "write" => files'[n] = {}
                /\ saves'[i].pc \in {"tags", "insert"} => Has(n, a)'
      PROVE  RowInv'
  <2>0. ASSUME NEW m \in Names \ {n}, NEW c, c # a
        PROVE  Has(m, c)' <=> Has(m, c)
    BY <1>4, <2>0 DEF Has
  <2>1. FilesFollow'
    <3> SUFFICES ASSUME NEW j \in DOMAIN saves, OnlySaveOf(NameOf(j), saves[j].uid)
                 PROVE  /\ saves'[j].pc = "write" => files'[NameOf(j)] = {}
                        /\ saves'[j].pc \in {"tags", "insert"} =>
                              Has(NameOf(j), saves[j].uid)'
      BY <1>2, <1>3 DEF FilesFollow, Has
    <3>1. CASE j = i
      BY <3>1, <1>2, <1>3, <1>4 DEF Has
    <3>2. CASE j # i
      <4>1. NameOf(j) \in Names \ {n} /\ saves[j].uid # a
        BY <3>2, OthersName, SaveRequest
      <4>2. /\ saves[j].pc = "write" => files[NameOf(j)] = {}
            /\ saves[j].pc \in {"tags", "insert"} => Has(NameOf(j), saves[j].uid)
        BY DEF RowInv, FilesFollow
      <4>3. Has(NameOf(j), saves[j].uid)' <=> Has(NameOf(j), saves[j].uid)
        BY <4>1, <1>2, <1>3, <1>4 DEF Has
      <4> QED BY <3>2, <4>1, <4>2, <4>3, <1>2, <1>4
    <3> QED BY <3>1, <3>2
  <2>2. RowsAreSaved'
    <3> SUFFICES ASSUME NEW m \in Names, rows[m] # None
                 PROVE  \E j \in DOMAIN saves : /\ saves'[j].uid = rows[m].clip
                                                /\ NameOf(j)' = m
                                                /\ saves'[j].pc = "saved"
      BY <1>2, <1>4 DEF RowsAreSaved
    <3>1. PICK j \in DOMAIN saves : /\ saves[j].uid = rows[m].clip
                                    /\ NameOf(j) = m
                                    /\ saves[j].pc = "saved"
      BY DEF RowInv, RowsAreSaved
    <3> QED BY <3>1, <1>2, <1>3
  <2>3. RowHasItsClip'
    <3> SUFFICES ASSUME NEW m \in Names, rows[m] # None,
                        OnlySaveOf(m, rows[m].clip)
                 PROVE  Has(m, rows[m].clip)'
      BY <1>3, <1>4 DEF RowHasItsClip, Has
    <3>1. m \in Names \ {n} /\ rows[m].clip # a /\ Has(m, rows[m].clip)
      BY <1>2, RowOfAnother DEF RowInv, RowHasItsClip
    <3> QED BY <3>1, <1>4 DEF Has
  <2> QED BY <2>1, <2>2, <2>3 DEF RowInv
<1>5. CASE SaveOpens(i)
  <2>1. /\ files' = [files EXCEPT ![n] = {}] /\ rows' = rows /\ short' = short
        /\ saves'[i].pc = "write"
    BY <1>5, SaveMoves DEF SaveOpens, TypeInv
  <2> QED BY <2>1, <1>0, <1>4 DEF TypeInv, TypeOK
<1>6. CASE SaveWrites(i)
  <2>1. /\ rows' = rows /\ saves[i].pc = "write" /\ saves'[i].pc = "tags"
    BY <1>6, SaveMoves DEF SaveWrites, TypeInv
  <2>2. OnlySaveOf(n, a) => files[n] = {}
    BY <2>1 DEF RowInv, FilesFollow
  <2>3. \/ files' = [files EXCEPT ![n] = files[n] \cup {a}] /\ short' = short
        \/ /\ \/ files' = [files EXCEPT ![n] = files[n] \cup {a}]
              \/ files' = files
           /\ short' = short \cup {a}
    BY <1>6 DEF SaveWrites, Puts
  <2>4. \A m \in Names \ {n} : files'[m] = files[m]
    BY <2>3, <1>0 DEF TypeInv, TypeOK
  <2>5. OnlySaveOf(n, a) => \/ files'[n] = {a}
                            \/ files'[n] = {} /\ a \in short'
    BY <2>2, <2>3, <1>0 DEF TypeInv, TypeOK
  <2>6. a' = a /\ n' = n
    BY <1>2, <1>3
  <2>7. OnlySaveOf(n, a) => Has(n, a)'
    BY <2>5, <2>6 DEF Has
  <2> QED BY <2>1, <2>3, <2>4, <2>7, <1>4
<1>7. CASE SaveAddsTags(i)
  <2>1. /\ UNCHANGED <<files, rows, short>>
        /\ saves[i].pc = "tags" /\ saves'[i].pc = "insert"
    BY <1>7, SaveMoves DEF SaveAddsTags, TypeInv
  <2>2. OnlySaveOf(n, a) => Has(n, a)
    BY <2>1 DEF RowInv, FilesFollow
  <2>3. Has(n, a)' <=> Has(n, a)
    BY <2>1, <1>2, <1>3 DEF Has
  <2> QED BY <2>1, <2>2, <2>3, <1>4
<1>8. CASE OpenFails(i) \/ SqlFails(i)
  <2>1. UNCHANGED <<files, rows, short>> /\ saves'[i].pc = "failed"
    BY <1>8, SaveMoves DEF OpenFails, SqlFails, TypeInv, storeVars
  <2> QED BY <2>1, <1>4
<1>9. CASE SaveInserts(i)
  <2>1. /\ UNCHANGED <<files, short>> /\ rows[n] = None
        /\ saves[i].pc = "insert" /\ saves'[i].pc = "saved"
        /\ rows' = [rows EXCEPT ![n] = [clip |-> a, tags |-> TagsOf(i)]]
    BY <1>9, SaveMoves DEF SaveInserts, TypeInv
  <2>2. /\ rows'[n].clip = a /\ rows'[n] # None
        /\ \A m \in Names : m # n => rows'[m] = rows[m]
    BY <2>1, <1>0, SaveRequest, AddAssumption DEF TypeInv, TypeOK
  <2>3. FilesFollow'
    BY <2>1, <1>2, <1>3 DEF RowInv, FilesFollow, Has
  <2>4. RowsAreSaved'
    <3> SUFFICES ASSUME NEW m \in Names, rows'[m] # None
                 PROVE  \E j \in DOMAIN saves : /\ saves'[j].uid = rows'[m].clip
                                                /\ NameOf(j)' = m
                                                /\ saves'[j].pc = "saved"
      BY <1>2 DEF RowsAreSaved
    <3>1. CASE m = n
      BY <3>1, <2>1, <2>2, <1>2, <1>3
    <3>2. CASE m # n
      <4>1. PICK j \in DOMAIN saves : /\ saves[j].uid = rows[m].clip
                                      /\ NameOf(j) = m
                                      /\ saves[j].pc = "saved"
        BY <3>2, <2>2 DEF RowInv, RowsAreSaved
      <4> QED BY <4>1, <3>2, <2>2, <1>2, <1>3
    <3> QED BY <3>1, <3>2
  <2>5. RowHasItsClip'
    <3> SUFFICES ASSUME NEW m \in Names, rows'[m] # None,
                        OnlySaveOf(m, rows'[m].clip)
                 PROVE  Has(m, rows'[m].clip)
      BY <2>1, <1>3 DEF RowHasItsClip, Has
    <3>1. CASE m = n
      BY <3>1, <2>1, <2>2 DEF RowInv, FilesFollow
    <3>2. CASE m # n
      BY <3>2, <2>2 DEF RowInv, RowHasItsClip
    <3> QED BY <3>1, <3>2
  <2> QED BY <2>3, <2>4, <2>5 DEF RowInv
<1> QED BY <1>5, <1>6, <1>7, <1>8, <1>9 DEF SaveAudioClip

LEMMA RowStep == TypeInv /\ EndInv /\ RowInv /\ [Next]_vars => RowInv'
<1> SUFFICES ASSUME TypeInv, EndInv, RowInv, [Next]_vars PROVE RowInv'
  OBVIOUS
<1>0. ASSUME UNCHANGED <<asked, saves, files, rows, short>> PROVE RowInv'
  BY <1>0, RowsKept DEF NameOf
<1>1. ASSUME NEW a \in Adds, NEW request \in Request,
             Refuses(a, request) \/ Opens(a, request)
      PROVE  RowInv'
  <2>1. /\ UNCHANGED <<saves, files, rows, short>>
        /\ \A c \in Adds : c # a => asked'[c] = asked[c]
        /\ asked[a] = None
    BY <1>1 DEF Refuses, Opens, TypeInv, TypeOK, storeVars
  <2>2. \A i \in DOMAIN saves : saves[i].uid \in Adds \ {a}
    BY <2>1, SaveRequest DEF EndInv, NotAskedYet, Saved
  <2> QED BY <2>1, <2>2, RowsKept DEF NameOf
<1>2. ASSUME NEW a \in Adds, Replies(a) \/ PreviewPlays(a) \/ PreviewEnds(a)
      PROVE  RowInv'
  BY <1>2, <1>0 DEF Replies, PreviewPlays, PreviewEnds, storeVars
<1>3. ASSUME NEW b \in buttons,
             ClickExpired(b) \/ ClickPreview(b) \/ ClickCancel(b)
      PROVE  RowInv'
  BY <1>3, <1>0 DEF ClickExpired, ClickPreview, ClickCancel, storeVars
<1>4. ASSUME NEW b \in buttons, ClickConfirm(b) PROVE RowInv'
  <2>1. UNCHANGED <<asked, files, rows, short>>
    BY <1>4 DEF ClickConfirm, storeVars
  <2>2. TypeOK
    BY DEF TypeInv
  <2>3. /\ DOMAIN saves \subseteq DOMAIN saves'
        /\ \A i \in DOMAIN saves : saves'[i] = saves[i]
        /\ \A i \in DOMAIN saves' \ DOMAIN saves : saves'[i].pc = "open"
    BY <2>2, <1>4, ConfirmAppends
  <2> QED BY <2>1, <2>3, RowsKept DEF NameOf
<1>5. CASE Crash
  <2>1. UNCHANGED <<asked, files, rows, short>>
    BY <1>5 DEF Crash, storeVars
  <2>2. /\ DOMAIN saves' = DOMAIN saves
        /\ \A i \in DOMAIN saves :
              /\ saves'[i].uid = saves[i].uid
              /\ saves[i].pc \in {"saved", "failed"} => saves'[i] = saves[i]
              /\ saves[i].pc \notin {"saved", "failed"} => saves'[i].pc = "lost"
    BY <1>5, CrashLoses DEF TypeInv
  <2> QED BY <2>1, <2>2, RowsKept DEF NameOf
<1>6. CASE Tick
  BY <1>6, <1>0 DEF Tick, storeVars
<1>7. CASE UNCHANGED vars
  BY <1>7, <1>0 DEF vars, storeVars
<1> QED BY <1>1, <1>2, <1>3, <1>4, <1>5, <1>6, <1>7, RowStepOfSave
        DEF Next, Execute, Button

\* A row of the soundpad has its own clip and no other in its file, and has it
\* whole but where the disk failed that very write, through every other failure
\* and every crash, unless another save has had its name.
THEOREM RowsHaveTheirClips == Spec => []RowHasItsClip
<1>1. RowInv => RowHasItsClip
  BY DEF RowInv
<1> QED BY <1>1, RowInit, RowStep, TypeInvariant, EndInvariant, PTL DEF Spec

-----------------------------------------------------------------------------
\* The sessions of /add are those of a table with room for one.

LiveSessions == {active_session} \ {None}
EndedSessions == {a \in Adds : asked[a] # None} \ (refused \cup LiveSessions)

Table == INSTANCE SessionTable WITH
             Uids <- Adds, live <- LiveSessions, gone <- EndedSessions, cap <- 1

KeepsSessionTable == Table!Spec

\* A call that was refused has no session.
RefusedInv == \A a \in refused : asked[a] # None /\ active_session # a

LEMMA RefusedInit == Init => RefusedInv
BY DEF Init, RefusedInv

\* A step that opens nothing and refuses nobody.
LEMMA SessionEnds ==
    ASSUME TypeInv, RefusedInv, UNCHANGED <<asked, refused>>,
           active_session' \in {active_session, None}
    PROVE  RefusedInv' /\ [Table!Next]_Table!vars
<1>0. active_session \in Adds \cup {None} /\ None \notin Adds
  BY AddAssumption DEF TypeInv, TypeOK
<1>1. RefusedInv'
  BY <1>0 DEF RefusedInv, TypeInv, TypeOK
<1>2. CASE active_session' = active_session
  BY <1>1, <1>2 DEF LiveSessions, EndedSessions, Table!vars
<1>3. CASE active_session # None /\ active_session' = None
  <2> DEFINE a == active_session
  <2>1. /\ LiveSessions = {a} /\ LiveSessions' = {} /\ a \in Adds
        /\ asked[a] # None /\ a \notin refused
    BY <1>0, <1>3, AddAssumption
       DEF LiveSessions, RefusedInv, TypeInv, Asked, Request
  <2>2. EndedSessions' = EndedSessions \cup {a}
    BY <2>1 DEF EndedSessions
  <2>3. Table!Close(active_session)
    BY <2>1, <2>2 DEF Table!Close
  <2> QED BY <1>1, <2>1, <2>3 DEF Table!Next
<1> QED BY <1>2, <1>3

LEMMA SessionOpens ==
    ASSUME TypeInv, RefusedInv, NEW a \in Adds, NEW request \in Request,
           Opens(a, request)
    PROVE  RefusedInv' /\ [Table!Next]_Table!vars
<1>0. None \notin Adds /\ request # None
  BY AddAssumption DEF Request
<1>1. /\ asked[a] = None /\ asked'[a] # None
      /\ \A c \in Adds : c # a => asked'[c] = asked[c]
      /\ active_session = None /\ active_session' = a /\ refused' = refused
      /\ refused \subseteq Adds
  BY <1>0 DEF Opens, historyVars, TypeInv, TypeOK
<1>2. a \notin refused
  BY <1>1 DEF RefusedInv
<1>3. RefusedInv'
  BY <1>1, <1>2 DEF RefusedInv
<1>4. LiveSessions = {} /\ LiveSessions' = {a} /\ a \notin EndedSessions
  BY <1>0, <1>1 DEF LiveSessions, EndedSessions
<1>5. EndedSessions' = EndedSessions
  BY <1>1, <1>4 DEF EndedSessions
<1>6. Table!Cardinality({}) = 0
  BY FS_EmptySet DEF Table!Cardinality, Cardinality
<1>7. Table!Open(a, {})
  BY <1>4, <1>5, <1>6 DEF Table!Open
<1> QED BY <1>3, <1>4, <1>7 DEF Table!Next

LEMMA CallRefused ==
    ASSUME TypeInv, RefusedInv, NEW a \in Adds, NEW request \in Request,
           Refuses(a, request)
    PROVE  RefusedInv' /\ [Table!Next]_Table!vars
<1>1. /\ asked[a] = None /\ asked'[a] # None
      /\ \A c \in Adds : c # a => asked'[c] = asked[c]
      /\ active_session' = active_session /\ refused' = refused \cup {a}
      /\ refused \subseteq Adds
  BY AddAssumption DEF Refuses, sessionVars, TypeInv, TypeOK, Request
<1>2. active_session # a
  BY <1>1, AddAssumption DEF Refuses, TypeInv, Asked, Request
<1>3. RefusedInv'
  BY <1>1, <1>2 DEF RefusedInv
<1>4. LiveSessions' = LiveSessions /\ EndedSessions' = EndedSessions
  BY <1>1, <1>2 DEF LiveSessions, EndedSessions
<1> QED BY <1>3, <1>4 DEF Table!vars

\* /add promises of its one session what the pickers promise of theirs: there is
\* no second one, none is opened twice, and one that was cancelled, confirmed,
\* expired or lost in a crash does not come back (AddCommand.h:169-190,
\* 222-285).
THEOREM AddKeepsASession == Spec => KeepsSessionTable
<1>1. Init => Table!Init
  BY DEF Init, Table!Init, LiveSessions, EndedSessions
<1>2. TypeInv /\ RefusedInv /\ [Next]_vars
        => RefusedInv' /\ [Table!Next]_Table!vars
  <2> SUFFICES ASSUME TypeInv, RefusedInv, [Next]_vars
               PROVE  RefusedInv' /\ [Table!Next]_Table!vars
    OBVIOUS
  <2>1. ASSUME NEW a \in Adds, Replies(a) \/ PreviewPlays(a) \/ PreviewEnds(a)
        PROVE  UNCHANGED <<asked, refused, active_session>>
    BY <2>1 DEF Replies, PreviewPlays, PreviewEnds, historyVars
  <2>2. ASSUME NEW b \in buttons, Button(b)
        PROVE  /\ UNCHANGED <<asked, refused>>
               /\ active_session' \in {active_session, None}
    BY <2>2 DEF Button, ClickExpired, ClickPreview, ClickConfirm, ClickCancel,
                Resets, historyVars
  <2>3. ASSUME NEW i \in DOMAIN saves, SaveAudioClip(i)
        PROVE  UNCHANGED <<asked, refused, active_session>>
    BY <2>3 DEF SaveAudioClip, SaveOpens, SaveWrites, SaveAddsTags, SaveInserts,
                OpenFails, SqlFails, SaveGoes, sessionVars, historyVars
  <2>4. Crash => /\ UNCHANGED <<asked, refused>> /\ active_session' = None
    BY DEF Crash, historyVars
  <2>5. Tick \/ UNCHANGED vars => UNCHANGED <<asked, refused, active_session>>
    BY DEF Tick, vars, sessionVars, historyVars
  <2> QED BY <2>1, <2>2, <2>3, <2>4, <2>5, SessionEnds, SessionOpens, CallRefused
          DEF Next, Execute
<1> QED BY <1>1, <1>2, RefusedInit, TypeInvariant, PTL
        DEF Spec, KeepsSessionTable, Table!Spec

===============================================================================
