------------------------------ MODULE AddSessions ------------------------------
(***************************************************************************)
(* AddCommand and SoundPadManager::saveAudioClip.  /add fetches a clip and *)
(* opens the one session there can be; buttons under the reply preview,    *)
(* confirm or cancel it.  Everybody in the channel can click, a click may  *)
(* come late and from a reply that has been replaced, and Confirm saves    *)
(* outside the lock: the file first, then the row of the soundpad.         *)
(*                                                                         *)
(* A call of /add stands for its session, for its uid and for the clip it  *)
(* has fetched.  Files and rows outlive the process, sessions do not.      *)
(***************************************************************************)
EXTENDS Integers, Sequences

CONSTANTS
    Adds,               \* calls of /add
    Names, Tags,        \* names and tags to choose from
    None,               \* no session, no request, no row
    Expire,             \* SESSION_EXPIRE_SECS
    MaxTime, MaxCrashes \* bounds

ASSUME AddAssumption ==
    /\ None \notin Adds \cup [name : Names, tags : SUBSET Tags]
                       \cup [clip : Adds, tags : SUBSET Tags]
    /\ Expire \in Nat /\ MaxTime \in Nat /\ MaxCrashes \in Nat

VARIABLES
    now,
    asked,              \* of every /add that came to the lock, name and tags
    active_session,     \* the uid of the session
    replies,            \* sessions whose first reply is on its way
    buttons,            \* every [uid, ts] a reply has ever shown
    previews,           \* previews that wait in joinVoiceChannel
    saves,              \* every Confirm that took a session, and where it is
    \* the soundpad: of every name the clips that are in its file, an empty file
    \* and none alike, and its row; the tags; the clips of which a write or a
    \* close that failed left a part at most
    files, rows, tags, short,
    refused, dropped,   \* history: sessions never opened, and ended by a click
    crashes

storeVars == <<files, rows, tags, short>>
sessionVars == <<active_session, replies, buttons, previews>>
historyVars == <<refused, dropped>>
vars == <<now, asked, sessionVars, saves, storeVars, historyVars, crashes>>

Times == 0 .. MaxTime
Request == [name : Names, tags : SUBSET Tags]
Save == [uid : Adds,
         pc : {"open", "write", "tags", "insert", "saved", "failed", "lost"}]
Row == [clip : Adds, tags : SUBSET Tags]

TypeOK ==
    /\ now \in Times
    /\ asked \in [Adds -> Request \cup {None}]
    /\ active_session \in Adds \cup {None}
    /\ replies \subseteq Adds
    /\ buttons \subseteq [uid : Adds, ts : Times]
    /\ previews \subseteq Adds
    /\ saves \in Seq(Save)
    /\ files \in [Names -> SUBSET Adds]
    /\ rows \in [Names -> Row \cup {None}]
    /\ tags \subseteq Tags
    /\ short \subseteq Adds
    /\ refused \subseteq Adds /\ dropped \subseteq Adds
    /\ crashes \in 0 .. MaxCrashes

Init ==
    /\ now = 0
    /\ asked = [a \in Adds |-> None]
    /\ active_session = None
    /\ replies = {} /\ buttons = {} /\ previews = {}
    /\ saves = <<>>
    /\ files = [n \in Names |-> {}]
    /\ rows = [n \in Names |-> None]
    /\ tags = {} /\ short = {}
    /\ refused = {} /\ dropped = {}
    /\ crashes = 0

-----------------------------------------------------------------------------
\* execute, from where the clip has been fetched.

Refuses(a, request) ==
    /\ asked[a] = None
    /\ active_session # None
    /\ asked' = [asked EXCEPT ![a] = request]
    /\ refused' = refused \cup {a}
    /\ UNCHANGED <<now, sessionVars, saves, storeVars, dropped, crashes>>

\* Mutant: no look at the session that is there.
MutOpens(a, request) ==
    /\ asked[a] = None
    /\ asked' = [asked EXCEPT ![a] = request]
    /\ active_session' = a
    /\ replies' = replies \cup {a}
    /\ UNCHANGED <<now, buttons, previews, saves, storeVars, historyVars, crashes>>

Opens(a, request) ==
    /\ asked[a] = None
    /\ active_session = None
    /\ asked' = [asked EXCEPT ![a] = request]
    /\ active_session' = a
    /\ replies' = replies \cup {a}
    /\ UNCHANGED <<now, buttons, previews, saves, storeVars, historyVars, crashes>>

\* edit_original_response, after the lock; Discord may lose it.
Replies(a) ==
    /\ a \in replies
    /\ replies' = replies \ {a}
    /\ buttons' \in {buttons, buttons \cup {[uid |-> a, ts |-> now]}}
    /\ UNCHANGED <<now, asked, active_session, previews, saves, storeVars,
                   historyVars, crashes>>

-----------------------------------------------------------------------------
\* button.

Expired(b) == now - b.ts > Expire

\* active_session_.reset() where the session is the button's.
Resets(b) ==
    /\ active_session = b.uid
    /\ active_session' = None
    /\ dropped' = dropped \cup {b.uid}

ClickExpired(b) ==
    /\ b \in buttons /\ Expired(b)
    /\ Resets(b)
    /\ UNCHANGED <<now, asked, replies, buttons, previews, saves, storeVars,
                   refused, crashes>>

ClickPreview(b) ==
    /\ b \in buttons /\ ~Expired(b)
    /\ active_session = b.uid
    /\ previews' = previews \cup {b.uid}
    /\ UNCHANGED <<now, asked, active_session, replies, buttons, saves,
                   storeVars, historyVars, crashes>>

\* The clip plays and the buttons are shown anew, whatever the session is now.
PreviewPlays(a) ==
    /\ a \in previews
    /\ previews' = previews \ {a}
    /\ buttons' = buttons \cup {[uid |-> a, ts |-> now]}
    /\ UNCHANGED <<now, asked, active_session, replies, saves, storeVars,
                   historyVars, crashes>>

\* joinVoiceChannel failed.
PreviewEnds(a) ==
    /\ a \in previews
    /\ previews' = previews \ {a}
    /\ UNCHANGED <<now, asked, active_session, replies, buttons, saves,
                   storeVars, historyVars, crashes>>

\* Mutant: no test for a session that is still there.
MutClickConfirm(b) ==
    /\ b \in buttons /\ ~Expired(b)
    /\ saves' = Append(saves, [uid |-> active_session, pc |-> "open"])
    /\ active_session' = None
    /\ UNCHANGED <<now, asked, replies, buttons, previews, storeVars,
                   historyVars, crashes>>

\* Takes the session under the lock; the save comes after it.
ClickConfirm(b) ==
    /\ b \in buttons /\ ~Expired(b)
    /\ active_session = b.uid
    /\ saves' = Append(saves, [uid |-> active_session, pc |-> "open"])
    /\ active_session' = None
    /\ UNCHANGED <<now, asked, replies, buttons, previews, storeVars,
                   historyVars, crashes>>

ClickCancel(b) ==
    /\ b \in buttons /\ ~Expired(b)
    /\ Resets(b)
    /\ UNCHANGED <<now, asked, replies, buttons, previews, saves, storeVars,
                   refused, crashes>>

-----------------------------------------------------------------------------
\* saveAudioClip.

NameOf(i) == asked[saves[i].uid].name
TagsOf(i) == asked[saves[i].uid].tags

SaveGoes(i, from, to) ==
    /\ saves[i].pc = from
    /\ saves' = [saves EXCEPT ![i].pc = to]
    /\ UNCHANGED <<now, asked, sessionVars, historyVars, crashes>>

\* std::ofstream truncates what is there.
SaveOpens(i) ==
    /\ SaveGoes(i, "open", "write")
    /\ files' = [files EXCEPT ![NameOf(i)] = {}]
    /\ UNCHANGED <<rows, tags, short>>

\* Two that write at once leave parts of both.
Puts(i) == files' = [files EXCEPT ![NameOf(i)] = @ \cup {saves[i].uid}]

\* The disk may be full: neither write() nor close() is asked, and the save
\* goes on with a part of the clip in the file, or none.
SaveWrites(i) ==
    /\ SaveGoes(i, "write", "tags")
    /\ \/ Puts(i) /\ UNCHANGED short
       \/ /\ Puts(i) \/ UNCHANGED files
          /\ short' = short \cup {saves[i].uid}
    /\ UNCHANGED <<rows, tags>>

SaveAddsTags(i) ==
    /\ SaveGoes(i, "tags", "insert")
    /\ tags' = tags \cup TagsOf(i)
    /\ UNCHANGED <<files, rows, short>>

SaveInserts(i) ==
    /\ rows[NameOf(i)] = None
    /\ SaveGoes(i, "insert", "saved")
    /\ rows' = [rows EXCEPT ![NameOf(i)] =
                    [clip |-> saves[i].uid, tags |-> TagsOf(i)]]
    /\ UNCHANGED <<files, tags, short>>

\* Mutant: is_open() is not tested.
MutOpenFails(i) ==
    /\ SaveGoes(i, "open", "tags")
    /\ UNCHANGED storeVars

OpenFails(i) ==
    /\ SaveGoes(i, "open", "failed")
    /\ UNCHANGED storeVars

\* A soci_error: the name is taken (UNIQUE) or the database fails.  Tags that
\* were inserted stay.
SqlFails(i) ==
    /\ \/ SaveGoes(i, "tags", "failed") /\ tags' \in {tags, tags \cup TagsOf(i)}
       \/ SaveGoes(i, "insert", "failed") /\ UNCHANGED tags
    /\ UNCHANGED <<files, rows, short>>

-----------------------------------------------------------------------------
\* The process dies and is started again.  Replies stay on the screen.
Crash ==
    /\ crashes < MaxCrashes
    /\ crashes' = crashes + 1
    /\ active_session' = None
    /\ replies' = {} /\ previews' = {}
    /\ saves' = [i \in DOMAIN saves |->
                    IF saves[i].pc \in {"saved", "failed"} THEN saves[i]
                    ELSE [saves[i] EXCEPT !.pc = "lost"]]
    /\ UNCHANGED <<now, asked, buttons, storeVars, historyVars>>

Tick ==
    /\ now < MaxTime
    /\ now' = now + 1
    /\ UNCHANGED <<asked, sessionVars, saves, storeVars, historyVars, crashes>>

-----------------------------------------------------------------------------
Execute(a) ==
    \/ \E request \in Request : Refuses(a, request) \/ Opens(a, request)
    \/ Replies(a)
    \/ PreviewPlays(a) \/ PreviewEnds(a)

Button(b) ==
    ClickExpired(b) \/ ClickPreview(b) \/ ClickConfirm(b) \/ ClickCancel(b)

SaveAudioClip(i) ==
    \/ SaveOpens(i) \/ SaveWrites(i) \/ SaveAddsTags(i) \/ SaveInserts(i)
    \/ OpenFails(i) \/ SqlFails(i)

Next ==
    \/ \E a \in Adds : Execute(a)
    \/ \E b \in buttons : Button(b)
    \/ \E i \in DOMAIN saves : SaveAudioClip(i)
    \/ Crash
    \/ Tick

Spec == Init /\ [][Next]_vars

-----------------------------------------------------------------------------
\* Safety.

Saved(a) == \E i \in DOMAIN saves : saves[i].uid = a

\* Each session comes to one end only, however clicks race, come late or come
\* from an old reply: it is refused, ended by a click, handed to one save, or
\* still there.  None is both cancelled and saved, none saved twice, and none
\* vanishes, except in a crash (AddCommand.h:169-190, 222-285).
OneEnd ==
    /\ \A i, j \in DOMAIN saves : saves[i].uid = saves[j].uid => i = j
    /\ \A a \in Adds :
          /\ ~(Saved(a) /\ a \in dropped)
          /\ ~(Saved(a) /\ active_session = a)
          /\ ~(a \in dropped /\ active_session = a)
          /\ crashes = 0 /\ asked[a] # None =>
                Saved(a) \/ a \in dropped \cup refused \/ active_session = a

\* A row's file has the row's clip and no other in it, in every state and after
\* every crash, and has it whole unless the disk failed that very write, which
\* the code does not see: the file comes before the row
\* (SoundPadManager.cpp:106-134).  Only while no other save has had the same
\* name, because the file of the one that loses is written too.
OnlySaveOf(name, a) ==
    \A i \in DOMAIN saves : NameOf(i) = name => saves[i].uid = a

Has(name, a) ==
    /\ files[name] \subseteq {a}
    /\ a \notin short => files[name] = {a}

RowHasItsClip ==
    \A n \in Names :
        rows[n] # None /\ OnlySaveOf(n, rows[n].clip) => Has(n, rows[n].clip)

\* "Please wait for it to complete or expire" (AddCommand.h:174-177): a session
\* whose buttons have all expired refuses nobody.
ButtonsOf(a) == {b \in buttons : b.uid = a}

ExpiredRefusesNobody ==
    [][\A a \in Adds : a \in refused' \ refused =>
          \/ ButtonsOf(active_session) = {}
          \/ \E b \in ButtonsOf(active_session) : ~Expired(b)]_vars

===============================================================================
