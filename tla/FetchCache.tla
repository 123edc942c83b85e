------------------------------ MODULE FetchCache ------------------------------
(***************************************************************************)
(* FetchManager::collectAndCache and convertM4S2PCM: a video's audio is    *)
(* downloaded into a raw file, converted by ffmpeg into a .pcm beside it,  *)
(* and the .pcm is what every later fetch is served from.  Fetches run on  *)
(* threads of their own (std::async) with no lock, so two of one video can *)
(* be at any two places of this at once.  Files outlive the process.       *)
(*                                                                         *)
(* One video, of one platform; videos share no file.  A file's content is  *)
(* the set of the chunks of the audio that are in it.  A name refers to a  *)
(* file, an open file may have lost its name, as on any Unix file system.  *)
(***************************************************************************)
EXTENDS Integers, FiniteSets

CONSTANTS
    Fetchers,       \* the threads that fetch
    Platforms,      \* the platforms of the video: BILIBILI, YOUTUBE or both
    ChunkCount,     \* chunks of the whole audio
    FileIds,        \* the files there can be
    NoFile,         \* a name that refers to no file, a handle that is closed
    MaxFetches,     \* bound: fetches
    MaxCrashes      \* bound: crashes of the process

ASSUME FetchAssumption ==
    /\ Platforms \subseteq {"BILIBILI", "YOUTUBE"}
    /\ ChunkCount \in Nat \ {0}
    /\ FileIds \subseteq Nat
    /\ NoFile \notin FileIds
    /\ MaxFetches \in Nat /\ MaxCrashes \in Nat

VARIABLES
    platform,
    raw, pcm,               \* the file each name refers to
    content,                \* of every file, the chunks in it
    fetch,                  \* where each fetch is
    fetches, crashes,       \* the counters of the bounds
    \* history: two fetches ran at once; a download ended early and went
    \* unnoticed; what fetches have served
    overlapped, cut, served

nameVars == <<raw, pcm>>
boundVars == <<fetches, crashes>>
historyVars == <<overlapped, cut, served>>
vars == <<platform, nameVars, content, fetch, boundVars, historyVars>>

Chunks == 1 .. ChunkCount
Handles == FileIds \cup {NoFile}

\* A fetch and the files it has open: in is read, out is written, and next is
\* the chunk that goes through it.
Fetch ==
    [pc : {"idle", "look", "lookraw", "open", "dropraw", "convert", "ffmpeg",
           "droppcm", "exit", "load"},
     in : {NoFile}, out : {NoFile}, next : {1}]
        \cup
    [pc : {"download", "size"}, in : {NoFile}, out : FileIds,
     next : 1 .. ChunkCount + 1]
        \cup
    [pc : {"transcode"}, in : FileIds, out : FileIds, next : 1 .. ChunkCount + 1]

\* The place pc of a fetch with no file open.
At(pc) == [pc |-> pc, in |-> NoFile, out |-> NoFile, next |-> 1]

TypeOK ==
    /\ platform \in Platforms
    /\ raw \in Handles /\ pcm \in Handles
    /\ content \in [FileIds -> SUBSET Chunks]
    /\ fetch \in [Fetchers -> Fetch]
    /\ fetches \in 0 .. MaxFetches
    /\ crashes \in 0 .. MaxCrashes
    /\ overlapped \in BOOLEAN
    /\ cut \in BOOLEAN
    /\ served \in SUBSET SUBSET Chunks

Init ==
    /\ platform \in Platforms
    /\ raw = NoFile /\ pcm = NoFile
    /\ content = [id \in FileIds |-> {}]
    /\ fetch = [f \in Fetchers |-> At("idle")]
    /\ fetches = 0 /\ crashes = 0
    /\ overlapped = FALSE
    /\ cut = FALSE
    /\ served = {}

-----------------------------------------------------------------------------
\* Files.

Goto(f, pc) == fetch' = [fetch EXCEPT ![f] = At(pc)]

\* return {}, or an exception: the fetch fails.
Fails(f) == Goto(f, "idle")

InUse == {raw, pcm} \cup {fetch[f].in : f \in Fetchers}
                    \cup {fetch[f].out : f \in Fetchers}

\* Opening a name for writing truncates the file it refers to or makes one.
OpensForWriting(name, id) ==
    \/ name # NoFile /\ id = name
    \/ /\ name = NoFile
       /\ id \notin InUse
       /\ \A k \in FileIds : k < id => k \in InUse

\* What std::filesystem::file_size says: a chunk that was written past a
\* truncation leaves a hole before it, not a shorter file.
Size(chunks) == IF chunks = {} THEN 0
                ELSE CHOOSE n \in chunks : \A k \in chunks : k <= n

-----------------------------------------------------------------------------
\* collectAndCache.

StartFetch(f) ==
    /\ fetch[f].pc = "idle"
    /\ fetches < MaxFetches
    /\ fetches' = fetches + 1
    /\ Goto(f, "look")
    /\ overlapped' = (overlapped \/ \E g \in Fetchers : fetch[g].pc # "idle")
    /\ UNCHANGED <<platform, nameVars, content, crashes, cut, served>>

\* "cache hit": the .pcm exists.
LooksForPcm(f) ==
    /\ fetch[f].pc = "look"
    /\ Goto(f, IF pcm # NoFile THEN "load" ELSE "lookraw")
    /\ UNCHANGED <<platform, nameVars, content, boundVars, historyVars>>

LooksForRaw(f) ==
    /\ fetch[f].pc = "lookraw"
    /\ Goto(f, IF raw # NoFile THEN "convert" ELSE "open")
    /\ UNCHANGED <<platform, nameVars, content, boundVars, historyVars>>

\* Bilibili: the file is opened first, then the request is made.
OpensRaw(f) ==
    /\ fetch[f].pc = "open"
    /\ platform = "BILIBILI"
    /\ \E id \in FileIds :
          /\ OpensForWriting(raw, id)
          /\ raw' = id
          /\ content' = [content EXCEPT ![id] = {}]
          /\ fetch' = [fetch EXCEPT ![f] = [At("download") EXCEPT !.out = id]]
    /\ UNCHANGED <<platform, pcm, boundVars, historyVars>>

\* The file cannot be opened; yt-dlp fails or leaves no file.
OpenFails(f) ==
    /\ fetch[f].pc = "open"
    /\ Fails(f)
    /\ UNCHANGED <<platform, nameVars, content, boundVars, historyVars>>

\* The WriteCallback.
WritesChunk(f) ==
    /\ fetch[f].pc = "download"
    /\ fetch[f].next <= ChunkCount
    /\ content' = [content EXCEPT ![fetch[f].out] = @ \cup {fetch[f].next}]
    /\ fetch' = [fetch EXCEPT ![f].next = @ + 1]
    /\ UNCHANGED <<platform, nameVars, boundVars, historyVars>>

\* Content-Length is there: the size is looked at with the file still open.
ToSize(f) == fetch' = [fetch EXCEPT ![f].pc = "size"]

\* Mutant: close() only where the size was checked; ffmpeg is started while the
\* end of the file is still in the stream's buffer.
MutDownloadEnds(f) ==
    /\ fetch[f].pc = "download"
    /\ fetch[f].next > ChunkCount
    /\ \/ ToSize(f)
       \/ fetch' = [fetch EXCEPT ![f].pc = "convert"]
    /\ UNCHANGED <<platform, nameVars, content, boundVars, historyVars>>

\* Content-Length may be missing: then the file is closed and converted.
DownloadEnds(f) ==
    /\ fetch[f].pc = "download"
    /\ fetch[f].next > ChunkCount
    /\ ToSize(f) \/ Goto(f, "convert")
    /\ UNCHANGED <<platform, nameVars, content, boundVars, historyVars>>

\* The connection breaks after a 200, or the disk is full, which write() and
\* close() are not asked about: only Content-Length can tell.
DownloadIsCut(f) ==
    /\ fetch[f].pc = "download"
    /\ fetch[f].next <= ChunkCount
    /\ \/ ToSize(f) /\ UNCHANGED cut
       \/ Goto(f, "convert") /\ cut' = TRUE
    /\ UNCHANGED <<platform, nameVars, content, boundVars, overlapped, served>>

\* Mutant: no ceiling and no stall guard on the request.
MutDownloadTimesOut(f) ==
    /\ fetch[f].pc = "download"
    /\ fetch[f].next > ChunkCount
    /\ Goto(f, "dropraw")
    /\ UNCHANGED <<platform, nameVars, content, boundVars, historyVars>>

\* OPERATION_TIMEDOUT, or a status that is not 200.
DownloadTimesOut(f) ==
    /\ fetch[f].pc = "download"
    /\ Goto(f, "dropraw")
    /\ UNCHANGED <<platform, nameVars, content, boundVars, historyVars>>

\* Mutant: what has arrived is taken for the whole.
MutChecksSize(f) ==
    /\ fetch[f].pc = "size"
    /\ Goto(f, "convert")
    /\ UNCHANGED <<platform, nameVars, content, boundVars, historyVars>>

\* file_size of the name; it throws if another fetch has removed it.  The file
\* is closed in each case, by the stream's destructor in that one.
ChecksSize(f) ==
    /\ fetch[f].pc = "size"
    /\ \/ raw = NoFile /\ Fails(f)
       \/ /\ raw # NoFile
          /\ Goto(f, IF Size(content[raw]) = ChunkCount THEN "convert"
                     ELSE "dropraw")
    /\ UNCHANGED <<platform, nameVars, content, boundVars, historyVars>>

\* Mutant: a failed download leaves what it got.
MutDropsRaw(f) ==
    /\ fetch[f].pc = "dropraw"
    /\ Fails(f)
    /\ UNCHANGED <<platform, nameVars, content, boundVars, historyVars>>

DropsRaw(f) ==
    /\ fetch[f].pc = "dropraw"
    /\ raw' = NoFile
    /\ Fails(f)
    /\ UNCHANGED <<platform, pcm, content, boundVars, historyVars>>

\* YouTube: yt-dlp puts a finished file in place, and may then still fail.
YtDlp(f) ==
    /\ fetch[f].pc = "open"
    /\ platform = "YOUTUBE"
    /\ \E id \in FileIds :
          /\ OpensForWriting(NoFile, id)
          /\ raw' = id
          /\ content' = [content EXCEPT ![id] = Chunks]
    /\ Goto(f, "convert") \/ Fails(f)
    /\ UNCHANGED <<platform, pcm, boundVars, historyVars>>

-----------------------------------------------------------------------------
\* convertM4S2PCM.

FindsInput(f) ==
    /\ fetch[f].pc = "convert"
    /\ \/ raw # NoFile /\ Goto(f, "ffmpeg")
       \/ raw = NoFile /\ Fails(f)
    /\ UNCHANGED <<platform, nameVars, content, boundVars, historyVars>>

\* ffmpeg -y: the output is opened in its place, over what is there.
FfmpegStarts(f) ==
    /\ fetch[f].pc = "ffmpeg"
    /\ raw # NoFile
    /\ \E id \in FileIds :
          /\ OpensForWriting(pcm, id)
          /\ pcm' = id
          /\ content' = [content EXCEPT ![id] = {}]
          /\ fetch' = [fetch EXCEPT ![f] = [pc |-> "transcode", in |-> raw,
                                            out |-> id, next |-> 1]]
    /\ UNCHANGED <<platform, raw, boundVars, historyVars>>

FfmpegFindsNothing(f) ==
    /\ fetch[f].pc = "ffmpeg"
    /\ raw = NoFile
    /\ Goto(f, "droppcm")
    /\ UNCHANGED <<platform, nameVars, content, boundVars, historyVars>>

FfmpegWrites(f) ==
    /\ fetch[f].pc = "transcode"
    /\ fetch[f].next \in content[fetch[f].in]
    /\ content' = [content EXCEPT ![fetch[f].out] = @ \cup {fetch[f].next}]
    /\ fetch' = [fetch EXCEPT ![f].next = @ + 1]
    /\ UNCHANGED <<platform, nameVars, boundVars, historyVars>>

\* ffmpeg takes the first chunk that is missing for the end of its input.
FfmpegEnds(f) ==
    /\ fetch[f].pc = "transcode"
    /\ fetch[f].next \notin content[fetch[f].in]
    /\ Goto(f, "exit")
    /\ UNCHANGED <<platform, nameVars, content, boundVars, historyVars>>

\* A non-zero exit, or "timeout" kills it, at any point.
FfmpegFails(f) ==
    /\ fetch[f].pc = "transcode"
    /\ Goto(f, "droppcm")
    /\ UNCHANGED <<platform, nameVars, content, boundVars, historyVars>>

\* Mutant: what a failed conversion has written stays.
MutDropsPcm(f) ==
    /\ fetch[f].pc = "droppcm"
    /\ Fails(f)
    /\ UNCHANGED <<platform, nameVars, content, boundVars, historyVars>>

DropsPcm(f) ==
    /\ fetch[f].pc = "droppcm"
    /\ pcm' = NoFile
    /\ Fails(f)
    /\ UNCHANGED <<platform, raw, content, boundVars, historyVars>>

FindsOutput(f) ==
    /\ fetch[f].pc = "exit"
    /\ \/ pcm # NoFile /\ Goto(f, "load")
       \/ pcm = NoFile /\ Fails(f)
    /\ UNCHANGED <<platform, nameVars, content, boundVars, historyVars>>

-----------------------------------------------------------------------------
\* The caller reads the file it was given (AudioBuffer's constructor).

Loads(f) ==
    /\ fetch[f].pc = "load"
    /\ pcm # NoFile
    /\ served' = served \cup {content[pcm]}
    /\ Goto(f, "idle")
    /\ UNCHANGED <<platform, nameVars, content, boundVars, overlapped, cut>>

\* It was removed meanwhile, or a part of it is no whole number of samples.
LoadFails(f) ==
    /\ fetch[f].pc = "load"
    /\ pcm # NoFile => content[pcm] # Chunks
    /\ Fails(f)
    /\ UNCHANGED <<platform, nameVars, content, boundVars, historyVars>>

\* The process dies and is started again; its files stay as they are.
Crash ==
    /\ crashes < MaxCrashes
    /\ crashes' = crashes + 1
    /\ fetch' = [f \in Fetchers |-> At("idle")]
    /\ UNCHANGED <<platform, nameVars, content, fetches, historyVars>>

-----------------------------------------------------------------------------
\* What the program does by itself, at once or when a timeout is over.
Proceeds(f) ==
    \/ LooksForPcm(f) \/ LooksForRaw(f) \/ OpensRaw(f) \/ OpenFails(f)
    \/ DownloadEnds(f) \/ DownloadTimesOut(f) \/ ChecksSize(f) \/ DropsRaw(f)
    \/ YtDlp(f)
    \/ FindsInput(f) \/ FfmpegStarts(f) \/ FfmpegFindsNothing(f)
    \/ FfmpegEnds(f) \/ FfmpegFails(f) \/ DropsPcm(f) \/ FindsOutput(f)
    \/ Loads(f) \/ LoadFails(f)

\* What the network and ffmpeg may do.
Arrives(f) == WritesChunk(f) \/ DownloadIsCut(f) \/ FfmpegWrites(f)

Next ==
    \/ \E f \in Fetchers : StartFetch(f) \/ Proceeds(f) \/ Arrives(f)
    \/ Crash

Spec == Init /\ [][Next]_vars

FairSpec == Spec /\ \A f \in Fetchers : WF_vars(Proceeds(f))

-----------------------------------------------------------------------------
\* Safety.

Whole(name) == name # NoFile => content[name] = Chunks
Running == \E f \in Fetchers : fetch[f].pc # "idle"
Undisturbed == ~overlapped /\ crashes = 0

\* One fetch at a time leaves whole files or none, however it ends: every
\* failure removes what it has half written (FetchManager.cpp:320-341,
\* 397-412).  A download that was cut where no length was announced is the
\* exception the code makes.
CacheCleanAtRest ==
    Undisturbed /\ ~cut /\ ~Running => Whole(raw) /\ Whole(pcm)

\* What one fetch at a time serves, from the cache or not, is the whole audio
\* (FetchManager.cpp:287-295, 414-419).
ServesWhole == Undisturbed /\ ~cut => served \subseteq {Chunks}

\* YouTube, where the raw file appears as a whole: whatever fetches overlap, a
\* .pcm that is not whole is being written or about to be removed, so it does
\* not outlive them.  Only a crash leaves one for good.
PartialIsTemporary ==
    platform = "YOUTUBE" /\ crashes = 0 /\ ~Whole(pcm) =>
        \E f \in Fetchers :
            fetch[f].pc = "droppcm"
              \/ (fetch[f].pc = "transcode" /\ fetch[f].out = pcm)

-----------------------------------------------------------------------------
\* Liveness.

\* Every fetch ends although the network may stall and ffmpeg may hang: the
\* download, yt-dlp and ffmpeg each have a timeout (FetchManager.cpp:314-317,
\* 350, 394).
FetchEnds ==
    \A f \in Fetchers : fetch[f].pc = "look" ~> fetch[f].pc = "idle"

===============================================================================
