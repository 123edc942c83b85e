-------------------------- MODULE FetchCache_proofs --------------------------
(***************************************************************************)
(* What FetchCache promises, for any number of fetchers, chunks, files,    *)
(* fetches and crashes.                                                    *)
(***************************************************************************)
EXTENDS FetchCache, TLAPS

Places == {"idle", "look", "lookraw", "open", "dropraw", "convert", "ffmpeg",
           "droppcm", "exit", "load"}

-----------------------------------------------------------------------------
\* The shape of a fetch, taken apart and put together.

LEMMA AtIsFetch ==
    ASSUME NEW pc \in Places
    PROVE  At(pc) \in Fetch
  BY DEF At, Fetch, Places

LEMMA AtFields ==
    ASSUME NEW pc
    PROVE  /\ At(pc).pc = pc /\ At(pc).in = NoFile
           /\ At(pc).out = NoFile /\ At(pc).next = 1
  BY DEF At

LEMMA DownloadIsFetch ==
    ASSUME NEW pc \in {"download", "size"}, NEW id \in FileIds,
           NEW n \in 1 .. ChunkCount + 1
    PROVE  [pc |-> pc, in |-> NoFile, out |-> id, next |-> n] \in Fetch
  BY DEF Fetch

LEMMA TranscodeIsFetch ==
    ASSUME NEW i \in FileIds, NEW id \in FileIds, NEW n \in 1 .. ChunkCount + 1
    PROVE  [pc |-> "transcode", in |-> i, out |-> id, next |-> n] \in Fetch
  BY DEF Fetch

LEMMA FetchShape ==
    ASSUME NEW r \in Fetch
    PROVE  /\ r = [pc |-> r.pc, in |-> r.in, out |-> r.out, next |-> r.next]
           /\ r.pc \in Places \cup {"download", "size", "transcode"}
           /\ r.pc \in Places => r.in = NoFile /\ r.out = NoFile /\ r.next = 1
           /\ r.pc \in {"download", "size"} =>
                r.in = NoFile /\ r.out \in FileIds /\ r.next \in 1 .. ChunkCount + 1
           /\ r.pc = "transcode" =>
                r.in \in FileIds /\ r.out \in FileIds /\ r.next \in 1 .. ChunkCount + 1
  <1>1. CASE r \in [pc : Places, in : {NoFile}, out : {NoFile}, next : {1}]
    BY <1>1 DEF Places
  <1>2. CASE r \in [pc : {"download", "size"}, in : {NoFile}, out : FileIds,
                    next : 1 .. ChunkCount + 1]
    BY <1>2 DEF Places
  <1>3. CASE r \in [pc : {"transcode"}, in : FileIds, out : FileIds,
                    next : 1 .. ChunkCount + 1]
    BY <1>3 DEF Places
  <1> QED BY <1>1, <1>2, <1>3 DEF Fetch, Places

\* A fetch that goes to a place stays of its type, and the others stay.
LEMMA GotoKeepsType ==
    ASSUME TypeOK, NEW f \in Fetchers, NEW pc \in Places, Goto(f, pc)
    PROVE  fetch' \in [Fetchers -> Fetch]
  BY AtIsFetch DEF TypeOK, Goto

LEMMA GotoMoves ==
    ASSUME TypeOK, NEW f \in Fetchers, NEW pc, Goto(f, pc)
    PROVE  /\ fetch'[f].pc = pc
           /\ fetch'[f].in = NoFile /\ fetch'[f].out = NoFile
           /\ \A g \in Fetchers : g # f => fetch'[g] = fetch[g]
  BY AtFields DEF TypeOK, Goto

\* The step to the check of the size, which keeps the file open.
LEMMA ToSizeMoves ==
    ASSUME TypeOK, NEW f \in Fetchers, fetch[f].pc = "download", ToSize(f)
    PROVE  /\ fetch' \in [Fetchers -> Fetch]
           /\ fetch'[f].pc = "size" /\ fetch'[f].out = fetch[f].out
           /\ fetch'[f].next = fetch[f].next
           /\ \A g \in Fetchers : g # f => fetch'[g] = fetch[g]
  <1> DEFINE r == fetch[f]
             q == [pc |-> "size", in |-> r.in, out |-> r.out, next |-> r.next]
  <1>1. fetch \in [Fetchers -> Fetch] /\ r \in Fetch
    BY DEF TypeOK
  <1>2. /\ r = [pc |-> r.pc, in |-> r.in, out |-> r.out, next |-> r.next]
        /\ r.in = NoFile /\ r.out \in FileIds /\ r.next \in 1 .. ChunkCount + 1
    BY <1>1, FetchShape
  <1>3. [fetch[f] EXCEPT !.pc = "size"] = q
    BY <1>2
  <1>4. q \in Fetch
    BY <1>2, DownloadIsFetch
  <1>5. fetch' = [fetch EXCEPT ![f] = q]
    BY <1>1, <1>3 DEF ToSize
  <1> QED BY <1>1, <1>4, <1>5

\* A record the fetch is moved to with files open.
LEMMA NextChunk ==
    ASSUME TypeOK, NEW f \in Fetchers,
           fetch[f].pc \in {"download", "transcode"},
           fetch[f].next <= ChunkCount,
           fetch' = [fetch EXCEPT ![f].next = @ + 1]
    PROVE  /\ fetch' \in [Fetchers -> Fetch]
           /\ fetch'[f] = [fetch[f] EXCEPT !.next = @ + 1]
           /\ fetch'[f].pc = fetch[f].pc /\ fetch'[f].in = fetch[f].in
           /\ fetch'[f].out = fetch[f].out /\ fetch'[f].next = fetch[f].next + 1
           /\ \A g \in Fetchers : g # f => fetch'[g] = fetch[g]
  <1>1. fetch \in [Fetchers -> Fetch] /\ fetch[f] \in Fetch
    BY DEF TypeOK
  <1> DEFINE r == fetch[f]
  <1> DEFINE q == [pc |-> r.pc, in |-> r.in, out |-> r.out, next |-> r.next + 1]
  <1>2. r = [pc |-> r.pc, in |-> r.in, out |-> r.out, next |-> r.next]
    BY <1>1, FetchShape
  <1>3. [fetch[f] EXCEPT !.next = @ + 1] = q
    BY <1>2
  <1>4. r.next + 1 \in 1 .. ChunkCount + 1
    BY <1>1, FetchShape, FetchAssumption
  <1>5. q \in Fetch
    <2>1. CASE r.pc = "download"
      BY <2>1, <1>1, <1>4, FetchShape, DownloadIsFetch
    <2>2. CASE r.pc = "transcode"
      BY <2>2, <1>1, <1>4, FetchShape, TranscodeIsFetch
    <2> QED BY <2>1, <2>2
  <1>6. fetch' = [fetch EXCEPT ![f] = q]
    BY <1>1, <1>3
  <1> QED BY <1>1, <1>3, <1>5, <1>6

-----------------------------------------------------------------------------
\* Types.

LEMMA TypeInit == Init => TypeOK
<1> SUFFICES ASSUME Init PROVE TypeOK
  OBVIOUS
<1>1. fetch \in [Fetchers -> Fetch]
  BY AtIsFetch DEF Init, Places
<1>2. content \in [FileIds -> SUBSET Chunks]
  BY DEF Init
<1>3. platform \in Platforms /\ raw \in Handles /\ pcm \in Handles
  BY DEF Init, Handles
<1>4. fetches \in 0 .. MaxFetches /\ crashes \in 0 .. MaxCrashes
  BY FetchAssumption DEF Init
<1>5. served \in SUBSET SUBSET Chunks /\ overlapped \in BOOLEAN /\ cut \in BOOLEAN
  BY DEF Init
<1> QED BY <1>1, <1>2, <1>3, <1>4, <1>5 DEF TypeOK

LEMMA TypeStep ==
    ASSUME TypeOK, NEW f \in Fetchers,
           StartFetch(f) \/ Proceeds(f) \/ Arrives(f)
    PROVE  TypeOK'
<1> USE FetchAssumption
\* A step that only moves the fetch.
<1>0. ASSUME NEW pc \in Places, Goto(f, pc),
             UNCHANGED <<platform, nameVars, content, boundVars, historyVars>>
      PROVE  TypeOK'
  BY <1>0, GotoKeepsType
     DEF TypeOK, nameVars, boundVars, historyVars
<1>1. CASE StartFetch(f)
  <2>1. fetch' \in [Fetchers -> Fetch]
    BY <1>1, GotoKeepsType DEF StartFetch, Places
  <2> QED BY <1>1, <2>1 DEF StartFetch, TypeOK, nameVars
<1>2. CASE LooksForPcm(f)
  BY <1>2, <1>0 DEF LooksForPcm, Places
<1>3. CASE LooksForRaw(f)
  BY <1>3, <1>0 DEF LooksForRaw, Places
<1>4. CASE OpensRaw(f)
  <2>1. PICK id \in FileIds :
          /\ raw' = id
          /\ content' = [content EXCEPT ![id] = {}]
          /\ fetch' = [fetch EXCEPT ![f] = [At("download") EXCEPT !.out = id]]
    BY <1>4 DEF OpensRaw
  <2>2. [At("download") EXCEPT !.out = id] \in Fetch
    BY DownloadIsFetch DEF At
  <2> QED BY <1>4, <2>1, <2>2
          DEF OpensRaw, TypeOK, Handles, boundVars, historyVars
<1>5. CASE OpenFails(f)
  BY <1>5, <1>0 DEF OpenFails, Fails, Places
<1>6. CASE DownloadEnds(f)
  <2>1. fetch' \in [Fetchers -> Fetch]
    BY <1>6, GotoKeepsType, ToSizeMoves DEF DownloadEnds, Places
  <2> QED BY <1>6, <2>1
          DEF DownloadEnds, TypeOK, nameVars, boundVars, historyVars
<1>7. CASE DownloadTimesOut(f)
  BY <1>7, <1>0 DEF DownloadTimesOut, Places
<1>8. CASE ChecksSize(f)
  BY <1>8, <1>0 DEF ChecksSize, Fails, Places
<1>9. CASE DropsRaw(f)
  <2>1. fetch' \in [Fetchers -> Fetch]
    BY <1>9, GotoKeepsType DEF DropsRaw, Fails, Places
  <2> QED BY <1>9, <2>1
          DEF DropsRaw, TypeOK, Handles, boundVars, historyVars
<1>10. CASE YtDlp(f)
  <2>1. fetch' \in [Fetchers -> Fetch]
    BY <1>10, GotoKeepsType DEF YtDlp, Fails, Places
  <2> QED BY <1>10, <2>1
          DEF YtDlp, TypeOK, Handles, Chunks, boundVars, historyVars
<1>11. CASE FindsInput(f)
  BY <1>11, <1>0 DEF FindsInput, Fails, Places
<1>12. CASE FfmpegStarts(f)
  <2>1. PICK id \in FileIds :
          /\ pcm' = id
          /\ content' = [content EXCEPT ![id] = {}]
          /\ fetch' = [fetch EXCEPT ![f] = [pc |-> "transcode", in |-> raw,
                                            out |-> id, next |-> 1]]
    BY <1>12 DEF FfmpegStarts
  <2>2. [pc |-> "transcode", in |-> raw, out |-> id, next |-> 1] \in Fetch
    BY <1>12, TranscodeIsFetch DEF FfmpegStarts, TypeOK, Handles
  <2> QED BY <1>12, <2>1, <2>2
          DEF FfmpegStarts, TypeOK, Handles, boundVars, historyVars
<1>13. CASE FfmpegFindsNothing(f)
  BY <1>13, <1>0 DEF FfmpegFindsNothing, Places
<1>14. CASE FfmpegEnds(f)
  BY <1>14, <1>0 DEF FfmpegEnds, Places
<1>15. CASE FfmpegFails(f)
  BY <1>15, <1>0 DEF FfmpegFails, Places
<1>16. CASE DropsPcm(f)
  <2>1. fetch' \in [Fetchers -> Fetch]
    BY <1>16, GotoKeepsType DEF DropsPcm, Fails, Places
  <2> QED BY <1>16, <2>1
          DEF DropsPcm, TypeOK, Handles, boundVars, historyVars
<1>17. CASE FindsOutput(f)
  BY <1>17, <1>0 DEF FindsOutput, Fails, Places
<1>18. CASE Loads(f)
  <2>1. fetch' \in [Fetchers -> Fetch]
    BY <1>18, GotoKeepsType DEF Loads, Places
  <2>2. served' \in SUBSET SUBSET Chunks
    BY <1>18 DEF Loads, TypeOK, Handles
  <2> QED BY <1>18, <2>1, <2>2 DEF Loads, TypeOK, nameVars, boundVars
<1>19. CASE LoadFails(f)
  BY <1>19, <1>0 DEF LoadFails, Fails, Places
<1>20. CASE WritesChunk(f)
  <2>1. fetch' \in [Fetchers -> Fetch]
    BY <1>20, NextChunk DEF WritesChunk
  <2>2. fetch[f].next \in Chunks
    BY <1>20, FetchShape DEF WritesChunk, TypeOK, Chunks
  <2>3. content' \in [FileIds -> SUBSET Chunks]
    BY <1>20, <2>2 DEF WritesChunk, TypeOK
  <2> QED BY <1>20, <2>1, <2>3
          DEF WritesChunk, TypeOK, nameVars, boundVars, historyVars
<1>21. CASE DownloadIsCut(f)
  <2>1. fetch' \in [Fetchers -> Fetch]
    BY <1>21, GotoKeepsType, ToSizeMoves DEF DownloadIsCut, Places
  <2> QED BY <1>21, <2>1 DEF DownloadIsCut, TypeOK, nameVars, boundVars
<1>22. CASE FfmpegWrites(f)
  <2>1. fetch[f].next \in Chunks
    BY <1>22, FetchShape DEF FfmpegWrites, TypeOK, Chunks
  <2>2. fetch' \in [Fetchers -> Fetch]
    <3>1. fetch[f].next <= ChunkCount
      BY <2>1 DEF Chunks
    <3> QED BY <1>22, <3>1, NextChunk DEF FfmpegWrites
  <2>3. content' \in [FileIds -> SUBSET Chunks]
    BY <1>22, <2>1 DEF FfmpegWrites, TypeOK
  <2> QED BY <1>22, <2>2, <2>3
          DEF FfmpegWrites, TypeOK, nameVars, boundVars, historyVars
<1> QED
  BY <1>1, <1>2, <1>3, <1>4, <1>5, <1>6, <1>7, <1>8, <1>9, <1>10, <1>11,
     <1>12, <1>13, <1>14, <1>15, <1>16, <1>17, <1>18, <1>19, <1>20, <1>21,
     <1>22
     DEF Proceeds, Arrives

LEMMA TypeCrash == ASSUME TypeOK, Crash PROVE TypeOK'
BY FetchAssumption, AtIsFetch
   DEF Crash, TypeOK, nameVars, historyVars, Places

LEMMA TypeStutter == ASSUME TypeOK, UNCHANGED vars PROVE TypeOK'
BY DEF TypeOK, vars, nameVars, boundVars, historyVars

\* Every handle is a file or closed, and a closed fetch has none open.
THEOREM TypeCorrect == Spec => []TypeOK
<1>1. TypeOK /\ [Next]_vars => TypeOK'
  BY TypeStep, TypeCrash, TypeStutter DEF Next
<1> QED BY <1>1, TypeInit, PTL DEF Spec

-----------------------------------------------------------------------------
\* A .pcm that is not whole is temporary (YouTube, no crash).

\* f writes the file id, which has all that f has written of it.
WritesInto(f, id) ==
    /\ fetch[f].pc = "transcode"
    /\ fetch[f].out = id
    /\ 1 .. fetch[f].next - 1 \subseteq content[id]

\* The raw file and every input of ffmpeg are whole.
SourcesWhole ==
    /\ \A f \in Fetchers : fetch[f].pc \notin {"download", "size", "dropraw"}
    /\ Whole(raw)
    /\ \A f \in Fetchers :
          fetch[f].pc = "transcode" => content[fetch[f].in] = Chunks

\* Nothing that ffmpeg writes is a source.
OutputsApart ==
    /\ pcm # NoFile => /\ pcm # raw
                       /\ \A g \in Fetchers : fetch[g].in # pcm
    /\ \A f \in Fetchers : fetch[f].pc = "transcode" =>
          /\ fetch[f].out # raw
          /\ \A g \in Fetchers : fetch[g].in # fetch[f].out

PcmOnItsWay ==
    pcm # NoFile => \/ content[pcm] = Chunks
                    \/ \E f \in Fetchers : fetch[f].pc = "droppcm"
                                             \/ WritesInto(f, pcm)

YouTubeInv ==
    platform = "YOUTUBE" /\ crashes = 0 =>
        SourcesWhole /\ OutputsApart /\ PcmOnItsWay

LEMMA YouTubeInit == Init => YouTubeInv
BY DEF Init, YouTubeInv, SourcesWhole, OutputsApart, PcmOnItsWay, Whole, At

LEMMA TranscoderFiles ==
    ASSUME TypeOK, NEW f \in Fetchers, fetch[f].pc = "transcode"
    PROVE  /\ fetch[f].in \in FileIds /\ fetch[f].in # NoFile
           /\ fetch[f].out \in FileIds /\ fetch[f].out # NoFile
           /\ fetch[f].next \in 1 .. ChunkCount + 1
BY FetchShape, FetchAssumption DEF TypeOK

\* A step that opens and closes nothing that is written.
LEMMA MoveKeepsYouTube ==
    ASSUME TypeOK, YouTubeInv, platform = "YOUTUBE", crashes = 0,
           NEW f \in Fetchers, fetch[f].pc \notin {"transcode", "droppcm"},
           NEW pc \in Places \ {"dropraw"}, Goto(f, pc),
           UNCHANGED <<raw, pcm, content>>
    PROVE  YouTubeInv'
<1>1. /\ fetch'[f].pc = pc /\ fetch'[f].in = NoFile /\ fetch'[f].out = NoFile
      /\ \A g \in Fetchers : g # f => fetch'[g] = fetch[g]
  BY GotoMoves
<1>2. SourcesWhole'
  BY <1>1 DEF YouTubeInv, SourcesWhole, Whole, Places
<1>3. OutputsApart'
  <2>1. \A g \in Fetchers : fetch'[g].pc = "transcode" =>
           /\ fetch'[g] = fetch[g]
           /\ fetch[g].out # NoFile
    BY <1>1, TranscoderFiles DEF Places
  <2>2. \A g \in Fetchers : fetch'[g].in \in {NoFile, fetch[g].in}
    BY <1>1
  <2> QED BY <2>1, <2>2 DEF YouTubeInv, OutputsApart
<1>4. PcmOnItsWay'
  <2>1. \A g \in Fetchers : fetch[g].pc = "droppcm" \/ WritesInto(g, pcm) =>
           fetch'[g] = fetch[g]
    BY <1>1 DEF WritesInto
  <2>2. \A g \in Fetchers : fetch'[g] = fetch[g] =>
           WritesInto(g, pcm)' = WritesInto(g, pcm)
    BY DEF WritesInto
  <2> QED BY <2>1, <2>2 DEF YouTubeInv, PcmOnItsWay
<1> QED BY <1>2, <1>3, <1>4 DEF YouTubeInv

\* yt-dlp's file is new: no fetch reads or writes it.
LEMMA YtDlpKeepsYouTube ==
    ASSUME TypeOK, YouTubeInv, platform = "YOUTUBE", crashes = 0,
           NEW f \in Fetchers, YtDlp(f)
    PROVE  YouTubeInv'
<1>1. PICK id \in FileIds :
        /\ id \notin InUse
        /\ raw' = id
        /\ content' = [content EXCEPT ![id] = Chunks]
  BY DEF YtDlp, OpensForWriting
<1>2. /\ fetch'[f].pc \in {"convert", "idle"} /\ fetch'[f].in = NoFile
      /\ \A g \in Fetchers : g # f => fetch'[g] = fetch[g]
  BY GotoMoves DEF YtDlp, Fails
<1>3. /\ id # pcm /\ pcm' = pcm
      /\ \A g \in Fetchers : id # fetch[g].in /\ id # fetch[g].out
  BY <1>1 DEF InUse, YtDlp
<1>4. content'[id] = Chunks /\ \A k \in FileIds \ {id} : content'[k] = content[k]
  BY <1>1 DEF TypeOK
<1>5. \A g \in Fetchers : fetch'[g].pc = "transcode" =>
         /\ g # f /\ fetch'[g] = fetch[g]
         /\ fetch[g].in \in FileIds \ {id} /\ fetch[g].out \in FileIds \ {id}
         /\ fetch[g].out # NoFile
  BY <1>2, <1>3, TranscoderFiles
<1>6. SourcesWhole'
  BY <1>1, <1>2, <1>4, <1>5 DEF YouTubeInv, SourcesWhole, Whole
<1>7. OutputsApart'
  <2>1. \A g \in Fetchers : fetch'[g].in \in {NoFile, fetch[g].in}
    BY <1>2
  <2> QED BY <2>1, <1>1, <1>3, <1>5 DEF YouTubeInv, OutputsApart
<1>8. PcmOnItsWay'
  <2>1. \A g \in Fetchers : fetch[g].pc = "droppcm" \/ WritesInto(g, pcm) =>
           fetch'[g] = fetch[g]
    BY <1>2 DEF WritesInto, YtDlp
  <2>2. pcm # NoFile => content'[pcm] = content[pcm]
    BY <1>3, <1>4 DEF TypeOK, Handles
  <2>3. \A g \in Fetchers : pcm # NoFile /\ fetch'[g] = fetch[g] =>
           WritesInto(g, pcm)' = WritesInto(g, pcm)
    BY <2>2, <1>3 DEF WritesInto
  <2> QED BY <2>1, <2>2, <2>3, <1>3 DEF YouTubeInv, PcmOnItsWay
<1> QED BY <1>6, <1>7, <1>8 DEF YouTubeInv

\* ffmpeg truncates the .pcm or makes one; f is then on its way with it.
LEMMA FfmpegStartsKeepsYouTube ==
    ASSUME TypeOK, YouTubeInv, platform = "YOUTUBE", crashes = 0,
           NEW f \in Fetchers, FfmpegStarts(f)
    PROVE  YouTubeInv'
<1>1. PICK id \in FileIds :
        /\ OpensForWriting(pcm, id)
        /\ pcm' = id
        /\ content' = [content EXCEPT ![id] = {}]
        /\ fetch' = [fetch EXCEPT ![f] = [pc |-> "transcode", in |-> raw,
                                          out |-> id, next |-> 1]]
  BY DEF FfmpegStarts
<1>2. /\ fetch'[f].pc = "transcode" /\ fetch'[f].in = raw
      /\ fetch'[f].out = id /\ fetch'[f].next = 1
      /\ \A g \in Fetchers : g # f => fetch'[g] = fetch[g]
  BY <1>1 DEF TypeOK
<1>3. id # raw /\ \A g \in Fetchers : id # fetch[g].in
  <2>1. CASE id = pcm /\ pcm # NoFile
    BY <2>1 DEF YouTubeInv, OutputsApart
  <2>2. CASE id \notin InUse
    BY <2>2 DEF InUse
  <2> QED BY <1>1, <2>1, <2>2 DEF OpensForWriting
<1>4. /\ raw' = raw /\ raw \in FileIds \ {id} /\ raw # NoFile /\ id # NoFile
      /\ content'[id] = {}
      /\ \A k \in FileIds \ {id} : content'[k] = content[k]
  BY <1>1, <1>3, FetchAssumption DEF TypeOK, Handles, FfmpegStarts
<1>5. \A g \in Fetchers : g # f /\ fetch'[g].pc = "transcode" =>
         /\ fetch'[g] = fetch[g]
         /\ fetch[g].in \in FileIds \ {id}
         /\ fetch[g].out \in FileIds
  BY <1>2, <1>3, TranscoderFiles
<1>6. SourcesWhole'
  <2>1. content'[raw'] = Chunks
    BY <1>4 DEF YouTubeInv, SourcesWhole, Whole
  <2>2. ASSUME NEW g \in Fetchers
        PROVE  /\ fetch'[g].pc \notin {"download", "size", "dropraw"}
               /\ fetch'[g].pc = "transcode" => content'[fetch'[g].in] = Chunks
    <3>1. CASE g = f
      BY <3>1, <2>1, <1>2, <1>4
    <3>2. CASE g # f
      BY <3>2, <1>2, <1>4, <1>5 DEF YouTubeInv, SourcesWhole
    <3> QED BY <3>1, <3>2
  <2> QED BY <2>1, <2>2 DEF SourcesWhole, Whole
<1>7. OutputsApart'
  <2>1. \A g \in Fetchers : fetch'[g].in \in {raw, fetch[g].in}
    BY <1>2
  <2>2. id # raw' /\ \A g \in Fetchers : fetch'[g].in # id
    BY <2>1, <1>3, <1>4
  <2>3. ASSUME NEW g \in Fetchers, g # f, fetch'[g].pc = "transcode"
        PROVE  /\ fetch'[g].out # raw'
               /\ \A h \in Fetchers : fetch'[h].in # fetch'[g].out
    <3>1. /\ fetch[g].pc = "transcode" /\ fetch'[g].out = fetch[g].out
          /\ fetch[g].out # raw
          /\ \A h \in Fetchers : fetch[h].in # fetch[g].out
      BY <2>3, <1>5 DEF YouTubeInv, OutputsApart
    <3> QED BY <3>1, <2>1, <1>4
  <2> QED BY <2>2, <2>3, <1>1, <1>2 DEF OutputsApart
<1>8. PcmOnItsWay'
  <2>1. WritesInto(f, pcm)'
    BY <1>1, <1>2 DEF WritesInto
  <2> QED BY <2>1 DEF PcmOnItsWay
<1> QED BY <1>6, <1>7, <1>8 DEF YouTubeInv

LEMMA FfmpegWritesKeepsYouTube ==
    ASSUME TypeOK, YouTubeInv, platform = "YOUTUBE", crashes = 0,
           NEW f \in Fetchers, FfmpegWrites(f)
    PROVE  YouTubeInv'
<1> DEFINE id == fetch[f].out
           n == fetch[f].next
<1>1. fetch[f].pc = "transcode" /\ n \in Chunks /\ n <= ChunkCount
  BY TranscoderFiles DEF FfmpegWrites, TypeOK, Chunks
<1>2. /\ fetch'[f].pc = "transcode" /\ fetch'[f].in = fetch[f].in
      /\ fetch'[f].out = id /\ fetch'[f].next = n + 1
      /\ \A g \in Fetchers : g # f => fetch'[g] = fetch[g]
  BY <1>1, NextChunk DEF FfmpegWrites
<1>3. \A g \in Fetchers : /\ fetch'[g].pc = fetch[g].pc
                          /\ fetch'[g].in = fetch[g].in
                          /\ fetch'[g].out = fetch[g].out
  BY <1>1, <1>2
<1>4. /\ raw' = raw /\ pcm' = pcm
      /\ id \in FileIds /\ id # raw /\ \A g \in Fetchers : fetch[g].in # id
      /\ content'[id] = content[id] \cup {n}
      /\ \A k \in FileIds \ {id} : content'[k] = content[k]
  BY <1>1, TranscoderFiles
     DEF FfmpegWrites, TypeOK, YouTubeInv, OutputsApart, nameVars
<1>5. SourcesWhole'
  <2>1. Whole(raw)'
    BY <1>4 DEF YouTubeInv, SourcesWhole, Whole, TypeOK, Handles
  <2>2. \A g \in Fetchers : fetch[g].pc = "transcode" =>
           content'[fetch[g].in] = content[fetch[g].in]
    BY <1>4, TranscoderFiles
  <2> QED BY <2>1, <2>2, <1>3 DEF YouTubeInv, SourcesWhole
<1>6. OutputsApart'
  BY <1>3, <1>4 DEF YouTubeInv, OutputsApart
<1>7. PcmOnItsWay'
  <2> SUFFICES ASSUME pcm # NoFile
               PROVE  \/ content'[pcm] = Chunks
                      \/ \E g \in Fetchers : fetch'[g].pc = "droppcm"
                                               \/ WritesInto(g, pcm)'
    BY <1>4 DEF PcmOnItsWay
  <2>1. CASE content[pcm] = Chunks
    <3>1. content'[pcm] = content[pcm] \/ content'[pcm] = content[pcm] \cup {n}
      BY <1>4 DEF TypeOK, Handles
    <3> QED BY <3>1, <2>1, <1>1
  <2>2. CASE \E g \in Fetchers : fetch[g].pc = "droppcm"
    <3>1. PICK g \in Fetchers : fetch[g].pc = "droppcm"
      BY <2>2
    <3> QED BY <3>1, <1>3
  <2>3. ASSUME NEW g \in Fetchers, WritesInto(g, pcm) PROVE WritesInto(g, pcm)'
    <3>1. content[pcm] \subseteq content'[pcm]
      BY <1>4 DEF TypeOK, Handles
    <3>2. CASE g # f
      BY <3>1, <3>2, <2>3, <1>2, <1>4 DEF WritesInto
    <3>3. CASE g = f
      <4>1. pcm = id /\ 1 .. n - 1 \subseteq content[pcm]
        BY <3>3, <2>3 DEF WritesInto
      <4>2. 1 .. (n + 1) - 1 \subseteq (1 .. n - 1) \cup {n}
        BY <1>1 DEF Chunks
      <4> QED BY <3>3, <4>1, <4>2, <1>2, <1>4 DEF WritesInto
    <3> QED BY <3>2, <3>3
  <2> QED BY <2>1, <2>2, <2>3 DEF YouTubeInv, PcmOnItsWay
<1> QED BY <1>5, <1>6, <1>7 DEF YouTubeInv

\* The conversion that ends has copied all of its input.
LEMMA FfmpegEndsKeepsYouTube ==
    ASSUME TypeOK, YouTubeInv, platform = "YOUTUBE", crashes = 0,
           NEW f \in Fetchers, FfmpegEnds(f)
    PROVE  YouTubeInv'
<1> DEFINE n == fetch[f].next
<1>1. /\ fetch'[f].pc = "exit" /\ fetch'[f].in = NoFile
      /\ \A g \in Fetchers : g # f => fetch'[g] = fetch[g]
  BY GotoMoves DEF FfmpegEnds
<1>2. raw' = raw /\ pcm' = pcm /\ content' = content
  BY DEF FfmpegEnds, nameVars
<1>3. n = ChunkCount + 1
  BY TranscoderFiles, FetchAssumption
     DEF FfmpegEnds, YouTubeInv, SourcesWhole, Chunks
<1>4. SourcesWhole'
  BY <1>1, <1>2 DEF YouTubeInv, SourcesWhole, Whole
<1>5. OutputsApart'
  BY <1>1, <1>2, TranscoderFiles DEF YouTubeInv, OutputsApart
<1>6. PcmOnItsWay'
  <2>1. ASSUME NEW g \in Fetchers, fetch[g].pc = "droppcm", pcm # NoFile
        PROVE  fetch'[g].pc = "droppcm"
    BY <2>1, <1>1 DEF FfmpegEnds
  <2>2. ASSUME NEW g \in Fetchers, WritesInto(g, pcm), pcm # NoFile
        PROVE  content'[pcm] = Chunks \/ WritesInto(g, pcm)'
    <3>1. CASE g = f
      <4>1. n - 1 = ChunkCount
        BY <1>3, FetchAssumption
      <4>2. Chunks \subseteq content[pcm]
        BY <4>1, <3>1, <2>2 DEF WritesInto, Chunks
      <4>3. content[pcm] \subseteq Chunks
        BY <2>2 DEF TypeOK, Handles
      <4> QED BY <4>2, <4>3, <1>2
    <3>2. CASE g # f
      BY <3>2, <2>2, <1>1, <1>2 DEF WritesInto
    <3> QED BY <3>1, <3>2
  <2> QED BY <2>1, <2>2, <1>2 DEF YouTubeInv, PcmOnItsWay
<1> QED BY <1>4, <1>5, <1>6 DEF YouTubeInv

\* The conversion that fails is about to remove the .pcm.
LEMMA FfmpegFailsKeepsYouTube ==
    ASSUME TypeOK, YouTubeInv, platform = "YOUTUBE", crashes = 0,
           NEW f \in Fetchers, FfmpegFails(f)
    PROVE  YouTubeInv'
<1>1. /\ fetch'[f].pc = "droppcm" /\ fetch'[f].in = NoFile
      /\ \A g \in Fetchers : g # f => fetch'[g] = fetch[g]
  BY GotoMoves DEF FfmpegFails
<1>2. raw' = raw /\ pcm' = pcm /\ content' = content
  BY DEF FfmpegFails, nameVars
<1>3. SourcesWhole'
  BY <1>1, <1>2 DEF YouTubeInv, SourcesWhole, Whole
<1>4. OutputsApart'
  BY <1>1, <1>2, TranscoderFiles DEF YouTubeInv, OutputsApart
<1>5. PcmOnItsWay'
  BY <1>1 DEF PcmOnItsWay
<1> QED BY <1>3, <1>4, <1>5 DEF YouTubeInv

LEMMA DropsPcmKeepsYouTube ==
    ASSUME TypeOK, YouTubeInv, platform = "YOUTUBE", crashes = 0,
           NEW f \in Fetchers, DropsPcm(f)
    PROVE  YouTubeInv'
<1>1. /\ fetch'[f].pc = "idle" /\ fetch'[f].in = NoFile
      /\ \A g \in Fetchers : g # f => fetch'[g] = fetch[g]
  BY GotoMoves DEF DropsPcm, Fails
<1>2. raw' = raw /\ pcm' = NoFile /\ content' = content
  BY DEF DropsPcm
<1>3. SourcesWhole'
  BY <1>1, <1>2 DEF YouTubeInv, SourcesWhole, Whole
<1>4. OutputsApart'
  BY <1>1, <1>2, TranscoderFiles DEF YouTubeInv, OutputsApart
<1>5. PcmOnItsWay'
  BY <1>2 DEF PcmOnItsWay
<1> QED BY <1>3, <1>4, <1>5 DEF YouTubeInv

LEMMA YouTubeStep ==
    ASSUME TypeOK, YouTubeInv, NEW f \in Fetchers,
           StartFetch(f) \/ Proceeds(f) \/ Arrives(f)
    PROVE  YouTubeInv'
<1>0. platform' = platform /\ crashes' = crashes
  BY DEF Proceeds, Arrives, StartFetch, LooksForPcm, LooksForRaw, OpensRaw,
         OpenFails, DownloadEnds, DownloadTimesOut, ChecksSize, DropsRaw, YtDlp,
         FindsInput, FfmpegStarts, FfmpegFindsNothing, FfmpegEnds, FfmpegFails,
         DropsPcm, FindsOutput, Loads, LoadFails, WritesChunk, DownloadIsCut,
         FfmpegWrites, boundVars
<1> SUFFICES ASSUME platform = "YOUTUBE", crashes = 0 PROVE YouTubeInv'
  BY <1>0 DEF YouTubeInv
<1>1. fetch[f].pc \notin {"download", "size", "dropraw"}
  BY DEF YouTubeInv, SourcesWhole
<1>2. CASE StartFetch(f)
  BY <1>2, MoveKeepsYouTube DEF StartFetch, Places, nameVars
<1>3. CASE LooksForPcm(f)
  BY <1>3, MoveKeepsYouTube DEF LooksForPcm, Places, nameVars
<1>4. CASE LooksForRaw(f)
  BY <1>4, MoveKeepsYouTube DEF LooksForRaw, Places, nameVars
<1>5. CASE OpenFails(f)
  BY <1>5, MoveKeepsYouTube DEF OpenFails, Fails, Places, nameVars
<1>6. CASE FindsInput(f)
  BY <1>6, MoveKeepsYouTube DEF FindsInput, Fails, Places, nameVars
<1>7. CASE FfmpegFindsNothing(f)
  BY <1>7, MoveKeepsYouTube DEF FfmpegFindsNothing, Places, nameVars
<1>8. CASE FindsOutput(f)
  BY <1>8, MoveKeepsYouTube DEF FindsOutput, Fails, Places, nameVars
<1>9. CASE Loads(f)
  BY <1>9, MoveKeepsYouTube DEF Loads, Places, nameVars
<1>10. CASE LoadFails(f)
  BY <1>10, MoveKeepsYouTube DEF LoadFails, Fails, Places, nameVars
<1>11. ~ (OpensRaw(f) \/ WritesChunk(f) \/ DownloadEnds(f) \/ DownloadIsCut(f)
            \/ DownloadTimesOut(f) \/ ChecksSize(f) \/ DropsRaw(f))
  BY <1>1 DEF OpensRaw, WritesChunk, DownloadEnds, DownloadIsCut,
              DownloadTimesOut, ChecksSize, DropsRaw
<1> QED
  BY <1>2, <1>3, <1>4, <1>5, <1>6, <1>7, <1>8, <1>9, <1>10, <1>11,
     YtDlpKeepsYouTube, FfmpegStartsKeepsYouTube, FfmpegWritesKeepsYouTube,
     FfmpegEndsKeepsYouTube, FfmpegFailsKeepsYouTube, DropsPcmKeepsYouTube
     DEF Proceeds, Arrives

\* Whatever fetches of a YouTube video overlap, and in whatever steps, a .pcm
\* that is not whole does not outlive them: it is being written or about to be
\* removed.
THEOREM PartialPcmIsTemporary == Spec => []PartialIsTemporary
<1>1. YouTubeInv => PartialIsTemporary
  BY DEF YouTubeInv, PcmOnItsWay, WritesInto, PartialIsTemporary, Whole
<1>2. TypeOK /\ YouTubeInv /\ [Next]_vars => YouTubeInv'
  <2>1. ASSUME TypeOK, YouTubeInv, Crash PROVE YouTubeInv'
    BY <2>1 DEF Crash, TypeOK, YouTubeInv
  <2>2. ASSUME YouTubeInv, UNCHANGED vars PROVE YouTubeInv'
    BY <2>2 DEF vars, nameVars, boundVars, YouTubeInv, SourcesWhole,
                OutputsApart, PcmOnItsWay, WritesInto, Whole
  <2> QED BY <2>1, <2>2, YouTubeStep DEF Next
<1> QED BY <1>1, <1>2, YouTubeInit, TypeCorrect, PTL DEF Spec

-----------------------------------------------------------------------------
\* One fetch at a time, of either platform.

LEMMA SizeOfPrefix ==
    ASSUME NEW k \in Nat
    PROVE  Size(1 .. k) = k
<1>1. CASE k = 0
  BY <1>1 DEF Size
<1>2. CASE k # 0
  <2>1. k \in 1 .. k /\ \A j \in 1 .. k : j <= k
    BY <1>2
  <2>2. \A n \in 1 .. k : (\A j \in 1 .. k : j <= n) => n = k
    BY <2>1
  <2>3. (CHOOSE n \in 1 .. k : \A j \in 1 .. k : j <= n) = k
    BY <2>1, <2>2
  <2> QED BY <2>1, <2>3 DEF Size
<1> QED BY <1>1, <1>2

\* What the place of the one fetch says of the files.
FilesAt(f) ==
    LET pc == fetch[f].pc IN
    /\ pc \in {"lookraw", "open", "download", "size", "dropraw", "convert",
               "ffmpeg"} => pcm = NoFile
    /\ pc \in {"look", "exit", "load"} => Whole(pcm)
    /\ pc \notin {"download", "size", "dropraw"} => Whole(raw)
    /\ pc = "open" => raw = NoFile
    /\ pc \in {"download", "size"} => /\ raw = fetch[f].out
                                     /\ content[raw] = 1 .. fetch[f].next - 1
    /\ pc = "transcode" => /\ raw = fetch[f].in /\ pcm = fetch[f].out
                           /\ raw # pcm
                           /\ content[pcm] = 1 .. fetch[f].next - 1

OneFetch ==
    /\ \A f, g \in Fetchers : fetch[f].pc # "idle" /\ fetch[g].pc # "idle" => f = g
    /\ \A f \in Fetchers : fetch[f].pc # "idle" => FilesAt(f)
    /\ ~Running => Whole(raw) /\ Whole(pcm)
    /\ served \subseteq {Chunks}

AloneInv == Undisturbed /\ ~cut => OneFetch

LEMMA AloneInit == Init => AloneInv
BY DEF Init, AloneInv, OneFetch, Whole, Running, At

\* After a step of f, where the others are idle, it is enough to look at f.
LEMMA OneFetchKept ==
    ASSUME NEW f \in Fetchers,
           \A g \in Fetchers : g # f => fetch[g].pc = "idle" /\ fetch'[g] = fetch[g],
           fetch'[f].pc # "idle" => FilesAt(f)',
           fetch'[f].pc = "idle" => Whole(raw)' /\ Whole(pcm)',
           served' \subseteq {Chunks}
    PROVE  OneFetch'
<1>1. \A g \in Fetchers : fetch'[g].pc # "idle" => g = f
  OBVIOUS
<1>2. ~Running' => fetch'[f].pc = "idle"
  BY DEF Running
<1>3. ASSUME NEW g \in Fetchers, fetch'[g].pc # "idle" PROVE FilesAt(g)'
  BY <1>1, <1>3
<1> QED BY <1>1, <1>2, <1>3 DEF OneFetch

\* The steps of a fetch that is under way.
LEMMA OneFetchStep ==
    ASSUME TypeOK, OneFetch, NEW f \in Fetchers, fetch[f].pc # "idle",
           Proceeds(f) \/ Arrives(f), ~cut'
    PROVE  OneFetch'
<1> USE FetchAssumption
<1>1. /\ \A g \in Fetchers : g # f => fetch[g].pc = "idle"
      /\ FilesAt(f) /\ served \subseteq {Chunks}
  BY DEF OneFetch
\* A step that only moves the fetch, and what is left to show of it.
<1>2. ASSUME NEW pc \in Places, Goto(f, pc), served' \subseteq {Chunks},
             UNCHANGED <<nameVars, content>>,
             pc \in {"lookraw", "open", "dropraw", "convert", "ffmpeg"}
               => pcm = NoFile,
             pc \in {"idle", "look", "exit", "load"} => Whole(pcm),
             pc # "dropraw" => Whole(raw),
             pc = "open" => raw = NoFile
      PROVE  OneFetch'
  <2>1. fetch'[f].pc = pc /\ \A g \in Fetchers : g # f => fetch'[g] = fetch[g]
    BY <1>2, GotoMoves
  <2>2. FilesAt(f)'
    BY <1>2, <2>1 DEF FilesAt, Whole, nameVars, Places
  <2>3. fetch'[f].pc = "idle" => Whole(raw)' /\ Whole(pcm)'
    BY <1>2, <2>1 DEF Whole, nameVars
  <2> QED BY <1>1, <1>2, <2>1, <2>2, <2>3, OneFetchKept
<1>3. CASE LooksForPcm(f)
  BY <1>3, <1>1, <1>2 DEF LooksForPcm, FilesAt, Whole, Places, historyVars
<1>4. CASE LooksForRaw(f)
  BY <1>4, <1>1, <1>2 DEF LooksForRaw, FilesAt, Whole, Places, historyVars
<1>5. CASE OpensRaw(f)
  <2>1. PICK id \in FileIds :
          /\ OpensForWriting(raw, id)
          /\ raw' = id
          /\ content' = [content EXCEPT ![id] = {}]
          /\ fetch' = [fetch EXCEPT ![f] = [At("download") EXCEPT !.out = id]]
    BY <1>5 DEF OpensRaw
  <2>2. /\ fetch'[f].pc = "download" /\ fetch'[f].out = id /\ fetch'[f].next = 1
        /\ \A g \in Fetchers : g # f => fetch'[g] = fetch[g]
    BY <2>1 DEF At, TypeOK
  <2>3. pcm' = NoFile /\ served' = served
    BY <1>5, <1>1 DEF OpensRaw, FilesAt, historyVars
  <2>4. content'[raw'] = 1 .. 1 - 1
    BY <2>1 DEF TypeOK
  <2>5. FilesAt(f)'
    BY <2>1, <2>2, <2>3, <2>4 DEF FilesAt
  <2> QED BY <1>1, <2>2, <2>3, <2>5, OneFetchKept
<1>6. CASE OpenFails(f)
  BY <1>6, <1>1, <1>2 DEF OpenFails, Fails, FilesAt, Whole, Places, historyVars
<1>7. CASE WritesChunk(f)
  <2> DEFINE n == fetch[f].next
  <2>1. /\ raw = fetch[f].out /\ raw \in FileIds /\ n \in Chunks
        /\ content[raw] = 1 .. n - 1 /\ pcm = NoFile
    BY <1>7, <1>1, FetchShape DEF WritesChunk, FilesAt, TypeOK, Chunks
  <2>2. /\ fetch'[f].pc = "download" /\ fetch'[f].out = raw
        /\ fetch'[f].next = n + 1
        /\ \A g \in Fetchers : g # f => fetch'[g] = fetch[g]
    BY <1>7, <2>1, NextChunk DEF WritesChunk
  <2>3. raw' = raw /\ pcm' = NoFile /\ served' = served
    BY <1>7, <2>1 DEF WritesChunk, nameVars, historyVars
  <2>4. content'[raw] = content[raw] \cup {n}
    BY <1>7, <2>1 DEF WritesChunk, TypeOK
  <2>5. (1 .. n - 1) \cup {n} = 1 .. (n + 1) - 1
    BY <2>1 DEF Chunks
  <2>6. FilesAt(f)'
    BY <2>1, <2>2, <2>3, <2>4, <2>5 DEF FilesAt
  <2> QED BY <1>1, <2>2, <2>3, <2>6, OneFetchKept
<1>8. CASE DownloadEnds(f) \/ DownloadIsCut(f)
  <2>1. /\ fetch[f].pc = "download" /\ raw = fetch[f].out /\ pcm = NoFile
        /\ fetch[f].next \in 1 .. ChunkCount + 1
        /\ content[raw] = 1 .. fetch[f].next - 1
    BY <1>8, <1>1, FetchShape DEF DownloadEnds, DownloadIsCut, FilesAt, TypeOK
  <2>2. UNCHANGED <<nameVars, content, served>>
    BY <1>8 DEF DownloadEnds, DownloadIsCut, historyVars
  <2>3. CASE ToSize(f)
    <3>1. /\ fetch'[f].pc = "size" /\ fetch'[f].out = fetch[f].out
          /\ fetch'[f].next = fetch[f].next
          /\ \A g \in Fetchers : g # f => fetch'[g] = fetch[g]
      BY <2>1, <2>3, ToSizeMoves
    <3>2. FilesAt(f)'
      BY <2>1, <2>2, <3>1 DEF FilesAt, nameVars
    <3> QED BY <1>1, <2>2, <3>1, <3>2, OneFetchKept
  <2>4. CASE ~ToSize(f)
    <3>1. DownloadEnds(f) /\ Goto(f, "convert") /\ fetch[f].next > ChunkCount
      BY <1>8, <2>4 DEF DownloadEnds, DownloadIsCut
    <3>2. fetch[f].next - 1 = ChunkCount
      BY <2>1, <3>1
    <3>3. Whole(raw)
      BY <2>1, <3>2 DEF Whole, Chunks
    <3> QED BY <1>1, <1>2, <2>1, <2>2, <3>1, <3>3 DEF Places
  <2> QED BY <2>3, <2>4
<1>9. CASE DownloadTimesOut(f)
  BY <1>9, <1>1, <1>2 DEF DownloadTimesOut, FilesAt, Places, historyVars
<1>10. CASE ChecksSize(f)
  <2>1. PICK k \in 0 .. ChunkCount : content[raw] = 1 .. k
    <3>1. /\ fetch[f].next \in 1 .. ChunkCount + 1
          /\ content[raw] = 1 .. fetch[f].next - 1
      BY <1>10, <1>1, FetchShape DEF ChecksSize, FilesAt, TypeOK
    <3>2. fetch[f].next - 1 \in 0 .. ChunkCount
      BY <3>1
    <3> QED BY <3>1, <3>2
  <2>2. Size(content[raw]) = k
    BY <2>1, SizeOfPrefix
  <2>3. raw # NoFile /\ pcm = NoFile
    BY <1>10, <1>1, FetchShape DEF ChecksSize, FilesAt, TypeOK
  <2>4. \/ Goto(f, "convert") /\ content[raw] = Chunks
        \/ Goto(f, "dropraw")
    BY <1>10, <2>1, <2>2, <2>3 DEF ChecksSize, Chunks
  <2> QED BY <1>10, <1>1, <1>2, <2>3, <2>4
          DEF ChecksSize, Whole, Places, historyVars
<1>11. CASE DropsRaw(f)
  <2>1. fetch'[f].pc = "idle" /\ \A g \in Fetchers : g # f => fetch'[g] = fetch[g]
    BY <1>11, GotoMoves DEF DropsRaw, Fails
  <2>2. raw' = NoFile /\ pcm' = NoFile /\ served' = served
    BY <1>11, <1>1 DEF DropsRaw, FilesAt, historyVars
  <2> QED BY <1>1, <2>1, <2>2, OneFetchKept DEF Whole
<1>12. CASE YtDlp(f)
  <2>1. /\ fetch'[f].pc \in {"convert", "idle"}
        /\ \A g \in Fetchers : g # f => fetch'[g] = fetch[g]
    BY <1>12, GotoMoves DEF YtDlp, Fails
  <2>2. pcm' = NoFile /\ content'[raw'] = Chunks /\ served' = served
    BY <1>12, <1>1 DEF YtDlp, FilesAt, TypeOK, historyVars
  <2>3. FilesAt(f)' \/ fetch'[f].pc = "idle"
    BY <2>1, <2>2 DEF FilesAt, Whole
  <2> QED BY <1>1, <2>1, <2>2, <2>3, OneFetchKept DEF Whole
<1>13. CASE FindsInput(f)
  BY <1>13, <1>1, <1>2 DEF FindsInput, Fails, FilesAt, Whole, Places, historyVars
<1>14. CASE FfmpegStarts(f)
  <2>1. PICK id \in FileIds :
          /\ OpensForWriting(pcm, id)
          /\ pcm' = id
          /\ content' = [content EXCEPT ![id] = {}]
          /\ fetch' = [fetch EXCEPT ![f] = [pc |-> "transcode", in |-> raw,
                                            out |-> id, next |-> 1]]
    BY <1>14 DEF FfmpegStarts
  <2>2. /\ fetch'[f].pc = "transcode" /\ fetch'[f].in = raw
        /\ fetch'[f].out = id /\ fetch'[f].next = 1
        /\ \A g \in Fetchers : g # f => fetch'[g] = fetch[g]
    BY <2>1 DEF TypeOK
  <2>3. pcm = NoFile /\ Whole(raw) /\ raw' = raw /\ raw \in FileIds
        /\ served' = served
    BY <1>14, <1>1 DEF FfmpegStarts, FilesAt, TypeOK, Handles, historyVars
  <2>4. id # raw
    BY <2>1, <2>3 DEF OpensForWriting, InUse
  <2>5. content'[id] = 1 .. 1 - 1 /\ content'[raw] = content[raw]
    BY <2>1, <2>3, <2>4 DEF TypeOK
  <2>6. FilesAt(f)'
    BY <2>1, <2>2, <2>3, <2>4, <2>5 DEF FilesAt, Whole
  <2> QED BY <1>1, <2>2, <2>3, <2>6, OneFetchKept
<1>15. CASE FfmpegFindsNothing(f)
  BY <1>15, <1>1, <1>2 DEF FfmpegFindsNothing, FilesAt, Whole, Places, historyVars
<1>16. CASE FfmpegWrites(f)
  <2> DEFINE n == fetch[f].next
  <2>1. /\ raw = fetch[f].in /\ raw # NoFile /\ pcm = fetch[f].out
        /\ raw # pcm /\ pcm \in FileIds /\ raw \in FileIds
        /\ content[raw] = Chunks /\ content[pcm] = 1 .. n - 1
    BY <1>16, <1>1, TranscoderFiles DEF FfmpegWrites, FilesAt, Whole
  <2>2. n \in Chunks /\ n <= ChunkCount
    BY <1>16, <2>1 DEF FfmpegWrites, Chunks
  <2>3. /\ fetch'[f].pc = "transcode" /\ fetch'[f].in = raw
        /\ fetch'[f].out = pcm /\ fetch'[f].next = n + 1
        /\ \A g \in Fetchers : g # f => fetch'[g] = fetch[g]
    BY <1>16, <2>1, <2>2, NextChunk DEF FfmpegWrites
  <2>4. raw' = raw /\ pcm' = pcm /\ served' = served
    BY <1>16 DEF FfmpegWrites, nameVars, historyVars
  <2>5. content'[pcm] = content[pcm] \cup {n} /\ content'[raw] = content[raw]
    BY <1>16, <2>1 DEF FfmpegWrites, TypeOK
  <2>6. (1 .. n - 1) \cup {n} = 1 .. (n + 1) - 1
    BY <2>2 DEF Chunks
  <2>7. FilesAt(f)'
    BY <2>1, <2>3, <2>4, <2>5, <2>6 DEF FilesAt, Whole
  <2> QED BY <1>1, <2>3, <2>4, <2>7, OneFetchKept
<1>17. CASE FfmpegEnds(f)
  <2> DEFINE n == fetch[f].next
  <2>1. /\ raw = fetch[f].in /\ raw # NoFile /\ n \in 1 .. ChunkCount + 1
        /\ content[raw] = Chunks /\ content[pcm] = 1 .. n - 1
    BY <1>17, <1>1, TranscoderFiles DEF FfmpegEnds, FilesAt, Whole
  <2>2. n - 1 = ChunkCount
    BY <1>17, <2>1 DEF FfmpegEnds, Chunks
  <2>3. Whole(pcm) /\ Whole(raw)
    BY <2>1, <2>2 DEF Whole, Chunks
  <2> QED BY <1>17, <1>1, <1>2, <2>3 DEF FfmpegEnds, Places, historyVars
<1>18. CASE FfmpegFails(f)
  BY <1>18, <1>1, <1>2 DEF FfmpegFails, FilesAt, Places, historyVars
<1>19. CASE DropsPcm(f)
  <2>1. fetch'[f].pc = "idle" /\ \A g \in Fetchers : g # f => fetch'[g] = fetch[g]
    BY <1>19, GotoMoves DEF DropsPcm, Fails
  <2>2. Whole(raw)' /\ pcm' = NoFile /\ served' = served
    BY <1>19, <1>1 DEF DropsPcm, FilesAt, Whole, historyVars
  <2> QED BY <1>1, <2>1, <2>2, OneFetchKept DEF Whole
<1>20. CASE FindsOutput(f)
  BY <1>20, <1>1, <1>2 DEF FindsOutput, Fails, FilesAt, Whole, Places, historyVars
<1>21. CASE Loads(f)
  BY <1>21, <1>1, <1>2 DEF Loads, FilesAt, Whole, Places
<1>22. CASE LoadFails(f)
  BY <1>22, <1>1, <1>2 DEF LoadFails, Fails, FilesAt, Whole, Places, historyVars
<1> QED
  BY <1>3, <1>4, <1>5, <1>6, <1>7, <1>8, <1>9, <1>10, <1>11, <1>12, <1>13,
     <1>14, <1>15, <1>16, <1>17, <1>18, <1>19, <1>20, <1>21, <1>22
     DEF Proceeds, Arrives

\* A step that is no crash, while no two fetches have overlapped.
LEMMA AloneStep ==
    ASSUME TypeOK, OneFetch, NEW f \in Fetchers,
           StartFetch(f) \/ Proceeds(f) \/ Arrives(f), ~overlapped', ~cut'
    PROVE  OneFetch'
<1>1. CASE StartFetch(f)
  <2>1. \A g \in Fetchers : fetch[g].pc = "idle"
    BY <1>1 DEF StartFetch
  <2>2. OneFetch /\ Whole(raw) /\ Whole(pcm)
    BY <1>1, <2>1 DEF StartFetch, OneFetch, Running
  <2>3. /\ fetch'[f].pc = "look"
        /\ \A g \in Fetchers : g # f => fetch'[g] = fetch[g]
    BY <1>1, GotoMoves DEF StartFetch
  <2>4. /\ raw' = raw /\ pcm' = pcm /\ content' = content /\ served' = served
    BY <1>1 DEF StartFetch, nameVars
  <2>5. FilesAt(f)'
    BY <2>2, <2>3, <2>4 DEF FilesAt, Whole
  <2>6. served' \subseteq {Chunks}
    BY <2>2, <2>4 DEF OneFetch
  <2> QED BY <2>1, <2>3, <2>5, <2>6, OneFetchKept
<1>2. CASE Proceeds(f) \/ Arrives(f)
  <2>1. fetch[f].pc # "idle"
    BY <1>2
       DEF Proceeds, Arrives, LooksForPcm, LooksForRaw, OpensRaw, OpenFails,
           DownloadEnds, DownloadTimesOut, ChecksSize, DropsRaw, YtDlp,
           FindsInput, FfmpegStarts, FfmpegFindsNothing, FfmpegEnds,
           FfmpegFails, DropsPcm, FindsOutput, Loads, LoadFails, WritesChunk,
           DownloadIsCut, FfmpegWrites
  <2> QED BY <1>2, <2>1, OneFetchStep
<1> QED BY <1>1, <1>2

\* What was never cut short or disturbed stays so looking back.
LEMMA HistoryStays ==
    ASSUME TypeOK, [Next]_vars
    PROVE  /\ ~overlapped' => ~overlapped
           /\ ~cut' => ~cut
           /\ crashes' = 0 => crashes = 0 /\ ~Crash
<1>1. ASSUME NEW f \in Fetchers, StartFetch(f) \/ Proceeds(f) \/ Arrives(f)
      PROVE  /\ ~overlapped' => ~overlapped
             /\ ~cut' => ~cut
             /\ crashes' = crashes
  BY <1>1
     DEF StartFetch, Proceeds, Arrives, LooksForPcm, LooksForRaw, OpensRaw,
         OpenFails, DownloadEnds, DownloadTimesOut, ChecksSize, DropsRaw, YtDlp,
         FindsInput, FfmpegStarts, FfmpegFindsNothing, FfmpegEnds, FfmpegFails,
         DropsPcm, FindsOutput, Loads, LoadFails, WritesChunk, DownloadIsCut,
         FfmpegWrites, boundVars, historyVars, TypeOK
<1>2. Crash => /\ overlapped' = overlapped /\ cut' = cut
               /\ crashes' = crashes + 1 /\ crashes' # 0
  BY FetchAssumption DEF Crash, historyVars, TypeOK
<1>3. UNCHANGED vars => UNCHANGED <<overlapped, cut, crashes>>
  BY DEF vars, boundVars, historyVars
<1>4. Crash => crashes' # crashes
  BY <1>2 DEF TypeOK
<1> QED BY <1>1, <1>2, <1>3, <1>4 DEF Next

LEMMA OneFetchStutters ==
    ASSUME OneFetch, UNCHANGED vars
    PROVE  OneFetch'
BY DEF vars, nameVars, historyVars, OneFetch, FilesAt, Running, Whole

LEMMA AloneAlways == Spec => []AloneInv
<1>1. TypeOK /\ AloneInv /\ [Next]_vars => AloneInv'
  <2> SUFFICES ASSUME TypeOK, AloneInv, [Next]_vars, (Undisturbed /\ ~cut)'
               PROVE  OneFetch'
    BY DEF AloneInv
  <2>1. ~overlapped' /\ ~cut' /\ crashes' = 0
    BY DEF Undisturbed
  <2>2. OneFetch /\ ~Crash
    BY <2>1, HistoryStays DEF AloneInv, Undisturbed
  <2> QED BY <2>1, <2>2, AloneStep, OneFetchStutters DEF Next
<1> QED BY <1>1, AloneInit, TypeCorrect, PTL DEF Spec

\* However a fetch that runs alone ends, the files it leaves are whole.
THEOREM CacheIsClean == Spec => []CacheCleanAtRest
<1>1. AloneInv => CacheCleanAtRest
  BY DEF AloneInv, OneFetch, CacheCleanAtRest
<1> QED BY <1>1, AloneAlways, PTL

\* Fetches that run one at a time, in any number, serve the whole audio only.
THEOREM WholeIsServed == Spec => []ServesWhole
<1>1. AloneInv => ServesWhole
  BY DEF AloneInv, OneFetch, ServesWhole
<1> QED BY <1>1, AloneAlways, PTL

-----------------------------------------------------------------------------
\* Crashes that spare the writers.

\* The process dies, but in no fetch that has a file half written.
SparesWriters ==
    Crash => \A f \in Fetchers :
               fetch[f].pc \notin {"download", "size", "dropraw", "transcode",
                                  "droppcm"}

SparedInv == ~overlapped /\ ~cut => OneFetch

\* Then what is left is whole, as when no fetch runs.
LEMMA SparedCrash ==
    ASSUME TypeOK, OneFetch, Crash, SparesWriters
    PROVE  OneFetch'
<1>1. Whole(raw) /\ Whole(pcm)
  <2>1. CASE Running
    <3>1. PICK f \in Fetchers : fetch[f].pc # "idle"
      BY <2>1 DEF Running
    <3>2. /\ FilesAt(f)
          /\ fetch[f].pc \in {"look", "lookraw", "open", "convert", "ffmpeg",
                              "exit", "load"}
      BY <3>1, FetchShape DEF OneFetch, SparesWriters, TypeOK, Places
    <3> QED BY <3>2 DEF FilesAt, Whole
  <2>2. CASE ~Running
    BY <2>2 DEF OneFetch
  <2> QED BY <2>1, <2>2
<1>2. /\ UNCHANGED <<raw, pcm, content, served>>
      /\ \A f \in Fetchers : fetch'[f].pc = "idle"
  BY DEF Crash, nameVars, historyVars, At
<1> QED BY <1>1, <1>2 DEF OneFetch, Whole

LEMMA SparedAlways == Spec /\ [][SparesWriters]_vars => []SparedInv
<1>1. Init => SparedInv
  BY AloneInit DEF Init, AloneInv, Undisturbed, SparedInv
<1>2. TypeOK /\ SparedInv /\ [Next]_vars /\ [SparesWriters]_vars => SparedInv'
  <2> SUFFICES ASSUME TypeOK, SparedInv, [Next]_vars, [SparesWriters]_vars,
                      ~overlapped', ~cut'
               PROVE  OneFetch'
    BY DEF SparedInv
  <2>1. OneFetch
    BY HistoryStays DEF SparedInv
  <2>2. ASSUME Crash PROVE OneFetch'
    <3>1. SparesWriters
      BY <2>2, FetchAssumption
         DEF Crash, SparesWriters, TypeOK, vars, boundVars
    <3> QED BY <2>1, <2>2, <3>1, SparedCrash
  <2> QED BY <2>1, <2>2, AloneStep, OneFetchStutters DEF Next
<1> QED BY <1>1, <1>2, TypeCorrect, PTL DEF Spec

\* However often the process dies and starts again: as long as no crash meets a
\* fetch with a file half written, one fetch at a time leaves whole files or
\* none and serves the whole audio.  A crash during the download or ffmpeg is
\* all that can leave a part behind, since both write in place under the final
\* name (FetchManager.cpp:299, 394).
THEOREM OnlyWritersCrashBadly ==
    Spec /\ [][SparesWriters]_vars =>
      [](~overlapped /\ ~cut =>
           /\ ~Running => Whole(raw) /\ Whole(pcm)
           /\ served \subseteq {Chunks})
<1>1. SparedInv => (~overlapped /\ ~cut =>
                      /\ ~Running => Whole(raw) /\ Whole(pcm)
                      /\ served \subseteq {Chunks})
  BY DEF SparedInv, OneFetch
<1> QED BY <1>1, SparedAlways, PTL

===============================================================================
