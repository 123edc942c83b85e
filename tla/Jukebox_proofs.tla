---------------------------- MODULE Jukebox_proofs ----------------------------
(***************************************************************************)
(* Proofs that every byte of a clip is mixed exactly once, and that what   *)
(* VoicePlayback lets listeners hear is the jukebox of module Jukebox, for *)
(* every value of the constants.                                           *)
(***************************************************************************)
EXTENDS VoicePlayback_proofs, SequenceTheorems

\* What was mixed of clip id: heard, lost, or in the hands of the tick
Mixed(id) == ledger[id].heard + ledger[id].lost + BytesHeld(id)

\* A registered clip is in the ledger, mixed as far as its position says.
Accounted ==
    \A r \in Registered : /\ r.id \in DOMAIN ledger
                          /\ r.size = ledger[r.id].size
                          /\ Mixed(r.id) = r.position

\* A clip that left its track by itself has been mixed to its end.
GoneWhole ==
    \A id \in DOMAIN ledger :
        id \notin QueuedIds \cup discarded => Mixed(id) = ledger[id].size

NotTooMuch == \A id \in DOMAIN ledger : Mixed(id) <= ledger[id].size

\* No clip is in both tracks, and no effect twice in its own.
TracksApart ==
    /\ \A i \in DOMAIN song_track : ledger[song_track[i].id].type = "SONG"
    /\ \A e \in audio_track : ledger[e.id].type = "AUDIO_EFFECT"
    /\ \A e, f \in audio_track : e.id = f.id => e = f

\* The tick holds audio only between step() and what it does with it.
HeldByTick ==
    /\ audio # {} => tick_pc = "route"
    /\ \A c \in audio : c.id \in DOMAIN ledger /\ c.bytes <= StepSize

\* Nothing of a song was mixed as long as an earlier one waits, plays, or has
\* a part in the tick's hands.
SongsTakeTurns ==
    \A i, j \in DOMAIN ledger :
        /\ ledger[i].type = "SONG" /\ ledger[j].type = "SONG" /\ i < j
        /\ i \in QueuedIds \/ BytesHeld(i) > 0
        => Mixed(j) = 0

MixInv ==
    /\ Accounted /\ GoneWhole /\ NotTooMuch
    /\ TracksApart /\ HeldByTick /\ SongsTakeTurns

-----------------------------------------------------------------------------

LEMMA QueuedIdsRegistered ==
    /\ QueuedIds = {r.id : r \in Registered}
    /\ QueuedIds' = {r.id : r \in Registered'}
BY DEF QueuedIds, Registered

LEMMA LedgerFields ==
    ASSUME TypeOK, NEW id \in DOMAIN ledger
    PROVE  /\ ledger[id].heard \in Nat /\ ledger[id].lost \in Nat
           /\ ledger[id].size \in Nat /\ id \in Nat /\ id <= Len(ledger)
           /\ BytesHeld(id) \in Nat /\ Mixed(id) \in Nat
<1>1. ledger[id] \in LedgerEntry /\ id \in Nat /\ id <= Len(ledger)
  BY DEF TypeOK
<1>2. BytesHeld(id) \in Nat
  BY BytesHeldType DEF TypeOK
<1>3. ledger[id].heard \in Nat /\ ledger[id].lost \in Nat
      /\ ledger[id].size \in Nat
  BY <1>1 DEF LedgerEntry
<1>4. QED
  BY <1>1, <1>2, <1>3 DEF Mixed

LEMMA NothingHeld ==
    ASSUME NEW id
    PROVE  /\ audio = {} => BytesHeld(id) = 0
           /\ audio' = {} => BytesHeld(id)' = 0
BY DEF BytesHeld

\* Whatever becomes of the held audio, what was mixed of a clip is the same.
LEMMA MixedKept ==
    ASSUME TypeOK,
           \/ (Heard \/ Lost) /\ audio' = {}
           \/ UNCHANGED <<ledger, audio>>
    PROVE  /\ DOMAIN ledger' = DOMAIN ledger
           /\ \A id \in DOMAIN ledger :
                /\ ledger'[id].type = ledger[id].type
                /\ ledger'[id].size = ledger[id].size
                /\ Mixed(id)' = Mixed(id)
                /\ BytesHeld(id)' = 0 \/ BytesHeld(id)' = BytesHeld(id)
<1>1. CASE UNCHANGED <<ledger, audio>>
  BY <1>1 DEF Mixed, BytesHeld
<1>2. CASE (Heard \/ Lost) /\ audio' = {}
  <2>1. DOMAIN ledger' = DOMAIN ledger
    BY <1>2 DEF Heard, Lost
  <2>2. ASSUME NEW id \in DOMAIN ledger
        PROVE  /\ ledger'[id].type = ledger[id].type
               /\ ledger'[id].size = ledger[id].size
               /\ Mixed(id)' = Mixed(id)
               /\ BytesHeld(id)' = 0
    <3>1. BytesHeld(id)' = 0
      BY <1>2, NothingHeld
    <3>2. ledger[id] \in LedgerEntry /\ BytesHeld(id) \in Nat
      BY LedgerFields DEF TypeOK
    <3>3. /\ ledger'[id].type = ledger[id].type
          /\ ledger'[id].size = ledger[id].size
          /\ \/ /\ ledger'[id].heard = ledger[id].heard + BytesHeld(id)
                /\ ledger'[id].lost = ledger[id].lost
             \/ /\ ledger'[id].heard = ledger[id].heard
                /\ ledger'[id].lost = ledger[id].lost + BytesHeld(id)
      BY <1>2, <3>2 DEF Heard, Lost, LedgerEntry
    <3>4. Mixed(id)' = Mixed(id)
      BY <3>1, <3>3, LedgerFields DEF Mixed
    <3>5. QED
      BY <3>1, <3>3, <3>4
  <2>3. QED
    BY <2>1, <2>2
<1>3. QED
  BY <1>1, <1>2

\* The tracks stay as they are, and the tick's audio too or it is put down.
LEMMA PutDownKeeps ==
    ASSUME TypeOK, MixInv, UNCHANGED <<mixerVars, discarded>>,
           \/ (Heard \/ Lost) /\ audio' = {}
           \/ UNCHANGED <<ledger, audio>>,
           audio' # {} => tick_pc' = "route"
    PROVE  MixInv'
<1>1. Registered' = Registered /\ QueuedIds' = QueuedIds
  BY DEF Registered, QueuedIds, mixerVars
<1>2. Accounted' /\ GoneWhole' /\ NotTooMuch' /\ TracksApart'
  BY <1>1, MixedKept DEF MixInv, Accounted, GoneWhole, NotTooMuch,
     TracksApart, mixerVars, Registered
<1>3. HeldByTick'
  BY MixedKept DEF MixInv, HeldByTick
<1>4. SongsTakeTurns'
  BY <1>1, MixedKept DEF MixInv, SongsTakeTurns
<1>5. QED
  BY <1>2, <1>3, <1>4 DEF MixInv

LEMMA ClearKeeps ==
    ASSUME TypeOK, MixInv, ClearTracks, discarded' = discarded \cup QueuedIds,
           \/ (Heard \/ Lost) /\ audio' = {}
           \/ UNCHANGED <<ledger, audio>>,
           audio' # {} => tick_pc' = "route"
    PROVE  MixInv'
<1>1. Registered' = {} /\ QueuedIds' = {}
  BY DEF Registered, QueuedIds, ClearTracks
<1>2. Accounted' /\ GoneWhole' /\ NotTooMuch' /\ TracksApart'
  BY <1>1, MixedKept DEF MixInv, Accounted, GoneWhole, NotTooMuch,
     TracksApart, ClearTracks
<1>3. HeldByTick'
  BY MixedKept DEF MixInv, HeldByTick
<1>4. SongsTakeTurns'
  BY <1>1, MixedKept DEF MixInv, SongsTakeTurns
<1>5. QED
  BY <1>2, <1>3, <1>4 DEF MixInv

LEMMA SkipKeeps ==
    ASSUME TypeOK, MixInv, SkipErase
    PROVE  MixInv'
<1>1. /\ song_track \in Seq(RegisteredAudio) /\ song_track # <<>>
      /\ song_track' = Tail(song_track) /\ audio_track' = audio_track
      /\ discarded' = discarded \cup {Head(song_track).id}
      /\ UNCHANGED <<ledger, audio, tick_pc>>
  BY DEF TypeOK, MixerTypeOK, SkipErase, SkipCurrentSong, localVars
<1>2. /\ \A i \in DOMAIN song_track' :
           i + 1 \in DOMAIN song_track /\ song_track'[i] = song_track[i + 1]
      /\ \A i \in DOMAIN song_track :
           i = 1 \/ (/\ i - 1 \in DOMAIN song_track'
                     /\ song_track'[i - 1] = song_track[i])
      /\ Head(song_track) = song_track[1]
  BY <1>1
<1>3. /\ Registered' \subseteq Registered
      /\ QueuedIds' \subseteq QueuedIds
      /\ QueuedIds \subseteq QueuedIds' \cup {Head(song_track).id}
  <2>1. \A r \in Registered' : r \in Registered
    BY <1>1, <1>2 DEF Registered
  <2>2. \A r \in Registered : r \in Registered' \/ r = Head(song_track)
    <3>1. ASSUME NEW i \in DOMAIN song_track
          PROVE  song_track[i] \in Registered' \/ song_track[i] = Head(song_track)
      BY <1>2 DEF Registered
    <3>2. QED
      BY <1>1, <3>1 DEF Registered
  <2>3. QED
    BY <2>1, <2>2, QueuedIdsRegistered
<1>4. Accounted' /\ GoneWhole' /\ NotTooMuch'
  BY <1>1, <1>3, MixedKept DEF MixInv, Accounted, GoneWhole, NotTooMuch
<1>5. TracksApart'
  BY <1>1, <1>2 DEF MixInv, TracksApart
<1>6. HeldByTick'
  BY <1>1 DEF MixInv, HeldByTick
<1>7. SongsTakeTurns'
  BY <1>1, <1>3, MixedKept DEF MixInv, SongsTakeTurns
<1>8. QED
  BY <1>4, <1>5, <1>6, <1>7 DEF MixInv

-----------------------------------------------------------------------------
\* A new clip.

LEMMA RegisterKeeps ==
    ASSUME TypeOK, MixInv, NEW type \in ClipTypes, NEW size \in Sizes,
           Register(type, size)
    PROVE  MixInv'
<1>0. PICK n \in Nat : n = Len(ledger) + 1
  BY DEF TypeOK
<1> DEFINE reg == [id |-> n, size |-> size, position |-> 0]
           entry == [type |-> type, size |-> size, heard |-> 0, lost |-> 0]
<1>1. /\ ledger' = Append(ledger, entry)
      /\ UNCHANGED <<audio, tick_pc, discarded>>
      /\ \/ /\ type = "SONG"
            /\ song_track' = Append(song_track, reg)
            /\ audio_track' = audio_track
         \/ /\ type = "AUDIO_EFFECT"
            /\ song_track' = song_track
            /\ audio_track' = audio_track \cup {reg}
  BY <1>0 DEF Register, RegisterAudio, localVars
<1>2. /\ entry.type = type /\ entry.size = size
      /\ entry.heard = 0 /\ entry.lost = 0
      /\ reg.id = n /\ reg.size = size /\ reg.position = 0
  OBVIOUS
<1>3. /\ song_track \in Seq(RegisteredAudio) /\ ledger \in Seq(LedgerEntry)
      /\ entry \in LedgerEntry
  BY PlaybackAssumption DEF TypeOK, MixerTypeOK, LedgerEntry
<1> HIDE DEF reg, entry
<1>4. /\ DOMAIN ledger' = DOMAIN ledger \cup {n} /\ n \notin DOMAIN ledger
      /\ ledger'[n] = entry
      /\ \A id \in DOMAIN ledger : ledger'[id] = ledger[id] /\ id < n
  <2>1. /\ DOMAIN ledger' = 1 .. Len(ledger) + 1
        /\ DOMAIN ledger = 1 .. Len(ledger)
        /\ Len(ledger) \in Nat
        /\ \A id \in 1 .. Len(ledger) : ledger'[id] = ledger[id]
        /\ ledger'[Len(ledger) + 1] = entry
    BY <1>1, <1>3
  <2>2. QED
    BY <1>0, <2>1
<1>5. \/ /\ DOMAIN song_track' = DOMAIN song_track \cup {Len(song_track) + 1}
         /\ song_track'[Len(song_track) + 1] = reg
         /\ \A i \in DOMAIN song_track : song_track'[i] = song_track[i]
         /\ audio_track' = audio_track /\ type = "SONG"
      \/ /\ song_track' = song_track /\ type = "AUDIO_EFFECT"
         /\ audio_track' = audio_track \cup {reg}
  <2>1. CASE song_track' = Append(song_track, reg)
    <3>1. /\ DOMAIN song_track' = 1 .. Len(song_track) + 1
          /\ DOMAIN song_track = 1 .. Len(song_track)
          /\ Len(song_track) \in Nat
          /\ \A i \in 1 .. Len(song_track) : song_track'[i] = song_track[i]
          /\ song_track'[Len(song_track) + 1] = reg
      BY <1>3, <2>1
    <3>2. \/ type = "SONG" /\ audio_track' = audio_track
          \/ song_track' = song_track
      BY <1>1
    <3>3. song_track' # song_track
      BY <3>1
    <3>4. QED
      BY <3>1, <3>2, <3>3
  <2>2. CASE song_track' # Append(song_track, reg)
    BY <1>1, <2>2
  <2>3. QED
    BY <2>1, <2>2
<1>6. /\ Registered' = Registered \cup {reg}
      /\ QueuedIds' = QueuedIds \cup {n}
  BY <1>2, <1>5 DEF Registered, QueuedIds
<1>7. \A id \in DOMAIN ledger :
         Mixed(id)' = Mixed(id) /\ BytesHeld(id)' = BytesHeld(id)
  BY <1>1, <1>4 DEF Mixed, BytesHeld
<1>8. BytesHeld(n)' = 0 /\ Mixed(n)' = 0
  <2>1. \A c \in audio : c.id # n
    BY <1>4 DEF MixInv, HeldByTick
  <2>2. BytesHeld(n)' = 0
    BY <1>1, <2>1 DEF BytesHeld
  <2>3. QED
    BY <1>2, <1>4, <2>2 DEF Mixed
<1>9. Accounted'
  BY <1>2, <1>4, <1>6, <1>7, <1>8 DEF MixInv, Accounted
<1>10. GoneWhole'
  BY <1>1, <1>4, <1>6, <1>7 DEF MixInv, GoneWhole
<1>11. NotTooMuch'
  BY <1>2, <1>4, <1>7, <1>8, PlaybackAssumption DEF MixInv, NotTooMuch
<1>12. TracksApart'
  <2>1. \A r \in Registered : r.id \in DOMAIN ledger
    BY DEF MixInv, Accounted
  <2>2. /\ \A i \in DOMAIN song_track : song_track[i].id \in DOMAIN ledger
        /\ \A e \in audio_track : e.id \in DOMAIN ledger
    BY <2>1 DEF Registered
  <2>3. QED
    BY <1>2, <1>4, <1>5, <2>2 DEF MixInv, TracksApart
<1>13. HeldByTick'
  BY <1>1, <1>4 DEF MixInv, HeldByTick
<1>14. SongsTakeTurns'
  <2> SUFFICES ASSUME NEW i \in DOMAIN ledger', NEW j \in DOMAIN ledger',
                      ledger'[i].type = "SONG", ledger'[j].type = "SONG", i < j,
                      i \in QueuedIds' \/ BytesHeld(i)' > 0
               PROVE  Mixed(j)' = 0
    BY DEF SongsTakeTurns
  <2>1. CASE j = n
    BY <1>8, <2>1
  <2>2. CASE j # n
    <3>1. i \in DOMAIN ledger /\ j \in DOMAIN ledger /\ i # n
      BY <1>3, <1>4, <2>2
    <3>2. i \in QueuedIds \/ BytesHeld(i) > 0
      BY <1>6, <1>7, <3>1
    <3>3. QED
      BY <1>4, <1>7, <3>1, <3>2 DEF MixInv, SongsTakeTurns
  <2>3. QED
    BY <2>1, <2>2
<1>15. QED
  BY <1>9, <1>10, <1>11, <1>12, <1>13, <1>14 DEF MixInv

-----------------------------------------------------------------------------
\* One call of step().

\* The clips of which step() mixes a part
Playing == {song_track[i] : i \in DOMAIN song_track \cap {1}} \cup audio_track

LEMMA ChunksOfPlaying ==
    ASSUME TypeOK
    PROVE  MixedChunks = {Chunk(r) : r \in Playing} /\ Playing \subseteq Registered
<1>1. song_track \in Seq(RegisteredAudio)
  BY DEF TypeOK, MixerTypeOK
<1>2. CASE song_track = <<>>
  BY <1>2 DEF MixedChunks, Playing, Registered
<1>3. CASE song_track # <<>>
  <2>1. 1 \in DOMAIN song_track /\ Head(song_track) = song_track[1]
    BY <1>1, <1>3
  <2>2. Playing = {song_track[1]} \cup audio_track
    BY <2>1 DEF Playing
  <2>3. QED
    BY <1>3, <2>1, <2>2 DEF MixedChunks, Registered
<1>4. QED
  BY <1>2, <1>3

LEMMA OneClipPerId ==
    ASSUME TypeOK, SongInv, MixInv
    PROVE  /\ \A r, s \in Registered : r.id = s.id => r = s
           /\ \A i \in DOMAIN song_track : i # 1 => song_track[i] \notin Playing
<1>1. /\ \A i \in DOMAIN song_track : /\ ledger[song_track[i].id].type = "SONG"
                                      /\ song_track[i].id \in Nat /\ i \in Nat
      /\ \A e \in audio_track : ledger[e.id].type # "SONG"
      /\ \A e, f \in audio_track : e.id = f.id => e = f
  BY DEF MixInv, TracksApart, TypeOK, MixerTypeOK, RegisteredAudio
<1>2. \A i, j \in DOMAIN song_track :
         song_track[i].id = song_track[j].id => i = j
  BY <1>1 DEF SongInv, SongOrder
<1>3. QED
  BY <1>1, <1>2 DEF Registered, Playing

LEMMA AdvanceFields ==
    ASSUME NEW r \in RegisteredAudio
    PROVE  /\ Advance(r).id = r.id /\ Advance(r).size = r.size
           /\ Advance(r).position = r.position + BytesToProcess(r)
           /\ Chunk(r).id = r.id /\ Chunk(r).bytes = BytesToProcess(r)
           /\ BytesToProcess(r) <= StepSize
           /\ r.position <= r.size => /\ BytesToProcess(r) \in Nat
                                     /\ r.position + BytesToProcess(r) <= r.size
BY StepSizeAssumption DEF RegisteredAudio, Advance, Chunk, BytesToProcess

LEMMA SongsMove ==
    ASSUME TypeOK, StepTracks
    PROVE  \/ song_track' = <<>> /\ song_track = <<>>
           \/ /\ song_track # <<>> /\ song_track' = Tail(song_track)
              /\ Finished(Advance(song_track[1]))
           \/ /\ song_track # <<>> /\ DOMAIN song_track' = DOMAIN song_track
              /\ song_track'[1] = Advance(song_track[1])
              /\ \A i \in DOMAIN song_track :
                    i # 1 => song_track'[i] = song_track[i]
<1>1. song_track \in Seq(RegisteredAudio)
  BY DEF TypeOK, MixerTypeOK
<1>2. CASE song_track # <<>>
  <2> DEFINE front == Advance(song_track[1])
  <2>1. Head(song_track) = song_track[1] /\ 1 \in DOMAIN song_track
    BY <1>1, <1>2
  <2>2. song_track' = IF Finished(front) THEN Tail(song_track)
                      ELSE [song_track EXCEPT ![1] = front]
    BY <1>2, <2>1 DEF StepTracks, AdvanceSongs
  <2> HIDE DEF front
  <2>3. CASE Finished(front)
    BY <1>2, <2>2, <2>3 DEF front
  <2>4. CASE ~Finished(front)
    <3>1. /\ DOMAIN song_track' = DOMAIN song_track
          /\ song_track'[1] = front
          /\ \A i \in DOMAIN song_track :
                i # 1 => song_track'[i] = song_track[i]
      BY <2>1, <2>2, <2>4
    <3>2. QED
      BY <1>2, <3>1 DEF front
  <2>5. QED
    BY <2>3, <2>4
<1>3. CASE song_track = <<>>
  BY <1>3 DEF StepTracks, AdvanceSongs
<1>4. QED
  BY <1>2, <1>3

\* Every clip that plays advances or, at its end, leaves; the others stay.
LEMMA ClipsMove ==
    ASSUME TypeOK, SongInv, MixInv, StepTracks
    PROVE  /\ \A r \in Registered' : \/ \E p \in Playing : r = Advance(p)
                                    \/ r \in Registered \ Playing
           /\ \A r \in Registered \ Playing : r \in Registered'
           /\ \A p \in Playing : \/ Finished(Advance(p))
                                \/ Advance(p) \in Registered'
           /\ \A i \in DOMAIN song_track' : \E k \in DOMAIN song_track :
                song_track'[i].id = song_track[k].id
<1>1. song_track \in Seq(RegisteredAudio)
  BY DEF TypeOK, MixerTypeOK
<1>2. audio_track' = {r \in {Advance(e) : e \in audio_track} : ~Finished(r)}
  BY DEF StepTracks, AdvanceEffects
<1>3. \A i \in DOMAIN song_track : i # 1 => song_track[i] \notin Playing
  BY OneClipPerId
<1>4. CASE song_track' = <<>> /\ song_track = <<>>
  BY <1>2, <1>4 DEF Registered, Playing
<1>5. CASE /\ song_track # <<>> /\ song_track' = Tail(song_track)
           /\ Finished(Advance(song_track[1]))
  <2>1. /\ \A i \in DOMAIN song_track' :
             /\ i + 1 \in DOMAIN song_track /\ i + 1 # 1
             /\ song_track'[i] = song_track[i + 1]
        /\ \A i \in DOMAIN song_track :
             i = 1 \/ (/\ i - 1 \in DOMAIN song_track'
                       /\ song_track'[i - 1] = song_track[i])
    BY <1>1, <1>5
  <2>2. 1 \in DOMAIN song_track
    BY <1>1, <1>5
  <2>3. QED
    BY <1>2, <1>3, <1>5, <2>1, <2>2 DEF Registered, Playing
<1>6. CASE /\ song_track # <<>> /\ DOMAIN song_track' = DOMAIN song_track
           /\ song_track'[1] = Advance(song_track[1])
           /\ \A i \in DOMAIN song_track : i # 1 => song_track'[i] = song_track[i]
  <2>1. 1 \in DOMAIN song_track /\ song_track[1] \in RegisteredAudio
    BY <1>1, <1>6
  <2>2. Advance(song_track[1]).id = song_track[1].id
    BY <2>1, AdvanceFields
  <2>3. QED
    BY <1>2, <1>3, <1>6, <2>1, <2>2 DEF Registered, Playing
<1>7. QED
  BY <1>4, <1>5, <1>6, SongsMove

LEMMA TickMixKeeps ==
    ASSUME TypeOK, SongInv, MixInv, TickMix
    PROVE  MixInv'
<1>1. /\ audio = {} /\ audio' = MixedChunks /\ StepTracks
      /\ tick_pc' = "route" /\ UNCHANGED <<ledger, discarded>>
  BY DEF TickMix, MixInv, HeldByTick, historyVars
<1>2. audio' = {Chunk(r) : r \in Playing} /\ Playing \subseteq Registered
  BY <1>1, ChunksOfPlaying
<1>3. \A r \in Registered : /\ r \in RegisteredAudio
                            /\ r.id \in DOMAIN ledger /\ r.id \in QueuedIds
                            /\ r.size = ledger[r.id].size
                            /\ Mixed(r.id) = r.position /\ r.position <= r.size
  <2>1. \A r \in Registered : r \in RegisteredAudio
    BY DEF Registered, TypeOK, MixerTypeOK
  <2>2. QED
    BY <2>1, QueuedIdsRegistered DEF MixInv, Accounted, NotTooMuch
<1>4. \A p \in Playing :
         /\ Advance(p).id = p.id /\ Advance(p).size = p.size
         /\ Advance(p).position = p.position + BytesToProcess(p)
         /\ Chunk(p).id = p.id /\ Chunk(p).bytes = BytesToProcess(p)
         /\ BytesToProcess(p) <= StepSize /\ BytesToProcess(p) \in Nat
         /\ p.position + BytesToProcess(p) <= p.size
  BY <1>2, <1>3, AdvanceFields
<1>5. \A r, s \in Registered : r.id = s.id => r = s
  BY OneClipPerId
<1>6. \A p \in Playing : BytesHeld(p.id)' = BytesToProcess(p)
  <2>1. ASSUME NEW p \in Playing
        PROVE  BytesHeld(p.id)' = BytesToProcess(p)
    <3>0. PICK id : id = p.id
      OBVIOUS
    <3>1. /\ Chunk(p) \in audio'
          /\ \A c \in audio' : c.id = id <=> c = Chunk(p)
      BY <1>2, <1>4, <1>5, <3>0
    <3>2. BytesHeld(id)' = Chunk(p).bytes
      BY <3>1 DEF BytesHeld
    <3>3. QED
      BY <1>4, <3>0, <3>2
  <2>2. QED
    BY <2>1
<1>7. \A id \in DOMAIN ledger :
         \/ \E p \in Playing : p.id = id
         \/ BytesHeld(id)' = 0
  BY <1>2, <1>4 DEF BytesHeld
<1>8. \A id \in DOMAIN ledger :
         Mixed(id) \in Nat /\ Mixed(id)' = Mixed(id) + BytesHeld(id)'
  <2>1. ASSUME NEW id \in DOMAIN ledger
        PROVE  Mixed(id) \in Nat /\ Mixed(id)' = Mixed(id) + BytesHeld(id)'
    <3>1. BytesHeld(id)' \in Nat
      BY <1>4, <1>6, <1>7
    <3>2. BytesHeld(id) = 0
      BY <1>1, NothingHeld
    <3>3. Mixed(id)' = ledger[id].heard + ledger[id].lost + BytesHeld(id)'
      BY <1>1 DEF Mixed
    <3>4. QED
      BY <3>1, <3>2, <3>3, LedgerFields DEF Mixed
  <2>2. QED
    BY <2>1
<1>9. \A p \in Playing : /\ Mixed(p.id)' = Advance(p).position
                         /\ Advance(p).position <= Advance(p).size
  BY <1>2, <1>3, <1>4, <1>6, <1>8
<1>10. \A id \in DOMAIN ledger :
          (\A p \in Playing : p.id # id) => Mixed(id)' = Mixed(id)
  BY <1>7, <1>8
<1>11. Accounted'
  <2>1. ASSUME NEW r \in Registered'
        PROVE  /\ r.id \in DOMAIN ledger' /\ r.size = ledger'[r.id].size
               /\ Mixed(r.id)' = r.position
    <3>1. CASE \E p \in Playing : r = Advance(p)
      BY <1>1, <1>2, <1>3, <1>4, <1>9, <3>1
    <3>2. CASE r \in Registered \ Playing
      <4>1. \A p \in Playing : p.id # r.id
        BY <1>2, <1>5, <3>2
      <4>2. QED
        BY <1>1, <1>3, <1>10, <3>2, <4>1
    <3>3. QED
      BY <1>1, <3>1, <3>2, ClipsMove
  <2>2. QED
    BY <2>1 DEF Accounted
<1>12. NotTooMuch'
  <2>1. ASSUME NEW id \in DOMAIN ledger
        PROVE  Mixed(id)' <= ledger[id].size
    <3>1. CASE \E p \in Playing : p.id = id
      BY <1>2, <1>3, <1>4, <1>9, <3>1
    <3>2. CASE \A p \in Playing : p.id # id
      BY <1>10, <3>2 DEF MixInv, NotTooMuch
    <3>3. QED
      BY <3>1, <3>2
  <2>2. QED
    BY <1>1, <2>1 DEF NotTooMuch
<1>13. GoneWhole'
  <2>1. ASSUME NEW id \in DOMAIN ledger, id \notin QueuedIds' \cup discarded
        PROVE  Mixed(id)' = ledger[id].size
    <3>1. CASE id \notin QueuedIds
      <4>1. \A p \in Playing : p.id # id
        BY <1>2, <1>3, <3>1
      <4>2. QED
        BY <1>10, <2>1, <3>1, <4>1 DEF MixInv, GoneWhole
    <3>2. CASE id \in QueuedIds
      <4>1. PICK r \in Registered : r.id = id
        BY <3>2, QueuedIdsRegistered
      <4>2. \A s \in Registered' : s.id # id
        BY <2>1, QueuedIdsRegistered
      <4>3. r \in Playing /\ Finished(Advance(r))
        BY <1>1, <1>4, <4>1, <4>2, ClipsMove
      <4>4. Mixed(id)' >= ledger[id].size
        BY <1>3, <1>4, <1>9, <4>1, <4>3 DEF Finished
      <4>5. Mixed(id)' <= ledger[id].size
        BY <1>1, <1>12 DEF NotTooMuch
      <4>6. QED
        BY <1>4, <1>6, <1>8, <4>1, <4>3, <4>4, <4>5, LedgerFields
    <3>3. QED
      BY <3>1, <3>2
  <2>2. QED
    BY <1>1, <2>1 DEF GoneWhole
<1>14. TracksApart'
  <2>1. audio_track' \subseteq {Advance(e) : e \in audio_track}
    BY <1>1 DEF StepTracks, AdvanceEffects
  <2>2. audio_track \subseteq Playing
    BY DEF Playing
  <2>3. \A e \in audio_track : Advance(e).id = e.id
    BY <1>4, <2>2
  <2>4. QED
    BY <1>1, <2>1, <2>3, ClipsMove DEF MixInv, TracksApart
<1>15. HeldByTick'
  BY <1>1, <1>2, <1>3, <1>4 DEF HeldByTick
<1>16. SongsTakeTurns'
  <2> SUFFICES ASSUME NEW i \in DOMAIN ledger, NEW j \in DOMAIN ledger,
                      ledger[i].type = "SONG", ledger[j].type = "SONG", i < j,
                      i \in QueuedIds' \/ BytesHeld(i)' > 0
               PROVE  Mixed(j)' = 0
    BY <1>1 DEF SongsTakeTurns
  <2>1. i \in QueuedIds
    <3>1. CASE i \in QueuedIds'
      <4>1. PICK r \in Registered' : r.id = i
        BY <3>1, QueuedIdsRegistered
      <4>2. QED
        BY <1>1, <1>2, <1>3, <1>4, <4>1, ClipsMove
    <3>2. CASE BytesHeld(i)' > 0
      BY <1>2, <1>3, <1>7, <3>2
    <3>3. QED
      BY <3>1, <3>2
  <2>2. Mixed(j) = 0
    BY <2>1 DEF MixInv, SongsTakeTurns
  <2>3. \A p \in Playing : p.id # j
    <3>1. ASSUME NEW p \in Playing, p.id = j PROVE FALSE
      <4>1. 1 \in DOMAIN song_track /\ p = song_track[1]
        BY <3>1 DEF Playing, MixInv, TracksApart
      <4>2. PICK k \in DOMAIN song_track : song_track[k].id = i
        BY <2>1 DEF QueuedIds, MixInv, TracksApart
      <4>3. k = 1 \/ 1 < k
        BY DEF TypeOK, MixerTypeOK
      <4>4. i \in Nat /\ j \in Nat
        BY LedgerFields
      <4>5. QED
        BY <3>1, <4>1, <4>2, <4>3, <4>4 DEF SongInv, SongOrder
    <3>2. QED
      BY <3>1
  <2>4. QED
    BY <1>10, <2>2, <2>3
<1>17. QED
  BY <1>11, <1>12, <1>13, <1>14, <1>15, <1>16 DEF MixInv

-----------------------------------------------------------------------------
\* The ledger's invariant, and that every byte is mixed once.

LEMMA MixInit == Init => MixInv
<1> SUFFICES ASSUME Init PROVE MixInv
  OBVIOUS
<1>1. Registered = {} /\ DOMAIN ledger = {} /\ audio = {}
  BY DEF Init, MixerInit, Registered
<1>2. QED
  BY <1>1 DEF Init, MixerInit, MixInv, Accounted, GoneWhole, NotTooMuch,
     TracksApart, HeldByTick, SongsTakeTurns

LEMMA TickKeeps ==
    ASSUME TypeOK, SongInv, MixInv, Tick
    PROVE  MixInv'
<1>1. HeldByTick
  BY DEF MixInv
<1>2. CASE TickMix
  BY <1>2, TickMixKeeps
<1>3. CASE TickVoiceLost
  BY <1>3, ClearKeeps DEF TickVoiceLost, TickEnds
<1>4. CASE TickIdleClear
  <2>1. audio = {} /\ audio' = {}
    BY <1>1, <1>4 DEF TickIdleClear, TickEnds, HeldByTick
  <2>2. QED
    BY <1>4, <2>1, ClearKeeps DEF TickIdleClear
<1>5. CASE TickSend \/ TickDrop \/ TickThrows \/ TickAway
  <2>1. /\ UNCHANGED <<mixerVars, discarded>> /\ audio' = {}
        /\ Heard \/ Lost
    BY <1>5 DEF TickSend, TickDrop, TickThrows, TickAway, TickEnds
  <2>2. QED
    BY <2>1, PutDownKeeps
<1>6. CASE \/ TickStops \/ TickUnserved \/ TickBegin \/ TickCatch
           \/ TickQuiet \/ TickIdleDisconnect
  <2>1. UNCHANGED <<mixerVars, ledger, discarded>>
    BY <1>6 DEF TickStops, TickUnserved, TickBegin, TickCatch, TickQuiet,
       TickIdleDisconnect, historyVars, vars
  <2>2. (audio = {} /\ audio' = {}) \/ UNCHANGED <<audio, tick_pc>>
    BY <1>1, <1>6 DEF TickStops, TickUnserved, TickBegin, TickCatch, TickQuiet,
       TickIdleDisconnect, QuietTick, TickEnds, HeldByTick, localVars, vars
  <2>3. QED
    BY <1>1, <2>1, <2>2, PutDownKeeps DEF HeldByTick
<1>7. QED
  BY <1>2, <1>3, <1>4, <1>5, <1>6 DEF Tick

\* What does not belong to the tick leaves its audio and the ledger alone, but
\* for a new clip.
LEMMA OthersShape ==
    ASSUME Dpp \/ Command \/ UNCHANGED vars
    PROVE  \/ UNCHANGED <<mixerVars, ledger, discarded, audio, tick_pc>>
           \/ SkipErase
           \/ \E type \in ClipTypes, size \in Sizes : Register(type, size)
<1>1. Dpp => UNCHANGED <<mixerVars, ledger, discarded, audio, tick_pc>>
  BY DEF Dpp, ConnectVoice, VoiceReady, LeaveVoice, OnVoiceReady,
     ShardDown, ShardBack, historyVars, localVars
<1>2. Command => \/ UNCHANGED <<mixerVars, ledger, discarded, audio, tick_pc>>
                 \/ SkipErase
                 \/ \E type \in ClipTypes, size \in Sizes :
                        Register(type, size)
  BY DEF Command, BeginPlay, FetchFails, EndPlay, TimerPlays, ClipTypes,
     SkipRead, SkipNothing, RequestStop, historyVars, localVars
<1>3. QED
  BY <1>1, <1>2 DEF vars, historyVars, localVars

LEMMA MixStep == TypeOK /\ SongInv /\ MixInv /\ [Next]_vars => MixInv'
<1> SUFFICES ASSUME TypeOK, SongInv, MixInv, [Next]_vars PROVE MixInv'
  OBVIOUS
<1>1. CASE Tick
  BY <1>1, TickKeeps
<1>2. CASE UNCHANGED <<mixerVars, ledger, discarded, audio, tick_pc>>
  BY <1>2, PutDownKeeps DEF MixInv, HeldByTick
<1>3. CASE SkipErase
  BY <1>3, SkipKeeps
<1>4. ASSUME NEW type \in ClipTypes, NEW size \in Sizes, Register(type, size)
      PROVE  MixInv'
  BY <1>4, RegisterKeeps
<1>5. QED
  BY <1>1, <1>2, <1>3, <1>4, OthersShape DEF Next

LEMMA MixInvHolds == Spec => []MixInv
BY MixInit, MixStep, TypeCorrect, SongInvHolds, PTL DEF Spec

\* However skips, clears, disconnects, failed sends and the ticker interleave,
\* every byte of a clip is mixed exactly once as far as the clip got
\* (AudioMixer.cpp:72-144, BotRouter.cpp:495-541).
THEOREM EveryByteMixedOnce == Spec => []MixedExactlyOnce
<1>1. MixInv => MixedExactlyOnce
  BY DEF MixInv, Accounted, GoneWhole, Mixed, MixedExactlyOnce
<1>2. QED
  BY <1>1, MixInvHolds, PTL

-----------------------------------------------------------------------------
\* What is heard is a jukebox.

\* The jukebox's clips
Clips == [id \in DOMAIN ledger |-> [type |-> ledger[id].type,
            size |-> ledger[id].size, heard |-> ledger[id].heard]]

LEMMA ClipsFields ==
    /\ DOMAIN Clips = DOMAIN ledger
    /\ \A id \in DOMAIN ledger : /\ Clips[id].type = ledger[id].type
                                 /\ Clips[id].size = ledger[id].size
                                 /\ Clips[id].heard = ledger[id].heard
BY DEF Clips

\* A send lets the listeners hear what the tick held.
LEMMA SendIsHear ==
    ASSUME TypeOK, MixInv, Heard
    PROVE  \E more \in [DOMAIN Clips -> 0 .. StepSize] : Music!Hear(more)
<1>1. ASSUME NEW id \in DOMAIN ledger
      PROVE  /\ BytesHeld(id) \in 0 .. StepSize
             /\ ledger[id].heard + BytesHeld(id) <= ledger[id].size
  <2>1. BytesHeld(id) <= StepSize
    BY StepSizeAssumption DEF BytesHeld, MixInv, HeldByTick
  <2>2. Mixed(id) <= ledger[id].size
    BY DEF MixInv, NotTooMuch
  <2>3. QED
    BY <2>1, <2>2, LedgerFields, StepSizeAssumption DEF Mixed
<1>2. ASSUME NEW i \in DOMAIN ledger, NEW j \in DOMAIN ledger,
             ledger[i].type = "SONG", ledger[j].type = "SONG",
             i < j, BytesHeld(i) > 0
      PROVE  ledger[j].heard + BytesHeld(j) = 0
  <2>1. Mixed(j) = 0
    BY <1>2 DEF MixInv, SongsTakeTurns
  <2>2. QED
    BY <2>1, LedgerFields DEF Mixed
<1>3. PICK more \in [DOMAIN Clips -> 0 .. StepSize] :
        \A id \in DOMAIN ledger : more[id] = BytesHeld(id)
  <2>1. [id \in DOMAIN ledger |-> BytesHeld(id)]
           \in [DOMAIN Clips -> 0 .. StepSize]
    BY <1>1, ClipsFields
  <2>2. QED
    BY <2>1
<1>4. Clips' = [i \in DOMAIN Clips |->
                  [Clips[i] EXCEPT !.heard = @ + more[i]]]
  <2>1. DOMAIN ledger' = DOMAIN ledger
    BY DEF Heard
  <2>2. ASSUME NEW id \in DOMAIN ledger
        PROVE  [type |-> ledger'[id].type, size |-> ledger'[id].size,
                heard |-> ledger'[id].heard]
                 = [Clips[id] EXCEPT !.heard = @ + more[id]]
    <3>1. ledger'[id] = [ledger[id] EXCEPT !.heard = @ + BytesHeld(id)]
      BY DEF Heard
    <3>2. ledger[id] \in LedgerEntry
      BY DEF TypeOK
    <3>3. /\ ledger'[id].type = ledger[id].type
          /\ ledger'[id].size = ledger[id].size
          /\ ledger'[id].heard = ledger[id].heard + BytesHeld(id)
      BY <3>1, <3>2 DEF LedgerEntry
    <3>4. QED
      BY <1>3, <3>3 DEF Clips
  <2>3. QED
    BY <2>1, <2>2, ClipsFields DEF Clips
<1>5. \A i \in DOMAIN Clips : Clips[i].heard + more[i] <= Clips[i].size
  BY <1>1, <1>3, ClipsFields
<1>6. \A i, j \in {k \in DOMAIN Clips : Clips[k].type = "SONG"} :
         i < j /\ more[i] > 0 => Clips[j].heard + more[j] = 0
  BY <1>2, <1>3, ClipsFields
<1>7. Music!Hear(more)
  BY <1>4, <1>5, <1>6 DEF Music!Hear, Music!Songs, Clips
<1>8. QED
  BY <1>3, <1>7

\* A registered clip is one that was asked for.
LEMMA RegisterIsAsk ==
    ASSUME TypeOK, NEW type \in ClipTypes, NEW size \in Sizes,
           Register(type, size)
    PROVE  Music!Ask
<1> DEFINE Clip == [type : ClipTypes, size : Nat, heard : Nat]
           entry == [type |-> type, size |-> size, heard |-> 0, lost |-> 0]
           new == [type |-> type, size |-> size, heard |-> 0]
<1>1. /\ ledger \in Seq(LedgerEntry) /\ entry \in LedgerEntry
      /\ ledger' = Append(ledger, entry)
  BY PlaybackAssumption DEF TypeOK, Register, LedgerEntry
<1>2. /\ entry.type = type /\ entry.size = size /\ entry.heard = 0
      /\ new \in Clip
  BY PlaybackAssumption
<1> HIDE DEF entry
<1>3. /\ Len(ledger) \in Nat /\ DOMAIN ledger = 1 .. Len(ledger)
      /\ DOMAIN ledger' = 1 .. Len(ledger) + 1
      /\ \A id \in 1 .. Len(ledger) : ledger'[id] = ledger[id]
      /\ ledger'[Len(ledger) + 1] = entry
  BY <1>1
<1>4. Clips \in Seq(Clip) /\ Len(Clips) = Len(ledger)
  <2>1. ASSUME NEW id \in DOMAIN ledger PROVE Clips[id] \in Clip
    <3>1. ledger[id] \in LedgerEntry
      BY <1>1
    <3>2. Clips[id] = [type |-> ledger[id].type, size |-> ledger[id].size,
                       heard |-> ledger[id].heard]
      BY DEF Clips
    <3>3. QED
      BY <3>1, <3>2 DEF LedgerEntry
  <2>2. Clips \in [1 .. Len(ledger) -> Clip]
    BY <1>3, <2>1 DEF Clips
  <2> HIDE DEF Clip
  <2>3. QED
    BY <1>3, <2>2
<1>5. Clips' = Append(Clips, new)
  <2>1. /\ DOMAIN Clips' = 1 .. Len(Clips) + 1
        /\ \A id \in 1 .. Len(Clips) : Clips'[id] = Clips[id]
        /\ Clips'[Len(Clips) + 1] = new
    BY <1>2, <1>3, <1>4 DEF Clips
  <2>2. Clips' = [id \in DOMAIN Clips' |-> Clips'[id]]
    BY DEF Clips
  <2> HIDE DEF new, Clip, Clips
  <2>3. \A id \in DOMAIN Clips' : Clips'[id] \in Clip
    BY <1>2, <1>4, <2>1
  <2>4. Clips' \in [1 .. Len(Clips) + 1 -> Clip]
    BY <2>1, <2>2, <2>3
  <2>5. Clips' \in Seq(Clip) /\ Len(Clips') = Len(Clips) + 1
    BY <1>4, <2>4
  <2>6. QED
    BY <1>2, <1>4, <2>1, <2>5, AppendProperties, SeqEqual
<1>6. QED
  BY <1>5 DEF Music!Ask, Clips, ClipTypes

LEMMA SameClips ==
    ASSUME ledger' = ledger \/ (TypeOK /\ Lost)
    PROVE  Clips' = Clips
<1>1. CASE TypeOK /\ Lost
  <2>1. DOMAIN ledger' = DOMAIN ledger
    BY <1>1 DEF Lost
  <2>2. \A id \in DOMAIN ledger : /\ ledger'[id].type = ledger[id].type
                                 /\ ledger'[id].size = ledger[id].size
                                 /\ ledger'[id].heard = ledger[id].heard
    <3>1. ASSUME NEW id \in DOMAIN ledger
          PROVE  /\ ledger'[id].type = ledger[id].type
                 /\ ledger'[id].size = ledger[id].size
                 /\ ledger'[id].heard = ledger[id].heard
      <4>1. ledger'[id] = [ledger[id] EXCEPT !.lost = @ + BytesHeld(id)]
        BY <1>1 DEF Lost
      <4>2. ledger[id] \in LedgerEntry
        BY <1>1 DEF TypeOK
      <4>3. QED
        BY <4>1, <4>2 DEF LedgerEntry
    <3>2. QED
      BY <3>1
  <2>3. QED
    BY <2>1, <2>2 DEF Clips
<1>2. QED
  BY <1>1 DEF Clips

\* The listeners hear a jukebox: songs one at a time in the order they were
\* registered, each byte of a clip once at most, whatever skips, clears,
\* disconnects and failed sends come between a tick's mixing and its sending
\* (AudioMixer.cpp:72-144, BotRouter.cpp:495-541).
THEOREM ListenersHearAJukebox == Spec => PlaysAsJukebox
<1>1. Init => Music!Init
  <2> SUFFICES ASSUME Init PROVE Clips = <<>>
    BY DEF Music!Init, Clips
  <2>1. ledger = <<>>
    BY DEF Init
  <2>2. QED
    BY <2>1 DEF Clips
<1>2. TypeOK /\ MixInv /\ [Next]_vars => [Music!Next]_Clips
  <2> SUFFICES ASSUME TypeOK, MixInv, [Next]_vars PROVE [Music!Next]_Clips
    OBVIOUS
  <2>1. CASE Heard
    BY <2>1, SendIsHear DEF Music!Next, Clips
  <2>2. CASE ledger' = ledger \/ Lost
    BY <2>2, SameClips
  <2>3. ASSUME NEW type \in ClipTypes, NEW size \in Sizes, Register(type, size)
        PROVE  Music!Ask
    BY <2>3, RegisterIsAsk
  <2>4. Tick => Heard \/ ledger' = ledger \/ Lost
    BY DEF Tick, TickStops, TickUnserved, TickBegin, TickMix, TickSend, TickDrop,
       TickThrows, TickCatch, TickVoiceLost, TickAway, TickQuiet,
       TickIdleDisconnect, TickIdleClear, historyVars, vars
  <2>5. SkipErase => ledger' = ledger
    BY DEF SkipErase
  <2>6. QED
    BY <2>1, <2>2, <2>3, <2>4, <2>5, OthersShape DEF Next, Music!Next
<1>3. QED
  BY <1>1, <1>2, TypeCorrect, MixInvHolds, PTL
     DEF Spec, PlaysAsJukebox, Music!Spec, Clips

-----------------------------------------------------------------------------
\* /skip

\* What a /skip has read is not behind any song that waits, and no song to come
\* will be in front of it.
SkipInv ==
    /\ skip_seen <= Len(ledger)
    /\ \A i \in DOMAIN song_track : song_track[i].id >= skip_seen

LEMMA TickOrCommand ==
    ASSUME TypeOK, SongInv, MixInv, [Next]_vars
    PROVE  \/ /\ skip_seen' = skip_seen /\ Len(ledger') = Len(ledger)
              /\ \A i \in DOMAIN song_track' : \E k \in DOMAIN song_track :
                   song_track'[i].id = song_track[k].id
           \/ \E type \in ClipTypes, size \in Sizes :
                Register(type, size) /\ skip_seen' = skip_seen
           \/ SkipRead \/ SkipErase \/ SkipNothing
<1>1. Tick => /\ skip_seen' = skip_seen
              /\ UNCHANGED ledger \/ Heard \/ Lost
              /\ StepTracks \/ ClearTracks \/ UNCHANGED song_track
  BY DEF Tick, TickMix, TickStops, TickUnserved, TickBegin, TickSend, TickDrop,
     TickThrows, TickCatch, TickVoiceLost, TickAway, TickQuiet,
     TickIdleDisconnect, TickIdleClear, QuietTick, historyVars, commandVars,
     mixerVars, vars
<1>2. Dpp \/ UNCHANGED vars => UNCHANGED <<song_track, ledger, skip_seen>>
  BY DEF Dpp, ConnectVoice, VoiceReady, LeaveVoice, OnVoiceReady, ShardDown,
     ShardBack, historyVars, commandVars, mixerVars, vars
<1>3. Command => \/ UNCHANGED <<song_track, ledger, skip_seen>>
                 \/ \E type \in ClipTypes, size \in Sizes :
                      Register(type, size) /\ skip_seen' = skip_seen
                 \/ SkipRead \/ SkipErase \/ SkipNothing
  BY DEF Command, BeginPlay, FetchFails, EndPlay, TimerPlays, ClipTypes,
     Register, RequestStop, historyVars, mixerVars
<1>4. Heard \/ Lost => Len(ledger') = Len(ledger)
  BY LedgerType
<1>5. StepTracks => \A i \in DOMAIN song_track' : \E k \in DOMAIN song_track :
                      song_track'[i].id = song_track[k].id
  BY ClipsMove
<1>6. ClearTracks => \A i \in DOMAIN song_track' : FALSE
  BY DEF ClearTracks
<1> QED
  BY <1>1, <1>2, <1>3, <1>4, <1>5, <1>6 DEF Next

LEMMA SkipStep ==
    ASSUME TypeOK, SongInv, MixInv, SkipInv, [Next]_vars
    PROVE  /\ SkipInv'
           /\ skip_seen # 0 /\ skip_seen' = 0 /\ song_track # <<>>
                => Head(song_track).id >= skip_seen
<1>1. /\ song_track \in Seq(RegisteredAudio) /\ skip_seen \in Nat
      /\ Len(ledger) \in Nat
      /\ \A i \in DOMAIN song_track : song_track[i].id \in Nat
  BY DEF TypeOK, MixerTypeOK, RegisteredAudio
<1>2. song_track # <<>> => /\ 1 \in DOMAIN song_track
                           /\ Head(song_track) = song_track[1]
  BY <1>1
<1>3. SkipInv'
  <2>1. CASE /\ skip_seen' = skip_seen /\ Len(ledger') = Len(ledger)
             /\ \A i \in DOMAIN song_track' : \E k \in DOMAIN song_track :
                  song_track'[i].id = song_track[k].id
    BY <2>1 DEF SkipInv
  <2>2. ASSUME NEW type \in ClipTypes, NEW size \in Sizes,
               Register(type, size), skip_seen' = skip_seen
        PROVE  SkipInv'
    <3> DEFINE reg == [id |-> Len(ledger) + 1, size |-> size, position |-> 0]
    <3>1. song_track' = Append(song_track, reg) \/ song_track' = song_track
      BY <2>2 DEF Register, RegisterAudio
    <3>2. Len(ledger') = Len(ledger) + 1 /\ reg.id = Len(ledger) + 1
      BY <2>2, RegisterType
    <3> HIDE DEF reg
    <3>3. \A i \in DOMAIN song_track' :
            \/ i \in DOMAIN song_track /\ song_track'[i] = song_track[i]
            \/ song_track'[i] = reg
      BY <1>1, <3>1
    <3> QED
      BY <1>1, <2>2, <3>2, <3>3 DEF SkipInv
  <2>3. CASE SkipRead
    <3>1. /\ skip_seen' = song_track[1].id /\ 1 \in DOMAIN song_track
          /\ UNCHANGED <<song_track, ledger>>
      BY <1>2, <2>3 DEF SkipRead, mixerVars, historyVars
    <3>2. \A i \in DOMAIN song_track : song_track[i].id >= song_track[1].id
      BY <1>1, <3>1 DEF SongInv, SongOrder
    <3> QED
      BY <3>1, <3>2 DEF SkipInv, SongInv, SongsNumbered
  <2>4. CASE SkipErase \/ SkipNothing
    <3>1. skip_seen' = 0 /\ UNCHANGED ledger
      BY <2>4 DEF SkipErase, SkipNothing, historyVars
    <3>2. song_track' \in Seq(RegisteredAudio)
      BY <1>1, <2>4 DEF SkipErase, SkipNothing, SkipCurrentSong, mixerVars
    <3>3. \A i \in DOMAIN song_track' : song_track'[i].id \in Nat
      BY <3>2 DEF RegisteredAudio
    <3> QED
      BY <1>1, <3>1, <3>3 DEF SkipInv
  <2> QED
    BY <2>1, <2>2, <2>3, <2>4, TickOrCommand
<1> QED
  BY <1>2, <1>3 DEF SkipInv

\* However ticks, clears and other commands come between the two mixer calls of
\* a /skip, what it removes is what it read or a later song
\* (SkipCommand.h:24-33, AudioMixer.cpp:61-70).
THEOREM SkipsForward == Spec => SkipNeverReachesBack
<1>1. Init => SkipInv
  BY DEF Init, MixerInit, SkipInv
<1>2. TypeOK /\ SongInv /\ MixInv /\ SkipInv /\ [Next]_vars => SkipInv'
  BY SkipStep
<1>3. TypeOK /\ SongInv /\ MixInv /\ SkipInv /\ [Next]_vars
        => [skip_seen # 0 /\ skip_seen' = 0 /\ song_track # <<>>
              => Head(song_track).id >= skip_seen]_vars
  BY SkipStep
<1> QED
  BY <1>1, <1>2, <1>3, TypeCorrect, SongInvHolds, MixInvHolds, PTL
     DEF Spec, SkipNeverReachesBack

===============================================================================
