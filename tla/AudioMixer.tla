------------------------------ MODULE AudioMixer ------------------------------
(***************************************************************************)
(* The mixer of Audio-Mixer/src/AudioMixer.cpp: a FIFO track of songs, of  *)
(* which only the front one plays, and a track of effects, which all play  *)
(* at once.  Every public member function runs under mutex_, so each is    *)
(* one atomic operation on the two tracks, conjoined by a caller's action. *)
(*                                                                         *)
(* Samples, volumes and names are abstracted; what is kept of a clip is    *)
(* how long it is and how far it has been mixed.  The order of the effects *)
(* in their list decides nothing but rounding, so that track is a set.     *)
(***************************************************************************)
EXTENDS Integers, Sequences

CONSTANT
    StepSize        \* bytes one call of step() asks for (BotRouter.cpp:433)

ASSUME StepSizeAssumption == StepSize \in Nat \ {0}

VARIABLES
    song_track,     \* song_track_: the songs still to play, front first
    audio_track     \* audio_track_: the effects playing now

mixerVars == <<song_track, audio_track>>

\* RegisteredAudio; id numbers the calls of registerAudio.  A clip that has
\* been mixed to its end does not stay registered.
RegisteredAudio ==
    {r \in [id : Nat \ {0}, size : Nat, position : Nat] :
        r.position = 0 \/ r.position < r.size}

MixerTypeOK ==
    /\ song_track \in Seq(RegisteredAudio)
    /\ audio_track \in SUBSET RegisteredAudio

MixerInit ==
    /\ song_track = <<>>
    /\ audio_track = {}

-----------------------------------------------------------------------------
\* What one call of step() does to a registered clip.

\* min(step_size, clip_size - position)
BytesToProcess(r) ==
    IF r.size - r.position < StepSize THEN r.size - r.position ELSE StepSize

\* reg.position += bytes_to_process
Advance(r) == [r EXCEPT !.position = @ + BytesToProcess(r)]

\* Mutant: a clip is erased only once it has been read past its end.
MutFinished(r) == r.position > r.size

\* position >= clip_size: the clip leaves its track
Finished(r) == r.position >= r.size

\* The part of a clip that one step mixes into its output.
Chunk(r) == [id |-> r.id, bytes |-> BytesToProcess(r)]

-----------------------------------------------------------------------------
\* The four operations that change the tracks.

\* Mutant: a song is put in front of those that wait.
MutRegisterAudio(id, type, size) ==
    LET reg == [id |-> id, size |-> size, position |-> 0] IN
    \/ /\ type = "SONG"
       /\ song_track' = <<reg>> \o song_track
       /\ UNCHANGED audio_track
    \/ /\ type = "AUDIO_EFFECT"
       /\ audio_track' = audio_track \cup {reg}
       /\ UNCHANGED song_track

RegisterAudio(id, type, size) ==
    LET reg == [id |-> id, size |-> size, position |-> 0] IN
    \/ /\ type = "SONG"
       /\ song_track' = Append(song_track, reg)
       /\ UNCHANGED audio_track
    \/ /\ type = "AUDIO_EFFECT"
       /\ audio_track' = audio_track \cup {reg}
       /\ UNCHANGED song_track

\* skipCurrentSong() where it returns true; on an empty track it does nothing.
SkipCurrentSong ==
    /\ song_track # <<>>
    /\ song_track' = Tail(song_track)
    /\ UNCHANGED audio_track

\* Mutant: the song that ends gives its rest of the step to the next one.
MutAdvanceSongs(track) ==
    IF track = <<>> THEN track
    ELSE LET front == Advance(Head(track)) IN
         IF ~Finished(front) THEN [track EXCEPT ![1] = front]
         ELSE IF Len(track) = 1 THEN <<>>
         ELSE <<Advance(track[2])>> \o SubSeq(track, 3, Len(track))

\* Mutant: a song that has not ended goes to the back of the track.
MutRotateSongs(track) ==
    IF track = <<>> THEN track
    ELSE LET front == Advance(Head(track)) IN
         IF Finished(front) THEN Tail(track) ELSE Append(Tail(track), front)

\* Only the front song is mixed; it leaves the track in the step that ends it.
AdvanceSongs(track) ==
    IF track = <<>> THEN track
    ELSE LET front == Advance(Head(track)) IN
         IF Finished(front) THEN Tail(track) ELSE [track EXCEPT ![1] = front]

\* Every effect is mixed; those that end leave in the same step.
AdvanceEffects(track) ==
    {r \in {Advance(e) : e \in track} : ~Finished(r)}

\* The clips in the AudioClip that step() returns; {} is std::nullopt.
MixedChunks ==
    (IF song_track = <<>> THEN {} ELSE {Chunk(Head(song_track))})
        \cup {Chunk(e) : e \in audio_track}

\* step(): both tracks advance, whatever becomes of the returned clip.
StepTracks ==
    /\ song_track' = AdvanceSongs(song_track)
    /\ audio_track' = AdvanceEffects(audio_track)

ClearTracks ==
    /\ song_track' = <<>>
    /\ audio_track' = {}

===============================================================================
