------------------------------- MODULE Jukebox -------------------------------
(***************************************************************************)
(* What the bot promises its listeners of the clips they ask for: songs    *)
(* are heard one at a time and in the order in which they were asked for,  *)
(* effects over them, and no part of a clip is heard twice.  A song may be *)
(* cut short (/skip, a disconnect), and it is not heard again after a      *)
(* later one.                                                              *)
(***************************************************************************)
EXTENDS Integers, Sequences

CONSTANTS
    Sizes,          \* of clips
    Step            \* the most of a clip that is heard at one time

VARIABLE clips      \* the clips asked for, and how much of each was heard

Songs == {i \in DOMAIN clips : clips[i].type = "SONG"}

Init == clips = <<>>

Ask ==
    \E type \in {"SONG", "AUDIO_EFFECT"}, size \in Sizes :
      clips' = Append(clips, [type |-> type, size |-> size, heard |-> 0])

\* Part of each clip in more is heard.
Hear(more) ==
    /\ \A i \in DOMAIN clips : clips[i].heard + more[i] <= clips[i].size
    /\ \A i, j \in Songs : i < j /\ more[i] > 0 => clips[j].heard + more[j] = 0
    /\ clips' = [i \in DOMAIN clips |-> [clips[i] EXCEPT !.heard = @ + more[i]]]

Next == Ask \/ \E more \in [DOMAIN clips -> 0 .. Step] : Hear(more)

Spec == Init /\ [][Next]_clips

==============================================================================
