------------------------------ MODULE MCTransfer ------------------------------
(* Two archives whose file names interleave, a file that is no MP3, and a  *)
(* track list out of order, with a blank title and one track too few.      *)
EXTENDS Transfer

EntriesDef == <<[name |-> 2, track |-> 2, mp3 |-> TRUE], [name |-> 9, track |-> 9, mp3 |-> FALSE],
                [name |-> 1, track |-> 1, mp3 |-> TRUE], [name |-> 3, track |-> 3, mp3 |-> TRUE]>>

TracksDef == <<[number |-> 2, title |-> 0], [number |-> 1, title |-> 7]>>

(* What the order of these uploads rests on.                               *)
ASSUME FilesInOrder == InOrder
===============================================================================
