-------------------------------- MODULE Mirror --------------------------------
(***************************************************************************)
(* What librofm-sync promises its user: every audiobook bought on libro.fm *)
(* turns up in the audiobookshelf library under its own ISBN, and stays    *)
(* there until the user takes it away.                                     *)
(***************************************************************************)
EXTENDS Naturals

CONSTANT Size         \* of the libro.fm catalog

VARIABLES owned, mirrored, removed

Init ==
    /\ owned \in 1..Size
    /\ mirrored = {}
    /\ removed = {}

Purchase ==
    /\ owned < Size
    /\ owned' = owned + 1
    /\ UNCHANGED <<mirrored, removed>>

(* One owned book appears; none goes.                                      *)
Deliver(n) ==
    /\ n \notin mirrored
    /\ mirrored' = mirrored \union {n}
    /\ UNCHANGED <<owned, removed>>

(* The user deletes an item.  A book goes only if its recording is deleted *)
(* for the first time, and stays if the user has another copy of it.       *)
Withdraw ==
    /\ removed' \in {removed \union s : s \in SUBSET (0..Size)}
    /\ mirrored' \subseteq mirrored
    /\ mirrored \ mirrored' \subseteq removed' \ removed
    /\ UNCHANGED owned

Next == Purchase \/ (\E n \in 1..owned : Deliver(n)) \/ Withdraw

Spec == Init /\ [][Next]_<<owned, mirrored, removed>>
===============================================================================
