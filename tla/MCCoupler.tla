----------------------------- MODULE MCCoupler -----------------------------
(* Instances of Coupler for TLC. *)
EXTENDS Coupler

\* One board with one relay; the second slot is unused.
MCOneBoard == [s \in 0 .. N_SLOTS - 1 |-> IF s = 0 THEN 88 ELSE 0]

\* "-l 1" and "-l 1,2" with the unused rest of the list cut to one entry or none.
MCWatchOne == <<1, 0>>
MCWatchTwo == <<1, 2>>

\* The wall clock set back and forth, by less and by more than the timeout.
MCSetClock == {-3, 5}
=============================================================================
