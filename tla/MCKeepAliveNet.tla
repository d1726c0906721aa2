-------------------------- MODULE MCKeepAliveNet --------------------------
(* Instances of KeepAliveNet for TLC. *)
EXTENDS KeepAliveNet

\* No board: what the relays do in safe mode is in Coupler and RelayDriver.
MCNoBoard == [s \in 0 .. N_SLOTS - 1 |-> 0]

\* One watched coupler.  Its ID, as this coupler's below it, leaves 4 bits to the
\* beats: just enough for those of one digit.
MCWatched == 1000000
MCOwn == MCWatched - 1
MCIds == {MCWatched}
MCWatchOne == <<MCWatched>>
=============================================================================
