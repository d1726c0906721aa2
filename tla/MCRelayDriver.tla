--------------------------- MODULE MCRelayDriver ---------------------------
(* Instances of RelayDriver for TLC. *)
EXTENDS RelayDriver, TLC

\* Two boards, "-s 0x58,0x59".
MCTwoBoards == [s \in Slot |-> 88 + s]

\* One board, "-s 0x58": the second slot is unused.
MCOneBoard == [s \in Slot |-> IF s = 0 THEN 88 ELSE 0]

\* The callbacks only ask whether a value is positive.
MCValue == {-1, 0, 1}

\* The relays of a board are alike.
MCSymmetry == Permutations(Relay)
=============================================================================
