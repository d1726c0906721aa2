--------------------------- MODULE MCCommandLine ---------------------------
(* Instances of CommandLine for TLC. *)
EXTENDS CommandLine

Typed(o, text) == [key |-> o, text |-> text]

\* Both values of the switches, "-m 2", lists that are empty, fit, or are one
\* entry too long, and both halves of the credentials.
MCTyped ==
  {Typed("m", << <<2>> >>), Typed("m", << <<0>> >>),
   Typed("i", << <<7>> >>), Typed("i", << <<1, 2>> >>),
   Typed("b", << <<1>> >>), Typed("b", << <<0>> >>),
   Typed("t", << <<5, 0>> >>), Typed("o", << <<1, 0, 0>> >>),
   Typed("s", << <<5, 8>>, <<5, 9>> >>), Typed("s", << <<5, 10>>, <<1>>, <<2>> >>),
   Typed("l", << <<7>> >>), Typed("l", << <<3>>, <<9>> >>), Typed("l", <<>>),
   Typed("l", << <<1>>, <<2>>, <<3>>, <<4>> >>),
   Typed("u", << <<1>> >>), Typed("w", << <<1>> >>), Typed("w", <<>>),
   Typed("k", << <<1>> >>), Typed("c", << <<1>> >>), Typed("n", << <<2>> >>)}

\* "-i 12" and "-l 12".
MCTwoDigits == {Typed("i", << <<1, 2>> >>), Typed("l", << <<1, 2>> >>)}
=============================================================================
