----------------------------- MODULE CantorCliMC ----------------------------
(***************************************************************************)
(* The ways levo-cantor is invoked, for TLC.                               *)
(***************************************************************************)
EXTENDS CantorCli

Command(resuming, input, checkpoint) ==
  [resuming |-> resuming, input |-> input, checkpoint |-> checkpoint]

(* The two command lines of the README: a fresh request, and --resume of   *)
(* the file that is also --checkpoint.                                     *)
ReadmeCommands == {Command(FALSE, "a", "a"), Command(TRUE, "a", "a")}

(* A resumed run that is to keep its own checkpoint.                       *)
SeparateCommands == ReadmeCommands \cup {Command(TRUE, "a", "b")}
=============================================================================
