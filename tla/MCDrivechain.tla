---------------------------- MODULE MCDrivechain ----------------------------
(* Instances of Drivechain for TLC. *)
EXTENDS Drivechain, TLC

\* Two motors, the second mounted in reverse, wired with the ids they are listed with.
TwoIds == {1, 2}
SignLR == (1 :> 1) @@ (2 :> -1)
Wired == [u \in Units |-> u]

\* Forward, and turns beyond the clamp in both directions.
DriveCommands == {(1 :> 100) @@ (2 :> 100), (1 :> 300) @@ (2 :> -300), (1 :> -300) @@ (2 :> 300)}
OneCommand == {(1 :> 300) @@ (2 :> -300)}

\* One listed motor that is wired alone, and a free id to move it to.
SignOne == (1 :> 1)
CommandOne == {(1 :> 100)}
=============================================================================
