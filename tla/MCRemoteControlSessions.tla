---------------------- MODULE MCRemoteControlSessions ----------------------
(* Instances of RemoteControlSessions for TLC. *)
EXTENDS RemoteControlSessions, TLC

Symmetry == Permutations(Sessions) \cup Permutations(Keys)
              \cup Permutations(Desktops) \cup Permutations(Viewers)

=============================================================================
