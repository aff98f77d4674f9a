------------------------------ MODULE MCNetGame ------------------------------
(* Servers for the runs of NetGame.                                         *)
EXTENDS NetGame

(* Every packet the model tells apart.                                      *)
AnyServer == ServerPackets

(* A server that never restarts its gamemode.                               *)
SteadyServer == ServerPackets \ {"GameModeRestart"}

(* A server that keeps to the class handshake, but may restart.             *)
ClassServer == {"ClassAccepted", "GameModeRestart"}
=============================================================================
