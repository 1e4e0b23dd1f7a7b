----------------------------- MODULE MCRobotAgent -----------------------------
(* The robot agent with two offers and two peer connections.                 *)
EXTENDS RobotAgent, TLC

CONSTANTS p1, p2, s1, s2

MCPeers == {p1, p2}
MCPeer == {p1}
MCSessions == {s1, s2}
MCSession == {s1}
MCSymmetry == Permutations(MCPeers)

(* s1 grants teleop:control, s2 only teleop:view. *)
MCControlSessions == {s1}
=============================================================================
