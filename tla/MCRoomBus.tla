----------------------------- MODULE MCRoomBus -----------------------------
(* Bounds for model checking RoomBus.  One run explores two scenes: two    *)
(* clients without deadlines in one room; one client that may reconnect,   *)
(* with and without a deadline, in two rooms.                              *)
EXTENDS RoomBus

CONSTANTS Solo, Lobby   \* the client and the room of the small scenes

VARIABLE scene

Crowd ==
    /\ \A c \in Conns : opened'[c] <= 1 /\ conn'[c].dl = "none"
    /\ \A c \in Conns, r \in Rooms \ {Lobby} : conn'[c].sub[r] = "no" /\ conn'[c].arg # r
    /\ \A t \in Tenants, r \in Rooms \ {Lobby} : ~chan'[t][r]
Alone == \A c \in Conns \ {Solo} : conn'[c].pc = "away"

MCInit == Init /\ scene \in {"crowd", "alone"}
MCNext == Next /\ UNCHANGED scene /\ (scene = "crowd" => Crowd) /\ (scene = "alone" => Alone)
MCSpec == MCInit /\ [][MCNext]_<<vars, scene>> /\ LoopFairness /\ \A c \in Conns : WF_vars(Sent(c))
============================================================================
