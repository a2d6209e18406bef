-------------------------- MODULE MCPatRevocation --------------------------
(* Bounds for model checking AdminIdentity and PatRevocation.  One run     *)
(* explores two scenes: several handlers of the team and its tokens in     *)
(* flight at once; one handler at a time against a request at the door, where  *)
(* device codes do not expire.                                             *)
EXTENDS PatRevocation, TLC

CONSTANTS DoorToks, DoorSecrets   \* the smaller bounds of the second scene

VARIABLE scene

(* In the first scene, which looks at the tables alone, a handler's        *)
(* aftermath overlaps at most with handlers before their commit, and       *)
(* tokens do not expire.                                                   *)
Team ==
    /\ Next /\ UNCHANGED doorVars /\ owner' = owner /\ \A t \in TokIds : ~tok'[t].expired
    /\ \A i, j \in Jobs : {job'[i].pc, job'[j].pc} \subseteq {"clear", "evict"} => i = j
Door ==
    /\ DoorNext
    /\ \A i, j \in Jobs : job'[i] # Idle /\ job'[j] # Idle => i = j
    /\ \A c \in Codes : ~code'[c].expired
    /\ \A t \in TokIds : tok'[t].used => t <= DoorToks
    /\ secrets' <= DoorSecrets

MCInit == DoorInit /\ scene \in {"team", "door"}
MCNext == UNCHANGED scene /\ (scene = "team" => Team) /\ (scene = "door" => Door)
MCSpec == MCInit /\ [][MCNext]_<<allVars, scene>>

(* Handlers are told apart by nothing but what they do. *)
Symmetry == Permutations(Jobs)
============================================================================
