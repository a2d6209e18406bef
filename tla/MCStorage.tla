----------------------------- MODULE MCStorage -----------------------------
(***************************************************************************)
(* Bounds for model checking what the server keeps on disk: the lives of a *)
(* tenant (TenantLifecycle), the starts of the server on the data of an    *)
(* older version (Migrations), and files with their uploads                *)
(* (ResumableUpload).  They share no state: a behaviour runs the one that  *)
(* `scene' names, and the others keep their initial state.  Files have     *)
(* four scenes: plain handlers on a tenant's file; the admin's file and    *)
(* the reconcile page; two upload handlers with a plain one that deletes   *)
(* or publishes the file meanwhile; a plain upload and a resumable one in  *)
(* a changing quota.                                                       *)
(***************************************************************************)
EXTENDS TenantLifecycle, Migrations, ResumableUpload, TLC

CONSTANT Scenes    \* the scenes of a run

VARIABLE scene

mcvars == <<vars, mgvars, upvars, scene>>
SceneKeys == CASE scene = "tenant" -> TKeys
               [] scene = "admin" -> AKeys
               [] scene = "tus" -> UKeys
               [] scene = "quota" -> TKeys \cup UKeys
               [] OTHER -> {}

OneFile == \A s, t \in FTasks : ftask'[s] # FIdle /\ ftask'[t] # FIdle => s = t
OneUpload == \A s, t \in UTasks : utask'[s] # UIdle /\ utask'[t] # UIdle => s = t
FileScenes ==
    /\ UNext
    /\ \/ scene = "admin" /\ utask' = utask
       \/ scene = "tenant" /\ utask' = utask /\ tier' = tier
       \/ scene = "tus" /\ tier' = tier /\ OneFile
       \/ scene = "quota" /\ OneFile /\ OneUpload /\ lapsed' = {}
                          /\ \A t \in FTasks : ftask'[t].pc \in {"idle", "insert", "put", "undo"}
    /\ scene # "tenant" => crossed' = crossed
    /\ \A t \in FTasks : /\ ftask'[t].k \in SceneKeys \cup {NoKey}
                         /\ ftask'[t].pc = "rows" => scene = "admin"

MCInit == Init /\ MgInit /\ UInit /\ scene \in Scenes /\ (scene # "boot" => Rows(adm) = {})
MCNext ==
    /\ UNCHANGED scene
    /\ \/ scene = "life" /\ Next /\ UNCHANGED <<mgvars, upvars>>
       \/ scene = "boot" /\ MgNext /\ UNCHANGED <<vars, upvars>>
       \/ scene \notin {"life", "boot"} /\ FileScenes /\ UNCHANGED <<vars, mgvars>>
MCSpec == MCInit /\ [][MCNext]_mcvars

(* Handlers are told apart by nothing but what they do. *)
Symmetry == Permutations(FTasks) \cup Permutations(UTasks) \cup Permutations(Dels)
============================================================================
