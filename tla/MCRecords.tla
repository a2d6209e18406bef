----------------------------- MODULE MCRecords -----------------------------
(* Bounds for model checking RecordStore.  One run explores five scenes,   *)
(* each with the callers and the settings its hazards are about: writers   *)
(* and the history of an audited collection; owner scope, policies and     *)
(* capabilities; subscribers; stored RPCs; the history of write RPCs.      *)
EXTENDS RecordStore

CONSTANTS Solo, Extra   \* the requests

VARIABLE scene

Scenes == {"history", "rights", "events", "rpc", "writerpc"}
SceneSettings(sc) ==
    /\ sc.audit => scene \in {"history", "writerpc"}
    /\ sc.live \/ scene = "events"
    /\ scene \in {"history", "writerpc"} => sc.anon = {}
    /\ scene = "writerpc" => ~sc.owner
    /\ scene \in {"rights", "rpc"} => sc.anon # {}
    /\ sc.user = {} \/ scene = "rights"
    /\ sc.pol \in (CASE scene = "rights" -> SUBSET Verbs
                     [] scene \in {"history", "writerpc"} -> {{}} [] OTHER -> {{}, {"select"}})
    /\ scene # "rights" => (sc.own <=> sc.owner)
SceneRows(r) ==
    CASE scene \in {"history", "writerpc"} -> r.owner \in Callers
      [] scene = "events" -> r.owner = NoUser
      [] scene = "rpc" -> r.owner # NoUser /\ (r.val = 1 <=> r.owner \in Callers)
      [] OTHER -> r.owner # NoUser

MCInit == scene \in Scenes /\ RInit /\ SceneSettings(schema) /\ (schema.audit <=> scene \in {"history", "writerpc"})
MCNext ==
    /\ UNCHANGED scene
    /\ \/ Reconfigure /\ SceneSettings(schema')
       \/ EvictCollection
       \/ /\ scene = "history"
          /\ (PruneTenant /\ ~HistRoom(2)) \/ (\E u \in Users \cap Callers : McpDeleteUser(u) \/ DeleteUserHandler(u))
             \/ Request(Solo) \/ Publish(Extra) \/ (rtask[Solo].pc = "tx" /\ ServiceRequest(Extra))
       \/ scene = "rights" /\ (Request(Solo) \/ FunctionRequest(Solo) \/ ServiceRequest(Solo))
       \/ /\ scene = "events"
          /\ ServiceRequest(Solo) \/ Publish(Solo) \/ (\E s \in Subs : Listener(s))
       \/ /\ scene = "rpc"
          /\ \/ EditRpcs /\ UNCHANGED <<dvars, rtask, sub, trespass, leaked>>
             \/ RpcRequest(Solo) \/ RDrop(Solo)
             \/ \E r \in Rows : InsertRecord(Solo, r)
       \/ /\ scene = "writerpc"
          /\ \/ \E r \in RpcRows : r.write /\ CreateRpc("q", r) /\ UNCHANGED <<dvars, rtask, sub, trespass, leaked>>
             \/ RpcRequest(Solo) \/ Publish(Solo) \/ (PruneTenant /\ ~HistRoom(2))
             \/ \E r \in Rows : InsertRecord(Solo, r)
             \/ \E i \in Ids : DeleteRecord(Solo, i)
    /\ \A i \in Ids : SceneRows(rec'[i]) \/ rec'[i] = NoRow
    /\ \A t \in RTasks : SceneRows(rtask'[t].row) \/ rtask'[t].row = NoRow
    /\ scene # "history" => nextid' <= 2 /\ \A t \in RTasks : rtask'[t].id <= 1
    /\ scene = "rpc" => save' = NoSave \/ rtask'[Solo] = RIdle
    /\ scene = "history" => /\ schema'.owner = schema.owner
                            /\ \A i \in Ids : rec'[i].val = 2 => rec[i] # NoRow
                            /\ \A t \in RTasks : rtask'[t].op = "create" => rtask'[t].row.val = 1
                            /\ rtask'[Solo].op = "update" => rtask'[Solo].row.val = 2
                            /\ rtask'[Solo].op \notin {"read", "get"}
                            /\ rtask'[Solo].who = Service => ~(\E sc \in rtask'[Solo].sc : sc.owner)
                            /\ \A t \in RTasks : rtask[t].pc = "publish" => rtask'[t] = RIdle
    /\ scene = "rpc" => \A i \in Ids : rec[i] # NoRow => rec'[i] = rec[i]
    /\ scene = "rights" => changes' <= 1
MCSpec == MCInit /\ [][MCNext]_<<rvars, scene>>
============================================================================
