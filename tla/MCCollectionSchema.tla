------------------------ MODULE MCCollectionSchema ------------------------
(***************************************************************************)
(* CollectionSchema and CollectionIndexes for TLC.  A behaviour runs one   *)
(* of the two: `scene' is chosen at the start, the other stays as it is.   *)
(***************************************************************************)
EXTENDS CollectionSchema, CollectionIndexes, TLC

CONSTANT MaxChanges    \* bound: changes of the schema in one behaviour

VARIABLES scene, changes

mcvars == <<vars, ivars, scene, changes>>
MCInit == Init /\ IInit /\ scene \in {"schema", "indexes"} /\ changes = 0
MCNext ==
    /\ UNCHANGED scene
    /\ \/ scene = "schema" /\ Next /\ UNCHANGED ivars
          /\ changes' = (IF Describe' = Describe THEN changes ELSE changes + 1)
          /\ changes' <= MaxChanges
       \/ scene = "indexes" /\ INext /\ UNCHANGED <<vars, changes>>
MCSpec == MCInit /\ [][MCNext]_mcvars

Symmetry == Permutations(Tasks) \cup Permutations(Colls)
============================================================================
