--------------------------- MODULE TileLifecycle ---------------------------
(***************************************************************************)
(* What StreamingManager promises about one tile when workers, queues and  *)
(* the order of its passes are left out: a tile is requested and made      *)
(* resident only while it is desired, and a resident tile is unloaded only *)
(* while it is not.                                                        *)
(***************************************************************************)
CONSTANT Tiles

VARIABLES
  state,    \* state[t]: what stateOf(t) returns
  desired   \* the tiles within the streaming radius

vars == <<state, desired>>

Init ==
  /\ state = [t \in Tiles |-> "Unloaded"]
  /\ desired = {}

CameraMoves ==
  /\ desired' \in SUBSET Tiles
  /\ UNCHANGED state

Step(t, from, to) ==
  /\ state[t] \in from
  /\ state' = [state EXCEPT ![t] = to]
  /\ UNCHANGED desired

Request(t) == t \in desired    /\ Step(t, {"Unloaded"}, "Requested")
Start(t)   ==                     Step(t, {"Requested"}, "Loading")
Land(t)    == t \in desired    /\ Step(t, {"Requested", "Loading"}, "Resident")
Drop(t)    ==                     Step(t, {"Requested", "Loading"}, "Unloaded")
Unload(t)  == t \notin desired /\ Step(t, {"Resident"}, "Unloaded")

Next ==
  \/ CameraMoves
  \/ \E t \in Tiles :
       Request(t) \/ Start(t) \/ Land(t) \/ Drop(t) \/ Unload(t)

Spec == Init /\ [][Next]_vars
=============================================================================
