--------------------------- MODULE ResourceState ---------------------------
(***************************************************************************)
(* sdk/include/spatial/streaming/ResourceState.h: the lifecycle of a tile  *)
(* as a relation, and StreamingManager::transition(), whose assert checks  *)
(* every step against it.                                                  *)
(***************************************************************************)
Lifecycle ==
  {"Unloaded", "Requested", "Loading", "LoadedCPU", "UploadPending",
   "Resident", "UnloadRequested", "Unloading"}

IsValidTransition(from, to) ==
  \/ from = "Unloaded"        /\ to = "Requested"
  \/ from = "Requested"       /\ to \in {"Loading", "Unloaded"}
  \/ from = "Loading"         /\ to \in {"LoadedCPU", "Unloaded"}
  \/ from = "LoadedCPU"       /\ to = "UploadPending"
  \/ from = "UploadPending"   /\ to \in {"Resident", "Unloaded"}
  \/ from = "Resident"        /\ to = "UnloadRequested"
  \/ from = "UnloadRequested" /\ to = "Unloading"
  \/ from = "Unloading"       /\ to = "Unloaded"

\* The assert of transition(), when it fires.  There is no way on from it.
Aborted == "Aborted"

\* transition(entry, to) of an entry in state `from'.
Transition(from, to) == IF IsValidTransition(from, to) THEN to ELSE Aborted

\* Mutant: the last transition of a load is left out.
NeverResident(from) == Transition(Transition(from, "LoadedCPU"), "UploadPending")

\* The two chains of calls that update() makes without a pause.
Landed(from) ==
  Transition(Transition(Transition(from, "LoadedCPU"), "UploadPending"), "Resident")

Evicted(from) ==
  Transition(Transition(Transition(from, "UnloadRequested"), "Unloading"), "Unloaded")
=============================================================================
