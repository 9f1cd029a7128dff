----------------------------- MODULE LODManager -----------------------------
(***************************************************************************)
(* sdk/include/spatial/lod: which LOD of a tile is drawn, with hysteresis. *)
(* Distances, geometric errors and thresholds are naturals; a camera is    *)
(* its distance from a tile and the number of distance units at which an   *)
(* error of 1 uses up maxScreenSpaceErrorPx (k / maxErrorPx, from field of *)
(* view and viewport).                                                     *)
(***************************************************************************)
EXTENDS Naturals, Sequences, FiniteSetsExt

CONSTANTS
  Tiles,
  Errors,               \* Errors[t]: the geometricError of each LOD of tile t
  DistanceThresholds,   \* distanceThresholds
  HysteresisPercent,    \* 100 * hysteresisRatio
  Cameras               \* [distance, reach] of the cameras that may render

\* TileLOD data is ordered from fine to coarse (LODManager.h, line 34).
NonDecreasing(s) == \A i, j \in DOMAIN s : i < j => s[i] <= s[j]

ASSUME LODAssumption ==
  /\ Errors \in [Tiles -> Seq(Nat)]
  /\ \A t \in Tiles : NonDecreasing(Errors[t])
  /\ DistanceThresholds \in Seq(Nat) /\ NonDecreasing(DistanceThresholds)
  /\ HysteresisPercent \in 0 .. 99
  /\ Cameras \subseteq [distance : Nat, reach : Nat]

VARIABLES
  useError,     \* useScreenSpaceError of the loaded dataset's configuration
  currentLOD    \* m_currentLOD

lodVars == <<useError, currentLOD>>

LODInit == useError = TRUE /\ currentLOD = [t \in {} |-> 0]

\* A new LODManager with another configuration.
ResetLODs == useError' \in BOOLEAN /\ currentLOD' = [t \in {} |-> 0]
-----------------------------------------------------------------------------
\* thresholds[i] of the code is the i+1st of the sequence.
EffectiveThresholds(t, camera) ==
  IF useError
    THEN [i \in 1 .. Len(Errors[t]) - 1 |-> Errors[t][i + 1] * camera.reach]
    ELSE DistanceThresholds

\* The first threshold the camera has not reached, or the coarsest LOD.
SelectLODByDistance(distance, thresholds) ==
  LET beyond == {i \in DOMAIN thresholds : distance < thresholds[i]} IN
    IF beyond = {} THEN Len(thresholds) ELSE Min(beyond) - 1

Beyond(distance, boundary, percent) == 100 * distance >= boundary * percent

\* Mutant: the boundary of the next coarser LOD, both ways.
SameBoundary(candidate, current, distance, thresholds) ==
  IF \/ /\ candidate = current + 1
        /\ ~Beyond(distance, thresholds[current + 1], 100 + HysteresisPercent)
     \/ /\ candidate + 1 = current
        /\ distance > 0
  THEN current
  ELSE candidate

\* An adjacent LOD has to be reached by a margin, any other is taken at once.
ApplyHysteresis(candidate, current, distance, thresholds) ==
  IF \/ /\ candidate = current + 1
        /\ ~Beyond(distance, thresholds[current + 1], 100 + HysteresisPercent)
     \/ /\ candidate + 1 = current
        /\ 100 * distance > thresholds[current] * (100 - HysteresisPercent)
  THEN current
  ELSE candidate

SelectLOD(t, camera) ==
  LET thresholds == EffectiveThresholds(t, camera)
      candidate == SelectLODByDistance(camera.distance, thresholds)
  IN IF t \in DOMAIN currentLOD
       THEN ApplyHysteresis(candidate, currentLOD[t], camera.distance, thresholds)
       ELSE candidate

\* selectLOD() for each of the tiles drawn, from one camera.  What was selected
\* for other tiles is remembered: nobody calls forget().
SelectLODs(drawn, camera) ==
  currentLOD' = [t \in DOMAIN currentLOD \cup drawn |->
                   IF t \in drawn THEN SelectLOD(t, camera) ELSE currentLOD[t]]
-----------------------------------------------------------------------------
(***************************************************************************)
(* docs/lod.md promises the coarsest LOD whose error is within budget, up  *)
(* to the hysteresis band.  Whatever was selected before, and whatever     *)
(* field of view and viewport it was selected with: a camera that selected *)
(* LOD l has passed the threshold of l, and not the next one, by no more   *)
(* than the band.                                                          *)
(***************************************************************************)
WithinBand(l, distance, thresholds) ==
  /\ l \in 0 .. Len(thresholds)
  /\ l > 0 => Beyond(distance, thresholds[l], 100 - HysteresisPercent)
  /\ l < Len(thresholds) =>
       ~Beyond(distance, thresholds[l + 1], 100 + HysteresisPercent)
=============================================================================
