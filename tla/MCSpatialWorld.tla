--------------------------- MODULE MCSpatialWorld ---------------------------
EXTENDS SpatialWorld

CONSTANTS t1, t2, t3

MCTiles == {t1, t2, t3}

\* t1 has two materials and two LODs of two meshes and one, t2 one of each;
\* nothing of t3, which has three LODs, has to be uploaded.
MCMaterials == [t \in MCTiles |-> IF t = t1 THEN 2 ELSE IF t = t2 THEN 1 ELSE 0]
MCMeshes ==
  [t \in MCTiles |-> IF t = t1 THEN <<2, 1>> ELSE IF t = t2 THEN <<1>> ELSE <<0, 0, 0>>]

MCErrors ==
  [t \in MCTiles |-> IF t = t1 THEN <<0, 0>> ELSE IF t = t2 THEN <<0>> ELSE <<0, 2, 4>>]

\* By error t3 has its thresholds at 10 and 20, or at 20 and 40; by distance
\* every tile has one at 10.  The cameras are on both sides of the bands; the last
\* is that of a minimised window, whose viewport is zero pixels high.
MCThresholds == <<10>>
MCCameras ==
  [distance : {8, 10, 11, 18, 21, 22}, reach : {5}] \cup
  [distance : {18, 22, 40, 44}, reach : {10}] \cup
  [distance : {8}, reach : {0}]
=============================================================================
