--------------------------- MODULE MCEngineBridge ---------------------------
EXTENDS EngineBridge

CONSTANTS t1, t2, t3

MCTiles == {t1, t2, t3}

\* t1 has a mesh in each of its two LODs and one material, which the coarse
\* mesh does not use; t2 has two meshes and two materials; the only mesh of t3
\* has no vertices.
MCMaterials == [t \in MCTiles |-> CASE t = t1 -> 1 [] t = t2 -> 2 [] t = t3 -> 0]
MCMeshes ==
  [t \in MCTiles |-> CASE t = t1 -> <<1, 1>> [] t = t2 -> <<2>> [] t = t3 -> <<1>>]
MCMaterialIndex ==
  [t \in MCTiles |-> CASE t = t1 -> <<<<0>>, <<-1>>>>
                       [] t = t2 -> <<<<1, 0>>>>
                       [] t = t3 -> <<<<0>>>>]
MCEmptyMeshes == {<<t3, 1, 1>>}
MCErrors == [t \in MCTiles |-> IF t = t1 THEN <<0, 2>> ELSE <<0>>]

\* Before and after the threshold of t1.
MCCameras == [distance : {8, 12}, reach : {5}]
MCNoThresholds == <<>>
=============================================================================
