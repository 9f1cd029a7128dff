---------------------------- MODULE MCFrameLoop -----------------------------
EXTENDS FrameLoop

CONSTANTS r1, r2, near, far

MCTiles == {near, far}

\* Two tiles of four metres a side; their buildings are lower than the index has
\* it for one of them, and higher for the other.
MCIndexBox ==
  [t \in MCTiles |-> IF t = near THEN [min |-> <<0, 0, 0>>, max |-> <<4, 4, 4>>]
                                 ELSE [min |-> <<4, 0, 0>>, max |-> <<8, 4, 4>>]]
MCTileBox ==
  [t \in MCTiles |-> IF t = near THEN [min |-> <<0, 0, 0>>, max |-> <<4, 2, 4>>]
                                 ELSE [min |-> <<4, 0, 0>>, max |-> <<8, 6, 4>>]]

\* From the first both tiles are within reach, one just so; from the second one is,
\* just so, and would not be from the other side of the plane z = 0.
MCCameras == {<<2, 3, 2>>, <<-2, 3, 4>>}

MCSizes == {Minimised, <<4, 0>>, <<4, 3>>, <<4, 2>>}

MCDirections ==
  [e \in Hosts |-> IF e = "Unreal" THEN {<<1, 0, 0>>, <<0, -1, 0>>}
                                      ELSE {<<1, 0, 0>>, <<0, 0, -1>>}]

\* A quarter turn about the vertical and a translation.
MCTransforms ==
  {Identity,
   <<<<0, 0, 1, 5>>, <<0, 1, 0, 7>>, <<-1, 0, 0, 11>>, <<0, 0, 0, 1>>>>}
=============================================================================
