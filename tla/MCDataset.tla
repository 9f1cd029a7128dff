----------------------------- MODULE MCDataset ------------------------------
EXTENDS Dataset

\* A tile with every loop of the format run zero times, once and twice.
Full ==
  [id |-> <<1, 1, 0>>, parent |-> <<<<0, 1, 2>>>>,
   children |-> <<<<2, 3, 4>>, <<2, 4, 5>>>>, bounds |-> <<0, 0, 1000, 1000>>,
   lods |-> <<[error |-> 1, meshes |->
                 <<[materialIndex |-> 0, vertices |-> <<1, 2>>, indices |-> <<3>>],
                   [materialIndex |-> 1, vertices |-> <<>>, indices |-> <<>>]>>],
              [error |-> 2, meshes |-> <<>>]>>,
   materials |-> <<1, 2>>, metadata |-> <<3, 4>>]

Run(gridSize, tileSize, maxLOD, side) ==
  [gridSize |-> gridSize, tileSize |-> tileSize, maxLOD |-> maxLOD,
   buildingsPerTileSide |-> side]

Written(version, tileSize, worldSize) ==
  [version |-> version, tileSize |-> tileSize, worldSize |-> worldSize, build |-> 0]

\* Accepted: 8 x 8 tiles, one tile, 4 x 4 that do not quite fit the world or
\* that it does not quite fill.  Refused: sizes, grids, versions.
HandWritten ==
  {Written(1, 1000, 8000), Written(1, 1000, 1000), Written(1, 1000, 3992),
   Written(1, 1000, 4008), Written(17, 1000, 2000), Written(0, 1000, 2000),
   Written(2, 1000, 2000), Written(1, 1000, 3000), Written(1, 1000, 3900),
   Written(1, 0, 3000), Written(1, 1000, 8)}

OnDisk(found, saved, builds) ==
  [found |-> found, saved |-> saved, builds |-> builds]

\* Built twice with other options, built finer (and with a grid that is
\* refused), and built over what somebody else wrote.
MCDatasets ==
  {OnDisk({m}, {}, <<>>) : m \in HandWritten} \cup
  {OnDisk({Written(1, 1000, 2000)}, {Full}, <<>>),
   OnDisk({}, {}, <<Run(2, 1000, 0, 0), Run(2, 800, 1, 1)>>),
   OnDisk({}, {}, <<Run(1, 1000, 2, 2), Run(2, 1000, 0, 1)>>),
   OnDisk({}, {}, <<Run(1, 1000, 0, 0), Run(4, 1000, 0, 0), Run(3, 1000, 0, 0)>>),
   OnDisk({Written(1, 1000, 3992)}, {}, <<Run(2, 1000, 1, 0)>>)}

Places == {-4000, -2003, -1000, -998, 0, 4, 100, 1996, 2000}

Disc(x, z, radius) == [kind |-> "radius", x |-> x, z |-> z, radius |-> radius]
Area(x, z, size) == [kind |-> "box", box |-> Box(x, z, x + size, z + size)]

\* A wedge that opens to the right of (x, z).
Wedge(x, z) ==
  [kind |-> "frustum",
   planes |-> {[x |-> 1, z |-> 1, d |-> -x - z], [x |-> 1, z |-> -1, d |-> z - x]}]

MCQueries ==
  {Disc(x, z, r) : x \in Places, z \in {-2003, 0, 997}, r \in {0, 8, 1500}} \cup
  {Area(x, z, s) : x \in Places, z \in {-998, 0}, s \in {0, 1200}} \cup
  {Wedge(x, z) : x \in Places, z \in {-998, 0}}
=============================================================================
