---------------------------- MODULE EngineSpace -----------------------------
(***************************************************************************)
(* What crosses the border between the SDK's space (right-handed, Y up,    *)
(* metres; matrices act on columns, core/Mat4.h) and an engine's: Unity's  *)
(* (left-handed, Y up; CoordinateConversion.cs) and Unreal's (left-handed, *)
(* Z up, centimetres; UnrealCoordinateConversion.h and the component's     *)
(* BuildTransform).  The viewer and an engine of one's own stay in the     *)
(* SDK's space.  Coordinates are whole numbers, of metres or centimetres.  *)
(***************************************************************************)
EXTENDS Integers, Sequences

Axes == 1 .. 3
Points == [Axes -> Int]
Rows == 1 .. 4

kMetersToCentimeters == 100

Minus(v, w) == [i \in Axes |-> v[i] - w[i]]
Dot(v, w) == v[1] * w[1] + v[2] * w[2] + v[3] * w[3]
Cross(v, w) == <<v[2] * w[3] - v[3] * w[2],
                 v[3] * w[1] - v[1] * w[3],
                 v[1] * w[2] - v[2] * w[1]>>

Identity == [row \in Rows |-> [col \in Rows |-> IF row = col THEN 1 ELSE 0]]

\* Mat4::transformPoint(), of a matrix whose last row is that of Identity.
TransformPoint(m, p) ==
  [i \in Axes |-> m[i][1] * p[1] + m[i][2] * p[2] + m[i][3] * p[3] + m[i][4]]
-----------------------------------------------------------------------------
\* ToUnityPosition(), ToUnityDirection(), and what ToNativeCamera() does to both
\* vectors of the camera.
NegateZ(v) == <<v[1], v[2], -v[3]>>

ToUnityMatrix(m) ==
  [row \in Rows |-> [col \in Rows |->
     IF (row = 3) # (col = 3) THEN -m[row][col] ELSE m[row][col]]]

\* conv::direction(), conv::toSpatialDirection()
SwapYZ(v) == <<v[1], v[3], v[2]>>

\* conv::position()
ToCentimeters(p) == [i \in Axes |-> SwapYZ(p)[i] * kMetersToCentimeters]

\* conv::toSpatialPosition(), for whole metres.
ToMeters(p) == [i \in Axes |-> SwapYZ(p)[i] \div kMetersToCentimeters]

Perm == <<1, 3, 2, 4>>

\* conv::transform()
ToUnrealMatrix(m) ==
  [row \in Rows |-> [col \in Rows |->
     IF col = 4 /\ row # 4
       THEN m[Perm[row]][Perm[col]] * kMetersToCentimeters
       ELSE m[Perm[row]][Perm[col]]]]

\* BuildTransform(): an FMatrix acts on rows.
BuildTransform(m) == [row \in Rows |-> [col \in Rows |-> m[col][row]]]

TransformRow(m, p) ==
  [i \in Axes |-> p[1] * m[1][i] + p[2] * m[2][i] + p[3] * m[3][i] + m[4][i]]
-----------------------------------------------------------------------------
\* A position, a normal, and a mesh vertex under a draw command's transform m,
\* as the engine has them.
EnginePosition(engine, p) ==
  CASE engine = "Unity" -> NegateZ(p)
    [] engine = "Unreal" -> ToCentimeters(p)
    [] OTHER -> p

EngineNormal(engine, v) ==
  CASE engine = "Unity" -> NegateZ(v)
    [] engine = "Unreal" -> SwapYZ(v)
    [] OTHER -> v

EngineVertex(engine, m, p) ==
  LET q == EnginePosition(engine, p) IN
    CASE engine = "Unity" -> TransformPoint(ToUnityMatrix(m), q)
      [] engine = "Unreal" -> TransformRow(BuildTransform(ToUnrealMatrix(m)), q)
      [] OTHER -> TransformPoint(m, q)

\* The camera and the streaming radius of the engine, as the SDK is given them.
SpatialCamera(engine, p) ==
  CASE engine = "Unity" -> NegateZ(p)
    [] engine = "Unreal" -> ToMeters(p)
    [] OTHER -> p

\* A radius as the user of the engine sets it.
EngineRadius(engine, radius) ==
  IF engine = "Unreal" THEN radius * kMetersToCentimeters ELSE radius

SpatialRadius(engine, radius) ==
  IF engine = "Unreal" THEN radius \div kMetersToCentimeters ELSE radius

\* Mutant: the winding is left as it is.
KeepWinding(engine, indices) == indices

\* A mirror turns triangles round: GetOrBuildMesh() of Unity and
\* SpatialUnreal_GetMeshData() swap the last two indices of each.  What follows
\* the last whole triangle is not copied; here is none.
EngineIndices(engine, indices) ==
  IF engine \in {"Unity", "Unreal"}
    THEN [i \in DOMAIN indices |->
            CASE i % 3 = 1 -> indices[i]
              [] i % 3 = 2 -> indices[i + 1]
              [] OTHER -> indices[i - 1]]
    ELSE indices
=============================================================================
