--------------------------- MODULE DebugRenderer ----------------------------
(***************************************************************************)
(* sdk/src/debug/DebugRenderer.cpp: the lines of the debug overlay.  A     *)
(* line has two ends and a colour; in which order lines are drawn is left  *)
(* out.                                                                    *)
(***************************************************************************)
EXTENDS Integers

ColorForState(state) ==
  CASE state = "Resident" -> "green"
    [] state = "Requested" -> "red"
    [] state \in {"Loading", "LoadedCPU", "UploadPending"} -> "yellow"
    [] state \in {"Unloaded", "UnloadRequested", "Unloading"} -> "gray"

\* The corners of a box, counted from 1, and the edges drawn between them.
BoxCorners(box) ==
  LET mn == box.min  mx == box.max IN
    <<mn, <<mx[1], mn[2], mn[3]>>, <<mx[1], mx[2], mn[3]>>, <<mn[1], mx[2], mn[3]>>,
      <<mn[1], mn[2], mx[3]>>, <<mx[1], mn[2], mx[3]>>, mx, <<mn[1], mx[2], mx[3]>>>>

BoxEdges ==
  {<<1, 2>>, <<2, 3>>, <<3, 4>>, <<4, 1>>, <<5, 6>>, <<6, 7>>, <<7, 8>>, <<8, 5>>,
   <<1, 5>>, <<2, 6>>, <<3, 7>>, <<4, 8>>}

\* drawAABB(), drawLine(): the lines of a box.  They are collected until flush()
\* hands the renderer all of them at once, or none.
DrawAABB(box, color) ==
  {[from |-> BoxCorners(box)[e[1]], to |-> BoxCorners(box)[e[2]], color |-> color] :
     e \in BoxEdges}

DrawTileBounds(bounds, state) == DrawAABB(bounds, ColorForState(state))
=============================================================================
