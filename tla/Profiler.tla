------------------------------ MODULE Profiler ------------------------------
(***************************************************************************)
(* sdk/src/debug/Profiler.cpp.  Of a time only the number of measurements  *)
(* it is the sum of is kept.  The total of a frame, the time between       *)
(* beginFrame() and endFrame(), is left out.                               *)
(***************************************************************************)
EXTENDS Naturals

VARIABLES
  current,    \* m_current.sectionMs: the measurements of each section so far
  lastFrame   \* m_lastFrame.sectionMs

profilerVars == <<current, lastFrame>>

Sections == {"StreamingUpdate", "GPUUpload", "LODSelection", "DebugDraw"}

Nothing == [s \in Sections |-> 0]

ProfilerInit == current = Nothing /\ lastFrame = Nothing

\* Mutant: only the time of the frame starts anew.
KeepSections(measured) == [s \in Sections |-> current[s] + (IF s \in measured THEN 1 ELSE 0)]

\* beginFrame(), then a measure() of each of the given sections.
BeginFrame(measured) == [s \in Sections |-> IF s \in measured THEN 1 ELSE 0]

\* A measure() of each of the given sections, then endFrame().
EndFrame(measured) ==
  /\ current' = [s \in Sections |-> current[s] + (IF s \in measured THEN 1 ELSE 0)]
  /\ lastFrame' = current'
=============================================================================
