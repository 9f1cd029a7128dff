-------------------------- MODULE FrameLoop_proofs --------------------------
(***************************************************************************)
(* What a user sees and what a profile says, for any tiles, boxes, cameras,*)
(* window sizes, keys and renderers, and for each of the four hosts.       *)
(*                                                                         *)
(* The properties of a frame are about its last step, render(), and about  *)
(* what the steps before have left for it.  FrameInv is what is left: that *)
(* the viewer's buffers have the window's size unless a resize is pending, *)
(* that its keys are counted since the last pump, that the profiler has    *)
(* what update() measured and nothing else, and that a component has not   *)
(* been switched since it updated the world.                               *)
(*                                                                         *)
(* That a scene stands right is a fact of geometry, proved for every point,*)
(* direction, matrix and triangle over the whole numbers.                  *)
(***************************************************************************)
EXTENDS FrameLoop, TLAPS

\* The types of what the invariants of the window are about.
WindowTypes ==
  /\ captured \in BOOLEAN /\ button \in BOOLEAN /\ focused \in BOOLEAN
  /\ size \in Sizes /\ resized \in BOOLEAN
  /\ hides \in Int

WindowInv == WindowTypes /\ CursorComesBack

\* What the viewer has of its window when it updates, and keeps until it has drawn.
BuffersFollow ==
  host = "Viewer" =>
    /\ phase = "render" => ~resized
    /\ ~resized /\ HasArea(size) => backBuffer = size

\* The keys pressed in this frame are those that went down in this pump.
PressesCounted ==
  host = "Viewer" /\ phase # "end" => keysPressed = wentDown

\* Between update() and render() the profile has what update() measured.
UpdateMeasured ==
  /\ current \in [Sections -> Nat]
  /\ phase = "render" =>
       current = BeginFrame(IF updated THEN {"StreamingUpdate", "GPUUpload"} ELSE {})

\* The types of what is drawn; the view is a camera's, in the engine's space.
FrameTypes ==
  /\ host \in Hosts
  /\ phase \in {"messages", "update", "render", "end"}
  /\ loaded \in BOOLEAN /\ visualize \in BOOLEAN /\ enable \in BOOLEAN
  /\ states \in [Tiles -> ObservedStates]
  /\ renderer \in Renderers
  /\ DOMAIN lines = Renderers
  /\ view \in {EnginePosition(host, c) : c \in Cameras}

\* What a component has set stays so until it draws.
ComponentDraws ==
  Component /\ phase = "render" => loaded /\ visualize = enable

\* The inductive invariant.
FrameInv ==
  /\ FrameTypes
  /\ WindowInv
  /\ BuffersFollow
  /\ PressesCounted
  /\ UpdateMeasured
  /\ ComponentDraws
-----------------------------------------------------------------------------
\* Who holds no capture shows the cursor as often as it was hidden.
LEMMA EndingKeeps ==
  ASSUME WindowInv, EndMouseCapture, UNCHANGED <<size, resized>>,
         focused' \in BOOLEAN, button' \in BOOLEAN
  PROVE  WindowInv'
<1>1. captured' = FALSE
  BY DEF EndMouseCapture
<1>2. hides' = 0
  <2>1. CASE captured
    BY <2>1 DEF EndMouseCapture, WindowInv, CursorComesBack
  <2>2. CASE ~captured
    BY <2>2 DEF EndMouseCapture, WindowInv, CursorComesBack
  <2> QED BY <2>1, <2>2
<1>3. CursorComesBack'
  BY <1>1, <1>2, Zenon DEF CursorComesBack
<1>4. WindowTypes'
  <2>1. hides' \in Int
    BY <1>2
  <2> QED BY <1>1, <2>1, Zenon DEF WindowInv, WindowTypes
<1> QED BY <1>3, <1>4 DEF WindowInv

\* Capture and cursor are left alone.
LEMMA UnchangedKeeps ==
  ASSUME WindowInv, UNCHANGED <<captured, focused, button, hides>>,
         size' \in Sizes, resized' \in BOOLEAN
  PROVE  WindowInv'
<1>1. CursorComesBack'
  BY Zenon DEF WindowInv, CursorComesBack
<1>2. WindowTypes'
  BY DEF WindowInv, WindowTypes
<1> QED BY <1>1, <1>2 DEF WindowInv

\* Only messages move the keyboard, the mouse and the cursor.
LEMMA MessagesKeepWindow == WindowInv /\ HandleMessage => WindowInv'
<1> SUFFICES ASSUME WindowInv, HandleMessage PROVE WindowInv'
  OBVIOUS
<1>0. /\ button \in BOOLEAN /\ focused \in BOOLEAN
      /\ size \in Sizes /\ resized \in BOOLEAN
  BY DEF WindowInv, WindowTypes
<1>1. CASE \E key \in Keys : PressKey(key) \/ RepeatKey(key) \/ ReleaseKey(key)
  <2>1. UNCHANGED <<size, resized, captured, focused, button, hides>>
    BY <1>1 DEF PressKey, RepeatKey, ReleaseKey, HandleKeyDown, desktopVars
  <2> QED BY <1>0, <2>1, UnchangedKeeps
<1>2. CASE PressButton
  BY <1>2 DEF PressButton, BeginMouseCapture, WindowInv, WindowTypes, CursorComesBack
<1>3. CASE ReleaseButton
  BY <1>0, <1>3, EndingKeeps DEF ReleaseButton
<1>4. CASE LoseFocus
  BY <1>0, <1>4, EndingKeeps DEF LoseFocus, HandleKillFocus
<1>5. CASE GainFocus
  <2>1. captured = FALSE
    BY <1>5 DEF GainFocus, WindowInv, WindowTypes, CursorComesBack
  <2> QED BY <1>5, <2>1 DEF GainFocus, WindowInv, WindowTypes, CursorComesBack, windowVars
<1>6. CASE \E s \in Sizes : ChangeSize(s)
  BY <1>6, UnchangedKeeps DEF ChangeSize, desktopVars, inputVars
<1>7. CASE CloseWindow
  BY <1>0, <1>7, UnchangedKeeps DEF CloseWindow, desktopVars, inputVars
<1> QED BY <1>1, <1>2, <1>3, <1>4, <1>5, <1>6, <1>7 DEF HandleMessage

\* The steps of a frame leave keyboard, mouse and cursor alone.
LEMMA FramesKeepWindow == WindowInv /\ [FrameNext]_frameVars => WindowInv'
<1> SUFFICES ASSUME WindowInv, [FrameNext]_frameVars PROVE WindowInv'
  OBVIOUS
<1>1. CASE ViewerMessage
  BY <1>1, MessagesKeepWindow DEF ViewerMessage
<1>0. size \in Sizes /\ resized \in BOOLEAN
  BY DEF WindowInv, WindowTypes
<1>2. CASE UNCHANGED <<windowVars, desktopVars>>
  BY <1>0, <1>2, UnchangedKeeps DEF windowVars, desktopVars
<1>3. CASE ViewerQuits \/ ViewerFailsToResize
  BY <1>2, <1>3 DEF ViewerQuits, ViewerFailsToResize
<1>4. CASE ViewerUpdates
  BY <1>0, <1>4, UnchangedKeeps DEF ViewerUpdates, inputVars, desktopVars
<1>5. CASE ViewerRenders
  BY <1>0, <1>5, UnchangedKeeps DEF ViewerRenders
<1>6. CASE NoWindow
  BY <1>2, <1>6 DEF NoWindow
<1>7. CASE \/ SetEnable \/ ComponentUpdates \/ ComponentRenders \/ TickWithoutCamera
          \/ CustomLoads \/ CustomShutsDown \/ CustomToggles \/ CustomUpdates
          \/ CustomRenders
  BY <1>6, <1>7
     DEF SetEnable, ComponentUpdates, ComponentRenders, TickWithoutCamera, CustomLoads,
         CustomShutsDown, CustomToggles, CustomUpdates, CustomRenders
<1>8. CASE UNCHANGED frameVars
  BY <1>2, <1>8 DEF frameVars
<1> QED BY <1>1, <1>3, <1>4, <1>5, <1>7, <1>8 DEF FrameNext, RenderFrame
-----------------------------------------------------------------------------
\* A host is a host for ever.
LEMMA HostStays == [FrameNext]_frameVars => host' = host
BY Zenon
   DEF FrameNext, RenderFrame, frameVars, ViewerMessage, ViewerQuits, ViewerUpdates,
       ViewerFailsToResize, ViewerRenders, SetEnable, ComponentUpdates, ComponentRenders,
       TickWithoutCamera, CustomLoads, CustomShutsDown, CustomToggles, CustomUpdates,
       CustomRenders

\* The steps of the viewer are not those of the others.
LEMMA ViewersSteps ==
  ASSUME host = "Viewer", [FrameNext]_frameVars
  PROVE  \/ ViewerMessage \/ ViewerQuits \/ ViewerUpdates \/ ViewerFailsToResize
         \/ ViewerRenders \/ UNCHANGED frameVars
<1>1. ~Component /\ host # "Custom"
  BY DEF Component
<1> QED BY <1>1
        DEF FrameNext, RenderFrame, SetEnable, ComponentUpdates, ComponentRenders,
            TickWithoutCamera, CustomLoads, CustomShutsDown, CustomToggles,
            CustomUpdates, CustomRenders

\* A message that changes the size marks it as changed.
LEMMA MessagesResize == HandleMessage => resized' = TRUE \/ UNCHANGED <<size, resized>>
BY DEF HandleMessage, PressKey, RepeatKey, ReleaseKey, HandleKeyDown, PressButton,
       ReleaseButton, LoseFocus, GainFocus, ChangeSize, CloseWindow, windowVars,
       desktopVars

\* A resize is pending, or the buffers have the window's size.
LEMMA BuffersStep == BuffersFollow /\ [FrameNext]_frameVars => BuffersFollow'
<1> SUFFICES ASSUME BuffersFollow, [FrameNext]_frameVars, host = "Viewer"
             PROVE  BuffersFollow'
  BY HostStays DEF BuffersFollow
<1> USE DEF BuffersFollow
<1>1. CASE ViewerMessage
  BY <1>1, MessagesResize DEF ViewerMessage
<1>2. CASE ViewerQuits \/ ViewerFailsToResize
  BY <1>2 DEF ViewerQuits, ViewerFailsToResize, windowVars
<1>3. CASE ViewerUpdates
  <2>1. HasArea(size) => ResizedTo(size) = size
    BY DEF ResizedTo
  <2>2. resized' = FALSE /\ size' = size
    BY <1>3 DEF ViewerUpdates
  <2>3. HasArea(size) => backBuffer' = size
    BY <1>3, <2>1 DEF ViewerUpdates
  <2> QED BY <2>2, <2>3
<1>4. CASE ViewerRenders
  BY <1>4 DEF ViewerRenders
<1>5. CASE UNCHANGED frameVars
  BY <1>5 DEF frameVars, windowVars
<1> QED BY <1>1, <1>2, <1>3, <1>4, <1>5, ViewersSteps

\* Messages count a key as pressed when the user presses it, not when it repeats.
LEMMA MessagesCount ==
  HandleMessage /\ keysPressed = wentDown => keysPressed' = wentDown'
<1> SUFFICES ASSUME HandleMessage, keysPressed = wentDown PROVE keysPressed' = wentDown'
  OBVIOUS
<1>1. CASE \E key \in Keys : PressKey(key)
  BY <1>1 DEF PressKey, HandleKeyDown, PressedBy
<1>2. CASE \E key \in Keys : RepeatKey(key)
  BY <1>2 DEF RepeatKey, HandleKeyDown, PressedBy, desktopVars
<1>3. UNCHANGED <<keysPressed, wentDown>> => keysPressed' = wentDown'
  OBVIOUS
<1> QED BY <1>1, <1>2, <1>3
        DEF HandleMessage, ReleaseKey, PressButton, ReleaseButton, LoseFocus, GainFocus,
            ChangeSize, CloseWindow, windowVars, inputVars, desktopVars

\* The pump that starts counting the keys anew starts both counts.
LEMMA PressesStep == PressesCounted /\ [FrameNext]_frameVars => PressesCounted'
<1> SUFFICES ASSUME PressesCounted, [FrameNext]_frameVars, host = "Viewer", phase' # "end"
             PROVE  PressesCounted'
  BY HostStays DEF PressesCounted
<1> USE DEF PressesCounted
<1>1. CASE ViewerMessage
  BY <1>1, MessagesCount DEF ViewerMessage
<1>2. CASE ViewerQuits \/ ViewerFailsToResize
  BY <1>2 DEF ViewerQuits, ViewerFailsToResize
<1>3. CASE ViewerUpdates
  BY <1>3 DEF ViewerUpdates, inputVars, desktopVars
<1>4. CASE ViewerRenders
  BY <1>4 DEF ViewerRenders, StartPump
<1>5. CASE UNCHANGED frameVars
  BY <1>5 DEF frameVars, windowVars, desktopVars
<1> QED BY <1>1, <1>2, <1>3, <1>4, <1>5, ViewersSteps
-----------------------------------------------------------------------------
\* update() measures its two sections in a profile begun anew, or none.
LEMMA UpdatesMeasure == UpdateWorld => UpdateMeasured'
<1> SUFFICES ASSUME UpdateWorld PROVE UpdateMeasured'
  OBVIOUS
<1>1. current' = BeginFrame(IF updated' THEN {"StreamingUpdate", "GPUUpload"} ELSE {})
  BY DEF UpdateWorld
<1>2. \A measured : BeginFrame(measured) \in [Sections -> Nat]
  BY DEF BeginFrame
<1> QED BY <1>1, <1>2 DEF UpdateMeasured

\* render() ends the frame: nothing is promised of the profile until the next update().
LEMMA RendersMeasure ==
  ASSUME UpdateMeasured, RenderWorld, phase' # "render"
  PROVE  UpdateMeasured'
<1>1. PICK measured : EndFrame(measured)
  BY DEF RenderWorld
<1>2. \A s \in Sections : current[s] + (IF s \in measured THEN 1 ELSE 0) \in Nat
  BY DEF UpdateMeasured
<1> QED BY <1>1, <1>2 DEF EndFrame, UpdateMeasured

LEMMA MeasuredStep == UpdateMeasured /\ [FrameNext]_frameVars => UpdateMeasured'
<1> SUFFICES ASSUME UpdateMeasured, [FrameNext]_frameVars PROVE UpdateMeasured'
  OBVIOUS
<1>1. CASE UNCHANGED <<current, updated>> /\ (phase' = phase \/ phase' # "render")
  BY <1>1 DEF UpdateMeasured
<1>2. CASE UpdateWorld
  BY <1>2, UpdatesMeasure
<1>3. CASE ViewerMessage \/ ViewerQuits \/ ViewerFailsToResize
  BY <1>1, <1>3 DEF ViewerMessage, ViewerQuits, ViewerFailsToResize, profilerVars
<1>4. CASE ViewerUpdates \/ ComponentUpdates \/ CustomUpdates
  BY <1>2, <1>4 DEF ViewerUpdates, ComponentUpdates, CustomUpdates
<1>5. CASE ViewerRenders \/ ComponentRenders \/ CustomRenders
  BY <1>5, RendersMeasure DEF ViewerRenders, ComponentRenders, CustomRenders
<1>6. CASE SetEnable \/ TickWithoutCamera \/ CustomLoads \/ CustomShutsDown \/ CustomToggles
  BY <1>1, <1>6 DEF SetEnable, TickWithoutCamera, CustomLoads, CustomShutsDown,
                    CustomToggles, profilerVars
<1>7. CASE UNCHANGED frameVars
  BY <1>1, <1>7 DEF frameVars, profilerVars
<1> QED BY <1>3, <1>4, <1>5, <1>6, <1>7 DEF FrameNext, RenderFrame
-----------------------------------------------------------------------------
LEMMA UpdatesObserve ==
  ASSUME FrameTypes, UpdateWorld
  PROVE  loaded' \in BOOLEAN /\ states' \in [Tiles -> ObservedStates]
BY DEF UpdateWorld, FrameTypes

\* What the renderer in use has to draw after render() is the overlay, or nothing.
LEMMA RendersKeep ==
  ASSUME FrameTypes, RenderWorld
  PROVE  /\ UNCHANGED <<loaded, states, visualize>>
         /\ DOMAIN lines' = Renderers
         /\ lines'[renderer] = IF loaded /\ visualize THEN Overlay ELSE {}
<1>1. /\ DOMAIN ClearedLines = Renderers /\ renderer \in Renderers
      /\ ClearedLines[renderer] = {}
  BY DEF FrameTypes, ClearedLines
<1>2. PICK cleared : cleared = ClearedLines
  OBVIOUS
<1>3. PICK overlay : overlay = Overlay
  OBVIOUS
<1>4. CASE loaded /\ visualize
  <2>1. lines' = [cleared EXCEPT ![renderer] = @ \cup overlay]
    BY <1>2, <1>3, <1>4 DEF RenderWorld
  <2> QED BY <1>1, <1>2, <1>3, <1>4, <2>1 DEF RenderWorld
<1>5. CASE ~(loaded /\ visualize)
  <2>1. lines' = cleared
    BY <1>2, <1>5 DEF RenderWorld
  <2> QED BY <1>1, <1>2, <1>5, <2>1 DEF RenderWorld
<1> QED BY <1>4, <1>5

\* The viewer and an engine of one's own stay in the SDK's space.
LEMMA NativeViews ==
  ASSUME host \in {"Viewer", "Custom"}, NEW c
  PROVE  EnginePosition(host, c) = c
BY DEF EnginePosition

LEMMA TypesStep == FrameTypes /\ [FrameNext]_frameVars => FrameTypes'
<1> SUFFICES ASSUME FrameTypes, [FrameNext]_frameVars PROVE FrameTypes'
  OBVIOUS
<1>1. host' = host
  BY HostStays
<1>2. CASE /\ UNCHANGED <<loaded, visualize, enable, states, renderer, lines, view>>
           /\ phase' \in {"messages", "update", "render", "end"}
  BY <1>1, <1>2 DEF FrameTypes
<1>3. CASE ViewerMessage \/ ViewerQuits \/ ViewerFailsToResize \/ TickWithoutCamera
  BY <1>2, <1>3 DEF ViewerMessage, ViewerQuits, ViewerFailsToResize, TickWithoutCamera,
                    worldVars, FrameTypes
<1>4. CASE ViewerUpdates
  <2>1. loaded' \in BOOLEAN /\ states' \in [Tiles -> ObservedStates]
    BY <1>4, UpdatesObserve DEF ViewerUpdates
  <2>2. view' \in {EnginePosition(host, c) : c \in Cameras}
    BY <1>4, NativeViews DEF ViewerUpdates
  <2>3. DOMAIN lines' = Renderers
    BY <1>4 DEF ViewerUpdates, ClearedLines, FrameTypes
  <2>4. visualize' \in BOOLEAN /\ enable' = enable /\ renderer' = renderer /\ phase' = "render"
    BY <1>4 DEF ViewerUpdates, FrameTypes
  <2> QED BY <1>1, <2>1, <2>2, <2>3, <2>4 DEF FrameTypes
<1>5. CASE ComponentUpdates \/ CustomUpdates
  <2>1. loaded' \in BOOLEAN /\ states' \in [Tiles -> ObservedStates]
    BY <1>5, UpdatesObserve DEF ComponentUpdates, CustomUpdates
  <2>2. view' \in {EnginePosition(host, c) : c \in Cameras}
    BY <1>5, NativeViews DEF ComponentUpdates, CustomUpdates
  <2>3. UNCHANGED <<lines, enable, renderer>> /\ phase' = "render"
    BY <1>5 DEF ComponentUpdates, CustomUpdates
  <2>4. visualize' \in BOOLEAN
    BY <1>5 DEF ComponentUpdates, CustomUpdates, FrameTypes
  <2> QED BY <1>1, <2>1, <2>2, <2>3, <2>4 DEF FrameTypes
<1>6. CASE RenderFrame
  <2>1. RenderWorld /\ UNCHANGED <<enable, renderer, view>>
    BY <1>6 DEF RenderFrame, ViewerRenders, ComponentRenders, CustomRenders
  <2>2. phase' \in {"messages", "update", "end"}
    BY <1>6 DEF RenderFrame, ViewerRenders, ComponentRenders, CustomRenders
  <2> QED BY <1>1, <2>1, <2>2, RendersKeep DEF FrameTypes
<1>7. CASE SetEnable
  BY <1>7 DEF SetEnable, worldVars, FrameTypes
<1>8. CASE CustomLoads
  <2>1. states' \in [Tiles -> ObservedStates]
    BY <1>8 DEF CustomLoads, ObservedStates
  <2>2. DOMAIN lines' = Renderers /\ renderer' \in Renderers
    BY <1>8 DEF CustomLoads
  <2>3. loaded' \in BOOLEAN /\ visualize' \in BOOLEAN /\ UNCHANGED <<phase, enable, view>>
    BY <1>8 DEF CustomLoads
  <2> QED BY <1>1, <2>1, <2>2, <2>3 DEF FrameTypes
<1>9. CASE CustomShutsDown \/ CustomToggles
  BY <1>9 DEF CustomShutsDown, CustomToggles, ObservedStates, FrameTypes
<1>10. CASE UNCHANGED frameVars
  BY <1>2, <1>10 DEF frameVars, worldVars, FrameTypes
<1> QED BY <1>3, <1>4, <1>5, <1>6, <1>7, <1>8, <1>9, <1>10 DEF FrameNext

\* A component can be switched before its frame and after, not within.
LEMMA ComponentStep ==
  FrameTypes /\ ComponentDraws /\ [FrameNext]_frameVars => ComponentDraws'
<1> SUFFICES ASSUME FrameTypes, ComponentDraws, [FrameNext]_frameVars, Component,
                    phase' = "render"
             PROVE  loaded' /\ visualize' = enable'
  BY HostStays DEF ComponentDraws, Component
<1>1. host # "Viewer" /\ host # "Custom"
  BY DEF Component
<1>2. CASE ComponentUpdates
  BY <1>2 DEF ComponentUpdates, UpdateWorld
<1>3. CASE SetEnable \/ ComponentRenders
  BY <1>3 DEF SetEnable, ComponentRenders
<1>4. CASE TickWithoutCamera
  BY <1>4 DEF TickWithoutCamera
<1>5. CASE UNCHANGED frameVars
  BY <1>5 DEF ComponentDraws, frameVars, worldVars
<1> QED BY <1>1, <1>2, <1>3, <1>4, <1>5
        DEF FrameNext, RenderFrame, ViewerMessage, ViewerQuits, ViewerUpdates,
            ViewerFailsToResize, ViewerRenders, CustomLoads, CustomShutsDown,
            CustomToggles, CustomUpdates, CustomRenders
-----------------------------------------------------------------------------
LEMMA FrameInvInit == FrameInit => FrameInv
<1> SUFFICES ASSUME FrameInit PROVE FrameInv
  OBVIOUS
<1>1. FrameTypes
  BY DEF FrameInit, FrameTypes, ObservedStates
<1>2. WindowInv
  <2>1. /\ captured = FALSE /\ button = FALSE /\ focused = TRUE /\ resized = TRUE
        /\ hides = 0 /\ size \in Sizes
    BY DEF FrameInit, WindowInit
  <2>2. hides \in Int
    BY <2>1
  <2> QED BY <2>1, <2>2, Zenon DEF WindowInv, WindowTypes, CursorComesBack
<1>3. BuffersFollow /\ PressesCounted
  BY DEF FrameInit, WindowInit, BuffersFollow, PressesCounted
<1>4. UpdateMeasured
  BY DEF FrameInit, ProfilerInit, Nothing, UpdateMeasured
<1>5. ComponentDraws
  BY DEF FrameInit, ComponentDraws
<1> QED BY <1>1, <1>2, <1>3, <1>4, <1>5 DEF FrameInv

(***************************************************************************)
(* Whatever messages come between two frames and whatever an application   *)
(* calls: the conjuncts of FrameInv hold after every step of every host.   *)
(***************************************************************************)
THEOREM FrameInvariant == FrameSpec => []FrameInv
<1>1. FrameInv /\ [FrameNext]_frameVars => FrameInv'
  BY FramesKeepWindow, BuffersStep, PressesStep, MeasuredStep, TypesStep, ComponentStep
     DEF FrameInv
<1> QED BY <1>1, FrameInvInit, PTL DEF FrameSpec

(***************************************************************************)
(* The window never keeps the mouse, nor the cursor hidden, when the       *)
(* button is up or the user has turned to another window.                  *)
(***************************************************************************)
THEOREM CursorAlwaysComesBack == FrameSpec => []CursorComesBack
<1>1. FrameInv => CursorComesBack
  BY DEF FrameInv, WindowInv
<1> QED BY <1>1, FrameInvariant, PTL

(***************************************************************************)
(* The viewer draws into buffers of its window's size, through any         *)
(* resizing and minimising, because a change of the size is marked until   *)
(* it is consumed.                                                         *)
(***************************************************************************)
THEOREM PicturesFitTheWindow == FrameSpec => PictureFitsWindow
<1> DEFINE Fits == ViewerRenders /\ HasArea(size) => backBuffer = size
<1>1. FrameInv => [Fits]_frameVars
  BY DEF FrameInv, BuffersFollow, ViewerRenders
<1> QED BY <1>1, FrameInvariant, PTL DEF PictureFitsWindow

(***************************************************************************)
(* F1 switches the overlay in exactly the frames in whose messages it went *)
(* down.                                                                   *)
(***************************************************************************)
THEOREM OneToggleAPress == FrameSpec => TogglesOncePerPress
<1> DEFINE Toggles == ViewerUpdates => (visualize' # visualize <=> "F1" \in wentDown)
<1>1. FrameInv => [Toggles]_frameVars
  <2> SUFFICES ASSUME FrameInv, ViewerUpdates
               PROVE  visualize' # visualize <=> "F1" \in wentDown
    OBVIOUS
  <2>1. visualize' = IF "F1" \in wentDown THEN ~visualize ELSE visualize
    BY DEF FrameInv, PressesCounted, ViewerUpdates
  <2>2. visualize \in BOOLEAN
    BY DEF FrameInv, FrameTypes
  <2> QED BY <2>1, <2>2
<1> QED BY <1>1, FrameInvariant, PTL DEF TogglesOncePerPress

(***************************************************************************)
(* When render() ends the frame that update() began, the profile has each  *)
(* section that was measured, once, whichever early return was taken.      *)
(***************************************************************************)
THEOREM ProfilesAreOfTheFrame == FrameSpec => ProfileIsOfFrame
<1> DEFINE Expected(s) ==
             IF \/ s \in {"StreamingUpdate", "GPUUpload"} /\ updated
                \/ s = "LODSelection" /\ loaded
                \/ s = "DebugDraw" /\ loaded /\ visualize
             THEN 1 ELSE 0
           Profiled == phase = "render" /\ RenderFrame =>
                         \A s \in Sections : lastFrame'[s] = Expected(s)
<1>1. FrameInv => [Profiled]_frameVars
  <2> SUFFICES ASSUME FrameInv, phase = "render", RenderFrame, NEW s \in Sections
               PROVE  lastFrame'[s] = Expected(s)
    OBVIOUS
  <2> DEFINE measured == IF ~loaded THEN {}
                         ELSE IF visualize THEN {"LODSelection", "DebugDraw"}
                         ELSE {"LODSelection"}
             before == IF updated THEN {"StreamingUpdate", "GPUUpload"} ELSE {}
  <2>1. EndFrame(measured)
    BY DEF RenderFrame, ViewerRenders, ComponentRenders, CustomRenders, RenderWorld
  <2>2. current[s] = IF s \in before THEN 1 ELSE 0
    BY DEF FrameInv, UpdateMeasured, BeginFrame
  <2>3. lastFrame'[s] = current[s] + (IF s \in measured THEN 1 ELSE 0)
    BY <2>1 DEF EndFrame
  <2> QED BY <2>2, <2>3 DEF Sections
<1> QED BY <1>1, FrameInvariant, PTL DEF ProfileIsOfFrame
-----------------------------------------------------------------------------
\* A point is the triple of its coordinates.
LEMMA Triples == \A p \in Points : p = <<p[1], p[2], p[3]>>
BY DEF Points, Axes

\* The camera the SDK is given is where the user put it.
LEMMA CameraComesBack ==
  ASSUME NEW engine, NEW p \in Points
  PROVE  SpatialCamera(engine, EnginePosition(engine, p)) = p
<1>1. CASE engine = "Unity"
  BY <1>1, Triples DEF SpatialCamera, EnginePosition, NegateZ, Points, Axes
<1>2. CASE engine = "Unreal"
  BY <1>2, Triples DEF SpatialCamera, EnginePosition, ToCentimeters, ToMeters, SwapYZ,
                       kMetersToCentimeters, Points, Axes
<1>3. CASE engine \notin {"Unity", "Unreal"}
  BY <1>3 DEF SpatialCamera, EnginePosition
<1> QED BY <1>1, <1>2, <1>3

\* So is the radius as large as the user set it.
LEMMA RadiusComesBack ==
  ASSUME NEW engine, NEW r \in Nat
  PROVE  SpatialRadius(engine, EngineRadius(engine, r)) = r
BY DEF SpatialRadius, EngineRadius, kMetersToCentimeters

\* The edges of a box, axis by axis.
LEMMA EdgeForms ==
  ASSUME NEW box \in Boxes, NEW X
  PROVE  X \in EdgesOf(box) <=>
           \E x \in {box.min[1], box.max[1]}, y \in {box.min[2], box.max[2]},
              z \in {box.min[3], box.max[3]} :
             \/ X = {<<box.min[1], y, z>>, <<box.max[1], y, z>>}
             \/ X = {<<x, box.min[2], z>>, <<x, box.max[2], z>>}
             \/ X = {<<x, y, box.min[3]>>, <<x, y, box.max[3]>>}
<1> DEFINE Corner(side) == [i \in Axes |-> box[side[i]][i]]
           Sides == [Axes -> {"min", "max"}]
           Edge(side, i) == {Corner([side EXCEPT ![i] = "min"]), Corner([side EXCEPT ![i] = "max"])}
<1>1. X \in EdgesOf(box) <=> \E side \in Sides, i \in Axes : X = Edge(side, i)
  BY DEF EdgesOf
<1>2. ASSUME NEW side \in Sides
      PROVE  Corner(side) = <<box[side[1]][1], box[side[2]][2], box[side[3]][3]>>
  BY DEF Axes
<1>3. ASSUME NEW side \in Sides
      PROVE  /\ Edge(side, 1) = {<<box.min[1], box[side[2]][2], box[side[3]][3]>>,
                                 <<box.max[1], box[side[2]][2], box[side[3]][3]>>}
             /\ Edge(side, 2) = {<<box[side[1]][1], box.min[2], box[side[3]][3]>>,
                                 <<box[side[1]][1], box.max[2], box[side[3]][3]>>}
             /\ Edge(side, 3) = {<<box[side[1]][1], box[side[2]][2], box.min[3]>>,
                                 <<box[side[1]][1], box[side[2]][2], box.max[3]>>}
  <2>1. ASSUME NEW i \in Axes, NEW end \in {"min", "max"}
        PROVE  [side EXCEPT ![i] = end] \in Sides
    OBVIOUS
  <2> HIDE DEF Corner
  <2> DEFINE At(i, end, k) == IF k = i THEN box[end][k] ELSE box[side[k]][k]
  <2>2. ASSUME NEW i \in Axes, NEW end \in {"min", "max"}
        PROVE  Corner([side EXCEPT ![i] = end]) = <<At(i, end, 1), At(i, end, 2), At(i, end, 3)>>
    <3>1. PICK s : s = [side EXCEPT ![i] = end]
      OBVIOUS
    <3>2. \A k \in Axes : s[k] = IF k = i THEN end ELSE side[k]
      BY <3>1
    <3>3. Corner(s) = <<box[s[1]][1], box[s[2]][2], box[s[3]][3]>>
      BY <1>2, <2>1, <3>1
    <3>4. \A k \in Axes : box[s[k]][k] = At(i, end, k)
      BY <3>2
    <3>5. /\ box[s[1]][1] = At(i, end, 1) /\ box[s[2]][2] = At(i, end, 2)
          /\ box[s[3]][3] = At(i, end, 3)
      <4> HIDE DEF At
      <4> QED BY <3>4 DEF Axes
    <3> HIDE DEF At
    <3>6. Corner(s) = <<At(i, end, 1), At(i, end, 2), At(i, end, 3)>>
      BY <3>3, <3>5
    <3> QED BY <3>1, <3>6
  <2>3. ASSUME NEW i \in Axes
        PROVE  Edge(side, i) = {<<At(i, "min", 1), At(i, "min", 2), At(i, "min", 3)>>,
                                <<At(i, "max", 1), At(i, "max", 2), At(i, "max", 3)>>}
    BY <2>2
  <2> HIDE DEF Edge
  <2> QED BY <2>3 DEF Axes
<1>4. ASSUME NEW side \in Sides
      PROVE \A i \in Axes : box[side[i]][i] \in {box.min[i], box.max[i]}
  OBVIOUS
<1>5. ASSUME NEW x \in {box.min[1], box.max[1]}, NEW y \in {box.min[2], box.max[2]},
             NEW z \in {box.min[3], box.max[3]}
      PROVE \E side \in Sides : x = box[side[1]][1] /\ y = box[side[2]][2] /\ z = box[side[3]][3]
  <2> DEFINE side == [i \in Axes |-> CASE i = 1 -> IF x = box.min[1] THEN "min" ELSE "max"
                                      [] i = 2 -> IF y = box.min[2] THEN "min" ELSE "max"
                                      [] i = 3 -> IF z = box.min[3] THEN "min" ELSE "max"]
  <2>1. side \in Sides
    BY DEF Axes
  <2>2. x = box[side[1]][1] /\ y = box[side[2]][2] /\ z = box[side[3]][3]
    BY DEF Axes
  <2> QED BY <2>1, <2>2
<1> HIDE DEF Edge, Sides
<1>6. ASSUME X \in EdgesOf(box)
      PROVE  \E x \in {box.min[1], box.max[1]}, y \in {box.min[2], box.max[2]},
              z \in {box.min[3], box.max[3]} :
             \/ X = {<<box.min[1], y, z>>, <<box.max[1], y, z>>}
             \/ X = {<<x, box.min[2], z>>, <<x, box.max[2], z>>}
             \/ X = {<<x, y, box.min[3]>>, <<x, y, box.max[3]>>}
  <2>1. PICK side \in Sides, i \in Axes : X = Edge(side, i)
    BY <1>1, <1>6
  <2>2. i = 1 \/ i = 2 \/ i = 3
    BY DEF Axes
  <2>3. \A k \in Axes : box[side[k]][k] \in {box.min[k], box.max[k]}
    BY <1>4
  <2> QED BY <1>3, <2>1, <2>2, <2>3 DEF Axes
<1>7. ASSUME NEW x \in {box.min[1], box.max[1]}, NEW y \in {box.min[2], box.max[2]},
             NEW z \in {box.min[3], box.max[3]},
             \/ X = {<<box.min[1], y, z>>, <<box.max[1], y, z>>}
             \/ X = {<<x, box.min[2], z>>, <<x, box.max[2], z>>}
             \/ X = {<<x, y, box.min[3]>>, <<x, y, box.max[3]>>}
      PROVE  X \in EdgesOf(box)
  <2>1. PICK side \in Sides : x = box[side[1]][1] /\ y = box[side[2]][2] /\ z = box[side[3]][3]
    BY <1>5
  <2>2. X = Edge(side, 1) \/ X = Edge(side, 2) \/ X = Edge(side, 3)
    BY <1>3, <1>7, <2>1
  <2> QED BY <1>1, <2>2 DEF Axes
<1> QED BY <1>6, <1>7

\* drawAABB() draws each of them, and nothing else.
LEMMA DrawnEdges ==
  ASSUME NEW box \in Boxes, NEW X
  PROVE  X \in EdgesOf(box) <=>
           \E e \in BoxEdges : X = {BoxCorners(box)[e[1]], BoxCorners(box)[e[2]]}
<1> DEFINE C(n) == BoxCorners(box)[n]
           mn == box.min
           mx == box.max
<1>1. /\ C(1) = <<mn[1], mn[2], mn[3]>> /\ C(2) = <<mx[1], mn[2], mn[3]>>
      /\ C(3) = <<mx[1], mx[2], mn[3]>> /\ C(4) = <<mn[1], mx[2], mn[3]>>
      /\ C(5) = <<mn[1], mn[2], mx[3]>> /\ C(6) = <<mx[1], mn[2], mx[3]>>
      /\ C(7) = <<mx[1], mx[2], mx[3]>> /\ C(8) = <<mn[1], mx[2], mx[3]>>
  BY Triples DEF BoxCorners, Boxes
<1> HIDE DEF C
<1>2. (\E e \in BoxEdges : X = {C(e[1]), C(e[2])}) <=>
        \/ X = {C(1), C(2)} \/ X = {C(2), C(3)} \/ X = {C(3), C(4)} \/ X = {C(4), C(1)}
        \/ X = {C(5), C(6)} \/ X = {C(6), C(7)} \/ X = {C(7), C(8)} \/ X = {C(8), C(5)}
        \/ X = {C(1), C(5)} \/ X = {C(2), C(6)} \/ X = {C(3), C(7)} \/ X = {C(4), C(8)}
  BY DEF BoxEdges
<1>3. X \in EdgesOf(box) <=>
           \E x \in {mn[1], mx[1]}, y \in {mn[2], mx[2]}, z \in {mn[3], mx[3]} :
             \/ X = {<<mn[1], y, z>>, <<mx[1], y, z>>}
             \/ X = {<<x, mn[2], z>>, <<x, mx[2], z>>}
             \/ X = {<<x, y, mn[3]>>, <<x, y, mx[3]>>}
  BY EdgeForms
<1> HIDE DEF mn, mx
<1> QED BY <1>1, <1>2, <1>3 DEF C

\* On the engine's screen too.
LEMMA ShownEdges ==
  ASSUME NEW box \in Boxes, NEW color
  PROVE  {EngineLine(l) : l \in DrawAABB(box, color)} =
           {[ends |-> {EnginePosition(host, p) : p \in e}, color |-> color] :
              e \in EdgesOf(box)}
<1> DEFINE C(n) == BoxCorners(box)[n]
           Line(e) == [from |-> C(e[1]), to |-> C(e[2]), color |-> color]
           Seen(X) == [ends |-> {EnginePosition(host, p) : p \in X}, color |-> color]
<1>1. DrawAABB(box, color) = {Line(e) : e \in BoxEdges}
  BY DEF DrawAABB
<1>2. ASSUME NEW a, NEW b
      PROVE  {EnginePosition(host, p) : p \in {a, b}} =
               {EnginePosition(host, a), EnginePosition(host, b)}
  OBVIOUS
<1>3. ASSUME NEW e \in BoxEdges
      PROVE  EngineLine(Line(e)) = Seen({C(e[1]), C(e[2])})
  BY <1>2 DEF EngineLine
<1>4. \A e \in BoxEdges : {C(e[1]), C(e[2])} \in EdgesOf(box)
  BY DrawnEdges
<1>5. \A X \in EdgesOf(box) : \E e \in BoxEdges : X = {C(e[1]), C(e[2])}
  BY DrawnEdges
<1> HIDE DEF Line, C, Seen
<1>6. {EngineLine(l) : l \in DrawAABB(box, color)} = {EngineLine(Line(e)) : e \in BoxEdges}
  BY <1>1
<1>7. {EngineLine(Line(e)) : e \in BoxEdges} = {Seen(X) : X \in EdgesOf(box)}
  <2>1. ASSUME NEW e \in BoxEdges
        PROVE  EngineLine(Line(e)) \in {Seen(X) : X \in EdgesOf(box)}
    BY <1>3, <1>4
  <2>2. ASSUME NEW X \in EdgesOf(box)
        PROVE  Seen(X) \in {EngineLine(Line(e)) : e \in BoxEdges}
    BY <1>3, <1>5
  <2> QED BY <2>1, <2>2
<1> QED BY <1>6, <1>7 DEF Seen

\* The colours are those of the legend.
LEMMA LegendIsColor == \A s \in ObservedStates : ColorForState(s) = Legend[s]
BY DEF ObservedStates, ColorForState, Legend

\* The overlay, line by line.
LEMMA OverlayShown ==
  ASSUME FrameTypes
  PROVE  {EngineLine(l) : l \in Overlay} =
           UNION {{[ends |-> {EnginePosition(host, p) : p \in e},
                    color |-> Legend[states[t]]] :
                     e \in EdgesOf(IF states[t] = "Resident" THEN TileBox[t] ELSE IndexBox[t])} :
                    t \in WithinReach}
<1> DEFINE Box(t) == IF states[t] = "Resident" THEN TileBox[t] ELSE IndexBox[t]
           Shown(t) == {[ends |-> {EnginePosition(host, p) : p \in e},
                         color |-> Legend[states[t]]] : e \in EdgesOf(Box(t))}
<1>1. CameraPosition = CameraSet
  <2>1. PICK c \in Cameras : EnginePosition(host, c) = view
    BY DEF FrameTypes
  <2>2. CameraSet \in Cameras /\ EnginePosition(host, CameraSet) = view
    BY <2>1 DEF CameraSet
  <2>3. CameraSet \in Points
    BY <2>2, ScenesAssumption
  <2> QED BY <2>2, <2>3, CameraComesBack DEF CameraPosition
<1>2. SpatialRadius(host, EngineRadius(host, Radius)) = Radius
  BY RadiusComesBack, ScenesAssumption
<1>3. Overlay = UNION {DrawTileBounds(BoundsOf(t), states[t]) : t \in WithinReach}
  BY <1>1, <1>2 DEF Overlay, QueryRadius, WithinReach
<1>4. ASSUME NEW t \in WithinReach
      PROVE  {EngineLine(l) : l \in DrawTileBounds(BoundsOf(t), states[t])} = Shown(t)
  <2>1. t \in Tiles /\ states[t] \in ObservedStates
    BY DEF WithinReach, FrameTypes
  <2>2. Box(t) \in Boxes /\ BoundsOf(t) = Box(t)
    BY <2>1, ScenesAssumption DEF BoundsOf
  <2>3. ColorForState(states[t]) = Legend[states[t]]
    BY <2>1, LegendIsColor
  <2> QED BY <2>2, <2>3, ShownEdges DEF DrawTileBounds
<1> HIDE DEF Shown
<1>5. {EngineLine(l) : l \in Overlay} =
        UNION {{EngineLine(l) : l \in DrawTileBounds(BoundsOf(t), states[t])} : t \in WithinReach}
  BY <1>3
<1>6. {EngineLine(l) : l \in Overlay} = UNION {Shown(t) : t \in WithinReach}
  BY <1>4, <1>5
<1> QED BY <1>6 DEF Shown

(***************************************************************************)
(* Each host shows the edges of the boxes of the tiles within reach of the *)
(* camera as it was given, in the colours of their states, for boxes of    *)
(* any shape (also flat ones), and nothing else.                           *)
(***************************************************************************)
THEOREM OverlaysAreCurrent == FrameSpec => OverlayIsCurrent
<1> DEFINE Current == RenderFrame => shown' = ExpectedOverlay
<1>1. FrameInv => [Current]_frameVars
  <2> SUFFICES ASSUME FrameInv, RenderFrame PROVE shown' = ExpectedOverlay
    OBVIOUS
  <2>1. /\ FrameTypes /\ RenderWorld
        /\ lines'[renderer] = IF loaded /\ visualize THEN Overlay ELSE {}
    BY RendersKeep DEF FrameInv, RenderFrame, ViewerRenders, ComponentRenders, CustomRenders
  <2>2. shown' = {EngineLine(l) : l \in IF loaded /\ visualize THEN Overlay ELSE {}}
    <3>1. CASE ViewerRenders \/ CustomRenders
      BY <2>1, <3>1 DEF ViewerRenders, CustomRenders, Show
    <3>2. CASE ComponentRenders
      <4>1. loaded /\ visualize = enable
        BY <3>2 DEF FrameInv, ComponentDraws, ComponentRenders
      <4> QED BY <2>1, <3>2, <4>1 DEF ComponentRenders, Show
    <3> QED BY <3>1, <3>2 DEF RenderFrame
  <2>3. CASE loaded /\ visualize
    BY <2>1, <2>2, <2>3, OverlayShown DEF ExpectedOverlay
  <2>4. CASE ~(loaded /\ visualize)
    BY <2>2, <2>4 DEF ExpectedOverlay
  <2> QED BY <2>3, <2>4
<1> QED BY <1>1, FrameInvariant, PTL DEF OverlayIsCurrent
-----------------------------------------------------------------------------
Matrices == [Rows -> [Rows -> Int]]

\* Of products: signs and centimetres can be taken out.
LEMMA Products ==
  \A x, y \in Int :
    /\ x * y \in Int
    /\ (x * 100) * (y * 100) = 10000 * (x * y)
    /\ (x * 100) * y = 100 * (x * y)
    /\ (-x) * (-y) = x * y
    /\ (-x) * y = -(x * y) /\ x * (-y) = -(x * y)
    /\ x * y = y * x
OBVIOUS

\* The dot product of two triples.
LEMMA DotOf ==
  ASSUME NEW a, NEW b, NEW c, NEW x, NEW y, NEW z
  PROVE  Dot(<<a, b, c>>, <<x, y, z>>) = a * x + b * y + c * z
BY DEF Dot

\* A row of a matrix in metres, and one in centimetres.
LEMMA ScaledRow ==
  \A a, b, c, d, x, y, z \in Int :
    (x * 100) * a + (z * 100) * c + (y * 100) * b + d * 100 =
      (a * x + b * y + c * z + d) * 100
<1> SUFFICES ASSUME NEW a \in Int, NEW b \in Int, NEW c \in Int, NEW d \in Int,
                    NEW x \in Int, NEW y \in Int, NEW z \in Int
             PROVE  (x * 100) * a + (z * 100) * c + (y * 100) * b + d * 100 =
                      (a * x + b * y + c * z + d) * 100
  OBVIOUS
<1>1. /\ (x * 100) * a = 100 * (a * x) /\ (y * 100) * b = 100 * (b * y)
      /\ (z * 100) * c = 100 * (c * z)
  BY Products
<1>2. a * x \in Int /\ b * y \in Int /\ c * z \in Int
  BY Products
<1> QED BY <1>1, <1>2

(***************************************************************************)
(* For any matrix and any point: what Unity's matrix, and Unreal's for     *)
(* rows in centimetres, make of the converted point is what the SDK's      *)
(* makes of the point, converted.                                          *)
(***************************************************************************)
THEOREM TransformsAgree ==
  ASSUME NEW engine \in AllHosts, NEW m \in Matrices, NEW p \in Points
  PROVE  EngineVertex(engine, m, p) = EnginePosition(engine, TransformPoint(m, p))
<1>1. CASE engine = "Unity"
  <2>1. ToUnityMatrix(m) =
          <<<<m[1][1], m[1][2], -m[1][3], m[1][4]>>, <<m[2][1], m[2][2], -m[2][3], m[2][4]>>,
            <<-m[3][1], -m[3][2], m[3][3], -m[3][4]>>, <<m[4][1], m[4][2], -m[4][3], m[4][4]>>>>
    BY DEF ToUnityMatrix, Rows, Matrices
  <2> QED BY <1>1, <2>1 DEF EngineVertex, EnginePosition, NegateZ, TransformPoint,
                            Matrices, Points, Axes, Rows
<1>2. CASE engine = "Unreal"
  <2> DEFINE M == BuildTransform(ToUnrealMatrix(m))
             q == EnginePosition(engine, p)
  <2>1. M[1][1] = m[1][1] /\ M[1][2] = m[3][1] /\ M[1][3] = m[2][1]
    BY DEF BuildTransform, ToUnrealMatrix, Perm, Rows, Matrices
  <2>2. M[2][1] = m[1][3] /\ M[2][2] = m[3][3] /\ M[2][3] = m[2][3]
    BY DEF BuildTransform, ToUnrealMatrix, Perm, Rows, Matrices
  <2>3. M[3][1] = m[1][2] /\ M[3][2] = m[3][2] /\ M[3][3] = m[2][2]
    BY DEF BuildTransform, ToUnrealMatrix, Perm, Rows, Matrices
  <2>4. M[4][1] = m[1][4] * 100 /\ M[4][2] = m[3][4] * 100 /\ M[4][3] = m[2][4] * 100
    BY DEF BuildTransform, ToUnrealMatrix, Perm, Rows, Matrices, kMetersToCentimeters
  <2>5. q[1] = p[1] * 100 /\ q[2] = p[3] * 100 /\ q[3] = p[2] * 100
    BY <1>2 DEF EnginePosition, ToCentimeters, SwapYZ, Axes, kMetersToCentimeters
  <2> HIDE DEF M, q
  <2>6. EngineVertex(engine, m, p) = TransformRow(M, q)
    BY <1>2 DEF EngineVertex, M, q
  <2> DEFINE Sum(i) == m[i][1] * p[1] + m[i][2] * p[2] + m[i][3] * p[3] + m[i][4]
  <2>7. /\ \A i \in Axes : m[i][1] \in Int /\ m[i][2] \in Int /\ m[i][3] \in Int /\ m[i][4] \in Int
        /\ p[1] \in Int /\ p[2] \in Int /\ p[3] \in Int
    BY DEF Matrices, Rows, Axes, Points
  <2>8. TransformRow(M, q) = <<Sum(1) * 100, Sum(3) * 100, Sum(2) * 100>>
    <3>1. ASSUME NEW i \in Axes
          PROVE  (p[1] * 100) * m[i][1] + (p[3] * 100) * m[i][3] + (p[2] * 100) * m[i][2]
                   + m[i][4] * 100 = Sum(i) * 100
      BY <2>7, ScaledRow
    <3>2. q[1] * M[1][1] + q[2] * M[2][1] + q[3] * M[3][1] + M[4][1] = Sum(1) * 100
      <4>1. 1 \in Axes
        BY DEF Axes
      <4> HIDE DEF Sum
      <4> QED BY <2>1, <2>2, <2>3, <2>4, <2>5, <3>1, <4>1
    <3>3. q[1] * M[1][2] + q[2] * M[2][2] + q[3] * M[3][2] + M[4][2] = Sum(3) * 100
      <4>1. 3 \in Axes
        BY DEF Axes
      <4> HIDE DEF Sum
      <4> QED BY <2>1, <2>2, <2>3, <2>4, <2>5, <3>1, <4>1
    <3>4. q[1] * M[1][3] + q[2] * M[2][3] + q[3] * M[3][3] + M[4][3] = Sum(2) * 100
      <4>1. 2 \in Axes
        BY DEF Axes
      <4> HIDE DEF Sum
      <4> QED BY <2>1, <2>2, <2>3, <2>4, <2>5, <3>1, <4>1
    <3> HIDE DEF Sum
    <3> QED BY <3>2, <3>3, <3>4 DEF TransformRow, Axes
  <2>9. EnginePosition(engine, TransformPoint(m, p)) = <<Sum(1) * 100, Sum(3) * 100, Sum(2) * 100>>
    <3>1. TransformPoint(m, p) = <<Sum(1), Sum(2), Sum(3)>>
      BY DEF TransformPoint, Axes
    <3> HIDE DEF Sum
    <3> QED BY <1>2, <3>1 DEF EnginePosition, ToCentimeters, SwapYZ, Axes, kMetersToCentimeters
  <2> QED BY <2>6, <2>8, <2>9
<1>3. CASE engine \notin {"Unity", "Unreal"}
  BY <1>3 DEF EngineVertex, EnginePosition
<1> QED BY <1>1, <1>2, <1>3

\* From one point to another, in the engine and in the SDK.
LEMMA Differences ==
  ASSUME NEW engine \in AllHosts, NEW p \in Points, NEW c \in Points
  PROVE  \E d1, d2, d3 \in Int :
           /\ Minus(p, c) = <<d1, d2, d3>>
           /\ Minus(EnginePosition(engine, p), EnginePosition(engine, c)) =
                IF engine = "Unity" THEN <<d1, d2, -d3>>
                ELSE IF engine = "Unreal" THEN <<d1 * 100, d3 * 100, d2 * 100>>
                ELSE <<d1, d2, d3>>
<1> DEFINE d1 == p[1] - c[1]
           d2 == p[2] - c[2]
           d3 == p[3] - c[3]
<1>1. /\ p[1] \in Int /\ p[2] \in Int /\ p[3] \in Int
      /\ c[1] \in Int /\ c[2] \in Int /\ c[3] \in Int
  BY DEF Points, Axes
<1>2. Minus(p, c) = <<d1, d2, d3>>
  BY DEF Minus, Axes
<1> DEFINE there == Minus(EnginePosition(engine, p), EnginePosition(engine, c))
<1>3. engine = "Unity" => there = <<d1, d2, -d3>>
  BY <1>1 DEF Minus, Axes, EnginePosition, NegateZ
<1>4. engine = "Unreal" => there = <<d1 * 100, d3 * 100, d2 * 100>>
  BY <1>1 DEF Minus, Axes, EnginePosition, ToCentimeters, SwapYZ, kMetersToCentimeters
<1>5. engine \notin {"Unity", "Unreal"} => there = <<d1, d2, d3>>
  BY <1>2 DEF EnginePosition
<1>6. d1 \in Int /\ d2 \in Int /\ d3 \in Int
  BY <1>1
<1> HIDE DEF there, d1, d2, d3
<1> QED BY <1>2, <1>3, <1>4, <1>5, <1>6 DEF there

\* The transform that SpatialWorld draws with.
LEMMA IdentityKeeps ==
  ASSUME NEW p \in Points
  PROVE  Identity \in Matrices /\ TransformPoint(Identity, p) = p
<1>1. Identity \in Matrices
  BY DEF Identity, Matrices, Rows
<1>2. \A i \in Axes : TransformPoint(Identity, p)[i] = p[i]
  BY DEF TransformPoint, Identity, Axes, Rows, Points
<1> QED BY <1>1, <1>2 DEF TransformPoint, Points

(***************************************************************************)
(* For any camera, direction and point: the point is as far from the       *)
(* camera, as high and as far to the right in the engine as in the SDK.    *)
(***************************************************************************)
THEOREM SeesAlike ==
  ASSUME NEW engine \in AllHosts, NEW c \in Points, NEW f \in Points, NEW p \in Points
  PROVE  SeenAlike(engine, EnginePosition(engine, c), f, p)
<1> DEFINE k == EngineRadius(engine, 1)
           there == Minus(EngineVertex(engine, Identity, p), EnginePosition(engine, c))
           here == Minus(p, SpatialCamera(engine, EnginePosition(engine, c)))
           ahead == EngineNormal(engine, f)
<1>1. EngineVertex(engine, Identity, p) = EnginePosition(engine, p)
  BY IdentityKeeps, TransformsAgree
<1>2. SpatialCamera(engine, EnginePosition(engine, c)) = c
  BY CameraComesBack
<1>3. PICK d1, d2, d3 \in Int :
        /\ here = <<d1, d2, d3>>
        /\ there = IF engine = "Unity" THEN <<d1, d2, -d3>>
                   ELSE IF engine = "Unreal" THEN <<d1 * 100, d3 * 100, d2 * 100>>
                   ELSE <<d1, d2, d3>>
  BY <1>1, <1>2, Differences
<1>4. PICK f1, f2, f3 \in Int : f = <<f1, f2, f3>>
  BY Triples DEF Points, Axes
<1> HIDE DEF there, here
<1>5. /\ Dot(there, there) = k * k * Dot(here, here)
      /\ Dot(there, Up(engine)) = k * Dot(here, Up("Custom"))
      /\ Dot(there, Rightwards(engine, f)) = k * Dot(here, Rightwards("Custom", ahead))
  <2>1. CASE engine = "Unity"
    <3>1. k = 1 /\ ahead = <<f1, f2, -f3>> /\ there = <<d1, d2, -d3>>
      BY <2>1, <1>3, <1>4 DEF EngineRadius, EngineNormal, NegateZ
    <3>2. Up(engine) = <<0, 1, 0>> /\ Up("Custom") = <<0, 1, 0>>
      BY <2>1 DEF Up, UpAxis, Axes
    <3>3. Rightwards(engine, f) = <<f3, 0, -f1>> /\ Rightwards("Custom", ahead) = <<f3, 0, f1>>
      BY <2>1, <3>1, <3>2, <1>4 DEF Rightwards, LeftHanded, Cross
    <3>4. /\ Dot(there, there) = d1 * d1 + d2 * d2 + (-d3) * (-d3)
          /\ Dot(here, here) = d1 * d1 + d2 * d2 + d3 * d3
      BY <1>3, <3>1 DEF Dot
    <3>5. Dot(there, Up(engine)) = d2 /\ Dot(here, Up("Custom")) = d2
      BY <1>3, <3>1, <3>2 DEF Dot
    <3>6. /\ Dot(there, Rightwards(engine, f)) = d1 * f3 + d2 * 0 + (-d3) * (-f1)
          /\ Dot(here, Rightwards("Custom", ahead)) = d1 * f3 + d2 * 0 + d3 * f1
      BY <1>3, <3>1, <3>3, DotOf
    <3>7. k * k * Dot(here, here) = Dot(here, here)
      BY <3>1, <3>4, Products
    <3> HIDE DEF k, ahead
    <3> QED BY <3>1, <3>4, <3>5, <3>6, Products
  <2>2. CASE engine = "Unreal"
    <3>1. k = 100 /\ ahead = <<f1, f3, f2>> /\ there = <<d1 * 100, d3 * 100, d2 * 100>>
      BY <2>2, <1>3, <1>4 DEF EngineRadius, EngineNormal, SwapYZ, kMetersToCentimeters
    <3>2. Up(engine) = <<0, 0, 1>> /\ Up("Custom") = <<0, 1, 0>>
      BY <2>2 DEF Up, UpAxis, Axes
    <3>3. Rightwards(engine, f) = <<-f2, f1, 0>> /\ Rightwards("Custom", ahead) = <<-f2, 0, f1>>
      BY <2>2, <3>1, <3>2, <1>4 DEF Rightwards, LeftHanded, Cross
    <3>4. /\ Dot(there, there) = (d1 * 100) * (d1 * 100) + (d3 * 100) * (d3 * 100)
                                    + (d2 * 100) * (d2 * 100)
          /\ Dot(here, here) = d1 * d1 + d2 * d2 + d3 * d3
      BY <1>3, <3>1 DEF Dot
    <3>5. Dot(there, Up(engine)) = d2 * 100 /\ Dot(here, Up("Custom")) = d2
      BY <1>3, <3>1, <3>2 DEF Dot
    <3>6. /\ Dot(there, Rightwards(engine, f)) =
               (d1 * 100) * (-f2) + (d3 * 100) * f1 + (d2 * 100) * 0
          /\ Dot(here, Rightwards("Custom", ahead)) = d1 * (-f2) + d2 * 0 + d3 * f1
      BY <1>3, <3>1, <3>3, DotOf
    <3>7. k * k * Dot(here, here) = 10000 * (d1 * d1) + 10000 * (d2 * d2) + 10000 * (d3 * d3)
      BY <3>1, <3>4, Products
    <3> HIDE DEF k, ahead
    <3> QED BY <3>1, <3>4, <3>5, <3>6, <3>7, Products
  <2>3. CASE engine \notin {"Unity", "Unreal"}
    <3>1. k = 1 /\ ahead = f /\ there = <<d1, d2, d3>>
      BY <2>3, <1>3 DEF EngineRadius, EngineNormal
    <3>2. Up(engine) = <<0, 1, 0>> /\ Up("Custom") = <<0, 1, 0>>
      BY <2>3 DEF Up, UpAxis, Axes
    <3>3. Rightwards(engine, f) = <<-f3, 0, f1>> /\ Rightwards("Custom", ahead) = <<-f3, 0, f1>>
      BY <2>3, <3>1, <3>2, <1>4 DEF Rightwards, LeftHanded, Cross
    <3>4. there = here
      BY <1>3, <3>1
    <3>5. Dot(here, here) \in Int /\ Dot(here, Up("Custom")) \in Int
          /\ Dot(here, Rightwards("Custom", ahead)) \in Int
      BY <1>3, <3>2, <3>3, Products DEF Dot
    <3>6. Up(engine) = Up("Custom") /\ Rightwards(engine, f) = Rightwards("Custom", ahead)
      BY <3>2, <3>3
    <3> HIDE DEF k, ahead
    <3> QED BY <3>1, <3>4, <3>5, <3>6
  <2> QED BY <2>1, <2>2, <2>3
<1> QED BY <1>5 DEF SeenAlike, there, here
-----------------------------------------------------------------------------
\* Positive for a triangle that runs counter-clockwise as seen from where n points.
Turned(a, b, c, n) == Dot(Cross(Minus(b, a), Minus(c, a)), n)

\* Mirrored and the other way round, a triangle faces as it did.
LEMMA SidesKept ==
  ASSUME NEW engine \in AllHosts, NEW a \in Points, NEW b \in Points, NEW c \in Points,
         NEW n \in Points
  PROVE  LET E(p) == EnginePosition(engine, p)
             N == EngineNormal(engine, n)
         IN IF engine \in {"Unity", "Unreal"}
              THEN Turned(E(a), E(c), E(b), N) > 0 <=> Turned(a, b, c, n) > 0
              ELSE Turned(E(a), E(b), E(c), N) = Turned(a, b, c, n)
<1> DEFINE E(p) == EnginePosition(engine, p)
           N == EngineNormal(engine, n)
<1>1. PICK u1, u2, u3 \in Int :
        /\ Minus(b, a) = <<u1, u2, u3>>
        /\ Minus(E(b), E(a)) = IF engine = "Unity" THEN <<u1, u2, -u3>>
                               ELSE IF engine = "Unreal" THEN <<u1 * 100, u3 * 100, u2 * 100>>
                               ELSE <<u1, u2, u3>>
  BY Differences
<1>2. PICK v1, v2, v3 \in Int :
        /\ Minus(c, a) = <<v1, v2, v3>>
        /\ Minus(E(c), E(a)) = IF engine = "Unity" THEN <<v1, v2, -v3>>
                               ELSE IF engine = "Unreal" THEN <<v1 * 100, v3 * 100, v2 * 100>>
                               ELSE <<v1, v2, v3>>
  BY Differences
<1>3. PICK n1, n2, n3 \in Int : n = <<n1, n2, n3>>
  BY Triples DEF Points, Axes
<1> DEFINE x1 == u2 * v3 - u3 * v2
           x2 == u3 * v1 - u1 * v3
           x3 == u1 * v2 - u2 * v1
<1>4. x1 \in Int /\ x2 \in Int /\ x3 \in Int
  BY Products
<1>5. Turned(a, b, c, n) = x1 * n1 + x2 * n2 + x3 * n3
  <2>1. Cross(<<u1, u2, u3>>, <<v1, v2, v3>>) = <<x1, x2, x3>>
    BY DEF Cross
  <2> HIDE DEF x1, x2, x3
  <2> QED BY <1>1, <1>2, <1>3, <2>1, DotOf DEF Turned
<1>6. CASE engine = "Unity"
  <2>1. Cross(<<v1, v2, -v3>>, <<u1, u2, -u3>>) =
          <<v2 * (-u3) - (-v3) * u2, (-v3) * u1 - v1 * (-u3), v1 * u2 - v2 * u1>>
    BY DEF Cross
  <2>2. /\ v2 * (-u3) - (-v3) * u2 = x1 /\ (-v3) * u1 - v1 * (-u3) = x2
        /\ v1 * u2 - v2 * u1 = -x3
    BY Products
  <2>3. N = <<n1, n2, -n3>>
    BY <1>3, <1>6 DEF EngineNormal, NegateZ
  <2> HIDE DEF x1, x2, x3, N
  <2>4. Turned(E(a), E(c), E(b), N) = x1 * n1 + x2 * n2 + (-x3) * (-n3)
    BY <1>1, <1>2, <1>6, <2>1, <2>2, <2>3, DotOf DEF Turned
  <2>5. Turned(E(a), E(c), E(b), N) = Turned(a, b, c, n)
    BY <1>4, <1>5, <2>4, Products
  <2> QED BY <1>6, <2>5 DEF N
<1>7. CASE engine = "Unreal"
  <2>1. Cross(<<v1 * 100, v3 * 100, v2 * 100>>, <<u1 * 100, u3 * 100, u2 * 100>>) =
          <<(v3 * 100) * (u2 * 100) - (v2 * 100) * (u3 * 100),
            (v2 * 100) * (u1 * 100) - (v1 * 100) * (u2 * 100),
            (v1 * 100) * (u3 * 100) - (v3 * 100) * (u1 * 100)>>
    BY DEF Cross
  <2>2. /\ (v3 * 100) * (u2 * 100) - (v2 * 100) * (u3 * 100) = 10000 * x1
        /\ (v2 * 100) * (u1 * 100) - (v1 * 100) * (u2 * 100) = 10000 * x3
        /\ (v1 * 100) * (u3 * 100) - (v3 * 100) * (u1 * 100) = 10000 * x2
    BY Products
  <2>3. N = <<n1, n3, n2>>
    BY <1>3, <1>7 DEF EngineNormal, SwapYZ
  <2> HIDE DEF x1, x2, x3, N
  <2>4. Turned(E(a), E(c), E(b), N) = (10000 * x1) * n1 + (10000 * x3) * n3 + (10000 * x2) * n2
    BY <1>1, <1>2, <1>7, <2>1, <2>2, <2>3, DotOf DEF Turned
  <2>5. /\ (10000 * x1) * n1 = 10000 * (x1 * n1) /\ (10000 * x2) * n2 = 10000 * (x2 * n2)
        /\ (10000 * x3) * n3 = 10000 * (x3 * n3)
    BY <1>4
  <2>6. x1 * n1 \in Int /\ x2 * n2 \in Int /\ x3 * n3 \in Int
    BY <1>4, Products
  <2>7. Turned(E(a), E(c), E(b), N) > 0 <=> Turned(a, b, c, n) > 0
    BY <1>5, <2>4, <2>5, <2>6
  <2> QED BY <1>7, <2>7 DEF N
<1>8. CASE engine \notin {"Unity", "Unreal"}
  BY <1>8 DEF EnginePosition, EngineNormal
<1> QED BY <1>6, <1>7, <1>8

\* What appears in a mesh, and what makes a mesh whole: indices that point to
\* vertices, three by three.
VertexSet == [position : Points, normal : Points]

IsMesh(mesh) ==
  /\ mesh.vertices \in Seq(VertexSet)
  /\ mesh.indices \in Seq(Nat)
  /\ \A i \in 1 .. Len(mesh.indices) : mesh.indices[i] < Len(mesh.vertices)
  /\ Len(mesh.indices) % 3 = 0

\* A normal remains a point.
LEMMA NormalsConvert ==
  ASSUME NEW engine, NEW v \in Points
  PROVE  EngineNormal(engine, v) \in Points
BY DEF EngineNormal, NegateZ, SwapYZ, Points, Axes

(***************************************************************************)
(* For any mesh: converting the vertices mirrors each triangle, converting *)
(* the indices turns it round, and so it faces as it did.                  *)
(***************************************************************************)
THEOREM MeshesFaceAlike ==
  ASSUME NEW engine \in AllHosts, NEW mesh, IsMesh(mesh), NEW k \in Triangles(mesh)
  PROVE  Facing(EngineMesh(engine, mesh), k) > 0 <=> Facing(mesh, k) > 0
<1> DEFINE there == EngineMesh(engine, mesh)
           At(i) == mesh.vertices[mesh.indices[i] + 1]
           Conv(v) == Vertex(EnginePosition(engine, v.position), EngineNormal(engine, v.normal))
           i1 == 3 * k - 2
           i2 == 3 * k - 1
           i3 == 3 * k
<1>1. i1 \in 1 .. Len(mesh.indices) /\ i2 \in 1 .. Len(mesh.indices) /\ i3 \in 1 .. Len(mesh.indices)
  <2>1. PICK len \in Nat : len = Len(mesh.indices)
    BY DEF IsMesh
  <2>2. k \in 1 .. len \div 3 /\ len % 3 = 0
    BY <2>1 DEF Triangles, IsMesh
  <2>3. len = 3 * (len \div 3) /\ len \div 3 \in Int
    BY <2>2
  <2>4. k \in Int /\ 1 <= k /\ 3 * k <= len
    BY <2>2, <2>3
  <2>5. i1 \in 1 .. len /\ i2 \in 1 .. len /\ i3 \in 1 .. len
    BY <2>4
  <2> QED BY <2>1, <2>5
<1>2. i1 % 3 = 1 /\ i2 % 3 = 2 /\ i3 % 3 = 0 /\ i2 + 1 = i3 /\ i3 - 1 = i2
  BY DEF Triangles, IsMesh
<1>3. \A i \in 1 .. Len(mesh.indices) :
        mesh.indices[i] + 1 \in 1 .. Len(mesh.vertices) /\ At(i) \in VertexSet
  BY DEF IsMesh
<1>4. ASSUME NEW j \in 1 .. Len(mesh.vertices)
      PROVE  there.vertices[j] = Conv(mesh.vertices[j])
  <2>1. mesh.vertices[j] \in VertexSet
    BY DEF IsMesh
  <2>2. mesh.vertices[j].position \in Points
    BY <2>1 DEF VertexSet
  <2>3. EngineVertex(engine, Identity, mesh.vertices[j].position) =
          EnginePosition(engine, mesh.vertices[j].position)
    BY <2>2, IdentityKeeps, TransformsAgree
  <2> QED BY <2>3 DEF EngineMesh, IsMesh
<1>5. Facing(mesh, k) = Turned(At(i1).position, At(i2).position, At(i3).position, At(i1).normal)
  <2>1. Corners(mesh, k)[1] = At(i1) /\ Corners(mesh, k)[2] = At(i2) /\ Corners(mesh, k)[3] = At(i3)
    BY <1>1 DEF Corners, Triangles
  <2> HIDE DEF At
  <2> QED BY <2>1 DEF Facing, Turned
<1>6. CASE engine \in {"Unity", "Unreal"}
  <2>1. /\ there.indices[i1] = mesh.indices[i1] /\ there.indices[i2] = mesh.indices[i3]
        /\ there.indices[i3] = mesh.indices[i2]
    <3>1. DOMAIN mesh.indices = 1 .. Len(mesh.indices)
      BY DEF IsMesh
    <3>2. there.indices = EngineIndices(engine, mesh.indices)
      BY DEF EngineMesh
    <3> HIDE DEF there, i1, i2, i3
    <3> QED BY <1>1, <1>2, <1>6, <3>1, <3>2 DEF EngineIndices
  <2>2. /\ Corners(there, k)[1] = Conv(At(i1)) /\ Corners(there, k)[2] = Conv(At(i3))
        /\ Corners(there, k)[3] = Conv(At(i2))
    <3>1. 3 * k - 3 + 1 = i1 /\ 3 * k - 3 + 2 = i2 /\ 3 * k - 3 + 3 = i3
      BY DEF Triangles
    <3>2. \A i \in 1 .. Len(mesh.indices) : there.vertices[mesh.indices[i] + 1] = Conv(At(i))
      BY <1>3, <1>4
    <3> HIDE DEF there, i1, i2, i3, Conv, At
    <3>3. /\ there.vertices[there.indices[i1] + 1] = Conv(At(i1))
          /\ there.vertices[there.indices[i2] + 1] = Conv(At(i3))
          /\ there.vertices[there.indices[i3] + 1] = Conv(At(i2))
      BY <1>1, <2>1, <3>2
    <3> QED BY <3>1, <3>3 DEF Corners
  <2>3. Facing(there, k) =
          Turned(EnginePosition(engine, At(i1).position), EnginePosition(engine, At(i3).position),
                 EnginePosition(engine, At(i2).position), EngineNormal(engine, At(i1).normal))
    <3> HIDE DEF there, At, i1, i2, i3
    <3> QED BY <2>2 DEF Facing, Turned, Vertex
  <2>4. /\ At(i1).position \in Points /\ At(i2).position \in Points /\ At(i3).position \in Points
        /\ At(i1).normal \in Points
    BY <1>1, <1>3 DEF VertexSet
  <2> HIDE DEF there, At, i1, i2, i3
  <2>5. Facing(there, k) > 0 <=> Facing(mesh, k) > 0
    <3> HIDE DEF Conv
    <3> QED BY <1>5, <1>6, <2>3, <2>4, SidesKept
  <2> QED BY <2>5 DEF there
<1>7. CASE engine \notin {"Unity", "Unreal"}
  <2>1. there.indices = mesh.indices
    BY <1>7 DEF EngineMesh, EngineIndices
  <2>2. /\ Corners(there, k)[1] = Conv(At(i1)) /\ Corners(there, k)[2] = Conv(At(i2))
        /\ Corners(there, k)[3] = Conv(At(i3))
    <3>1. 3 * k - 3 + 1 = i1 /\ 3 * k - 3 + 2 = i2 /\ 3 * k - 3 + 3 = i3
      BY DEF Triangles
    <3>2. \A i \in 1 .. Len(mesh.indices) : there.vertices[mesh.indices[i] + 1] = Conv(At(i))
      BY <1>3, <1>4
    <3> HIDE DEF there, i1, i2, i3, Conv, At
    <3>3. /\ there.vertices[there.indices[i1] + 1] = Conv(At(i1))
          /\ there.vertices[there.indices[i2] + 1] = Conv(At(i2))
          /\ there.vertices[there.indices[i3] + 1] = Conv(At(i3))
      BY <1>1, <2>1, <3>2
    <3> QED BY <3>1, <3>3 DEF Corners
  <2>3. Facing(there, k) =
          Turned(EnginePosition(engine, At(i1).position), EnginePosition(engine, At(i2).position),
                 EnginePosition(engine, At(i3).position), EngineNormal(engine, At(i1).normal))
    <3> HIDE DEF there, At, i1, i2, i3
    <3> QED BY <2>2 DEF Facing, Turned, Vertex
  <2>4. /\ At(i1).position \in Points /\ At(i2).position \in Points /\ At(i3).position \in Points
        /\ At(i1).normal \in Points
    BY <1>1, <1>3 DEF VertexSet
  <2> HIDE DEF there, At, i1, i2, i3
  <2>5. Facing(there, k) > 0 <=> Facing(mesh, k) > 0
    <3> HIDE DEF Conv
    <3> QED BY <1>5, <1>7, <2>3, <2>4, SidesKept
  <2> QED BY <2>5 DEF there
<1> QED BY <1>6, <1>7

\* What the tile builder writes is a mesh.
\* The two triangles of a quad have its four corners.
LEMMA Quads ==
  ASSUME NEW base \in Nat, NEW i \in 1 .. 6
  PROVE  QuadIndices(base)[i] \in base .. base + 3
BY DEF QuadIndices

\* The ground has six indices, a box 36: whole triangles.
LEMMA MeshOf ==
  ASSUME NEW mesh, mesh.vertices \in Seq(VertexSet), mesh.indices \in Seq(Nat),
         \A i \in 1 .. Len(mesh.indices) : mesh.indices[i] < Len(mesh.vertices),
         Len(mesh.indices) \in {6, 36}
  PROVE  IsMesh(mesh)
<1>1. 6 % 3 = 0 /\ 36 % 3 = 0
  OBVIOUS
<1>2. Len(mesh.indices) % 3 = 0
  BY <1>1
<1> QED BY <1>2 DEF IsMesh

\* appendGroundQuad() into an empty mesh.
LEMMA GroundIsMesh ==
  ASSUME NEW box \in Boxes
  PROVE  IsMesh(AppendGroundQuad(EmptyMesh, box))
<1> DEFINE Corner(x, z) == Vertex(<<x, box.min[2], z>>, <<0, 1, 0>>)
           mesh == AppendGroundQuad(EmptyMesh, box)
           corners == <<Corner(box.min[1], box.min[3]), Corner(box.max[1], box.min[3]),
                        Corner(box.max[1], box.max[3]), Corner(box.min[1], box.max[3])>>
<1>1. /\ box.min[1] \in Int /\ box.min[2] \in Int /\ box.min[3] \in Int
      /\ box.max[1] \in Int /\ box.max[2] \in Int /\ box.max[3] \in Int
  BY DEF Boxes, Points, Axes
<1>2. \A x, z \in Int : Corner(x, z) \in VertexSet
  BY <1>1 DEF Vertex, VertexSet, Points, Axes
<1>3. corners \in Seq(VertexSet) /\ Len(corners) = 4
  <2> HIDE DEF Corner
  <2> QED BY <1>1, <1>2
<1> HIDE DEF corners
<1>4. mesh.vertices = corners
  BY <1>3 DEF AppendGroundQuad, EmptyMesh, corners
<1>5. mesh.indices = QuadIndices(0)
  BY DEF AppendGroundQuad, EmptyMesh, QuadIndices
<1>6. QuadIndices(0) \in Seq(Nat) /\ Len(QuadIndices(0)) = 6
  BY DEF QuadIndices
<1>7. \A i \in 1 .. 6 : QuadIndices(0)[i] < 4
  BY DEF QuadIndices
<1> HIDE DEF mesh
<1>8. IsMesh(mesh)
  BY <1>3, <1>4, <1>5, <1>6, <1>7, MeshOf
<1> QED BY <1>8 DEF mesh

\* The corners and normals of a box are points.
LEMMA FacesArePoints ==
  ASSUME NEW e, e[1] \in Int, e[2] \in Int, e[3] \in Int, NEW f \in 1 .. 6, NEW c \in 1 .. 4
  PROVE  Faces(e)[f].normal \in Points /\ Faces(e)[f].corners[c] \in Points
<1> DEFINE C(x, y, z) == <<x * e[1], y * e[2], z * e[3]>>
<1>1. \A x, y, z \in {-1, 0, 1} : C(x, y, z) \in Points
  BY DEF Points, Axes
<1> DEFINE faces ==
      <<[normal |-> <<0, 0, 1>>,
         corners |-> <<C(-1, -1, 1), C(1, -1, 1), C(1, 1, 1), C(-1, 1, 1)>>],
        [normal |-> <<0, 0, -1>>,
         corners |-> <<C(1, -1, -1), C(-1, -1, -1), C(-1, 1, -1), C(1, 1, -1)>>],
        [normal |-> <<1, 0, 0>>,
         corners |-> <<C(1, -1, 1), C(1, -1, -1), C(1, 1, -1), C(1, 1, 1)>>],
        [normal |-> <<-1, 0, 0>>,
         corners |-> <<C(-1, -1, -1), C(-1, -1, 1), C(-1, 1, 1), C(-1, 1, -1)>>],
        [normal |-> <<0, 1, 0>>,
         corners |-> <<C(-1, 1, 1), C(1, 1, 1), C(1, 1, -1), C(-1, 1, -1)>>],
        [normal |-> <<0, -1, 0>>,
         corners |-> <<C(-1, -1, -1), C(1, -1, -1), C(1, -1, 1), C(-1, -1, 1)>>]>>
<1>2. f = 1 \/ f = 2 \/ f = 3 \/ f = 4 \/ f = 5 \/ f = 6
  OBVIOUS
<1>3. c = 1 \/ c = 2 \/ c = 3 \/ c = 4
  OBVIOUS
<1>4. Faces(e) = faces
  BY DEF Faces
<1> HIDE DEF C
<1>5. faces[f].normal \in Points
  <2>1. /\ <<0, 0, 1>> \in Points /\ <<0, 0, -1>> \in Points /\ <<1, 0, 0>> \in Points
        /\ <<-1, 0, 0>> \in Points /\ <<0, 1, 0>> \in Points /\ <<0, -1, 0>> \in Points
    BY DEF Points, Axes
  <2> QED BY <1>2, <2>1
<1>6. faces[f].corners[c] \in Points
  BY <1>1, <1>2, <1>3
<1> HIDE DEF faces
<1> QED BY <1>4, <1>5, <1>6

\* appendBox() into an empty mesh.
LEMMA BoxIsMesh ==
  ASSUME NEW center \in Points, NEW e, e[1] \in Int, e[2] \in Int, e[3] \in Int
  PROVE  IsMesh(AppendBox(EmptyMesh, center, e))
<1> DEFINE mesh == AppendBox(EmptyMesh, center, e)
           FaceVertex(face, c) == Vertex(Plus(center, face.corners[c]), face.normal)
           vertices == [n \in 1 .. 24 |-> FaceVertex(Faces(e)[((n - 1) \div 4) + 1], ((n - 1) % 4) + 1)]
           indices == [n \in 1 .. 36 |-> QuadIndices(0 + 4 * ((n - 1) \div 6))[((n - 1) % 6) + 1]]
<1>1. ASSUME NEW p \in Points PROVE Plus(center, p) \in Points
  BY DEF Plus, Points
<1>2. ASSUME NEW f \in 1 .. 6, NEW c \in 1 .. 4 PROVE FaceVertex(Faces(e)[f], c) \in VertexSet
  BY <1>1, FacesArePoints DEF Vertex, VertexSet
<1>3. \A n \in 1 .. 24 : ((n - 1) \div 4) + 1 \in 1 .. 6 /\ ((n - 1) % 4) + 1 \in 1 .. 4
  OBVIOUS
<1>4. vertices \in Seq(VertexSet) /\ Len(vertices) = 24
  <2> HIDE DEF FaceVertex
  <2>1. vertices \in [1 .. 24 -> VertexSet]
    BY <1>2, <1>3
  <2> QED BY <2>1
<1>5. ASSUME NEW n \in 1 .. 36
      PROVE  indices[n] \in 0 .. 23
  <2>1. (n - 1) \div 6 \in 0 .. 5 /\ ((n - 1) % 6) + 1 \in 1 .. 6
    OBVIOUS
  <2>2. PICK base \in 0 .. 20 : base = 0 + 4 * ((n - 1) \div 6)
    BY <2>1
  <2>3. PICK i \in 1 .. 6 : i = ((n - 1) % 6) + 1
    BY <2>1
  <2>4. indices[n] = QuadIndices(base)[i]
    BY <2>2, <2>3
  <2> HIDE DEF indices
  <2>5. indices[n] \in base .. base + 3
    BY <2>4, Quads
  <2> QED BY <2>5
<1>6. indices \in Seq(Nat) /\ Len(indices) = 36
  <2>1. indices \in [1 .. 36 -> Nat]
    <3> HIDE DEF indices
    <3> QED BY <1>5 DEF indices
  <2> QED BY <2>1
<1> HIDE DEF vertices, indices
<1>7. mesh.vertices = vertices
  BY <1>4 DEF AppendBox, EmptyMesh, vertices
<1>8. mesh.indices = indices
  BY <1>6 DEF AppendBox, EmptyMesh, indices
<1> HIDE DEF mesh
<1>9. IsMesh(mesh)
  <2>1. \A n \in 1 .. 36 : indices[n] < 24
    BY <1>5
  <2> QED BY <1>4, <1>6, <1>7, <1>8, <2>1, MeshOf
<1> QED BY <1>9 DEF mesh

LEMMA GeneratedIsMesh ==
  ASSUME NEW box \in Boxes, NEW n \in 1 .. 2
  PROVE  IsMesh(GeneratedMeshes(box)[n])
<1> DEFINE half == [i \in Axes |-> (box.max[i] - box.min[i]) \div 2]
           e == <<half[1] \div 2, half[2], half[3] \div 2>>
<1>1. half \in Points
  BY DEF Boxes, Points
<1>2. Plus(box.min, half) \in Points
  BY <1>1 DEF Plus, Boxes, Points
<1>3. e[1] \in Int /\ e[2] \in Int /\ e[3] \in Int
  <2> HIDE DEF half
  <2> QED BY <1>1 DEF Points, Axes
<1>4. IsMesh(AppendBox(EmptyMesh, Plus(box.min, half), e))
  <2> HIDE DEF half, e
  <2> QED BY <1>2, <1>3, BoxIsMesh
<1>5. GeneratedMeshes(box) = <<AppendGroundQuad(EmptyMesh, box),
                               AppendBox(EmptyMesh, Plus(box.min, half), e)>>
  BY DEF GeneratedMeshes
<1> HIDE DEF half, e
<1> QED BY <1>4, <1>5, GroundIsMesh

(***************************************************************************)
(* Whatever the host, its camera, its directions and its transforms: the   *)
(* tiles stand before the engine's camera as they do before the SDK's, and *)
(* each triangle shows the same side.                                      *)
(***************************************************************************)
THEOREM SceneAlwaysStandsRight == FrameSpec => []SceneStandsRight
<1>1. FrameInv => SceneStandsRight
  <2> SUFFICES ASSUME FrameInv PROVE SceneStandsRight
    OBVIOUS
  <2>1. host \in Hosts /\ CameraSet \in Cameras
    BY DEF FrameInv, FrameTypes, CameraSet
  <2>2. ASSUME NEW engine \in Hosts, NEW c \in Cameras, NEW t \in Tiles, NEW n \in 1 .. 2
        PROVE  LET mesh == GeneratedMeshes(TileBox[t])[n]
                   there == EngineMesh(engine, mesh)
               IN /\ \A v \in DOMAIN mesh.vertices :
                       LET p == mesh.vertices[v].position IN
                         /\ \A f \in Directions[engine] :
                              SeenAlike(engine, EnginePosition(engine, c), f, p)
                         /\ \A m \in Transforms :
                              EngineVertex(engine, m, p) = EnginePosition(engine, TransformPoint(m, p))
                  /\ \A k \in Triangles(mesh) : Facing(there, k) > 0 <=> Facing(mesh, k) > 0
    <3> DEFINE mesh == GeneratedMeshes(TileBox[t])[n]
    <3>1. IsMesh(mesh)
      BY GeneratedIsMesh, ScenesAssumption
    <3> HIDE DEF mesh
    <3>2. engine \in AllHosts /\ c \in Points
      BY HostsAssumption, ScenesAssumption
    <3>3. ASSUME NEW v \in DOMAIN mesh.vertices PROVE mesh.vertices[v].position \in Points
      <4>1. mesh.vertices[v] \in VertexSet
        BY <3>1 DEF IsMesh
      <4> QED BY <4>1 DEF VertexSet
    <3>4. \A f \in Directions[engine] : f \in Points
      BY ScenesAssumption
    <3>5. \A m \in Transforms : m \in Matrices
      BY ScenesAssumption DEF Matrices
    <3>6. \A v \in DOMAIN mesh.vertices :
            LET p == mesh.vertices[v].position IN
              /\ \A f \in Directions[engine] : SeenAlike(engine, EnginePosition(engine, c), f, p)
              /\ \A m \in Transforms :
                   EngineVertex(engine, m, p) = EnginePosition(engine, TransformPoint(m, p))
      BY <3>2, <3>3, <3>4, <3>5, SeesAlike, TransformsAgree
    <3>7. \A k \in Triangles(mesh) : Facing(EngineMesh(engine, mesh), k) > 0 <=> Facing(mesh, k) > 0
      BY <3>1, <3>2, MeshesFaceAlike
    <3> QED BY <3>6, <3>7 DEF mesh
  <2>3. \A engine \in Hosts, c \in Cameras : StandsRight[engine][c]
    BY <2>2 DEF StandsRight
  <2> QED BY <2>1, <2>3 DEF SceneStandsRight
<1> QED BY <1>1, FrameInvariant, PTL
=============================================================================
