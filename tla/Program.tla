------------------------------ MODULE Program ------------------------------
(***************************************************************************)
(* main from its first line to its last: what it acquires on the way to    *)
(* the loop, what each call relies on, the deferred calls, which run in    *)
(* reverse order when main returns, and the ways it ends early.  The loop  *)
(* itself is Frame, whose variables no other part of main touches.         *)
(*                                                                         *)
(* A failing call writes a message through logprintf, which uses log_file  *)
(* without asking whether it could be opened.                              *)
(***************************************************************************)
EXTENDS Frame, Sequences

VARIABLES phase,    \* the call of main that comes next, or how it has ended
          live,     \* what has been acquired and not been released
          deferred, \* the resources that deferred calls will release, last first
          uses,     \* what the call just made relies on
          status    \* the exit status

lifecycle == <<phase, live, deferred, uses, status>>

(* The meshes and the texture that main loads, in the order it does.       *)
Assets == <<"building", "cube", "mesh", "environment_texture">>
AssetSet == {Assets[k] : k \in DOMAIN Assets}
Meshes == AssetSet \ {"environment_texture"}

(* What a load relies on, and what the frames of the loop rely on.         *)
LoadNeeds == {"device", "white_texture", "registries"}
LoopNeeds == {"window", "device", "shaders", "imgui", "command_buffer", "quad"}
               \cup LoadNeeds \cup AssetSet

ProgramInit ==
    /\ Init
    /\ phase = "logging" /\ live = {} /\ deferred = <<>> /\ uses = {} /\ status = 0

-----------------------------------------------------------------------------
(* A call that succeeds. *)
Done(needs, made, next) ==
    /\ uses' = needs
    /\ live' = live \cup made
    /\ phase' = next
    /\ UNCHANGED status

Defer(r) == deferred' = <<r>> \o deferred

(* What logprintf does without a file is undefined: it may crash.          *)
Logged(next, code) ==
    \/ phase' = next /\ status' = code
    \/ "log_file" \notin live /\ phase' = "crashed" /\ UNCHANGED status

(* A call that fails, with a message, and makes main return code.          *)
Fails(needs, code) ==
    /\ uses' = needs
    /\ Logged("unwind", code)
    /\ UNCHANGED <<live, deferred>>

(* init_logging does not tell whether the file could be opened.            *)
InitLogging ==
    /\ phase = "logging"
    /\ \E made \in {{}, {"log_file"}} : Done({}, made, "platform")
    /\ Defer("log_file")

PlatformInit ==
    /\ phase = "platform"
    /\ Done({}, {"timer"}, "window")
    /\ Defer("timer")

WindowCreate ==
    /\ phase = "window"
    /\ \/ Done({}, {"window"}, "device") /\ UNCHANGED deferred
       \/ Fails({}, 0)

(* init_renderer asserts that one call has made the swap chain, the device *)
(* and its context, which come together or not at all; without assertions  *)
(* the next call through the null pointer crashes.  The targets are then   *)
(* made by calls whose results nobody looks at.                            *)
InitDevice ==
    /\ phase = "device"
    /\ \/ Done({"window"}, {"device"}, "shaders") /\ UNCHANGED deferred
       \/ /\ phase' = "crashed" /\ uses' = {"window"}
          /\ UNCHANGED <<live, deferred, status>>

(* A shader that does not load ends the program by exit, from within       *)
(* init_renderer: no deferred call of main runs.                           *)
InitShaders ==
    /\ phase = "shaders"
    /\ \/ Done({"device"}, {"shaders"}, "states") /\ UNCHANGED deferred
       \/ /\ uses' = {"device"}
          /\ Logged("ended", 1)
          /\ UNCHANGED <<live, deferred>>

(* The rest of init_renderer.  A buffer of the quad that cannot be made is *)
(* logged and ignored; the rasterizer state of the meshes and both depth   *)
(* stencil states are asserted, so that without one the program stops here *)
(* or, built without assertions, goes on with none; the other states are   *)
(* not looked at.                                                          *)
InitStates ==
    /\ phase = "states"
    /\ uses' = {"device"}
    /\ phase' \in {"imgui", "crashed"}
    /\ UNCHANGED <<live, deferred, status>>

ImguiInit ==
    /\ phase = "imgui"
    /\ Done({"window", "device"}, {"imgui"}, "white_texture")
    /\ UNCHANGED deferred

WhiteTexture_NotDeferred ==
    /\ phase = "white_texture"
    /\ \/ Done({"device"}, {"white_texture"}, "command_buffer") /\ UNCHANGED deferred
       \/ Fails({"device"}, 1)

WhiteTexture ==
    /\ phase = "white_texture"
    /\ \/ Done({"device"}, {"white_texture"}, "command_buffer") /\ Defer("white_texture")
       \/ Fails({"device"}, 1)

InitCommandBuffer ==
    /\ phase = "command_buffer"
    /\ \/ Done({"device"}, {"command_buffer"}, "quad") /\ UNCHANGED deferred
       \/ Fails({"device"}, 0)

InitFullscreenQuad ==
    /\ phase = "quad"
    /\ \/ Done({"device"}, {"quad"}, "registries") /\ UNCHANGED deferred
       \/ Fails({"device"}, 0)

NewRegistries ==
    /\ phase = "registries"
    /\ Done({}, {"registries"}, Assets[1])
    /\ UNCHANGED deferred

AfterAsset(k) == IF k = Len(Assets) THEN "enter" ELSE Assets[k + 1]

FindOrLoad_Unchecked(k) ==
    /\ phase = Assets[k]
    /\ \E made \in {{}, {Assets[k]}} : Done(LoadNeeds, made, AfterAsset(k))
    /\ UNCHANGED deferred

(* A mesh that loads may have logged a texture that does not, so this too  *)
(* can crash without a log file.  A mesh can crash with one as well: what  *)
(* the glTF loader left unset is uploaded all the same, with whatever      *)
(* count and pointer it holds (mesh.cpp:137, renderer.cpp:75), and the     *)
(* loader of saved meshes asserts its counts (mesh.cpp:352-363).           *)
FindOrLoad(k) ==
    /\ phase = Assets[k]
    /\ \/ Done(LoadNeeds, {Assets[k]}, AfterAsset(k)) /\ UNCHANGED deferred
       \/ Fails(LoadNeeds, 1)
       \/ /\ Assets[k] \in Meshes
          /\ phase' = "crashed" /\ uses' = LoadNeeds
          /\ UNCHANGED <<live, deferred, status>>

(* The window is toggled to fullscreen and the loop begins.                *)
EnterLoop ==
    /\ phase = "enter"
    /\ Done({"window"}, {}, "loop")
    /\ UNCHANGED deferred

Startup ==
    \/ InitLogging \/ PlatformInit \/ WindowCreate \/ InitDevice \/ InitShaders
    \/ InitStates \/ ImguiInit \/ WhiteTexture \/ InitCommandBuffer \/ InitFullscreenQuad \/ NewRegistries
    \/ \E k \in DOMAIN Assets : FindOrLoad(k)
    \/ EnterLoop

Loop ==
    /\ phase = "loop"
    /\ Next
    /\ uses' = LoopNeeds
    /\ UNCHANGED <<phase, live, deferred, status>>

(* Behind the loop: ImGui is shut down, then main returns.                 *)
LeaveLoop ==
    /\ phase = "loop" /\ pc = "closed"
    /\ uses' = {"imgui", "device", "window"}
    /\ live' = live \ {"imgui"}
    /\ phase' = "unwind" /\ status' = 0
    /\ UNCHANGED deferred

(* A deferred call; shutdown_logging is the one that asks first.           *)
Unwind ==
    /\ phase = "unwind" /\ deferred # <<>>
    /\ uses' = {Head(deferred)} \ {"log_file"}
    /\ live' = live \ {Head(deferred)}
    /\ deferred' = Tail(deferred)
    /\ UNCHANGED <<phase, status>>

Return ==
    /\ phase = "unwind" /\ deferred = <<>>
    /\ phase' = "ended" /\ uses' = {}
    /\ UNCHANGED <<live, deferred, status>>

ProgramNext ==
    \/ Startup /\ UNCHANGED vars
    \/ Loop
    \/ (LeaveLoop \/ Unwind \/ Return) /\ UNCHANGED vars

ProgramSpec == ProgramInit /\ [][ProgramNext]_<<vars, lifecycle>>

(* The program's one thread keeps running.  The user owes it nothing.      *)
FairProgramSpec == ProgramSpec /\ WF_<<vars, lifecycle>>(ProgramNext)

-----------------------------------------------------------------------------
Resources == {"log_file", "timer"} \cup LoopNeeds

ProgramTypeOK ==
    /\ TypeOK
    /\ live \subseteq Resources /\ uses \subseteq Resources
    /\ Len(deferred) <= 3 /\ \A k \in DOMAIN deferred : deferred[k] \in Resources
    /\ status \in {0, 1}

(* Closing is final: wherever in the loop the window is closed, by a       *)
(* message or by Alt-F4, and whatever is resized or toggled in the same    *)
(* frame, that frame is the last one, and main, like a start that failed,  *)
(* runs what it has deferred and returns (main.cpp:452-550).               *)
ProgramEnds == (~open \/ phase = "unwind") ~> phase = "ended"

(* Nothing is used before it was made, by a failing path either, and       *)
(* nothing after it was released: neither the loads of main.cpp:431-441,   *)
(* whose failure ends main, nor a frame, nor a deferred call, whichever    *)
(* call failed before it.                                                  *)
NothingUsedUnmade == [][uses' \subseteq live]_lifecycle

(* However main ends, it is known what is still there.  When it returns,   *)
(* what has a deferred release is gone, and after the loop ImGui as well:  *)
(* the window, the device with all that was made from it and the           *)
(* registries are left to the system, and a start that failed leaves ImGui *)
(* too.  Only exit leaves deferred calls behind (renderer_d3d11.cpp:186).  *)
(* With a log file the start can crash in three places only: for want of a *)
(* device, over the states behind the shaders (renderer_d3d11.cpp:275,     *)
(* 294, 299), and in the load of a mesh, before the last one is there.     *)
(* What stops a frame is not here: AssetRegistry has it.                   *)
EndsAccounted ==
    /\ phase = "ended" =>
          \/ live \cap {"log_file", "timer", "white_texture"} = {} /\ deferred = <<>>
          \/ status = 1 /\ "shaders" \notin live /\ "timer" \in live
    /\ phase = "ended" /\ "environment_texture" \in live =>
          status = 0 /\ live = LoopNeeds \ {"imgui", "white_texture"}
    /\ phase = "crashed" =>
          \/ "log_file" \notin live
          \/ "device" \notin live
          \/ "shaders" \in live /\ "imgui" \notin live
          \/ LoadNeeds \subseteq live /\ ~(Meshes \subseteq live)
=============================================================================
