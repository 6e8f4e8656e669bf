------------------------------- MODULE Frame -------------------------------
(***************************************************************************)
(* One iteration after another of the loop in main.cpp, as far as the      *)
(* window and the renderer are concerned: messages and keys that change    *)
(* the window, resize_renderer, the passes draw_one_frame records into the *)
(* deferred command buffer, render_frame, ImGui and swap_buffers.          *)
(*                                                                         *)
(* A render target's content is a set of layers.  A layer remembers        *)
(* whether it was drawn in this frame or in an earlier one, and what the   *)
(* passes did to it: which cascade a shadow map was drawn with, how often  *)
(* an image was blurred in each direction.                                 *)
(***************************************************************************)
EXTENDS CommandBuffer, FiniteSets

CONSTANTS Sizes,      \* the sizes the window can have; 0 stands for minimised
          BloomPasses \* the number of blur passes: 10 in the code

ASSUME SizesAssumption == 0 \in Sizes /\ Sizes \subseteq Nat
ASSUME ShadowAssumption == ShadowSize \in Nat
ASSUME BloomAssumption == BloomPasses \in Nat /\ BloomPasses % 2 = 0 /\ BloomPasses > 0

VARIABLES window,       \* platform_window_width and platform_window_height
          was_resized,
          open,         \* platform_window_is_open
          imgui,        \* globals.enable_imgui
          size,         \* the size of each target that follows the window
          cb,           \* the bindings of the deferred context
          immediate,    \* the bindings of the immediate context
          cascade,      \* shadow_cascade_index in the per-scene uniform buffer
          recorded,     \* contents after the commands recorded so far
          content,      \* contents after the commands executed so far
          pc, i,        \* the part of the loop body to run next, its loop counter
          draw,         \* the bindings of the last draw call
          \* History:
          held          \* a context held a view of the back buffer through the last resize

vars == <<window, was_resized, open, imgui, size, cb, immediate, cascade,
          recorded, content, pc, i, draw, held>>

platform == <<window, was_resized, open, imgui>>

PingPongs == {ping_pong_render_targets(0), ping_pong_render_targets(1)}

(* What release_back_buffer releases and init_back_buffer creates. *)
WindowTargets ==
    PingPongs \cup {offscreen_render_target, offscreen_bloom_target,
                    offscreen_depth_target, back_buffer}

ShadowMaps == {shadow_map_targets(c) : c \in CascadeSet}

Targets == WindowTargets \cup ShadowMaps

(* A view that a context still holds although its texture was released. *)
Stale == <<"stale", 0>>

Textures == Targets \cup {material_texture, white_texture, environment_texture, Stale}

ASSUME NullAssumption == NULL \notin Textures

Layer == [age : {"now", "old"}, cascade : CascadeSet, h : Nat, v : Nat]

(* What a draw call leaves, of the scene or of a shadow caster.            *)
DrawnFor(c) == [age |-> "now", cascade |-> c, h |-> 0, v |-> 0]
Drawn == DrawnFor(0)

NoDraw == [pass |-> "none", index |-> 0, cb |-> EmptyContext, reads |-> {}]

(* A texture without a view, because it could not be created for a window  *)
(* of size 0, binds as NULL.                                               *)
View(t) == IF t \in WindowTargets /\ size[t] = 0 THEN NULL ELSE t
Views(ts) == {View(t) : t \in ts} \ {NULL}

(* main enters its loop after it has made the targets for the window as it *)
(* was created and then toggled it to fullscreen (main.cpp:413-443).       *)
Init ==
    /\ window \in Sizes \ {0}
    /\ \E created \in Sizes \ {0} : size = [t \in WindowTargets |-> created]
    /\ was_resized = TRUE /\ open = TRUE /\ imgui = TRUE
    /\ cb = EmptyContext /\ immediate = EmptyContext
    /\ cascade = 0
    /\ content = [t \in Targets |-> {}]
    /\ recorded = content
    /\ pc = "poll" /\ i = 0
    /\ draw = NoDraw /\ held = FALSE

-----------------------------------------------------------------------------
(* The window.                                                             *)

(* WM_SIZE, from a message or from within SetWindowPos: the new client     *)
(* size is stored and was_resized is set.                                  *)
SizeMessage ==
    /\ window' \in Sizes \ {window}
    /\ was_resized' = TRUE

SameSize == UNCHANGED <<window, was_resized>>

(* platform_window_toggle_fullscreen reads the new client size itself but  *)
(* leaves was_resized to the WM_SIZE that SetWindowPos sends.              *)
ToggleFullscreen_NoMessage ==
    /\ window' \in Sizes \ {window}
    /\ UNCHANGED was_resized

ToggleFullscreen == SizeMessage

(* platform_poll_events: any number of messages. *)
Poll ==
    /\ pc = "poll" /\ open
    /\ SizeMessage \/ SameSize
    /\ open' \in {TRUE, FALSE}
    /\ pc' = "keys"
    /\ UNCHANGED <<imgui, size, held, cb, immediate, cascade, recorded, content, i, draw>>

Keys_Reopens ==
    /\ pc = "keys"
    /\ ToggleFullscreen \/ SameSize
    /\ open' \in BOOLEAN
    /\ imgui' \in BOOLEAN
    /\ pc' = "resize"
    /\ UNCHANGED <<size, held, cb, immediate, cascade, recorded, content, i, draw>>

(* The key tests of main.cpp:466-488 that concern the window: Alt-F4,      *)
(* Alt-Enter and F11, U.  Toggling fullscreen changes the size.            *)
Keys ==
    /\ pc = "keys"
    /\ ToggleFullscreen \/ SameSize
    /\ open' \in {open, FALSE}
    /\ imgui' \in BOOLEAN
    /\ pc' = "resize"
    /\ UNCHANGED <<size, held, cb, immediate, cascade, recorded, content, i, draw>>

(* The bindings of a context after the textures of ts were released. *)
Released(c, ts) ==
    [c EXCEPT !.targets = {IF t \in ts THEN Stale ELSE t : t \in @},
              !.srv = [s \in TextureSlots |-> IF @[s] \in ts THEN Stale ELSE @[s]]]

(* ResizeBuffers fails while a context still holds a view of the back      *)
(* buffer, and its result is ignored: the buffer may keep its old size.    *)
BackBufferHeld == back_buffer \in cb.targets \cup immediate.targets

BackBufferSizes == IF BackBufferHeld THEN {window, size[back_buffer]} ELSE {window}

(* A resize that forgets the swap chain. *)
ResizeRenderer_NoBuffers ==
    /\ size' = [t \in WindowTargets |-> IF t = back_buffer THEN size[t] ELSE window]
    /\ held' = BackBufferHeld
    /\ cb' = Released(cb, WindowTargets)
    /\ immediate' = Released(immediate, WindowTargets)
    /\ content' = [t \in Targets |-> IF t \in WindowTargets THEN {} ELSE content[t]]

(* resize_renderer: the targets are released and created anew, empty.      *)
ResizeRenderer ==
    /\ \E s \in BackBufferSizes :
          size' = [t \in WindowTargets |-> IF t = back_buffer THEN s ELSE window]
    /\ held' = BackBufferHeld
    /\ cb' = Released(cb, WindowTargets)
    /\ immediate' = Released(immediate, WindowTargets)
    /\ content' = [t \in Targets |-> IF t \in WindowTargets THEN {} ELSE content[t]]

Aged(contents) == [t \in Targets |-> {[l EXCEPT !.age = "old"] : l \in contents[t]}]

(* platform_window_was_resized() and what depends on it; then a new frame  *)
(* begins, for which all that was drawn before is old.                     *)
Resize ==
    /\ pc = "resize"
    /\ IF was_resized THEN ResizeRenderer ELSE UNCHANGED <<size, held, cb, immediate, content>>
    /\ was_resized' = FALSE
    /\ recorded' = Aged(content')
    /\ pc' = "shadow" /\ i' = 0
    /\ UNCHANGED <<window, open, imgui, cascade, draw>>

-----------------------------------------------------------------------------
(* draw_one_frame.                                                         *)

(* What the draw call with bindings c reads: the layers of each slot. *)
Reads(c) ==
    {[slot |-> s, layers |-> recorded[c.srv[s]]] : s \in {x \in TextureSlots : c.srv[x] \in Targets}}

DrawnWith(pass, index, c) == [pass |-> pass, index |-> index, cb |-> c, reads |-> Reads(c)]

(* render_scene: the environment map, then the meshes with their materials *)
SceneBindings(c) == bind_material(set_texture(c, TEXTURE_ENVIRONMENT, environment_texture))

ClearedForShadow_None(n) == {}

ClearedForShadow(n) == {shadow_map_targets(n)}

(* The shadow pass of cascade i: clear its map, make it the only target,   *)
(* select the cascade's light matrix, draw the scene.                      *)
ShadowBindings(c, n) ==
    LET c1 == set_render_targets(set_pipeline_type(c, "shadow"), {shadow_map_targets(n)})
    IN  SceneBindings(set_pipeline_type(set_viewport(c1, ShadowSize), "shadow"))

ShadowPass ==
    /\ pc = "shadow" /\ i < Cascades
    /\ LET c == ShadowBindings(cb, i)
       IN  /\ cb' = c
           /\ draw' = DrawnWith("shadow", i, c)
           /\ cascade' = i
           /\ recorded' = [t \in Targets |->
                 (IF t \in ClearedForShadow(i) THEN {} ELSE recorded[t])
                    \cup (IF t \in c.targets THEN {DrawnFor(cascade')} ELSE {})]
    /\ i' = i + 1
    /\ pc' = IF i + 1 = Cascades THEN "main" ELSE "shadow"
    /\ UNCHANGED <<platform, size, held, immediate, content>>

(* The main pass: clear colour and depth, draw the scene into the colour   *)
(* and the bloom target.  The bloom target is not cleared.                 *)
MainTargets == {offscreen_render_target, offscreen_bloom_target, offscreen_depth_target}

MainCleared == {offscreen_render_target, offscreen_depth_target}

MainBindings(c) ==
    SceneBindings(set_pipeline_type(
        set_viewport(set_render_targets(c, Views(MainTargets)), window), "mesh"))

MainPass ==
    /\ pc = "main"
    /\ LET c == MainBindings(cb)
       IN  /\ cb' = c
           /\ draw' = DrawnWith("main", 0, c)
           /\ recorded' = [t \in Targets |->
                 (IF t \in MainCleared THEN {} ELSE recorded[t])
                    \cup (IF t \in c.targets THEN {Drawn} ELSE {})]
    /\ pc' = "bloom" /\ i' = 0
    /\ UNCHANGED <<platform, size, held, immediate, cascade, content>>

(* Blur pass i writes the ping-pong target `horizontal` and reads the      *)
(* other one; the first pass reads the bloom target.                       *)
Horizontal(n) == n % 2 = 0
BlurTarget(n) == ping_pong_render_targets(IF Horizontal(n) THEN 1 ELSE 0)

BlurSource(n) ==
    IF n = 0 THEN offscreen_bloom_target
    ELSE ping_pong_render_targets(IF Horizontal(n) THEN 0 ELSE 1)

Blur(layers, n) ==
    {IF Horizontal(n) THEN [l EXCEPT !.h = @ + 1] ELSE [l EXCEPT !.v = @ + 1] : l \in layers}

LayersAt(c, slot) == IF c.srv[slot] \in Targets THEN recorded[c.srv[slot]] ELSE {}

LastBlur(n) == n + 1 = BloomPasses

BloomBindings(c, n) ==
    LET c1 == set_render_targets(unbind_textures(c, {TEXTURE_ALBEDO}), Views({BlurTarget(n)}))
        c2 == set_pipeline_type(set_viewport(c1, window), "quad")
    IN  bind_quad(c2, View(BlurSource(n)), white_texture)

BloomPass ==
    /\ pc = "bloom"
    /\ LET c == BloomBindings(cb, i)
       IN  /\ cb' = c
           /\ draw' = DrawnWith("bloom", i, c)
           /\ recorded' = [t \in Targets |->
                 IF t \in c.targets THEN Blur(LayersAt(c, TEXTURE_ALBEDO), i) ELSE recorded[t]]
    /\ i' = i + 1
    /\ pc' = IF LastBlur(i) THEN "resolve" ELSE "bloom"
    /\ UNCHANGED <<platform, size, held, immediate, cascade, content>>

(* The resolve pass combines the scene and the last blur in the back       *)
(* buffer.  Here i = BloomPasses, so horizontal has the value it would     *)
(* have in one more blur pass.                                             *)
ResolveBindings(c, n) ==
    LET c1 == set_viewport(set_render_targets(c, Views({back_buffer})), window)
    IN  bind_quad(set_pipeline_type(c1, "quad"),
                  View(offscreen_render_target), View(BlurSource(n)))

ResolvePass ==
    /\ pc = "resolve"
    /\ LET c == ResolveBindings(cb, i)
       IN  /\ cb' = c
           /\ draw' = DrawnWith("resolve", 0, c)
           /\ recorded' = [t \in Targets |->
                 IF t \in c.targets
                 THEN LayersAt(c, TEXTURE_ALBEDO) \cup LayersAt(c, TEXTURE_NORMAL)
                 ELSE recorded[t]]
    /\ pc' = "unbind"
    /\ UNCHANGED <<platform, size, held, immediate, cascade, content, i>>

(* The set_texture(..., NULL) calls at the end of draw_one_frame. *)
UnboundSlots_ShadowsOnly == ShadowSlots

UnboundSlots == MaterialSlots \cup ShadowSlots

Unbind ==
    /\ pc = "unbind"
    /\ cb' = unbind_textures(cb, UnboundSlots)
    /\ pc' = "execute"
    /\ UNCHANGED <<platform, size, held, immediate, cascade, recorded, content, i, draw>>

-----------------------------------------------------------------------------
(* render_frame: the recorded commands run on the immediate context, which *)
(* is left without bindings; the deferred context keeps its own.           *)
RenderFrame ==
    /\ pc = "execute"
    /\ content' = recorded
    /\ immediate' = EmptyContext
    /\ pc' = "overlay"
    /\ UNCHANGED <<platform, size, held, cb, cascade, recorded, i, draw>>

(* ImGui draws on the immediate context, over what is in the back buffer.  *)
Overlay_NoTarget ==
    /\ pc = "overlay"
    /\ draw' = IF imgui THEN DrawnWith("overlay", 0, immediate) ELSE draw
    /\ pc' = "present"
    /\ UNCHANGED <<platform, size, held, cb, immediate, cascade, recorded, content, i>>

Overlay ==
    /\ pc = "overlay"
    /\ LET c == set_render_targets(immediate, Views({back_buffer}))
       IN  /\ immediate' = c
           /\ draw' = IF imgui THEN DrawnWith("overlay", 0, c) ELSE draw
    /\ pc' = "present"
    /\ UNCHANGED <<platform, size, held, cb, cascade, recorded, content, i>>

(* swap_buffers, and the loop condition. *)
Present ==
    /\ pc = "present"
    /\ pc' = IF open THEN "poll" ELSE "closed"
    /\ UNCHANGED <<platform, size, held, cb, immediate, cascade, recorded, content, i, draw>>

Next ==
    \/ Poll \/ Keys \/ Resize
    \/ ShadowPass \/ MainPass \/ BloomPass \/ ResolvePass \/ Unbind
    \/ RenderFrame \/ Overlay \/ Present

Spec == Init /\ [][Next]_vars

-----------------------------------------------------------------------------
Contexts == [srv : [TextureSlots -> Textures \cup {NULL}],
             targets : SUBSET (Targets \cup {Stale}),
             viewport : Sizes \cup {ShadowSize},
             pipeline : {"shadow", "mesh", "quad", NULL}]

TypeOK ==
    /\ window \in Sizes /\ was_resized \in BOOLEAN /\ open \in BOOLEAN /\ imgui \in BOOLEAN
    /\ size \in [WindowTargets -> Sizes]
    /\ cb \in Contexts /\ immediate \in Contexts
    /\ cascade \in CascadeSet
    /\ recorded \in [Targets -> SUBSET Layer] /\ content \in [Targets -> SUBSET Layer]
    /\ pc \in {"poll", "keys", "resize", "shadow", "main", "bloom", "resolve", "unbind",
               "execute", "overlay", "present", "closed"}
    /\ i \in 0..BloomPasses \cup CascadeSet \cup {Cascades}
    /\ held \in BOOLEAN

Minimised == window = 0

(* The last draw call is one that this frame has recorded after its        *)
(* shadow passes.                                                          *)
Recording == pc \in {"bloom", "resolve", "unbind"}

(* Each pass reads the textures it asked for.  D3D11 silently replaces by  *)
(* NULL an input that is an output too, so this holds only because of the  *)
(* order of the calls: the shadow maps are bound after the targets of the  *)
(* main pass replace the last of them, and each blur pass releases its     *)
(* input before that becomes its output (main.cpp:314-318, 329-333).       *)
InputsIntact ==
    Recording /\ ~Minimised =>
        LET srv == draw.cb.srv
        IN  /\ draw.pass \in {"main", "bloom", "resolve"}
            /\ draw.pass = "main" =>
                  \A c \in CascadeSet : srv[TEXTURE_SHADOW_MAP + c] = shadow_map_targets(c)
            /\ draw.pass = "bloom" => srv[TEXTURE_ALBEDO] = BlurSource(draw.index)
            /\ draw.pass = "resolve" =>
                  /\ srv[TEXTURE_ALBEDO] = offscreen_render_target
                  /\ srv[TEXTURE_NORMAL] \in PingPongs

(* The main pass is lit with the shadow maps of this frame, each drawn     *)
(* with the light matrix of its own cascade (main.cpp:294-305).            *)
ShadowsCurrent ==
    draw.pass = "main" =>
        \A c \in CascadeSet :
            \E r \in draw.reads :
                /\ r.slot = TEXTURE_SHADOW_MAP + c
                /\ r.layers = {DrawnFor(c)}

(* Its depth tests see no depth of an earlier frame (main.cpp:312).        *)
DepthCurrent ==
    pc = "bloom" /\ ~Minimised => recorded[offscreen_depth_target] = {Drawn}

(* The resolve pass shows the scene of this frame, and a bloom that was    *)
(* blurred equally often in both directions by all the passes              *)
(* (main.cpp:323-347).                                                     *)
ResolveCurrent ==
    pc = "unbind" /\ ~Minimised =>
        \E scene \in draw.reads, bloom \in draw.reads :
            /\ scene.slot = TEXTURE_ALBEDO /\ scene.layers = {Drawn}
            /\ bloom.slot = TEXTURE_NORMAL
            /\ \E l \in bloom.layers : l.age = "now"
            /\ \A l \in bloom.layers : l.h = BloomPasses \div 2 /\ l.v = BloomPasses \div 2

(* What a pass reads is what it asked for, was drawn in this frame by the  *)
(* passes before it, and nothing older shows through.                      *)
PassesReadThisFrame ==
    InputsIntact /\ ShadowsCurrent /\ DepthCurrent /\ ResolveCurrent

(* Every pass that is scaled to the window draws into targets that have    *)
(* the window's size, although the size changes in the message loop and in *)
(* the key handling: both come before was_resized is tested                *)
(* (main.cpp:464-504).  The target of the resolve pass is the exception:   *)
(* the viewport is the window's, but the back buffer may have an older     *)
(* size, because ResizeBuffers fails while a view of it is bound and its   *)
(* result is ignored (renderer_d3d11.cpp:326).  Nothing else makes it      *)
(* differ, so it fits in the first frame and whenever the last resize      *)
(* found it unbound; and a window that shows never draws into a back       *)
(* buffer of size 0: one that was minimised with its window had no view    *)
(* that could be held.                                                     *)
TargetsFitWindow ==
    Recording =>
        /\ draw.cb.viewport = window
        /\ \A t \in WindowTargets : size[t] = window \/ (t = back_buffer /\ held)
        /\ ~Minimised => size[back_buffer] # 0

(* What is presented is the frame just recorded, with ImGui on top of it   *)
(* and not under it: its draw calls go to the back buffer after the        *)
(* command list has run (main.cpp:522-530).                                *)
PresentsFrame ==
    pc = "present" /\ ~Minimised =>
        /\ Drawn \in content[back_buffer]
        /\ imgui => draw.pass = "overlay" /\ back_buffer \in draw.cb.targets

(* When the targets are released for a resize the command buffer reads     *)
(* none of them any more, so that the old textures are really freed; only  *)
(* the back buffer is still bound, for output (main.cpp:352-360).          *)
ReleasedTargetsUnbound ==
    [][Resize /\ was_resized =>
          /\ \A s \in TextureSlots : cb'.srv[s] # Stale /\ immediate'.srv[s] # Stale
          /\ cb.targets \cap WindowTargets \subseteq {back_buffer}]_vars

=============================================================================
