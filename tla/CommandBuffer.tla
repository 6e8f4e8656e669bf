--------------------------- MODULE CommandBuffer ---------------------------
(***************************************************************************)
(* The binding state of a D3D11 device context and the calls of            *)
(* renderer_d3d11.cpp that change it.  A context is a record                *)
(*   srv      : the texture a pixel shader reads at each Texture_Type slot  *)
(*   targets  : the textures bound for output, colour and depth            *)
(*   viewport : the size drawing is scaled to                              *)
(*   pipeline : the Render_Pipeline_Type selected last                     *)
(* A texture is a pair <<name, index>>.  Sizes are one number here: width  *)
(* and height always change together.                                      *)
(***************************************************************************)
EXTENDS Integers

CONSTANTS NULL,      \* no view
          Cascades,  \* MAX_SHADOW_CASCADES: 4 in the code
          ShadowSize \* SHADOW_MAP_WIDTH: 4096 in the code

ASSUME CascadesAssumption == Cascades \in Nat \ {0}

(* Texture_Type: TEXTURE_SHADOW_MAP + i is the slot of cascade i. *)
TEXTURE_ALBEDO == 0
TEXTURE_NORMAL == 1
TEXTURE_METALLIC_ROUGHNESS == 2
TEXTURE_AO == 3
TEXTURE_EMISSIVE == 4
TEXTURE_ENVIRONMENT == 5
TEXTURE_SHADOW_MAP == 6

CascadeSet == 0..Cascades-1
TextureSlots == 0..TEXTURE_SHADOW_MAP + Cascades - 1
ShadowSlots == {TEXTURE_SHADOW_MAP + i : i \in CascadeSet}
MaterialSlots == TEXTURE_ALBEDO..TEXTURE_EMISSIVE

shadow_map_targets(i) == <<"shadow_map", i>>
ping_pong_render_targets(i) == <<"ping_pong", i>>
offscreen_render_target == <<"render_target", 0>>
offscreen_bloom_target == <<"bloom_target", 0>>
offscreen_depth_target == <<"depth_target", 0>>
back_buffer == <<"back_buffer", 0>>

(* Textures loaded from files, which are never drawn to. *)
material_texture == <<"material", 0>>
white_texture == <<"white", 0>>
environment_texture == <<"environment", 0>>

EmptyContext ==
    [srv |-> [s \in TextureSlots |-> NULL], targets |-> {},
     viewport |-> 0, pipeline |-> NULL]

(* OMSetRenderTargets.  The runtime does not let a texture be read and     *)
(* written at once: outputs win, and their shader slots become NULL.       *)
set_render_targets(c, ts) ==
    [c EXCEPT !.targets = ts,
              !.srv = [s \in TextureSlots |-> IF @[s] \in ts THEN NULL ELSE @[s]]]

(* PSSetShaderResources; a texture that is bound for output binds as NULL. *)
set_texture(c, slot, t) ==
    [c EXCEPT !.srv = [s \in TextureSlots |->
                         IF s # slot THEN @[s] ELSE IF t \in c.targets THEN NULL ELSE t]]

set_viewport(c, s) == [c EXCEPT !.viewport = s]

(* Selecting the mesh pipeline also binds the shadow maps for reading. *)
set_pipeline_type(c, type) ==
    [c EXCEPT !.pipeline = type,
              !.srv = [s \in TextureSlots |->
                         IF type = "mesh" /\ s \in ShadowSlots
                         THEN LET t == shadow_map_targets(s - TEXTURE_SHADOW_MAP)
                              IN  IF t \in c.targets THEN NULL ELSE t
                         ELSE @[s]]]

(* The texture bindings render_item makes for a mesh: every material slot. *)
bind_material(c) ==
    [c EXCEPT !.srv = [s \in TextureSlots |->
                         IF s \in MaterialSlots THEN material_texture ELSE @[s]]]

(* The texture bindings of render_fullscreen_quad(albedo, bloom, ...).     *)
bind_quad(c, albedo, bloom) ==
    LET c1 == set_texture(set_texture(c, TEXTURE_ALBEDO, albedo), TEXTURE_NORMAL, bloom)
    IN  [c1 EXCEPT !.srv = [s \in TextureSlots |->
                              IF s \in TEXTURE_METALLIC_ROUGHNESS..TEXTURE_EMISSIVE
                              THEN white_texture ELSE @[s]]]

(* set_texture(cb, slot, NULL) for every slot of S *)
unbind_textures(c, S) ==
    [c EXCEPT !.srv = [s \in TextureSlots |-> IF s \in S THEN NULL ELSE @[s]]]
=============================================================================
