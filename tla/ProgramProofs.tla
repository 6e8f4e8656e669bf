--------------------------- MODULE ProgramProofs ---------------------------
(***************************************************************************)
(* Proofs about Frame and about Program, which runs it: for any number of  *)
(* cascades, any even number of blur passes and any window sizes.          *)
(***************************************************************************)
EXTENDS Program, SequenceTheorems, TLAPS

(* The bindings of a context.                                              *)

(* The slots are those of a material, of the environment and of the        *)
(* shadow maps.                                                            *)
LEMMA Slots ==
    /\ Cascades \in Nat /\ Cascades > 0
    /\ \A s : s \in TextureSlots <=> s \in MaterialSlots \/ s = TEXTURE_ENVIRONMENT \/ s \in ShadowSlots
    /\ TEXTURE_ALBEDO \in MaterialSlots /\ TEXTURE_NORMAL \in MaterialSlots
    /\ TEXTURE_ENVIRONMENT \notin MaterialSlots /\ TEXTURE_ENVIRONMENT \notin ShadowSlots
    /\ \A c \in CascadeSet : TEXTURE_SHADOW_MAP + c \in ShadowSlots
    /\ \A s \in ShadowSlots : s - TEXTURE_SHADOW_MAP \in CascadeSet
    /\ MaterialSlots \cap ShadowSlots = {}
  <1> USE CascadesAssumption DEF TextureSlots, MaterialSlots, ShadowSlots, CascadeSet,
        TEXTURE_ALBEDO, TEXTURE_NORMAL, TEXTURE_EMISSIVE, TEXTURE_ENVIRONMENT, TEXTURE_SHADOW_MAP
  <1>1. ASSUME NEW s PROVE s \in ShadowSlots <=> s \in 6..6 + Cascades - 1
    <2>1. ASSUME s \in 6..6 + Cascades - 1 PROVE s \in ShadowSlots
      <3>1. s - 6 \in 0..Cascades - 1 /\ s = 6 + (s - 6)
        BY <2>1
      <3> QED BY <3>1
    <2> QED BY <2>1
  <1> QED BY <1>1

(* The targets are different textures, and none of them is loaded.         *)
LEMMA TargetsApart ==
    /\ \A c, d : shadow_map_targets(c) = shadow_map_targets(d) => c = d
    /\ ShadowMaps \cap WindowTargets = {}
    /\ offscreen_render_target \notin {offscreen_bloom_target, offscreen_depth_target, back_buffer}
    /\ offscreen_bloom_target \notin {offscreen_depth_target, back_buffer}
    /\ offscreen_depth_target # back_buffer
    /\ PingPongs \cap {offscreen_render_target, offscreen_bloom_target, offscreen_depth_target, back_buffer} = {}
    /\ ping_pong_render_targets(0) # ping_pong_render_targets(1)
    /\ {material_texture, white_texture, environment_texture, Stale} \cap Targets = {}
    /\ environment_texture # Stale
  BY DEF Targets, ShadowMaps, WindowTargets, PingPongs, shadow_map_targets, ping_pong_render_targets,
      offscreen_render_target, offscreen_bloom_target, offscreen_depth_target, back_buffer,
      material_texture, white_texture, environment_texture, Stale

LEMMA SetTargets ==
    ASSUME NEW c \in Contexts, NEW ts \in SUBSET Targets
    PROVE  LET d == set_render_targets(c, ts)
           IN  /\ d \in Contexts /\ d.targets = ts /\ d.viewport = c.viewport
               /\ \A s \in TextureSlots : d.srv[s] \in {c.srv[s], NULL}
  BY DEF set_render_targets, Contexts

LEMMA SetTexture ==
    ASSUME NEW c \in Contexts, NEW slot \in TextureSlots, NEW t \in Textures \cup {NULL}
    PROVE  LET d == set_texture(c, slot, t)
           IN  /\ d \in Contexts /\ d.targets = c.targets /\ d.viewport = c.viewport
               /\ d.srv[slot] = IF t \in c.targets THEN NULL ELSE t
               /\ \A s \in TextureSlots \ {slot} : d.srv[s] = c.srv[s]
  BY DEF set_texture, Contexts

LEMMA SetViewport ==
    ASSUME NEW c \in Contexts, NEW v \in Sizes \cup {ShadowSize}
    PROVE  LET d == set_viewport(c, v)
           IN  d \in Contexts /\ d.targets = c.targets /\ d.viewport = v /\ d.srv = c.srv
  BY DEF set_viewport, Contexts

LEMMA SetPipeline ==
    ASSUME NEW c \in Contexts, NEW type \in {"shadow", "mesh", "quad"}
    PROVE  LET d == set_pipeline_type(c, type)
           IN  /\ d \in Contexts /\ d.targets = c.targets /\ d.viewport = c.viewport
               /\ \A s \in TextureSlots \ ShadowSlots : d.srv[s] = c.srv[s]
               /\ type = "mesh" => \A n \in CascadeSet :
                     shadow_map_targets(n) \notin c.targets =>
                        d.srv[TEXTURE_SHADOW_MAP + n] = shadow_map_targets(n)
  <1> DEFINE srv == [s \in TextureSlots |->
                       IF type = "mesh" /\ s \in ShadowSlots
                       THEN IF shadow_map_targets(s - TEXTURE_SHADOW_MAP) \in c.targets THEN NULL
                            ELSE shadow_map_targets(s - TEXTURE_SHADOW_MAP)
                       ELSE c.srv[s]]
             d == set_pipeline_type(c, type)
  <1>1. d = [c EXCEPT !.pipeline = type, !.srv = srv]
    BY DEF set_pipeline_type
  <1>2. \A s \in ShadowSlots : shadow_map_targets(s - TEXTURE_SHADOW_MAP) \in Textures
    BY Slots DEF Textures, Targets, ShadowMaps
  <1>3. srv \in [TextureSlots -> Textures \cup {NULL}]
    BY <1>2 DEF Contexts
  <1> HIDE DEF d
  <1>4. d \in Contexts /\ d.targets = c.targets /\ d.viewport = c.viewport /\ d.srv = srv
    <2> HIDE DEF srv
    <2> QED BY <1>1, <1>3 DEF Contexts
  <1>5. \A s \in TextureSlots \ ShadowSlots : srv[s] = c.srv[s]
    OBVIOUS
  <1>6. ASSUME type = "mesh", NEW n \in CascadeSet, shadow_map_targets(n) \notin c.targets
        PROVE  srv[TEXTURE_SHADOW_MAP + n] = shadow_map_targets(n)
    <2>1. TEXTURE_SHADOW_MAP + n \in ShadowSlots /\ TEXTURE_SHADOW_MAP + n \in TextureSlots
      BY Slots
    <2>2. (TEXTURE_SHADOW_MAP + n) - TEXTURE_SHADOW_MAP = n
      BY DEF TEXTURE_SHADOW_MAP, CascadeSet
    <2>3. \A x \in ShadowSlots \cap TextureSlots :
             shadow_map_targets(x - TEXTURE_SHADOW_MAP) \notin c.targets =>
                srv[x] = shadow_map_targets(x - TEXTURE_SHADOW_MAP)
      BY <1>6
    <2> DEFINE x == TEXTURE_SHADOW_MAP + n
    <2>4. x \in ShadowSlots \cap TextureSlots /\ x - TEXTURE_SHADOW_MAP = n
      BY <2>1, <2>2
    <2> HIDE DEF srv, x
    <2>5. srv[x] = shadow_map_targets(n)
      BY <1>6, <2>3, <2>4, Zenon
    <2> QED BY <2>5 DEF x
  <1> HIDE DEF srv
  <1> QED BY <1>4, <1>5, <1>6 DEF d

LEMMA BindMaterial ==
    ASSUME NEW c \in Contexts
    PROVE  LET d == bind_material(c)
           IN  /\ d \in Contexts /\ d.targets = c.targets /\ d.viewport = c.viewport
               /\ \A s \in TextureSlots \ MaterialSlots : d.srv[s] = c.srv[s]
  BY DEF bind_material, Contexts, Textures

LEMMA UnbindTextures ==
    ASSUME NEW c \in Contexts, NEW S
    PROVE  LET d == unbind_textures(c, S)
           IN  /\ d \in Contexts /\ d.targets = c.targets /\ d.viewport = c.viewport
               /\ \A s \in TextureSlots : d.srv[s] = IF s \in S THEN NULL ELSE c.srv[s]
  BY DEF unbind_textures, Contexts

LEMMA BindQuad ==
    ASSUME NEW c \in Contexts, NEW albedo \in Textures \cup {NULL}, NEW bloom \in Textures \cup {NULL},
           albedo \notin c.targets, bloom \notin c.targets
    PROVE  LET d == bind_quad(c, albedo, bloom)
           IN  /\ d \in Contexts /\ d.targets = c.targets /\ d.viewport = c.viewport
               /\ d.srv[TEXTURE_ALBEDO] = albedo /\ d.srv[TEXTURE_NORMAL] = bloom
               /\ \A s \in TextureSlots \ MaterialSlots : d.srv[s] = c.srv[s]
  <1> DEFINE c1 == set_texture(c, TEXTURE_ALBEDO, albedo)
             c2 == set_texture(c1, TEXTURE_NORMAL, bloom)
             d == bind_quad(c, albedo, bloom)
  <1>1. TEXTURE_ALBEDO \in TextureSlots /\ TEXTURE_NORMAL \in TextureSlots
    BY Slots
  <1>2. c1 \in Contexts /\ c1.targets = c.targets /\ c1.viewport = c.viewport
        /\ c1.srv[TEXTURE_ALBEDO] = albedo
        /\ \A s \in TextureSlots \ {TEXTURE_ALBEDO} : c1.srv[s] = c.srv[s]
    BY <1>1, SetTexture
  <1>3. c2 \in Contexts /\ c2.targets = c1.targets /\ c2.viewport = c1.viewport
        /\ c2.srv[TEXTURE_NORMAL] = bloom
        /\ \A s \in TextureSlots \ {TEXTURE_NORMAL} : c2.srv[s] = c1.srv[s]
    <2> HIDE DEF c1
    <2>1. bloom \notin c1.targets /\ c1 \in Contexts
      BY <1>2
    <2> QED BY <1>1, <2>1, SetTexture
  <1>4. TEXTURE_ALBEDO # TEXTURE_NORMAL
    BY DEF TEXTURE_ALBEDO, TEXTURE_NORMAL
  <1>5. d = [c2 EXCEPT !.srv = [s \in TextureSlots |->
                              IF s \in TEXTURE_METALLIC_ROUGHNESS..TEXTURE_EMISSIVE
                              THEN white_texture ELSE c2.srv[s]]]
    BY DEF bind_quad
  <1> HIDE DEF c1, c2, d
  <1>6. d \in Contexts
    BY <1>3, <1>5 DEF Contexts, Textures
  <1>7. d.targets = c2.targets /\ d.viewport = c2.viewport
        /\ \A s \in TextureSlots : d.srv[s] = IF s \in TEXTURE_METALLIC_ROUGHNESS..TEXTURE_EMISSIVE
                              THEN white_texture ELSE c2.srv[s]
    BY <1>3, <1>5 DEF Contexts
  <1>8. TEXTURE_METALLIC_ROUGHNESS..TEXTURE_EMISSIVE \subseteq MaterialSlots \ {TEXTURE_ALBEDO, TEXTURE_NORMAL}
    BY DEF TEXTURE_METALLIC_ROUGHNESS, TEXTURE_EMISSIVE, MaterialSlots, TEXTURE_ALBEDO, TEXTURE_NORMAL
  <1>9. d.srv[TEXTURE_ALBEDO] = albedo /\ d.srv[TEXTURE_NORMAL] = bloom
    BY <1>1, <1>2, <1>3, <1>4, <1>7, <1>8
  <1>10. \A s \in TextureSlots \ MaterialSlots : d.srv[s] = c.srv[s]
    BY <1>2, <1>3, <1>7, <1>8, Slots
  <1>11. d.targets = c.targets /\ d.viewport = c.viewport
    BY <1>2, <1>3, <1>7
  <1> QED BY <1>6, <1>9, <1>10, <1>11 DEF d

-----------------------------------------------------------------------------
(* The bindings of each pass.                                              *)

LEMMA TargetNames ==
    /\ offscreen_render_target \in WindowTargets /\ offscreen_bloom_target \in WindowTargets
    /\ offscreen_depth_target \in WindowTargets /\ back_buffer \in WindowTargets
    /\ PingPongs \subseteq WindowTargets /\ MainTargets \subseteq WindowTargets
    /\ WindowTargets \subseteq Targets /\ ShadowMaps \subseteq Targets /\ Targets \subseteq Textures
    /\ \A c \in CascadeSet : shadow_map_targets(c) \in ShadowMaps
    /\ \A n \in Nat : BlurTarget(n) \in PingPongs /\ BlurSource(n) \in PingPongs \cup {offscreen_bloom_target}
    /\ material_texture \in Textures /\ white_texture \in Textures /\ environment_texture \in Textures
    /\ NULL \notin Textures
  BY NullAssumption DEF WindowTargets, PingPongs, MainTargets, Targets, ShadowMaps, Textures,
     BlurTarget, BlurSource

LEMMA ViewFacts ==
    ASSUME NEW t \in Textures
    PROVE  /\ View(t) \in {t, NULL}
           /\ View(t) = t <=> t \notin WindowTargets \/ size[t] # 0
  BY TargetNames DEF View

LEMMA ViewsFacts ==
    ASSUME NEW ts \in SUBSET Targets
    PROVE  /\ Views(ts) \in SUBSET Targets
           /\ \A t \in Textures : t \in Views(ts) <=> t \in ts /\ (t \notin WindowTargets \/ size[t] # 0)
           /\ NULL \notin Views(ts)
  <1>1. \A t \in Textures : View(t) \in {t, NULL} /\ t # NULL
                            /\ (View(t) = t <=> t \notin WindowTargets \/ size[t] # 0)
    BY ViewFacts, TargetNames
  <1>2. ts \subseteq Targets /\ Targets \subseteq Textures
    BY TargetNames
  <1>3. ASSUME NEW t \in Textures
        PROVE  t \in Views(ts) <=> t \in ts /\ (t \notin WindowTargets \/ size[t] # 0)
    <2>1. ASSUME t \in Views(ts) PROVE t \in ts /\ (t \notin WindowTargets \/ size[t] # 0)
      <3>1. PICK u \in ts : t = View(u)
        BY <2>1 DEF Views
      <3>2. u = t
        BY <1>1, <1>2, <3>1
      <3> QED BY <1>1, <3>1, <3>2
    <2>2. ASSUME t \in ts, t \notin WindowTargets \/ size[t] # 0 PROVE t \in Views(ts)
      <3>1. View(t) = t /\ t # NULL
        BY <1>1, <2>2
      <3> QED BY <2>2, <3>1 DEF Views
    <2> QED BY <2>1, <2>2
  <1>4. \A x \in Views(ts) : x \in ts
    BY <1>1, <1>2 DEF Views
  <1>5. NULL \notin Views(ts)
    BY DEF Views
  <1> QED BY <1>3, <1>4, <1>5

(* Beside the slots of a pass only the environment map is bound, which is  *)
(* no target.                                                              *)
EnvironmentApart(c) == c.srv[TEXTURE_ENVIRONMENT] \in {NULL, environment_texture}

LEMMA EnvironmentSlot ==
    TEXTURE_ENVIRONMENT \in TextureSlots /\ TEXTURE_ENVIRONMENT \in TextureSlots \ MaterialSlots
    /\ TEXTURE_ENVIRONMENT \in TextureSlots \ ShadowSlots
  BY Slots

LEMMA SceneFacts ==
    ASSUME NEW c \in Contexts
    PROVE  LET d == SceneBindings(c)
           IN  /\ d \in Contexts /\ d.targets = c.targets /\ d.viewport = c.viewport
               /\ \A s \in ShadowSlots : d.srv[s] = c.srv[s]
               /\ EnvironmentApart(d)
  <1> DEFINE c1 == set_texture(c, TEXTURE_ENVIRONMENT, environment_texture)
             d == bind_material(c1)
  <1>1. c1 \in Contexts /\ c1.targets = c.targets /\ c1.viewport = c.viewport
        /\ EnvironmentApart(c1)
        /\ \A s \in TextureSlots \ {TEXTURE_ENVIRONMENT} : c1.srv[s] = c.srv[s]
    <2>1. environment_texture \in Textures \cup {NULL}
      BY TargetNames
    <2>2. c1 \in Contexts /\ c1.targets = c.targets /\ c1.viewport = c.viewport
          /\ c1.srv[TEXTURE_ENVIRONMENT]
                = (IF environment_texture \in c.targets THEN NULL ELSE environment_texture)
          /\ \A s \in TextureSlots \ {TEXTURE_ENVIRONMENT} : c1.srv[s] = c.srv[s]
      BY <2>1, SetTexture, EnvironmentSlot
    <2> HIDE DEF c1
    <2> QED BY <2>2 DEF EnvironmentApart
  <1> HIDE DEF c1
  <1>2. d \in Contexts /\ d.targets = c1.targets /\ d.viewport = c1.viewport
        /\ \A s \in TextureSlots \ MaterialSlots : d.srv[s] = c1.srv[s]
    BY <1>1, BindMaterial
  <1> HIDE DEF d
  <1>3. EnvironmentApart(d)
    BY <1>1, <1>2, EnvironmentSlot DEF EnvironmentApart
  <1>4. \A s \in ShadowSlots : s \in TextureSlots \ MaterialSlots /\ s # TEXTURE_ENVIRONMENT
    BY Slots
  <1>5. \A s \in ShadowSlots : d.srv[s] = c.srv[s]
    BY <1>1, <1>2, <1>4
  <1>6. d \in Contexts /\ d.targets = c.targets /\ d.viewport = c.viewport
    BY <1>1, <1>2
  <1> QED BY <1>3, <1>5, <1>6 DEF d, c1, SceneBindings

LEMMA ShadowFacts ==
    ASSUME NEW c \in Contexts, NEW n \in CascadeSet
    PROVE  LET d == ShadowBindings(c, n)
           IN  /\ d \in Contexts /\ d.targets = {shadow_map_targets(n)}
               /\ EnvironmentApart(d)
  <1> DEFINE c1 == set_pipeline_type(c, "shadow")
             c2 == set_render_targets(c1, {shadow_map_targets(n)})
             c3 == set_viewport(c2, ShadowSize)
             c4 == set_pipeline_type(c3, "shadow")
             d == SceneBindings(c4)
  <1>1. c1 \in Contexts
    BY SetPipeline
  <1> HIDE DEF c1
  <1>2. c2 \in Contexts /\ c2.targets = {shadow_map_targets(n)}
    <2>1. {shadow_map_targets(n)} \in SUBSET Targets
      BY TargetNames
    <2> QED BY <1>1, <2>1, SetTargets
  <1> HIDE DEF c2
  <1>3. c3 \in Contexts /\ c3.targets = {shadow_map_targets(n)}
    BY <1>2, SetViewport
  <1> HIDE DEF c3
  <1>4. c4 \in Contexts /\ c4.targets = {shadow_map_targets(n)}
    BY <1>3, SetPipeline
  <1> HIDE DEF c4
  <1>5. d \in Contexts /\ d.targets = {shadow_map_targets(n)} /\ EnvironmentApart(d)
    BY <1>4, SceneFacts
  <1> QED BY <1>5 DEF d, c4, c3, c2, c1, ShadowBindings

LEMMA MainFacts ==
    ASSUME NEW c \in Contexts, window \in Sizes
    PROVE  LET d == MainBindings(c)
           IN  /\ d \in Contexts /\ d.targets = Views(MainTargets) /\ d.viewport = window
               /\ \A n \in CascadeSet : d.srv[TEXTURE_SHADOW_MAP + n] = shadow_map_targets(n)
               /\ EnvironmentApart(d)
  <1> DEFINE c1 == set_render_targets(c, Views(MainTargets))
             c2 == set_viewport(c1, window)
             c3 == set_pipeline_type(c2, "mesh")
             d == SceneBindings(c3)
  <1>1. Views(MainTargets) \in SUBSET Targets
        /\ \A n \in CascadeSet : shadow_map_targets(n) \notin Views(MainTargets)
    BY ViewsFacts, TargetNames, TargetsApart
  <1>2. c1 \in Contexts /\ c1.targets = Views(MainTargets)
    BY <1>1, SetTargets
  <1> HIDE DEF c1
  <1>3. c2 \in Contexts /\ c2.targets = Views(MainTargets) /\ c2.viewport = window
    BY <1>2, SetViewport
  <1> HIDE DEF c2
  <1>4. c3 \in Contexts /\ c3.targets = Views(MainTargets) /\ c3.viewport = window
        /\ \A n \in CascadeSet : c3.srv[TEXTURE_SHADOW_MAP + n] = shadow_map_targets(n)
    BY <1>1, <1>3, SetPipeline
  <1> HIDE DEF c3
  <1>5. d \in Contexts /\ d.targets = Views(MainTargets) /\ d.viewport = window
        /\ EnvironmentApart(d)
        /\ \A s \in ShadowSlots : d.srv[s] = c3.srv[s]
    BY <1>4, SceneFacts
  <1> HIDE DEF d
  <1>6. \A n \in CascadeSet : d.srv[TEXTURE_SHADOW_MAP + n] = shadow_map_targets(n)
    BY <1>4, <1>5, Slots
  <1> QED BY <1>5, <1>6 DEF d, c3, c2, c1, MainBindings

LEMMA BloomFacts ==
    ASSUME NEW c \in Contexts, NEW n \in Nat, window \in Sizes, EnvironmentApart(c)
    PROVE  LET d == BloomBindings(c, n)
           IN  /\ d \in Contexts /\ d.targets = Views({BlurTarget(n)}) /\ d.viewport = window
               /\ d.srv[TEXTURE_ALBEDO] = View(BlurSource(n))
               /\ EnvironmentApart(d)
  <1> DEFINE c1 == unbind_textures(c, {TEXTURE_ALBEDO})
             c2 == set_render_targets(c1, Views({BlurTarget(n)}))
             c3 == set_viewport(c2, window)
             c4 == set_pipeline_type(c3, "quad")
             d == bind_quad(c4, View(BlurSource(n)), white_texture)
  <1>1. Views({BlurTarget(n)}) \in SUBSET Targets
    BY ViewsFacts, TargetNames
  <1>2. View(BlurSource(n)) \in Textures \cup {NULL} /\ View(BlurSource(n)) \notin Views({BlurTarget(n)})
        /\ white_texture \notin Views({BlurTarget(n)})
    <2>1. BlurSource(n) # BlurTarget(n)
      BY TargetsApart DEF BlurSource, BlurTarget, Horizontal, PingPongs
    <2>2. BlurSource(n) \in Textures /\ {BlurTarget(n)} \in SUBSET Targets
      BY TargetNames
    <2> QED BY <2>1, <2>2, ViewFacts, ViewsFacts, TargetsApart, TargetNames
  <1>3. c1 \in Contexts /\ EnvironmentApart(c1)
    BY UnbindTextures, EnvironmentSlot DEF EnvironmentApart
  <1> HIDE DEF c1
  <1>4. c2 \in Contexts /\ c2.targets = Views({BlurTarget(n)}) /\ EnvironmentApart(c2)
    BY <1>1, <1>3, SetTargets, EnvironmentSlot DEF EnvironmentApart
  <1> HIDE DEF c2
  <1>5. c3 \in Contexts /\ c3.targets = Views({BlurTarget(n)}) /\ c3.viewport = window
        /\ EnvironmentApart(c3)
    BY <1>4, SetViewport DEF EnvironmentApart
  <1> HIDE DEF c3
  <1>6. c4 \in Contexts /\ c4.targets = Views({BlurTarget(n)}) /\ c4.viewport = window
        /\ EnvironmentApart(c4)
    BY <1>5, SetPipeline, EnvironmentSlot DEF EnvironmentApart
  <1> HIDE DEF c4
  <1>7. View(BlurSource(n)) \notin c4.targets /\ white_texture \notin c4.targets
        /\ white_texture \in Textures \cup {NULL}
    BY <1>2, <1>6, TargetNames
  <1>8. /\ d \in Contexts /\ d.targets = c4.targets /\ d.viewport = c4.viewport
        /\ d.srv[TEXTURE_ALBEDO] = View(BlurSource(n))
        /\ \A s \in TextureSlots \ MaterialSlots : d.srv[s] = c4.srv[s]
    BY <1>2, <1>6, <1>7, BindQuad
  <1> HIDE DEF d
  <1>9. d.targets = Views({BlurTarget(n)}) /\ d.viewport = window /\ EnvironmentApart(d)
    BY <1>6, <1>8, EnvironmentSlot DEF EnvironmentApart
  <1> QED BY <1>8, <1>9 DEF d, c4, c3, c2, c1, BloomBindings

LEMMA ResolveFacts ==
    ASSUME NEW c \in Contexts, NEW n \in Nat, window \in Sizes, EnvironmentApart(c)
    PROVE  LET d == ResolveBindings(c, n)
           IN  /\ d \in Contexts /\ d.targets = Views({back_buffer}) /\ d.viewport = window
               /\ d.srv[TEXTURE_ALBEDO] = View(offscreen_render_target)
               /\ d.srv[TEXTURE_NORMAL] = View(BlurSource(n))
               /\ EnvironmentApart(d)
  <1> DEFINE c1 == set_render_targets(c, Views({back_buffer}))
             c2 == set_viewport(c1, window)
             c3 == set_pipeline_type(c2, "quad")
             d == bind_quad(c3, View(offscreen_render_target), View(BlurSource(n)))
  <1>1. Views({back_buffer}) \in SUBSET Targets
    BY ViewsFacts, TargetNames
  <1>2. /\ View(BlurSource(n)) \in Textures \cup {NULL}
        /\ View(offscreen_render_target) \in Textures \cup {NULL}
        /\ View(BlurSource(n)) \notin Views({back_buffer})
        /\ View(offscreen_render_target) \notin Views({back_buffer})
    <2>1. BlurSource(n) # back_buffer /\ offscreen_render_target # back_buffer
      BY TargetsApart, TargetNames
    <2>2. BlurSource(n) \in Textures /\ {back_buffer} \in SUBSET Targets
          /\ offscreen_render_target \in Textures
      BY TargetNames
    <2> QED BY <2>1, <2>2, ViewFacts, ViewsFacts
  <1>4. c1 \in Contexts /\ c1.targets = Views({back_buffer}) /\ EnvironmentApart(c1)
    BY <1>1, SetTargets, EnvironmentSlot DEF EnvironmentApart
  <1> HIDE DEF c1
  <1>5. c2 \in Contexts /\ c2.targets = Views({back_buffer}) /\ c2.viewport = window
        /\ EnvironmentApart(c2)
    BY <1>4, SetViewport DEF EnvironmentApart
  <1> HIDE DEF c2
  <1>6. c3 \in Contexts /\ c3.targets = Views({back_buffer}) /\ c3.viewport = window
        /\ EnvironmentApart(c3)
    BY <1>5, SetPipeline, EnvironmentSlot DEF EnvironmentApart
  <1> HIDE DEF c3
  <1>7. View(BlurSource(n)) \notin c3.targets /\ View(offscreen_render_target) \notin c3.targets
    BY <1>2, <1>6
  <1>8. /\ d \in Contexts /\ d.targets = c3.targets /\ d.viewport = c3.viewport
        /\ d.srv[TEXTURE_ALBEDO] = View(offscreen_render_target)
        /\ d.srv[TEXTURE_NORMAL] = View(BlurSource(n))
        /\ \A s \in TextureSlots \ MaterialSlots : d.srv[s] = c3.srv[s]
    BY <1>2, <1>6, <1>7, BindQuad
  <1> HIDE DEF d
  <1>9. d.targets = Views({back_buffer}) /\ d.viewport = window /\ EnvironmentApart(d)
    BY <1>6, <1>8, EnvironmentSlot DEF EnvironmentApart
  <1> QED BY <1>8, <1>9 DEF d, c3, c2, c1, ResolveBindings

-----------------------------------------------------------------------------
(* The inductive invariant of the loop.                                    *)

(* The counter of the running loop.                                        *)
CounterInv ==
    /\ i \in Nat
    /\ pc = "shadow" => i \in CascadeSet
    /\ pc = "bloom" => i < BloomPasses
    /\ pc = "resolve" => i = BloomPasses

(* The targets have the window's size unless was_resized says otherwise;   *)
(* a back buffer that was held may keep an old one, but one it has a view  *)
(* with.                                                                   *)
SizeInv ==
    /\ ~was_resized =>
          /\ \A t \in WindowTargets : size[t] = window \/ (t = back_buffer /\ held)
          /\ window # 0 => size[back_buffer] # 0
    /\ pc \notin {"poll", "keys", "resize"} => ~was_resized
    /\ back_buffer \in cb.targets \cup immediate.targets => size[back_buffer] # 0

AtRest == pc \in {"execute", "overlay", "present", "poll", "keys", "resize"}

(* Between two recordings the command buffer reads nothing but the         *)
(* environment map; the immediate context never reads a target.            *)
RestInv ==
    /\ EnvironmentApart(cb)
    /\ \A s \in TextureSlots : immediate.srv[s] = NULL
    /\ AtRest => \A s \in TextureSlots \ {TEXTURE_ENVIRONMENT} : cb.srv[s] = NULL
    /\ AtRest \/ pc = "unbind" => cb.targets \cap WindowTargets \subseteq {back_buffer}

(* Texture t holds an image of this frame that n passes have blurred.      *)
BlurredAt(t, n) ==
    /\ \E l \in recorded[t] : l.age = "now"
    /\ \A l \in recorded[t] : l.h = (n + 1) \div 2 /\ l.v = n \div 2

ContentInv ==
    /\ \A l \in recorded[offscreen_bloom_target] \cup content[offscreen_bloom_target] :
          l.h = 0 /\ l.v = 0
    /\ \A c \in CascadeSet :
          pc = "main" \/ (pc = "shadow" /\ c < i) =>
             recorded[shadow_map_targets(c)] = {DrawnFor(c)}
    /\ pc \in {"bloom", "resolve"} /\ window # 0 =>
          /\ recorded[offscreen_render_target] = {Drawn}
          /\ recorded[offscreen_depth_target] = {Drawn}
          /\ \A n \in Nat : \A t \in WindowTargets :
                i = n /\ t = BlurSource(n) => BlurredAt(t, n)
    /\ pc \in {"unbind", "execute"} /\ window # 0 => Drawn \in recorded[back_buffer]
    /\ pc \in {"overlay", "present"} /\ window # 0 => Drawn \in content[back_buffer]

FrameInv ==
    /\ TypeOK /\ CounterInv /\ SizeInv /\ RestInv /\ ContentInv
    /\ PassesReadThisFrame /\ TargetsFitWindow /\ PresentsFrame

LEMMA DrawnIsLayer == \A c \in CascadeSet : DrawnFor(c) \in Layer
  BY DEF DrawnFor, Layer

LEMMA ZeroIsCascade == 0 \in CascadeSet /\ Drawn \in Layer /\ Drawn.h = 0 /\ Drawn.v = 0 /\ Drawn.age = "now"
  BY CascadesAssumption, DrawnIsLayer DEF CascadeSet, Drawn, DrawnFor

LEMMA FrameBegins == Init => FrameInv
  <1> SUFFICES ASSUME Init PROVE FrameInv
    OBVIOUS
  <1>1. EmptyContext \in Contexts /\ EmptyContext.targets = {}
        /\ \A s \in TextureSlots : EmptyContext.srv[s] = NULL
    BY SizesAssumption DEF EmptyContext, Contexts
  <1>2. content = [t \in Targets |-> {}] /\ recorded = content
    BY DEF Init
  <1>3. content \in [Targets -> SUBSET Layer] /\ content[offscreen_bloom_target] = {}
    BY <1>2, TargetNames
  <1>4. TypeOK
    BY <1>1, <1>2, <1>3, ZeroIsCascade, SizesAssumption, BloomAssumption DEF Init, TypeOK
  <1>5. CounterInv
    BY DEF Init, CounterInv
  <1>6. SizeInv
    BY <1>1 DEF Init, SizeInv
  <1>7. RestInv
    BY <1>1, EnvironmentSlot DEF Init, RestInv, EnvironmentApart
  <1>8. ContentInv
    BY <1>2, <1>3 DEF Init, ContentInv
  <1>9. PassesReadThisFrame /\ TargetsFitWindow /\ PresentsFrame
    BY DEF Init, NoDraw, PassesReadThisFrame, InputsIntact, ShadowsCurrent, DepthCurrent,
           ResolveCurrent, TargetsFitWindow, PresentsFrame, Recording
  <1> QED BY <1>4, <1>5, <1>6, <1>7, <1>8, <1>9 DEF FrameInv

-----------------------------------------------------------------------------
(* The steps.                                                              *)

(* What a step that draws nothing leaves of the properties of the last     *)
(* draw call: they are about passes that have been recorded.               *)
LEMMA NotRecording ==
    ASSUME FrameInv, draw' = draw,
           pc' \in {"poll", "keys", "resize", "shadow", "execute", "closed"}
    PROVE  PassesReadThisFrame' /\ TargetsFitWindow' /\ PresentsFrame'
  <1>1. ShadowsCurrent'
    BY DEF FrameInv, PassesReadThisFrame, ShadowsCurrent
  <1> QED BY <1>1 DEF PassesReadThisFrame, InputsIntact, DepthCurrent,
                      ResolveCurrent, TargetsFitWindow, PresentsFrame, Recording

LEMMA PollStep ==
    ASSUME FrameInv, Poll
    PROVE  FrameInv'
  <1>1. PassesReadThisFrame' /\ TargetsFitWindow' /\ PresentsFrame'
    BY NotRecording DEF Poll
  <1>2. TypeOK'
    BY DEF FrameInv, TypeOK, Poll, SizeMessage, SameSize
  <1>3. CounterInv'
    BY DEF FrameInv, CounterInv, Poll
  <1>4. SizeInv'
    BY DEF FrameInv, SizeInv, Poll, SizeMessage, SameSize
  <1>5. RestInv'
    BY DEF FrameInv, RestInv, AtRest, EnvironmentApart, Poll
  <1>6. ContentInv'
    BY DEF FrameInv, ContentInv, Poll
  <1> QED BY <1>1, <1>2, <1>3, <1>4, <1>5, <1>6 DEF FrameInv

LEMMA KeysStep ==
    ASSUME FrameInv, Keys
    PROVE  FrameInv'
  <1>1. PassesReadThisFrame' /\ TargetsFitWindow' /\ PresentsFrame'
    BY NotRecording DEF Keys
  <1>2. TypeOK'
    BY DEF FrameInv, TypeOK, Keys, ToggleFullscreen, SizeMessage, SameSize
  <1>3. CounterInv'
    BY DEF FrameInv, CounterInv, Keys
  <1>4. SizeInv'
    BY DEF FrameInv, SizeInv, Keys, ToggleFullscreen, SizeMessage, SameSize
  <1>5. RestInv'
    BY DEF FrameInv, RestInv, AtRest, EnvironmentApart, Keys
  <1>6. ContentInv'
    BY DEF FrameInv, ContentInv, Keys
  <1> QED BY <1>1, <1>2, <1>3, <1>4, <1>5, <1>6 DEF FrameInv

LEMMA ReleasedFacts ==
    ASSUME NEW c \in Contexts
    PROVE  LET d == Released(c, WindowTargets)
           IN  /\ d \in Contexts /\ d.targets \cap WindowTargets = {}
               /\ \A s \in TextureSlots : c.srv[s] \notin WindowTargets => d.srv[s] = c.srv[s]
  <1> DEFINE targets == {IF t \in WindowTargets THEN Stale ELSE t : t \in c.targets}
             srv == [s \in TextureSlots |-> IF c.srv[s] \in WindowTargets THEN Stale ELSE c.srv[s]]
             d == Released(c, WindowTargets)
  <1>1. d = [c EXCEPT !.targets = targets, !.srv = srv]
    BY DEF Released
  <1>2. targets \in SUBSET (Targets \cup {Stale}) /\ targets \cap WindowTargets = {}
    BY TargetsApart, TargetNames DEF Contexts
  <1>3. srv \in [TextureSlots -> Textures \cup {NULL}]
        /\ \A s \in TextureSlots : c.srv[s] \notin WindowTargets => srv[s] = c.srv[s]
    BY DEF Contexts, Textures
  <1> HIDE DEF targets, srv, d
  <1>4. d \in Contexts /\ d.targets = targets /\ d.srv = srv
    BY <1>1, <1>2, <1>3 DEF Contexts
  <1> QED BY <1>2, <1>3, <1>4 DEF d

LEMMA AgedFacts ==
    ASSUME NEW f \in [Targets -> SUBSET Layer]
    PROVE  /\ Aged(f) \in [Targets -> SUBSET Layer]
           /\ \A t \in Targets : (\A l \in f[t] : l.h = 0 /\ l.v = 0)
                                   => \A l \in Aged(f)[t] : l.h = 0 /\ l.v = 0
  <1>1. \A l \in Layer : LET o == [l EXCEPT !.age = "old"]
                         IN  o \in Layer /\ o.h = l.h /\ o.v = l.v
    BY DEF Layer
  <1>2. ASSUME NEW t \in Targets
        PROVE  /\ Aged(f)[t] \subseteq Layer
               /\ (\A l \in f[t] : l.h = 0 /\ l.v = 0)
                     => \A l \in Aged(f)[t] : l.h = 0 /\ l.v = 0
    <2>1. Aged(f)[t] = {[l EXCEPT !.age = "old"] : l \in f[t]} /\ f[t] \subseteq Layer
      BY DEF Aged
    <2> QED BY <1>1, <2>1
  <1>3. Aged(f) \in [Targets -> SUBSET Layer]
    BY <1>2 DEF Aged
  <1> QED BY <1>2, <1>3

(* A resize leaves no target of the old size to draw into, but perhaps the *)
(* back buffer if it was held.                                             *)
LEMMA ResizedStep ==
    ASSUME FrameInv, ResizeRenderer, pc = "resize"
    PROVE  /\ held' \in BOOLEAN /\ size' \in [WindowTargets -> Sizes] /\ cb' \in Contexts /\ immediate' \in Contexts
           /\ \A t \in WindowTargets : size'[t] = window \/ (t = back_buffer /\ held')
           /\ window # 0 => size'[back_buffer] # 0
           /\ back_buffer \notin cb'.targets \cup immediate'.targets
           /\ cb'.targets \cap WindowTargets = {}
           /\ EnvironmentApart(cb)' /\ \A s \in TextureSlots : immediate'.srv[s] = NULL
           /\ \A s \in TextureSlots \ {TEXTURE_ENVIRONMENT} : cb'.srv[s] = NULL
           /\ content' \in [Targets -> SUBSET Layer] /\ content'[offscreen_bloom_target] = {}
  <1>1. TypeOK /\ SizeInv /\ RestInv
    BY DEF FrameInv
  <1>2. PICK s \in BackBufferSizes :
           size' = [t \in WindowTargets |-> IF t = back_buffer THEN s ELSE window]
    BY DEF ResizeRenderer
  <1>3. s \in Sizes /\ (window # 0 => s # 0)
    BY <1>1, <1>2, TargetNames DEF BackBufferSizes, BackBufferHeld, TypeOK, SizeInv
  <1>4. held' \in BOOLEAN /\ (s # window => held')
    <2>1. s # window => BackBufferHeld
      BY <1>2 DEF BackBufferSizes
    <2>2. held' = BackBufferHeld
      BY DEF ResizeRenderer
    <2>3. held' \in BOOLEAN
      BY <2>2 DEF BackBufferHeld
    <2> QED BY <2>1, <2>2, <2>3, Zenon
  <1>5. /\ size' \in [WindowTargets -> Sizes]
        /\ \A t \in WindowTargets : size'[t] = window \/ (t = back_buffer /\ held')
        /\ window # 0 => size'[back_buffer] # 0
    BY <1>1, <1>2, <1>3, <1>4, TargetNames DEF TypeOK
  <1>6. cb \in Contexts /\ immediate \in Contexts
    BY <1>1 DEF TypeOK
  <1>7. cb' = Released(cb, WindowTargets) /\ immediate' = Released(immediate, WindowTargets)
    BY DEF ResizeRenderer
  <1>8. /\ cb' \in Contexts /\ cb'.targets \cap WindowTargets = {}
        /\ \A n \in TextureSlots : cb.srv[n] \notin WindowTargets => cb'.srv[n] = cb.srv[n]
    BY <1>6, <1>7, ReleasedFacts
  <1>9. /\ immediate' \in Contexts /\ immediate'.targets \cap WindowTargets = {}
        /\ \A n \in TextureSlots : immediate.srv[n] \notin WindowTargets
                                     => immediate'.srv[n] = immediate.srv[n]
    BY <1>6, <1>7, ReleasedFacts
  <1>10. back_buffer \notin cb'.targets \cup immediate'.targets
    BY <1>8, <1>9, TargetNames
  <1>11. NULL \notin WindowTargets /\ environment_texture \notin WindowTargets
    BY TargetNames, TargetsApart
  <1>12. EnvironmentApart(cb)'
    BY <1>1, <1>8, <1>11, EnvironmentSlot DEF RestInv, EnvironmentApart
  <1>13. \A n \in TextureSlots : immediate'.srv[n] = NULL
    BY <1>1, <1>9, <1>11 DEF RestInv
  <1>14. \A n \in TextureSlots \ {TEXTURE_ENVIRONMENT} : cb'.srv[n] = NULL
    BY <1>1, <1>8, <1>11 DEF RestInv, AtRest
  <1>15. content' \in [Targets -> SUBSET Layer] /\ content'[offscreen_bloom_target] = {}
    BY <1>1, TargetNames DEF ResizeRenderer, TypeOK
  <1> QED BY <1>5, <1>8, <1>9, <1>10, <1>12, <1>13, <1>14, <1>15, <1>4

LEMMA ResizeStep ==
    ASSUME FrameInv, Resize
    PROVE  FrameInv'
  <1>1. PassesReadThisFrame' /\ TargetsFitWindow' /\ PresentsFrame'
    BY NotRecording DEF Resize
  <1>2. pc = "resize" /\ pc' = "shadow" /\ i' = 0 /\ was_resized' = FALSE
        /\ recorded' = Aged(content')
        /\ UNCHANGED <<window, open, imgui, cascade, draw>>
    BY DEF Resize
  <1>3. TypeOK /\ CounterInv /\ SizeInv /\ RestInv /\ ContentInv
    BY DEF FrameInv
  <1>4. /\ held' \in BOOLEAN /\ size' \in [WindowTargets -> Sizes] /\ cb' \in Contexts /\ immediate' \in Contexts
        /\ \A t \in WindowTargets : size'[t] = window \/ (t = back_buffer /\ held')
        /\ window # 0 => size'[back_buffer] # 0
        /\ back_buffer \in cb'.targets \cup immediate'.targets => size'[back_buffer] # 0
        /\ cb'.targets \cap WindowTargets \subseteq {back_buffer}
        /\ EnvironmentApart(cb)' /\ \A s \in TextureSlots : immediate'.srv[s] = NULL
        /\ \A s \in TextureSlots \ {TEXTURE_ENVIRONMENT} : cb'.srv[s] = NULL
        /\ content' \in [Targets -> SUBSET Layer]
        /\ \A l \in content'[offscreen_bloom_target] : l.h = 0 /\ l.v = 0
    <2>1. CASE was_resized
      <3>1. ResizeRenderer
        BY <2>1 DEF Resize
      <3> QED BY <1>2, <3>1, ResizedStep
    <2>2. CASE ~was_resized
      <3>1. UNCHANGED <<size, held, cb, immediate, content>>
        BY <2>2 DEF Resize
      <3>2. EnvironmentApart(cb)'
        BY <1>3, <3>1 DEF RestInv, EnvironmentApart
      <3>3. held \in BOOLEAN /\ size \in [WindowTargets -> Sizes] /\ cb \in Contexts /\ immediate \in Contexts
            /\ content \in [Targets -> SUBSET Layer]
        BY <1>3 DEF TypeOK
      <3>4. /\ \A t \in WindowTargets : size[t] = window \/ (t = back_buffer /\ held)
            /\ window # 0 => size[back_buffer] # 0
            /\ back_buffer \in cb.targets \cup immediate.targets => size[back_buffer] # 0
        BY <1>3, <2>2 DEF SizeInv
      <3>5. /\ \A s \in TextureSlots : immediate.srv[s] = NULL
            /\ \A s \in TextureSlots \ {TEXTURE_ENVIRONMENT} : cb.srv[s] = NULL
            /\ cb.targets \cap WindowTargets \subseteq {back_buffer}
        BY <1>2, <1>3 DEF RestInv, AtRest
      <3>6. \A l \in content[offscreen_bloom_target] : l.h = 0 /\ l.v = 0
        BY <1>3 DEF ContentInv
      <3> QED BY <3>1, <3>2, <3>3, <3>4, <3>5, <3>6
    <2> QED BY <1>3, <2>1, <2>2 DEF TypeOK
  <1>5. /\ recorded' \in [Targets -> SUBSET Layer]
        /\ \A l \in recorded'[offscreen_bloom_target] : l.h = 0 /\ l.v = 0
    BY <1>2, <1>4, AgedFacts, TargetNames
  <1>6. TypeOK'
    <2>1. (window \in Sizes /\ was_resized \in BOOLEAN /\ open \in BOOLEAN /\ imgui \in BOOLEAN)'
      BY <1>2, <1>3 DEF TypeOK
    <2>2. (cascade \in CascadeSet)' /\ i' \in CascadeSet
      BY <1>2, <1>3, ZeroIsCascade DEF TypeOK
    <2> QED BY <1>2, <1>4, <1>5, <2>1, <2>2 DEF TypeOK
  <1>7. CounterInv'
    BY <1>2, ZeroIsCascade DEF CounterInv
  <1>8. SizeInv'
    BY <1>2, <1>4 DEF SizeInv
  <1>9. RestInv'
    BY <1>2, <1>4 DEF RestInv, AtRest
  <1>10. ContentInv'
    BY <1>2, <1>4, <1>5 DEF ContentInv, CascadeSet
  <1> QED BY <1>1, <1>6, <1>7, <1>8, <1>9, <1>10 DEF FrameInv

LEMMA ReadsFacts ==
    ASSUME TypeOK, NEW c \in Contexts, NEW s \in TextureSlots, c.srv[s] \in Targets
    PROVE  /\ \E r \in Reads(c) : r.slot = s /\ r.layers = recorded[c.srv[s]]
           /\ LayersAt(c, s) = recorded[c.srv[s]]
  <1> DEFINE r == [slot |-> s, layers |-> recorded[c.srv[s]]]
  <1>1. r \in Reads(c)
    BY DEF Reads
  <1>2. r.slot = s /\ r.layers = recorded[c.srv[s]]
    OBVIOUS
  <1> QED BY <1>1, <1>2 DEF LayersAt

LEMMA ShadowStep ==
    ASSUME FrameInv, ShadowPass
    PROVE  FrameInv'
  <1> DEFINE c == ShadowBindings(cb, i)
             rec == [t \in Targets |->
                        (IF t \in ClearedForShadow(i) THEN {} ELSE recorded[t])
                           \cup (IF t \in c.targets THEN {DrawnFor(i)} ELSE {})]
  <1>1. /\ pc = "shadow" /\ i < Cascades /\ cb' = c /\ draw' = DrawnWith("shadow", i, c)
        /\ cascade' = i /\ i' = i + 1 /\ recorded' = rec
        /\ pc' = IF i + 1 = Cascades THEN "main" ELSE "shadow"
        /\ UNCHANGED <<window, was_resized, open, imgui, size, held, immediate, content>>
    BY DEF ShadowPass, platform
  <1>2. TypeOK /\ CounterInv /\ SizeInv /\ RestInv /\ ContentInv
    BY DEF FrameInv
  <1>3. cb \in Contexts /\ i \in CascadeSet
    BY <1>1, <1>2 DEF TypeOK, CounterInv
  <1>4. c \in Contexts /\ c.targets = {shadow_map_targets(i)} /\ EnvironmentApart(c)
    BY <1>3, ShadowFacts
  <1>5. draw'.pass = "shadow"
    BY <1>1 DEF DrawnWith
  <1> HIDE DEF c
  <1>6. shadow_map_targets(i) \in Targets /\ shadow_map_targets(i) \notin WindowTargets
    BY <1>3, TargetNames, TargetsApart
  <1>7. /\ rec \in [Targets -> SUBSET Layer]
        /\ rec[shadow_map_targets(i)] = {DrawnFor(i)}
        /\ \A t \in Targets \ {shadow_map_targets(i)} : rec[t] = recorded[t]
    <2>1. recorded \in [Targets -> SUBSET Layer] /\ DrawnFor(i) \in Layer
      BY <1>2, <1>3, DrawnIsLayer DEF TypeOK
    <2> QED BY <1>4, <1>6, <2>1 DEF ClearedForShadow
  <1> HIDE DEF rec
  <1>8. i + 1 = Cascades \/ i + 1 \in CascadeSet
    BY <1>3, CascadesAssumption DEF CascadeSet
  <1>9. TypeOK'
    <2>1. (window \in Sizes /\ was_resized \in BOOLEAN /\ open \in BOOLEAN /\ imgui \in BOOLEAN)'
      BY <1>1, <1>2 DEF TypeOK
    <2>2. (cascade \in CascadeSet /\ cb \in Contexts)' /\ i' \in CascadeSet \cup {Cascades}
      BY <1>1, <1>3, <1>4, <1>8
    <2>3. (recorded \in [Targets -> SUBSET Layer])'
      BY <1>1, <1>7
    <2>4. (held \in BOOLEAN /\ size \in [WindowTargets -> Sizes] /\ immediate \in Contexts
           /\ content \in [Targets -> SUBSET Layer])'
      BY <1>1, <1>2 DEF TypeOK
    <2>5. pc' \in {"main", "shadow"}
      BY <1>1
    <2> QED BY <2>1, <2>2, <2>3, <2>4, <2>5 DEF TypeOK
  <1>10. CounterInv'
    BY <1>1, <1>3, <1>8 DEF CounterInv, CascadeSet
  <1>11. SizeInv'
    BY <1>1, <1>2, <1>4, <1>6, TargetNames DEF SizeInv
  <1>12. RestInv'
    BY <1>1, <1>2, <1>4 DEF RestInv, AtRest, EnvironmentApart
  <1>13. ContentInv'
    <2>1. \A l \in recorded'[offscreen_bloom_target] \cup content'[offscreen_bloom_target] :
             l.h = 0 /\ l.v = 0
      BY <1>1, <1>2, <1>6, <1>7, TargetNames DEF ContentInv
    <2>2. ASSUME NEW n \in CascadeSet, pc' = "main" \/ (pc' = "shadow" /\ n < i')
          PROVE  recorded'[shadow_map_targets(n)] = {DrawnFor(n)}
      <3>1. n = i \/ n < i
        BY <1>1, <1>3, <2>2, CascadesAssumption DEF CascadeSet
      <3>2. CASE n = i
        BY <1>1, <1>7, <3>2
      <3>3. CASE n < i
        <4>1. shadow_map_targets(n) \in Targets \ {shadow_map_targets(i)}
          BY <1>3, <3>3, TargetNames, TargetsApart DEF CascadeSet
        <4> QED BY <1>1, <1>2, <1>7, <3>3, <4>1 DEF ContentInv
      <3> QED BY <3>1, <3>2, <3>3
    <2>3. pc' \in {"main", "shadow"}
      BY <1>1
    <2> QED BY <2>1, <2>2, <2>3 DEF ContentInv
  <1>14. PassesReadThisFrame' /\ TargetsFitWindow' /\ PresentsFrame'
    <2>1. pc' \in {"main", "shadow"}
      BY <1>1
    <2> QED BY <1>5, <2>1 DEF PassesReadThisFrame, InputsIntact, ShadowsCurrent, DepthCurrent,
                ResolveCurrent, TargetsFitWindow, PresentsFrame, Recording
  <1> QED BY <1>9, <1>10, <1>11, <1>12, <1>13, <1>14 DEF FrameInv

(* A pass on targets ts leaves the environment and the back buffer apart:  *)
(* what SizeInv and RestInv say of the bindings it makes.                  *)
LEMMA PassBindings ==
    ASSUME FrameInv, NEW ts \in SUBSET Targets,
           pc \notin {"poll", "keys", "resize"}, pc' \notin {"poll", "keys", "resize"},
           cb'.targets = Views(ts), EnvironmentApart(cb)',
           ~AtRest', pc' = "unbind" => ts \subseteq {back_buffer},
           UNCHANGED <<window, was_resized, size, held, immediate>>
    PROVE  SizeInv' /\ RestInv'
  <1>1. SizeInv /\ RestInv
    BY DEF FrameInv
  <1>2. back_buffer \in cb'.targets => size[back_buffer] # 0
    BY ViewsFacts, TargetNames
  <1>3. SizeInv'
    BY <1>1, <1>2 DEF SizeInv
  <1>4. cb'.targets \subseteq ts
    BY ViewsFacts, TargetNames
  <1>5. RestInv'
    BY <1>1, <1>4 DEF RestInv
  <1> QED BY <1>3, <1>5

(* The targets of a window that is not minimised have views.               *)
LEMMA ViewsAreThere ==
    ASSUME FrameInv, pc \notin {"poll", "keys", "resize"}, window # 0
    PROVE  \A t \in WindowTargets : View(t) = t /\ t \in Targets
  <1>1. \A t \in WindowTargets : size[t] # 0
    BY DEF FrameInv, SizeInv
  <1> QED BY <1>1, ViewFacts, TargetNames

LEMMA MainStep ==
    ASSUME FrameInv, MainPass
    PROVE  FrameInv'
  <1> DEFINE c == MainBindings(cb)
             rec == [t \in Targets |->
                        (IF t \in MainCleared THEN {} ELSE recorded[t])
                           \cup (IF t \in c.targets THEN {Drawn} ELSE {})]
  <1>1. /\ pc = "main" /\ cb' = c /\ draw' = DrawnWith("main", 0, c)
        /\ i' = 0 /\ recorded' = rec /\ pc' = "bloom"
        /\ UNCHANGED <<window, was_resized, open, imgui, size, held, immediate, cascade, content>>
    BY DEF MainPass, platform
  <1>2. TypeOK /\ CounterInv /\ SizeInv /\ RestInv /\ ContentInv
    BY DEF FrameInv
  <1>3. /\ c \in Contexts /\ c.targets = Views(MainTargets) /\ c.viewport = window
        /\ \A n \in CascadeSet : c.srv[TEXTURE_SHADOW_MAP + n] = shadow_map_targets(n)
        /\ EnvironmentApart(c)
    BY <1>2, MainFacts DEF TypeOK
  <1>4. draw'.pass = "main" /\ draw'.cb = c /\ draw'.reads = Reads(c)
    BY <1>1 DEF DrawnWith
  <1> HIDE DEF c
  <1>5. MainTargets \in SUBSET Targets
    BY TargetNames
  <1>6. \A t \in Targets : t \in c.targets <=> t \in MainTargets /\ size[t] # 0
    BY <1>3, <1>5, ViewsFacts, TargetNames
  <1>7. rec \in [Targets -> SUBSET Layer]
    BY <1>2, ZeroIsCascade DEF TypeOK
  <1>8. /\ \A t \in MainCleared : rec[t] = IF t \in c.targets THEN {Drawn} ELSE {}
        /\ \A t \in Targets \ MainCleared :
              rec[t] = recorded[t] \cup (IF t \in c.targets THEN {Drawn} ELSE {})
    BY TargetNames DEF MainCleared
  <1> HIDE DEF rec
  <1>9. TypeOK'
    <2>1. (window \in Sizes /\ was_resized \in BOOLEAN /\ open \in BOOLEAN /\ imgui \in BOOLEAN)'
      BY <1>1, <1>2 DEF TypeOK
    <2>2. (cascade \in CascadeSet /\ cb \in Contexts)' /\ i' \in CascadeSet
      BY <1>1, <1>2, <1>3, ZeroIsCascade DEF TypeOK
    <2>3. (recorded \in [Targets -> SUBSET Layer])'
      BY <1>1, <1>7
    <2>4. (held \in BOOLEAN /\ size \in [WindowTargets -> Sizes] /\ immediate \in Contexts
           /\ content \in [Targets -> SUBSET Layer])'
      BY <1>1, <1>2 DEF TypeOK
    <2> QED BY <1>1, <2>1, <2>2, <2>3, <2>4 DEF TypeOK
  <1>10. CounterInv'
    BY <1>1, BloomAssumption DEF CounterInv
  <1>11. EnvironmentApart(cb)'
    BY <1>1, <1>3 DEF EnvironmentApart
  <1>12. SizeInv' /\ RestInv'
    <2>1. ~AtRest'
      BY <1>1 DEF AtRest
    <2> QED BY <1>1, <1>3, <1>5, <1>11, <2>1, PassBindings
  <1>13. offscreen_bloom_target \in Targets \ MainCleared
    BY TargetNames, TargetsApart DEF MainCleared
  <1>14. ASSUME window # 0
         PROVE  /\ recorded'[offscreen_render_target] = {Drawn}
                /\ recorded'[offscreen_depth_target] = {Drawn}
                /\ Drawn \in recorded'[offscreen_bloom_target]
    <2>1. MainTargets \subseteq c.targets
      BY <1>1, <1>3, <1>14, <1>6, ViewsAreThere, ViewFacts, TargetNames DEF SizeInv
    <2>2. offscreen_render_target \in MainTargets /\ offscreen_depth_target \in MainTargets
          /\ offscreen_bloom_target \in MainTargets
          /\ offscreen_render_target \in MainCleared /\ offscreen_depth_target \in MainCleared
      BY DEF MainTargets, MainCleared
    <2> QED BY <1>1, <1>8, <1>13, <2>1, <2>2
  <1>15. \A l \in recorded'[offscreen_bloom_target] \cup content'[offscreen_bloom_target] :
            l.h = 0 /\ l.v = 0
    BY <1>1, <1>2, <1>8, <1>13, ZeroIsCascade DEF ContentInv
  <1>16. ContentInv'
    <2>1. ASSUME window # 0, NEW n \in Nat, NEW t \in WindowTargets, i' = n, t = BlurSource(n)
          PROVE  BlurredAt(t, n)'
      <3>1. n = 0 /\ t = offscreen_bloom_target
        BY <1>1, <2>1 DEF BlurSource
      <3>2. (0 + 1) \div 2 = 0 /\ 0 \div 2 = 0
        OBVIOUS
      <3>3. \E l \in recorded'[t] : l.age = "now"
        BY <1>14, <2>1, <3>1, ZeroIsCascade
      <3> QED BY <1>15, <3>1, <3>2, <3>3 DEF BlurredAt
    <2> QED BY <1>1, <1>14, <1>15, <2>1 DEF ContentInv
  <1>17. InputsIntact'
    BY <1>3, <1>4 DEF InputsIntact
  <1>18. ShadowsCurrent'
    <2>1. ASSUME NEW n \in CascadeSet
          PROVE  \E r \in draw'.reads :
                    r.slot = TEXTURE_SHADOW_MAP + n /\ r.layers = {DrawnFor(n)}
      <3>1. TEXTURE_SHADOW_MAP + n \in TextureSlots
        BY Slots
      <3>2. c.srv[TEXTURE_SHADOW_MAP + n] = shadow_map_targets(n)
            /\ shadow_map_targets(n) \in Targets
            /\ recorded[shadow_map_targets(n)] = {DrawnFor(n)}
        BY <1>1, <1>2, <1>3, TargetNames DEF ContentInv
      <3> QED BY <1>2, <1>3, <1>4, <3>1, <3>2, ReadsFacts
    <2> QED BY <2>1 DEF ShadowsCurrent
  <1>19. DepthCurrent' /\ ResolveCurrent' /\ PresentsFrame'
    BY <1>1, <1>14 DEF DepthCurrent, ResolveCurrent, PresentsFrame, Minimised
  <1>20. TargetsFitWindow'
    BY <1>1, <1>2, <1>3, <1>4 DEF TargetsFitWindow, SizeInv, Minimised
  <1> QED BY <1>9, <1>10, <1>12, <1>16, <1>17, <1>18, <1>19, <1>20 DEF FrameInv, PassesReadThisFrame

(* One more blur, in the direction whose turn it is.                       *)
LEMMA BlurFacts ==
    ASSUME NEW n \in Nat, NEW L \in SUBSET Layer,
           \E l \in L : l.age = "now",
           \A l \in L : l.h = (n + 1) \div 2 /\ l.v = n \div 2
    PROVE  /\ Blur(L, n) \subseteq Layer
           /\ \E l \in Blur(L, n) : l.age = "now"
           /\ \A l \in Blur(L, n) : l.h = (n + 2) \div 2 /\ l.v = (n + 1) \div 2
  <1>1. CASE n % 2 = 0
    <2>1. (n + 2) \div 2 = (n + 1) \div 2 + 1 /\ (n + 1) \div 2 = n \div 2
      BY <1>1
    <2>2. Blur(L, n) = {[l EXCEPT !.h = @ + 1] : l \in L}
      BY <1>1 DEF Blur, Horizontal
    <2>3. \A l \in L : LET b == [l EXCEPT !.h = @ + 1]
                       IN  b \in Layer /\ b.age = l.age /\ b.h = l.h + 1 /\ b.v = l.v
      BY DEF Layer
    <2> QED BY <2>1, <2>2, <2>3
  <1>2. CASE n % 2 # 0
    <2>1. (n + 2) \div 2 = (n + 1) \div 2 /\ (n + 1) \div 2 = n \div 2 + 1
      BY <1>2
    <2>2. Blur(L, n) = {[l EXCEPT !.v = @ + 1] : l \in L}
      BY <1>2 DEF Blur, Horizontal
    <2>3. \A l \in L : LET b == [l EXCEPT !.v = @ + 1]
                       IN  b \in Layer /\ b.age = l.age /\ b.h = l.h /\ b.v = l.v + 1
      BY DEF Layer
    <2> QED BY <2>1, <2>2, <2>3
  <1> QED BY <1>1, <1>2

LEMMA BlurOrder ==
    ASSUME NEW n \in Nat
    PROVE  /\ BlurSource(n + 1) = BlurTarget(n)
           /\ BlurTarget(n) \in PingPongs /\ BlurTarget(n) # BlurSource(n)
           /\ n # 0 => BlurSource(n) \in PingPongs
           /\ BlurSource(n) \in WindowTargets
  <1>1. n % 2 = 0 <=> (n + 1) % 2 # 0
    OBVIOUS
  <1>2. n + 1 # 0
    OBVIOUS
  <1>3. BlurSource(n + 1) = BlurTarget(n)
    BY <1>1, <1>2 DEF BlurSource, BlurTarget, Horizontal
  <1>4. BlurTarget(n) # BlurSource(n)
    BY TargetsApart DEF BlurSource, BlurTarget, Horizontal, PingPongs
  <1>5. BlurTarget(n) \in PingPongs /\ (n # 0 => BlurSource(n) \in PingPongs)
    BY DEF BlurSource, BlurTarget, PingPongs
  <1>6. BlurSource(n) \in WindowTargets
    BY TargetNames
  <1> QED BY <1>3, <1>4, <1>5, <1>6

LEMMA BloomStep ==
    ASSUME FrameInv, BloomPass
    PROVE  FrameInv'
  <1> DEFINE c == BloomBindings(cb, i)
             into == BlurTarget(i)
             from == BlurSource(i)
             rec == [t \in Targets |->
                        IF t \in c.targets THEN Blur(LayersAt(c, TEXTURE_ALBEDO), i) ELSE recorded[t]]
  <1>1. /\ pc = "bloom" /\ cb' = c /\ draw' = DrawnWith("bloom", i, c)
        /\ i' = i + 1 /\ recorded' = rec /\ pc' = IF LastBlur(i) THEN "resolve" ELSE "bloom"
        /\ UNCHANGED <<window, was_resized, open, imgui, size, held, immediate, cascade, content>>
    BY DEF BloomPass, platform
  <1>2. TypeOK /\ CounterInv /\ SizeInv /\ RestInv /\ ContentInv
    BY DEF FrameInv
  <1>3. i \in Nat /\ i < BloomPasses
    BY <1>1, <1>2 DEF CounterInv
  <1>4. /\ c \in Contexts /\ c.targets = Views({into}) /\ c.viewport = window
        /\ c.srv[TEXTURE_ALBEDO] = View(from)
        /\ EnvironmentApart(c)
    BY <1>2, <1>3, BloomFacts DEF TypeOK, RestInv
  <1>5. draw'.pass = "bloom" /\ draw'.cb = c /\ draw'.reads = Reads(c) /\ draw'.index = i
    BY <1>1 DEF DrawnWith
  <1>6. /\ BlurSource(i + 1) = into /\ into \in PingPongs /\ into # from /\ from \in WindowTargets
        /\ from \in Targets /\ into \in WindowTargets /\ into \in Targets /\ {into} \in SUBSET Targets
    BY <1>3, BlurOrder, TargetNames
  <1> HIDE DEF c, into, from
  <1>7. \A t \in Targets : t \in c.targets <=> t = into /\ size[t] # 0
    BY <1>4, <1>6, ViewsFacts, TargetNames
  <1>8. into \in c.targets => window # 0
    BY <1>1, <1>2, <1>6, <1>7, TargetsApart DEF SizeInv
  <1>9. ASSUME window # 0
        PROVE  /\ into \in c.targets /\ c.srv[TEXTURE_ALBEDO] = from
               /\ LayersAt(c, TEXTURE_ALBEDO) = recorded[from]
               /\ BlurredAt(from, i)
    <2>1. into \in c.targets /\ c.srv[TEXTURE_ALBEDO] = from
      <3>1. size[into] # 0
        BY <1>1, <1>2, <1>6, <1>9, TargetsApart DEF SizeInv
      <3>2. View(from) = from
        BY <1>1, <1>6, <1>9, ViewsAreThere
      <3> QED BY <1>4, <1>6, <1>7, <3>1, <3>2
    <2>2. TEXTURE_ALBEDO \in TextureSlots
      BY Slots
    <2>3. LayersAt(c, TEXTURE_ALBEDO) = recorded[from]
      BY <1>2, <1>4, <1>6, <2>1, <2>2, ReadsFacts
    <2>4. BlurredAt(from, i)
      BY <1>1, <1>2, <1>3, <1>6, <1>9 DEF ContentInv, from
    <2> QED BY <2>1, <2>3, <2>4
  <1>10. ASSUME window # 0
         PROVE  /\ rec[into] \in SUBSET Layer
                /\ \E l \in rec[into] : l.age = "now"
                /\ \A l \in rec[into] : l.h = (i + 2) \div 2 /\ l.v = (i + 1) \div 2
    <2>1. rec[into] = Blur(recorded[from], i) /\ recorded[from] \in SUBSET Layer
      BY <1>2, <1>6, <1>9, <1>10 DEF TypeOK
    <2>2. /\ \E l \in recorded[from] : l.age = "now"
          /\ \A l \in recorded[from] : l.h = (i + 1) \div 2 /\ l.v = i \div 2
      BY <1>9, <1>10 DEF BlurredAt
    <2> QED BY <1>3, <2>1, <2>2, BlurFacts
  <1>11. \A t \in Targets : t # into \/ window = 0 => rec[t] = recorded[t]
    BY <1>7, <1>8
  <1>12. rec \in [Targets -> SUBSET Layer]
    <2>1. \A t \in Targets : rec[t] \in SUBSET Layer
      BY <1>2, <1>10, <1>11 DEF TypeOK
    <2> QED BY <2>1
  <1> HIDE DEF rec
  <1>13. pc' \in {"bloom", "resolve"}
    BY <1>1
  <1>14. TypeOK'
    <2>1. (window \in Sizes /\ was_resized \in BOOLEAN /\ open \in BOOLEAN /\ imgui \in BOOLEAN)'
      BY <1>1, <1>2 DEF TypeOK
    <2>2. (cascade \in CascadeSet /\ cb \in Contexts)' /\ i' \in 0..BloomPasses
      BY <1>1, <1>2, <1>3, <1>4, BloomAssumption DEF TypeOK
    <2>3. (recorded \in [Targets -> SUBSET Layer])'
      BY <1>1, <1>12
    <2>4. (held \in BOOLEAN /\ size \in [WindowTargets -> Sizes] /\ immediate \in Contexts
           /\ content \in [Targets -> SUBSET Layer])'
      BY <1>1, <1>2 DEF TypeOK
    <2> QED BY <1>13, <2>1, <2>2, <2>3, <2>4 DEF TypeOK
  <1>15. CounterInv'
    BY <1>1, <1>3, BloomAssumption DEF CounterInv, LastBlur
  <1>16. SizeInv' /\ RestInv'
    <2>1. ~AtRest' /\ pc' # "unbind"
      BY <1>13 DEF AtRest
    <2>2. EnvironmentApart(cb)'
      BY <1>1, <1>4 DEF EnvironmentApart
    <2> QED BY <1>1, <1>4, <1>6, <1>13, <2>1, <2>2, PassBindings
  <1>17. /\ offscreen_bloom_target # into /\ offscreen_bloom_target \in Targets
         /\ offscreen_render_target # into /\ offscreen_render_target \in Targets
         /\ offscreen_depth_target # into /\ offscreen_depth_target \in Targets
    BY <1>6, TargetsApart, TargetNames
  <1>18. ContentInv'
    <2>1. \A l \in recorded'[offscreen_bloom_target] \cup content'[offscreen_bloom_target] :
             l.h = 0 /\ l.v = 0
      BY <1>1, <1>2, <1>11, <1>17 DEF ContentInv
    <2>2. ASSUME window # 0
          PROVE  recorded'[offscreen_render_target] = {Drawn}
                 /\ recorded'[offscreen_depth_target] = {Drawn}
      BY <1>1, <1>2, <1>11, <1>17, <2>2 DEF ContentInv
    <2>3. ASSUME window # 0, NEW n \in Nat, NEW t \in WindowTargets, i' = n, t = BlurSource(n)
          PROVE  BlurredAt(t, n)'
      <3>1. n = i + 1 /\ t = into
        BY <1>1, <1>6, <2>3
      <3>2. n + 1 = i + 2
        BY <1>3, <3>1
      <3> QED BY <1>1, <1>10, <2>3, <3>1, <3>2 DEF BlurredAt
    <2> QED BY <1>1, <1>13, <2>1, <2>2, <2>3 DEF ContentInv
  <1>19. InputsIntact'
    <2>1. window # 0 => draw'.cb.srv[TEXTURE_ALBEDO] = BlurSource(draw'.index)
      BY <1>5, <1>9 DEF from
    <2> QED BY <1>1, <1>5, <2>1 DEF InputsIntact, Minimised
  <1>20. ShadowsCurrent' /\ ResolveCurrent' /\ PresentsFrame'
    BY <1>5, <1>13 DEF ShadowsCurrent, ResolveCurrent, PresentsFrame
  <1>21. DepthCurrent'
    BY <1>1, <1>2, <1>11, <1>17 DEF DepthCurrent, Minimised, ContentInv
  <1>22. TargetsFitWindow'
    BY <1>1, <1>2, <1>4, <1>5 DEF TargetsFitWindow, SizeInv, Minimised
  <1> QED BY <1>14, <1>15, <1>16, <1>18, <1>19, <1>20, <1>21, <1>22 DEF FrameInv, PassesReadThisFrame

LEMMA ResolveStep ==
    ASSUME FrameInv, ResolvePass
    PROVE  FrameInv'
  <1> DEFINE c == ResolveBindings(cb, i)
             from == BlurSource(i)
             rec == [t \in Targets |->
                        IF t \in c.targets
                        THEN LayersAt(c, TEXTURE_ALBEDO) \cup LayersAt(c, TEXTURE_NORMAL)
                        ELSE recorded[t]]
  <1>1. /\ pc = "resolve" /\ cb' = c /\ draw' = DrawnWith("resolve", 0, c)
        /\ recorded' = rec /\ pc' = "unbind"
        /\ UNCHANGED <<window, was_resized, open, imgui, size, held, immediate, cascade, content, i>>
    BY DEF ResolvePass, platform
  <1>2. TypeOK /\ CounterInv /\ SizeInv /\ RestInv /\ ContentInv
    BY DEF FrameInv
  <1>3. i \in Nat /\ i = BloomPasses /\ i # 0
    BY <1>1, <1>2, BloomAssumption DEF CounterInv
  <1>4. /\ c \in Contexts /\ c.targets = Views({back_buffer}) /\ c.viewport = window
        /\ c.srv[TEXTURE_ALBEDO] = View(offscreen_render_target)
        /\ c.srv[TEXTURE_NORMAL] = View(from)
        /\ EnvironmentApart(c)
    BY <1>2, <1>3, ResolveFacts DEF TypeOK, RestInv
  <1>5. draw'.pass = "resolve" /\ draw'.cb = c /\ draw'.reads = Reads(c)
    BY <1>1 DEF DrawnWith
  <1>6. from \in PingPongs /\ from \in WindowTargets /\ from \in Targets
        /\ {back_buffer} \in SUBSET Targets
    BY <1>3, BlurOrder, TargetNames
  <1> HIDE DEF c, from
  <1>7. TEXTURE_ALBEDO \in TextureSlots /\ TEXTURE_NORMAL \in TextureSlots
    BY Slots
  <1>8. \A s \in {TEXTURE_ALBEDO, TEXTURE_NORMAL} : LayersAt(c, s) \subseteq Layer
    BY <1>2 DEF LayersAt, TypeOK
  <1>9. ASSUME window # 0
        PROVE  /\ back_buffer \in c.targets
               /\ c.srv[TEXTURE_ALBEDO] = offscreen_render_target
               /\ c.srv[TEXTURE_NORMAL] = from
               /\ LayersAt(c, TEXTURE_ALBEDO) = {Drawn}
               /\ \E r \in Reads(c) : r.slot = TEXTURE_ALBEDO /\ r.layers = {Drawn}
               /\ \E r \in Reads(c) : r.slot = TEXTURE_NORMAL /\ r.layers = recorded[from]
               /\ BlurredAt(from, i)
    <2>1. View(from) = from /\ View(offscreen_render_target) = offscreen_render_target
          /\ View(back_buffer) = back_buffer /\ offscreen_render_target \in Targets
      BY <1>1, <1>6, <1>9, ViewsAreThere, TargetNames
    <2>2. back_buffer \in c.targets
      BY <1>4, <1>6, <2>1, ViewsFacts, ViewFacts, TargetNames
    <2>3. recorded[offscreen_render_target] = {Drawn} /\ BlurredAt(from, i)
      BY <1>1, <1>2, <1>3, <1>6, <1>9 DEF ContentInv, from
    <2>4. c.srv[TEXTURE_ALBEDO] = offscreen_render_target /\ c.srv[TEXTURE_NORMAL] = from
      BY <1>4, <2>1
    <2>5. LayersAt(c, TEXTURE_ALBEDO) = {Drawn}
          /\ \E r \in Reads(c) : r.slot = TEXTURE_ALBEDO /\ r.layers = {Drawn}
      BY <1>2, <1>4, <1>7, <2>1, <2>3, <2>4, ReadsFacts
    <2>6. \E r \in Reads(c) : r.slot = TEXTURE_NORMAL /\ r.layers = recorded[from]
      BY <1>2, <1>4, <1>6, <1>7, <2>4, ReadsFacts
    <2> QED BY <2>2, <2>3, <2>4, <2>5, <2>6
  <1>10. /\ rec \in [Targets -> SUBSET Layer]
         /\ \A t \in Targets : t \notin c.targets => rec[t] = recorded[t]
         /\ \A t \in Targets : t \in c.targets => LayersAt(c, TEXTURE_ALBEDO) \subseteq rec[t]
    BY <1>2, <1>8 DEF TypeOK
  <1>11. \A t \in Targets : t \in c.targets => t = back_buffer
    BY <1>4, <1>6, ViewsFacts, TargetNames
  <1> HIDE DEF rec
  <1>12. TypeOK'
    <2>1. (window \in Sizes /\ was_resized \in BOOLEAN /\ open \in BOOLEAN /\ imgui \in BOOLEAN)'
      BY <1>1, <1>2 DEF TypeOK
    <2>2. (cascade \in CascadeSet /\ cb \in Contexts)'
          /\ i' \in 0..BloomPasses \cup CascadeSet \cup {Cascades}
      BY <1>1, <1>2, <1>4 DEF TypeOK
    <2>3. (recorded \in [Targets -> SUBSET Layer])'
      BY <1>1, <1>10
    <2>4. (held \in BOOLEAN /\ size \in [WindowTargets -> Sizes] /\ immediate \in Contexts
           /\ content \in [Targets -> SUBSET Layer])'
      BY <1>1, <1>2 DEF TypeOK
    <2> QED BY <1>1, <2>1, <2>2, <2>3, <2>4 DEF TypeOK
  <1>13. CounterInv'
    BY <1>1, <1>2 DEF CounterInv
  <1>14. SizeInv' /\ RestInv'
    <2>1. ~AtRest' /\ EnvironmentApart(cb)'
      BY <1>1, <1>4 DEF AtRest, EnvironmentApart
    <2> QED BY <1>1, <1>4, <1>6, <2>1, PassBindings
  <1>15. ContentInv'
    <2>1. offscreen_bloom_target \in Targets /\ offscreen_bloom_target # back_buffer
      BY TargetNames, TargetsApart
    <2>2. rec[offscreen_bloom_target] = recorded[offscreen_bloom_target]
      BY <1>10, <1>11, <2>1
    <2>3. \A l \in recorded'[offscreen_bloom_target] \cup content'[offscreen_bloom_target] :
             l.h = 0 /\ l.v = 0
      BY <1>1, <1>2, <2>2 DEF ContentInv
    <2>4. window # 0 => Drawn \in recorded'[back_buffer]
      BY <1>1, <1>9, <1>10, TargetNames
    <2> QED BY <1>1, <2>3, <2>4 DEF ContentInv
  <1>16. InputsIntact'
    BY <1>1, <1>5, <1>6, <1>9 DEF InputsIntact, Minimised
  <1>17. ResolveCurrent'
    <2>1. (BloomPasses + 1) \div 2 = BloomPasses \div 2
      BY BloomAssumption
    <2>2. ASSUME window # 0
          PROVE  \E scene \in draw'.reads, bloom \in draw'.reads :
                    /\ scene.slot = TEXTURE_ALBEDO /\ scene.layers = {Drawn}
                    /\ bloom.slot = TEXTURE_NORMAL
                    /\ \E l \in bloom.layers : l.age = "now"
                    /\ \A l \in bloom.layers : l.h = BloomPasses \div 2 /\ l.v = BloomPasses \div 2
      <3>1. PICK scene \in Reads(c) : scene.slot = TEXTURE_ALBEDO /\ scene.layers = {Drawn}
        BY <1>9, <2>2
      <3>2. PICK bloom \in Reads(c) : bloom.slot = TEXTURE_NORMAL /\ bloom.layers = recorded[from]
        BY <1>9, <2>2
      <3>3. /\ \E l \in bloom.layers : l.age = "now"
            /\ \A l \in bloom.layers : l.h = BloomPasses \div 2 /\ l.v = BloomPasses \div 2
        BY <1>3, <1>9, <2>1, <2>2, <3>2 DEF BlurredAt
      <3> QED BY <1>5, <3>1, <3>2, <3>3
    <2> QED BY <1>1, <2>2 DEF ResolveCurrent, Minimised
  <1>18. ShadowsCurrent' /\ PresentsFrame' /\ DepthCurrent'
    BY <1>1, <1>5 DEF ShadowsCurrent, DepthCurrent, PresentsFrame
  <1>19. TargetsFitWindow'
    BY <1>1, <1>2, <1>4, <1>5 DEF TargetsFitWindow, SizeInv, Minimised
  <1> QED BY <1>12, <1>13, <1>14, <1>15, <1>16, <1>17, <1>18, <1>19 DEF FrameInv, PassesReadThisFrame

LEMMA UnbindStep ==
    ASSUME FrameInv, Unbind
    PROVE  FrameInv'
  <1>1. /\ pc = "unbind" /\ pc' = "execute" /\ cb' = unbind_textures(cb, UnboundSlots)
        /\ UNCHANGED <<window, was_resized, open, imgui, size, held, immediate, cascade,
                       recorded, content, i, draw>>
    BY DEF Unbind, platform
  <1>2. TypeOK /\ CounterInv /\ SizeInv /\ RestInv /\ ContentInv
    BY DEF FrameInv
  <1>3. /\ cb' \in Contexts /\ cb'.targets = cb.targets
        /\ \A s \in TextureSlots : cb'.srv[s] = IF s \in UnboundSlots THEN NULL ELSE cb.srv[s]
    BY <1>1, <1>2, UnbindTextures DEF TypeOK
  <1>4. TypeOK'
    BY <1>1, <1>2, <1>3 DEF TypeOK
  <1>5. CounterInv' /\ ContentInv'
    BY <1>1, <1>2 DEF CounterInv, ContentInv
  <1>6. SizeInv'
    BY <1>1, <1>2, <1>3 DEF SizeInv
  <1>7. RestInv'
    <2>1. EnvironmentApart(cb)'
      BY <1>2, <1>3, EnvironmentSlot DEF RestInv, EnvironmentApart
    <2>2. \A s \in TextureSlots \ {TEXTURE_ENVIRONMENT} : cb'.srv[s] = NULL
      BY <1>3, Slots DEF UnboundSlots
    <2> QED BY <1>1, <1>2, <1>3, <2>1, <2>2 DEF RestInv
  <1>8. PassesReadThisFrame' /\ TargetsFitWindow' /\ PresentsFrame'
    BY <1>1, NotRecording
  <1> QED BY <1>4, <1>5, <1>6, <1>7, <1>8 DEF FrameInv

LEMMA RenderFrameStep ==
    ASSUME FrameInv, RenderFrame
    PROVE  FrameInv'
  <1>1. /\ pc = "execute" /\ pc' = "overlay" /\ content' = recorded /\ immediate' = EmptyContext
        /\ UNCHANGED <<window, was_resized, open, imgui, size, held, cb, cascade, recorded, i, draw>>
    BY DEF RenderFrame, platform
  <1>2. TypeOK /\ CounterInv /\ SizeInv /\ RestInv /\ ContentInv
    BY DEF FrameInv
  <1>3. EmptyContext \in Contexts /\ EmptyContext.targets = {}
        /\ \A s \in TextureSlots : EmptyContext.srv[s] = NULL
    BY SizesAssumption DEF EmptyContext, Contexts
  <1>4. TypeOK'
    BY <1>1, <1>2, <1>3 DEF TypeOK
  <1>5. CounterInv' /\ ContentInv'
    BY <1>1, <1>2 DEF CounterInv, ContentInv
  <1>6. SizeInv'
    BY <1>1, <1>2, <1>3 DEF SizeInv
  <1>7. RestInv'
    BY <1>1, <1>2, <1>3 DEF RestInv, AtRest, EnvironmentApart
  <1>8. PassesReadThisFrame' /\ TargetsFitWindow' /\ PresentsFrame'
    <2>1. ShadowsCurrent'
      BY <1>1 DEF FrameInv, PassesReadThisFrame, ShadowsCurrent
    <2> QED BY <1>1, <2>1 DEF PassesReadThisFrame, InputsIntact, DepthCurrent,
                ResolveCurrent, TargetsFitWindow, PresentsFrame, Recording
  <1> QED BY <1>4, <1>5, <1>6, <1>7, <1>8 DEF FrameInv

LEMMA OverlayStep ==
    ASSUME FrameInv, Overlay
    PROVE  FrameInv'
  <1> DEFINE c == set_render_targets(immediate, Views({back_buffer}))
  <1>1. /\ pc = "overlay" /\ pc' = "present" /\ immediate' = c
        /\ draw' = IF imgui THEN DrawnWith("overlay", 0, c) ELSE draw
        /\ UNCHANGED <<window, was_resized, open, imgui, size, held, cb, cascade, recorded, content, i>>
    BY DEF Overlay, platform
  <1>2. TypeOK /\ CounterInv /\ SizeInv /\ RestInv /\ ContentInv
    BY DEF FrameInv
  <1>3. {back_buffer} \in SUBSET Targets /\ Views({back_buffer}) \in SUBSET Targets
        /\ (back_buffer \in Views({back_buffer}) <=> size[back_buffer] # 0)
    BY ViewsFacts, TargetNames
  <1>4. c \in Contexts /\ c.targets = Views({back_buffer})
        /\ \A s \in TextureSlots : c.srv[s] \in {immediate.srv[s], NULL}
    BY <1>2, <1>3, SetTargets DEF TypeOK
  <1>5. imgui => draw'.pass = "overlay" /\ draw'.cb = c
    BY <1>1 DEF DrawnWith
  <1> HIDE DEF c
  <1>6. TypeOK'
    BY <1>1, <1>2, <1>4 DEF TypeOK
  <1>7. CounterInv' /\ ContentInv'
    BY <1>1, <1>2 DEF CounterInv, ContentInv
  <1>8. SizeInv'
    BY <1>1, <1>2, <1>3, <1>4 DEF SizeInv
  <1>9. RestInv'
    BY <1>1, <1>2, <1>4 DEF RestInv, AtRest, EnvironmentApart
  <1>10. PresentsFrame'
    <2>1. window # 0 => Drawn \in content[back_buffer] /\ back_buffer \in c.targets
      BY <1>1, <1>2, <1>3, <1>4 DEF ContentInv, SizeInv
    <2> QED BY <1>1, <1>5, <2>1 DEF PresentsFrame, Minimised
  <1>11. PassesReadThisFrame' /\ TargetsFitWindow'
    <2>1. ShadowsCurrent'
      <3>1. CASE imgui
        BY <1>5, <3>1 DEF ShadowsCurrent
      <3>2. CASE ~imgui
        BY <1>1, <3>2 DEF FrameInv, PassesReadThisFrame, ShadowsCurrent
      <3> QED BY <3>1, <3>2
    <2> QED BY <1>1, <2>1 DEF PassesReadThisFrame, InputsIntact, DepthCurrent,
                ResolveCurrent, TargetsFitWindow, Recording
  <1> QED BY <1>6, <1>7, <1>8, <1>9, <1>10, <1>11 DEF FrameInv

LEMMA PresentStep ==
    ASSUME FrameInv, Present
    PROVE  FrameInv'
  <1>1. /\ pc = "present" /\ pc' \in {"poll", "closed"}
        /\ UNCHANGED <<window, was_resized, open, imgui, size, held, cb, immediate, cascade,
                       recorded, content, i, draw>>
    BY DEF Present, platform
  <1>2. TypeOK /\ CounterInv /\ SizeInv /\ RestInv /\ ContentInv
    BY DEF FrameInv
  <1>3. TypeOK' /\ CounterInv' /\ ContentInv'
    BY <1>1, <1>2 DEF TypeOK, CounterInv, ContentInv
  <1>4. SizeInv' /\ RestInv'
    BY <1>1, <1>2 DEF SizeInv, RestInv, AtRest, EnvironmentApart
  <1>5. PassesReadThisFrame' /\ TargetsFitWindow' /\ PresentsFrame'
    BY <1>1, NotRecording
  <1> QED BY <1>3, <1>4, <1>5 DEF FrameInv

LEMMA FrameStep ==
    ASSUME FrameInv, [Next]_vars
    PROVE  FrameInv'
  <1>1. CASE UNCHANGED vars
    <2>1. TypeOK' /\ CounterInv'
      BY <1>1 DEF vars, FrameInv, TypeOK, CounterInv
    <2>2. SizeInv' /\ RestInv'
      BY <1>1 DEF vars, FrameInv, SizeInv, RestInv, AtRest, EnvironmentApart
    <2>3. ContentInv'
      BY <1>1 DEF vars, FrameInv, ContentInv, BlurredAt
    <2>4. InputsIntact' /\ ShadowsCurrent'
      BY <1>1 DEF vars, FrameInv, PassesReadThisFrame, InputsIntact, ShadowsCurrent, Recording, Minimised
    <2>5. DepthCurrent' /\ ResolveCurrent'
      BY <1>1 DEF vars, FrameInv, PassesReadThisFrame, DepthCurrent, ResolveCurrent, Minimised
    <2>6. TargetsFitWindow' /\ PresentsFrame'
      BY <1>1 DEF vars, FrameInv, TargetsFitWindow, PresentsFrame, Recording, Minimised
    <2> QED BY <2>1, <2>2, <2>3, <2>4, <2>5, <2>6 DEF FrameInv, PassesReadThisFrame
  <1> QED
    BY <1>1, PollStep, KeysStep, ResizeStep, ShadowStep, MainStep, BloomStep, ResolveStep,
       UnbindStep, RenderFrameStep, OverlayStep, PresentStep DEF Next

LEMMA FrameInvariant == Spec => []FrameInv
  BY FrameBegins, FrameStep, PTL DEF Spec

(* The step property: what a resize finds bound, and what it leaves bound. *)
LEMMA ResizeReleases ==
    ASSUME FrameInv, Resize, was_resized
    PROVE  /\ \A s \in TextureSlots : cb'.srv[s] # Stale /\ immediate'.srv[s] # Stale
           /\ cb.targets \cap WindowTargets \subseteq {back_buffer}
  <1>1. ResizeRenderer /\ pc = "resize"
    BY DEF Resize
  <1>2. /\ EnvironmentApart(cb)' /\ \A s \in TextureSlots : immediate'.srv[s] = NULL
        /\ \A s \in TextureSlots \ {TEXTURE_ENVIRONMENT} : cb'.srv[s] = NULL
    BY <1>1, ResizedStep
  <1>3. NULL # Stale /\ environment_texture # Stale
    BY TargetsApart, NullAssumption DEF Textures
  <1>4. \A s \in TextureSlots : cb'.srv[s] # Stale /\ immediate'.srv[s] # Stale
    BY <1>2, <1>3 DEF EnvironmentApart
  <1>5. cb.targets \cap WindowTargets \subseteq {back_buffer}
    BY <1>1 DEF FrameInv, RestInv, AtRest
  <1> QED BY <1>4, <1>5

-----------------------------------------------------------------------------
(* The start and the end of main.                                          *)

LEMMA AssetsListed ==
    /\ Len(Assets) = 4 /\ DOMAIN Assets = 1..4
    /\ Assets[1] = "building" /\ Assets[2] = "cube" /\ Assets[3] = "mesh"
    /\ Assets[4] = "environment_texture"
    /\ AssetSet = {"building", "cube", "mesh", "environment_texture"}
    /\ Meshes = {"building", "cube", "mesh"}
  <1>1. Len(Assets) = 4 /\ DOMAIN Assets = 1..4
    BY DEF Assets
  <1>2. /\ Assets[1] = "building" /\ Assets[2] = "cube" /\ Assets[3] = "mesh"
        /\ Assets[4] = "environment_texture"
    BY DEF Assets
  <1>3. 1..4 = {1, 2, 3, 4}
    OBVIOUS
  <1>4. AssetSet = {Assets[1], Assets[2], Assets[3], Assets[4]}
    BY <1>1, <1>3 DEF AssetSet
  <1>5. Meshes = {"building", "cube", "mesh"}
    BY <1>2, <1>4 DEF Meshes
  <1> QED BY <1>1, <1>2, <1>4, <1>5

LEMMA AssetOrder ==
    /\ AfterAsset(1) = "cube" /\ AfterAsset(2) = "mesh"
    /\ AfterAsset(3) = "environment_texture" /\ AfterAsset(4) = "enter"
  <1>1. 1 + 1 = 2 /\ 2 + 1 = 3 /\ 3 + 1 = 4
    OBVIOUS
  <1> QED BY <1>1, AssetsListed DEF AfterAsset

One == <<"log_file">>
Two == <<"timer", "log_file">>
Three == <<"white_texture", "timer", "log_file">>

LEMMA PushEqual ==
    ASSUME NEW S, NEW r \in S, NEW s \in Seq(S), NEW t \in Seq(S),
           Len(t) = Len(s) + 1, t[1] = r, \A k \in 1..Len(s) : t[k + 1] = s[k]
    PROVE  <<r>> \o s = t
  <1>1. <<r>> \in Seq(S) /\ Len(<<r>>) = 1 /\ <<r>>[1] = r
    OBVIOUS
  <1>2. /\ <<r>> \o s \in Seq(S) /\ Len(<<r>> \o s) = Len(t)
        /\ \A k \in 1..Len(t) : (<<r>> \o s)[k] = IF k <= 1 THEN <<r>>[k] ELSE s[k - 1]
    BY <1>1, ConcatProperties
  <1>3. ASSUME NEW k \in 1..Len(t)
        PROVE  (<<r>> \o s)[k] = t[k]
    <2>1. CASE k = 1
      BY <1>1, <1>2, <2>1
    <2>2. CASE k # 1
      <3>1. k - 1 \in 1..Len(s) /\ (k - 1) + 1 = k
        BY <2>2
      <3> QED BY <1>2, <2>2, <3>1
    <2> QED BY <2>1, <2>2
  <1> QED BY <1>2, <1>3, SeqEqual

LEMMA Stacks ==
    /\ <<"log_file">> \o <<>> = One /\ <<"timer">> \o One = Two
    /\ <<"white_texture">> \o Two = Three
    /\ Head(One) = "log_file" /\ Tail(One) = <<>> /\ One # <<>>
    /\ Head(Two) = "timer" /\ Tail(Two) = One /\ Two # <<>>
    /\ Head(Three) = "white_texture" /\ Tail(Three) = Two /\ Three # <<>>
  <1> DEFINE S == {"log_file", "timer", "white_texture"}
  <1>1. <<"log_file">> \o <<>> = One
    BY DEF One
  <1>2. <<"timer">> \o One = Two
    <2>1. One \in Seq(S) /\ Len(One) = 1 /\ One[1] = "log_file"
      BY DEF One
    <2>2. Two \in Seq(S) /\ Len(Two) = 2 /\ Two[1] = "timer" /\ Two[2] = "log_file"
      BY DEF Two
    <2>3. \A k \in 1..Len(One) : Two[k + 1] = One[k]
      BY <2>1, <2>2
    <2>4. "timer" \in S
      OBVIOUS
    <2>5. Len(Two) = Len(One) + 1
      BY <2>1, <2>2
    <2> HIDE DEF S
    <2> QED BY <2>1, <2>2, <2>3, <2>4, <2>5, PushEqual, Zenon
  <1>3. <<"white_texture">> \o Two = Three
    <2>1. Two \in Seq(S) /\ Len(Two) = 2 /\ Two[1] = "timer" /\ Two[2] = "log_file"
      BY DEF Two
    <2>2. Three \in Seq(S) /\ Len(Three) = 3 /\ Three[1] = "white_texture"
          /\ Three[2] = "timer" /\ Three[3] = "log_file"
      BY DEF Three
    <2>3. \A k \in 1..Len(Two) : Three[k + 1] = Two[k]
      BY <2>1, <2>2
    <2>4. "white_texture" \in S
      OBVIOUS
    <2>5. Len(Three) = Len(Two) + 1
      BY <2>1, <2>2
    <2> HIDE DEF S
    <2> QED BY <2>1, <2>2, <2>3, <2>4, <2>5, PushEqual, Zenon
  <1>4. Head(One) = "log_file" /\ Tail(One) = <<>> /\ One # <<>>
    BY DEF One
  <1>5. Head(Two) = "timer" /\ Tail(Two) = One /\ Two # <<>>
    BY DEF One, Two
  <1>6. Head(Three) = "white_texture" /\ Tail(Three) = Two /\ Three # <<>>
    BY DEF Two, Three
  <1> QED BY <1>1, <1>2, <1>3, <1>4, <1>5, <1>6

(* When main comes to the call ph it has acquired these, the log file      *)
(* perhaps, and has registered that stack of deferred calls.               *)
At(ph, made, stack) ==
    phase = ph => /\ made \subseteq live /\ live \subseteq made \cup {"log_file"}
                  /\ deferred = stack /\ status = 0

Started == {"timer", "window", "device", "shaders", "imgui", "white_texture"}
Base == Started \cup {"command_buffer", "quad", "registries"}

StartInv ==
    /\ At("logging", {}, <<>>)
    /\ At("platform", {}, One)
    /\ At("window", {"timer"}, Two)
    /\ At("device", {"timer", "window"}, Two)
    /\ At("shaders", {"timer", "window", "device"}, Two)
    /\ At("states", {"timer", "window", "device", "shaders"}, Two)
    /\ At("imgui", {"timer", "window", "device", "shaders"}, Two)
    /\ At("white_texture", {"timer", "window", "device", "shaders", "imgui"}, Two)
    /\ At("command_buffer", Started, Three)
    /\ At("quad", Started \cup {"command_buffer"}, Three)
    /\ At("registries", Started \cup {"command_buffer", "quad"}, Three)
    /\ At("building", Base, Three)
    /\ At("cube", Base \cup {"building"}, Three)
    /\ At("mesh", Base \cup {"building", "cube"}, Three)
    /\ At("environment_texture", Base \cup {"building", "cube", "mesh"}, Three)
    /\ At("enter", Base \cup AssetSet, Three)
    /\ At("loop", Base \cup AssetSet, Three)

(* While main returns, the deferred calls still to run are those whose     *)
(* resource is there.                                                      *)
UnwindInv ==
    phase = "unwind" =>
        /\ \/ deferred = Three /\ {"white_texture", "timer"} \subseteq live
           \/ deferred = Two /\ "timer" \in live /\ "white_texture" \notin live
           \/ deferred = One /\ {"white_texture", "timer"} \cap live = {}
           \/ deferred = <<>> /\ {"white_texture", "timer", "log_file"} \cap live = {}
        /\ "environment_texture" \in live =>
              /\ status = 0
              /\ live \cup {"white_texture", "timer", "log_file"}
                    = (LoopNeeds \ {"imgui"}) \cup {"white_texture", "timer", "log_file"}

LifeInv == StartInv /\ UnwindInv /\ EndsAccounted

LEMMA LifeBegins == ProgramInit => LifeInv
  BY DEF ProgramInit, LifeInv, StartInv, At, UnwindInv, EndsAccounted

(* What one call of the start needs is there, and what it leaves.          *)
LEMMA StartStep ==
    ASSUME LifeInv, Startup
    PROVE  LifeInv' /\ uses' \subseteq live
  <1> USE DEF LifeInv, StartInv, At, UnwindInv, EndsAccounted, Started, Base, Done, Fails, Logged, Defer
  <1>1. CASE InitLogging
    BY <1>1, Stacks DEF InitLogging
  <1>2. CASE PlatformInit
    BY <1>2, Stacks DEF PlatformInit
  <1>3. CASE WindowCreate
    BY <1>3, Stacks DEF WindowCreate
  <1>4. CASE InitDevice
    BY <1>4, Stacks DEF InitDevice
  <1>5. CASE InitShaders
    BY <1>5, Stacks DEF InitShaders
  <1>6. CASE ImguiInit
    BY <1>6, Stacks DEF ImguiInit
  <1>7. CASE WhiteTexture
    BY <1>7, Stacks DEF WhiteTexture
  <1>8. CASE InitCommandBuffer
    BY <1>8, Stacks DEF InitCommandBuffer
  <1>9. CASE InitFullscreenQuad
    BY <1>9, Stacks DEF InitFullscreenQuad
  <1>10. CASE NewRegistries
    BY <1>10, Stacks, AssetsListed DEF NewRegistries
  <1>11. CASE \E k \in DOMAIN Assets : FindOrLoad(k)
    <2>1. PICK k \in 1..4 : FindOrLoad(k)
      BY <1>11, AssetsListed
    <2>2. CASE k = 1
      BY <2>1, <2>2, Stacks, AssetsListed, AssetOrder DEF FindOrLoad, LoadNeeds
    <2>3. CASE k = 2
      BY <2>1, <2>3, Stacks, AssetsListed, AssetOrder DEF FindOrLoad, LoadNeeds
    <2>4. CASE k = 3
      BY <2>1, <2>4, Stacks, AssetsListed, AssetOrder DEF FindOrLoad, LoadNeeds
    <2>5. CASE k = 4
      BY <2>1, <2>5, Stacks, AssetsListed, AssetOrder DEF FindOrLoad, LoadNeeds
    <2> QED BY <2>2, <2>3, <2>4, <2>5
  <1>12. CASE EnterLoop
    BY <1>12, Stacks DEF EnterLoop
  <1>13. CASE InitStates
    BY <1>13, Stacks DEF InitStates
  <1> QED
    BY <1>1, <1>2, <1>3, <1>4, <1>5, <1>6, <1>7, <1>8, <1>9, <1>10, <1>11, <1>12, <1>13 DEF Startup

LEMMA LifeStep ==
    ASSUME LifeInv, [ProgramNext]_<<vars, lifecycle>>
    PROVE  LifeInv' /\ (uses' \subseteq live \/ UNCHANGED lifecycle)
  <1>1. CASE Startup
    BY <1>1, StartStep
  <1>2. CASE Loop
    <2>1. phase = "loop" /\ uses' = LoopNeeds /\ UNCHANGED <<phase, live, deferred, status>>
      BY <1>2 DEF Loop
    <2>2. LifeInv'
      BY <2>1 DEF LifeInv, StartInv, At, UnwindInv, EndsAccounted
    <2>3. LoopNeeds \subseteq live
      BY <2>1 DEF LifeInv, StartInv, At, LoopNeeds, LoadNeeds, Base, Started
    <2> QED BY <2>1, <2>2, <2>3
  <1>3. CASE LeaveLoop
    BY <1>3 DEF LeaveLoop, LifeInv, StartInv, At, UnwindInv, EndsAccounted, Base, Started,
                LoopNeeds, LoadNeeds
  <1>4. CASE Unwind
    BY <1>4, Stacks DEF Unwind, LifeInv, StartInv, At, UnwindInv, EndsAccounted
  <1>5. CASE Return
    <2>1. phase = "unwind" /\ deferred = <<>> /\ UNCHANGED <<live, deferred, status>>
          /\ phase' = "ended" /\ uses' = {}
      BY <1>5 DEF Return
    <2>2. live \cap {"log_file", "timer", "white_texture"} = {}
      BY <2>1, Stacks DEF LifeInv, UnwindInv
    <2>3. ASSUME "environment_texture" \in live
          PROVE  status = 0 /\ live = LoopNeeds \ {"imgui", "white_texture"}
      <3>1. status = 0 /\ live \cup {"white_texture", "timer", "log_file"}
                = (LoopNeeds \ {"imgui"}) \cup {"white_texture", "timer", "log_file"}
        BY <2>1, <2>3 DEF LifeInv, UnwindInv
      <3>2. "timer" \notin LoopNeeds /\ "log_file" \notin LoopNeeds
        BY AssetsListed DEF LoopNeeds, LoadNeeds
      <3> QED BY <2>2, <3>1, <3>2
    <2>4. StartInv' /\ UnwindInv'
      BY <2>1 DEF StartInv, At, UnwindInv
    <2>5. EndsAccounted'
      BY <2>1, <2>2, <2>3 DEF EndsAccounted
    <2> QED BY <2>1, <2>4, <2>5 DEF LifeInv
  <1>6. CASE UNCHANGED <<vars, lifecycle>>
    BY <1>6 DEF lifecycle, LifeInv, StartInv, At, UnwindInv, EndsAccounted
  <1> QED
    BY <1>1, <1>2, <1>3, <1>4, <1>5, <1>6 DEF ProgramNext

LEMMA LifeInvariant == ProgramSpec => []LifeInv
  BY LifeBegins, LifeStep, PTL DEF ProgramSpec

LifeTyped ==
    /\ live \subseteq Resources /\ uses \subseteq Resources /\ status \in {0, 1}
    /\ deferred \in {<<>>, One, Two, Three}

LEMMA TypedStart ==
    ASSUME LifeInv, LifeTyped, Startup
    PROVE  live' \subseteq Resources /\ status' \in {0, 1} /\ deferred' \in {<<>>, One, Two, Three}
  <1> USE DEF LifeTyped, Done, Fails, Logged
  <1>1. "timer" \in Resources /\ "log_file" \in Resources /\ AssetSet \subseteq Resources
        /\ Base \subseteq Resources
    BY DEF Resources, LoopNeeds, LoadNeeds, Base, Started
  <1>2. CASE InitLogging
    BY <1>1, <1>2, Stacks DEF InitLogging, Defer, LifeInv, StartInv, At
  <1>3. CASE PlatformInit
    BY <1>1, <1>3, Stacks DEF PlatformInit, Defer, LifeInv, StartInv, At
  <1>4. CASE WindowCreate
    BY <1>1, <1>4 DEF WindowCreate, Base, Started
  <1>5. CASE InitDevice
    BY <1>1, <1>5 DEF InitDevice, Base, Started
  <1>6. CASE InitShaders
    BY <1>1, <1>6 DEF InitShaders, Base, Started
  <1>7. CASE ImguiInit
    BY <1>1, <1>7 DEF ImguiInit, Base, Started
  <1>8. CASE WhiteTexture
    BY <1>1, <1>8, Stacks DEF WhiteTexture, Defer, Base, Started, LifeInv, StartInv, At
  <1>9. CASE InitCommandBuffer
    BY <1>1, <1>9 DEF InitCommandBuffer, Base
  <1>10. CASE InitFullscreenQuad
    BY <1>1, <1>10 DEF InitFullscreenQuad, Base
  <1>11. CASE NewRegistries
    BY <1>1, <1>11 DEF NewRegistries, Base
  <1>12. CASE \E k \in DOMAIN Assets : FindOrLoad(k)
    <2>1. PICK k \in DOMAIN Assets : FindOrLoad(k)
      BY <1>12
    <2>2. Assets[k] \in Resources
      BY <1>1 DEF AssetSet
    <2> QED BY <2>1, <2>2 DEF FindOrLoad
  <1>13. CASE EnterLoop
    BY <1>13 DEF EnterLoop
  <1>14. CASE InitStates
    BY <1>14 DEF InitStates
  <1> QED
    BY <1>2, <1>3, <1>4, <1>5, <1>6, <1>7, <1>8, <1>9, <1>10, <1>11, <1>12, <1>13, <1>14 DEF Startup

LEMMA TypedStep ==
    ASSUME LifeInv, LifeTyped, [ProgramNext]_<<vars, lifecycle>>
    PROVE  LifeTyped'
  <1>1. uses' \subseteq Resources
    BY LifeStep DEF LifeTyped, lifecycle
  <1>2. live' \subseteq Resources /\ status' \in {0, 1} /\ deferred' \in {<<>>, One, Two, Three}
    <2>1. CASE Startup
      BY <2>1, TypedStart
    <2>2. CASE Loop \/ LeaveLoop \/ Return
      BY <2>2 DEF Loop, LeaveLoop, Return, LifeTyped
    <2>3. CASE Unwind
      BY <2>3, Stacks DEF Unwind, LifeTyped
    <2>4. CASE UNCHANGED <<vars, lifecycle>>
      BY <2>4 DEF lifecycle, LifeTyped
    <2> QED BY <2>1, <2>2, <2>3, <2>4 DEF ProgramNext
  <1> QED BY <1>1, <1>2 DEF LifeTyped

LEMMA LifeIsTyped == ProgramSpec => []LifeTyped
  <1>1. ProgramInit => LifeTyped
    BY DEF ProgramInit, LifeTyped
  <1> QED BY <1>1, TypedStep, LifeInvariant, PTL DEF ProgramSpec

(* NothingUsedUnmade: a call, a frame or a deferred call of main.cpp finds *)
(* what it relies on, whichever call failed before it.                     *)
THEOREM CallsFindTheirNeeds == ProgramSpec => NothingUsedUnmade
  <1>1. LifeInv /\ [ProgramNext]_<<vars, lifecycle>> => [uses' \subseteq live]_lifecycle
    BY LifeStep
  <1> QED BY <1>1, LifeInvariant, PTL DEF ProgramSpec, NothingUsedUnmade

(* EndsAccounted: what is left of the resources in each way main ends, and *)
(* where a start that has its log file can crash: for want of a device,    *)
(* over an asserted state of init_renderer, or in the load of a mesh.      *)
THEOREM EndsAreAccounted == ProgramSpec => []EndsAccounted
  BY LifeInvariant, PTL DEF LifeInv

-----------------------------------------------------------------------------
(* The loop inside main.                                                   *)

(* What main does around the loop leaves the loop's own state alone, so    *)
(* what holds of Frame holds of the program.                               *)
THEOREM ProgramRunsFrames == ProgramSpec => Spec
  <1>1. ProgramInit => Init
    BY DEF ProgramInit
  <1>2. [ProgramNext]_<<vars, lifecycle>> => [Next]_vars
    BY DEF ProgramNext, Loop
  <1> QED BY <1>1, <1>2, PTL DEF ProgramSpec, Spec

LEMMA LoopInvariant == ProgramSpec => []FrameInv
  BY FrameInvariant, ProgramRunsFrames, PTL

(* Every variable of the loop and of main keeps to its type.               *)
THEOREM TypeCorrect == ProgramSpec => []ProgramTypeOK
  <1>1. ASSUME NEW d \in {<<>>, One, Two, Three}
        PROVE  Len(d) <= 3 /\ \A k \in DOMAIN d : d[k] \in Resources
    <2>1. "timer" \in Resources /\ "log_file" \in Resources /\ "white_texture" \in Resources
      BY DEF Resources, LoopNeeds, LoadNeeds
    <2>2. CASE d = <<>>
      BY <2>2
    <2>3. CASE d = One
      BY <2>1, <2>3 DEF One
    <2>4. CASE d = Two
      BY <2>1, <2>4 DEF Two
    <2>5. CASE d = Three
      BY <2>1, <2>5 DEF Three
    <2> QED BY <2>2, <2>3, <2>4, <2>5
  <1>2. FrameInv /\ LifeTyped => ProgramTypeOK
    <2> SUFFICES ASSUME FrameInv, LifeTyped PROVE ProgramTypeOK
      OBVIOUS
    <2>1. Len(deferred) <= 3 /\ \A k \in DOMAIN deferred : deferred[k] \in Resources
      BY <1>1 DEF LifeTyped
    <2> QED BY <2>1 DEF FrameInv, LifeTyped, ProgramTypeOK
  <1> QED BY <1>2, LoopInvariant, LifeIsTyped, PTL

(* PassesReadThisFrame: whatever the number of cascades and of blur        *)
(* passes, a pass of draw_one_frame reads what the passes before it drew   *)
(* in this frame.                                                          *)
THEOREM PassesReadThisFrameOnly == ProgramSpec => []PassesReadThisFrame
  BY LoopInvariant, PTL DEF FrameInv

(* TargetsFitWindow: wherever in the frame the window changed its size,    *)
(* every target of a pass that is scaled to it has that size, save for a   *)
(* back buffer that a context held through the last resize; and that one   *)
(* has a size, unless the window has none.                                 *)
THEOREM TargetsAlwaysFit == ProgramSpec => []TargetsFitWindow
  BY LoopInvariant, PTL DEF FrameInv

(* PresentsFrame: swap_buffers shows the frame just recorded, under ImGui. *)
THEOREM FramesArePresented == ProgramSpec => []PresentsFrame
  BY LoopInvariant, PTL DEF FrameInv

(* ReleasedTargetsUnbound: resize_renderer finds none of the targets bound *)
(* for reading, and of those bound for output the back buffer only.        *)
THEOREM ResizeFreesTargets == ProgramSpec => ReleasedTargetsUnbound
  <1> DEFINE Step == Resize /\ was_resized =>
                        /\ \A s \in TextureSlots : cb'.srv[s] # Stale /\ immediate'.srv[s] # Stale
                        /\ cb.targets \cap WindowTargets \subseteq {back_buffer}
  <1>1. FrameInv => Step
    BY ResizeReleases
  <1>2. [][Step]_vars => ReleasedTargetsUnbound
    BY DEF ReleasedTargetsUnbound
  <1>3. [][FrameInv => Step]_vars
    BY <1>1, PTL
  <1> HIDE DEF Step
  <1> QED BY <1>1, <1>2, LoopInvariant, PTL
=============================================================================
