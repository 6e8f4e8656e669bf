# A verification development for the graphics program

This directory holds TLA+ models of the program in `src/`, the TLC
configurations that check them on small instances, and theorems that TLAPS, the
TLA+ proof system, checks for every value of the constants.  `PROJECT.json`
lists the components, the runs, the hazards and the theorems, and maps each
definition to the lines of code it stands for.

## 1. The system

The program is a Windows application with one thread of its own.  It opens a
window, creates a Direct3D 11 device, loads meshes and textures and then runs
one loop (`main.cpp:452-539`): poll the window messages, react to keys, move the
camera in fixed steps, record the passes of a frame into a deferred command
buffer, execute it, draw ImGui over it, present.  Its own code is `src/src/`.
`external/`, `vendor/` and `tracy/` are third-party code, `gl_funcs.*` is a
generated OpenGL function table that the D3D11 build does not use.

| component | files | state it keeps | operations |
|---|---|---|---|
| hash table | `hash_table.h` | buckets, occupancy mask, `allocated`, `count` | add, find, grow, deallocate |
| dynamic array | `array.h` | `data`, `allocated`, `count` | reserve, resize, add, find, ordered_remove, deallocate |
| arena, temporary storage | `memory_arena.*`, `temporary_storage.*` | `occupied` | alloc, reset, take and restore a mark |
| strings | `my_string.*`, `cstrutils.*` | a pointer into text and a length | eat_spaces, eat_trailing_spaces, consume_next_line, substring |
| logging | `logging.*` | `log_file` | init, shutdown, logprintf |
| keyboard, mouse | `keyboard.*`, `mouse.*` | is_down, was_down, changed; position and deltas | set, clear, down, pressed, released |
| window | `platform_windows.cpp` | size, `was_resized`, open, ShowCursor count, clip | window procedure, poll, fullscreen, hide and lock the cursor |
| registries | `texture_registry.*`, `mesh_registry.*` | lookup tables, list of names | find_or_load, destructors |
| renderer | `renderer.*`, `renderer_d3d11.*` | targets, contexts and their bindings, buffers | init, resize, bind, draw, execute, present |
| mesh files | `mesh.*` | a Mesh, the `.mesh` file | load glTF, save and load its own format |
| camera | `camera.*` | height, velocity, on the ground or not | per-frame and fixed updates |
| frame graph, main loop, startup, editor | `main.cpp` | accumulated time, toggles | main, draw_one_frame, draw_imgui_stuff |

**How they interact.**  Everything is a direct call, in one thread.  What makes
it hard is who else acts between the calls:

* Windows: messages are queued while a frame is drawn and dispatched through a
  callback, `platform_wnd_proc`, while the program polls *and* from within calls
  such as `SetWindowPos`; the pointer and the focus move at any time.
* The device: every creation can fail; D3D11 changes the bindings on its own
  when a texture is read and written at once; a deferred context and the
  immediate context keep bindings of their own, across frames and resizes.
* State that outlives a call: pointers that the registries handed out, the
  was-down bits of the last frame, the contents of a render target, the time
  carried over from the last frame, marks into the arena.
* Failures half-way: a load is a dozen calls, and so is the start of the
  program; what a failure leaves behind depends on where it happens.

**What is correct**, component by component, is stated in section 3 next to the
module that says it.

## 2. The modules

| module | models | composes or refines |
|---|---|---|
| `HashMap` | what a hash table promises: a map with calls and returns | |
| `HashTable` | `hash_table.h`, one loop iteration per step | implements `HashMap` |
| `List` | what an array promises: a list | |
| `DynArray` | `array.h` | implements `List` |
| `Arena` | the arena under temporary storage, its marks and the reset per frame | |
| `TempArray` | an array whose blocks come from temporary storage, next to that storage's other users | EXTENDS `Arena` and `DynArray`, implements `List` |
| `Strings` | the three loops over a `String`, with their assertions | |
| `AssetRegistry` | both registries and the loading they trigger, call by call | uses tables as `HashMap` describes them |
| `CommandBuffer` | the bindings of a device context as a record, and the calls that change it (no variables) | |
| `Frame` | the loop as the window and the renderer see it, pass by pass | EXTENDS `CommandBuffer` |
| `Program` | main from its first line to its last, with the loop of `Frame` inside | EXTENDS `Frame` |
| `Input` | keys and buttons from the device to the three tests of a frame | |
| `Cursor` | the pointer: hidden, clipped, recentred, and what the camera is told | |
| `Camera` | fixed steps, jumping and standing, the editor's sliders | |
| `MeshLoad` | `load_mesh_gltf`: a pass that counts, a pass that fills | |
| `MeshFile` | `load_mesh`, `save_mesh`, `load_mesh_custom` and the path buffer they share | EXTENDS `MeshLoad` |
| `MeshFileProofs` | theorems about `MeshLoad` and `MeshFile` | EXTENDS `MeshFile` |
| `LibraryProofs` | theorems about `Arena`, `DynArray`, `TempArray` and `Strings` | EXTENDS `TempArray` and `Strings` |
| other `*Proofs` | theorems about the module they are named after, six of them (section 4) | EXTEND it |
| `MC*` | values for TLC that a cfg cannot write | EXTEND the module |

Conventions.  Variables and operators carry the names of the source.  `pc` is
the loop or the part of a function to run next; between two steps of different
`pc` the environment may act where the code lets it.  A definition `X_Y` is `X`
with the bug `Y`: it is no part of the specification and shows which property
notices the bug (`PROJECT.json`, "mutants").  Variables under "History" are read
by properties only.  An ASSUME names what the code guarantees of a constant.

### HashTable, HashMap

`buckets` is a function from slots to entries; the occupancy bit of a slot is
`Empty` or not.  `CallAdd`, `CallFind`, `Deallocate` are the callers' steps;
`GrowFirst` … `FindReturn` are the iterations of the loops in `add`, `find` and
`grow`.  `Hash` is any function, so every collision pattern is covered.  The
table has no load factor: it grows when `count` reaches `allocated`, and `count`
also grows on an overwrite.  What has to hold is that the unbounded probe loop
of `add` always finds a free bucket (`FreeBucketForAdd`), that the rehash loop,
which runs to `count` and not to `allocated`, still passes every bucket
(`RehashComplete`), that no chain is broken and no key is stored twice
(`TableSound`), that calls return (`CallsReturn`), and that all of it is a map
(`ImplementsMap`, with `entries <- Contents(buckets)`).

### DynArray, List

`data` is the whole block including what nobody wrote, whose values are chosen
freely; the list is its first `count` elements.  `call` records the last call,
so that the refinement compares call by call.  The item of `add` is taken by
value: a reference into the array itself would dangle when the block is
replaced, and no caller passes one.  `n < count` in `ordered_remove_by_index` is a
precondition of the caller: the code has no such assertion, and for any other `n`
it would drop the last element, or go below 0.  The only call in the program is
that of `ordered_remove_by_value`, with what `find` has returned.

### Arena

Sizes are bytes; `used` are the bytes that are not zero.  The blocks and marks
that callers may still use are history.  Callers restore a mark once and none
taken after it.  `talloc` hands its alignment to the parameter `zero_memory`;
`BlocksZeroed` is what that mistake amounts to.  The assertion in
`set_temporary_storage_mark` (`mark < size`, so not in an exactly full arena) is
no guard of the action: the run `mark_assertion` shows what it says and what the
code does.  Nothing calls the marks today.

### TempArray

`Arena` and `DynArray` run side by side.  An array with `use_temporary_storage`
takes each new block from `talloc` and never gives one back; one without has
memory of its own, and then the arena does not move at all, since nothing in it
concerns the array.  The others allocate, write, take marks, restore them and
reset between any two calls.  `data` is what the array ought to hold, `intact`
whether nobody has written to its bytes; a user whose block was rolled back or
reset is done with the array.  A `talloc` that does not fit ends the behaviour
(`broken`: its assertion fails).  `ArrayContentsKept` is what the two promise
each other; the array still is a list (`ImplementsList`).  No caller of the
program sets `use_temporary_storage` today.

### Strings

A text over four characters (space, CR, LF, anything else), a String into it,
the running function.  A look at a character outside the String fails an
assertion: `pc = "break"`.  The buffer of `temp_c_string` is in `MeshFile`.

### AssetRegistry

A device object is a number; `gpu` are the live ones, `orphans` those whose last
owner was deleted without releasing them.  A texture load has three outcomes
besides a hit: nothing created, a texture without a view (leaked), loaded.  A
mesh load is a step per buffer and per texture slot, each of which can fail.
Correct means: what is alive on the device is partitioned into the textures of
the registry, the buffers of the cached meshes, those of the load in progress,
and what failed loads left behind, so that nothing has two owners and the
destructors release all that has one (`LiveObjectsAccounted`); materials share what
the registry holds (`TexturesShared`); the list of names and the cache agree and
hold complete meshes only (`ListedMeshesComplete`, on which the editor's loop
over the list while it calls find_or_load depends); nothing that was handed out
is rebound (`CacheStable`).

### CommandBuffer, Frame

`CommandBuffer` is the conflict rule of D3D11: binding a target for output
unbinds it as input, and the other way round it binds as NULL, without an error.
In `Frame` a target's content is a set of layers, each with its age, its cascade
and how often it was blurred in each direction; `recorded` is what the contents
will be when the command list has run, `content` what they are.  The actions are
the loop body in its order: `Poll`, `Keys`, `Resize`, `ShadowPass` (once per
cascade), `MainPass`, `BloomPass` (once per pass), `ResolvePass`, `Unbind`,
`RenderFrame`, `Overlay`, `Present`.  Meshes are not told apart; the scene is
one draw.  `PassesReadThisFrame` says that each pass reads what it asked for,
drawn in this frame by the passes before it; `PresentsFrame` that ImGui lands on
top; `ReleasedTargetsUnbound` that a resize really frees the old textures.
`TargetsFitWindow`: although the size changes in two places, the viewport and
all targets that follow the window have its size when they are drawn into, with
one exception, which the code has and the formula names.  The resolve pass draws
into the back buffer with the viewport of the window, and after every frame a
context still holds a view of that buffer; `ResizeBuffers` then fails, and
`renderer_d3d11.cpp:326` does not look.  So the back buffer may have an older
size than the window (what D3D11 does in detail is not in the source: it may
fail or not).  The history variable `held` records whether a view was held in
the last resize, and the property allows no other reason and no other target;
in a window that shows, the back buffer never has size 0.

### Program

The calls of main up to the loop, each with its failure, the deferred calls as a
stack, and the loop as `Frame`'s `Next` with the other variables unchanged.
`uses` names what the call just made relies on.  `NothingUsedUnmade`: no path,
failing or not, uses what was not made or is gone.  `EndsAccounted`: what is
left in each way the program can end; in particular `exit` inside
`init_renderer` skips all deferred calls, and three of the early returns report
status 0 (`return false`).  It also says where the start can crash: anywhere
over a message without a log file, and with one in three places.  The swap chain,
the device and its context are asserted (one call makes all of them or none);
behind the shaders (`InitStates`) so are the rasterizer state of the meshes and
both depth stencil states; and the load of a mesh may crash, because what the
glTF loader left unset is uploaded with the count and the pointer it happens to
have (`mesh.cpp:137`, `renderer.cpp:75`) and because the loader of saved meshes
asserts its counts.  Whether an assertion that fails stops the program depends
on the build, so the model has both outcomes for the states.  Results that the
code ignores (the targets, the deferred context, the blend and sampler states,
the rasterizer states of the quad and of the shadows) are taken to be there.  An
assertion that fails in a frame, the first finding below, is shown where its
cause is, in `AssetRegistry`, and not here; nor are the loads the editor makes
in a frame.  `ProgramEnds`: closing the window is final, whatever else happens
in that frame.

### Input

`device` is the keyboard and the mouse's buttons, `queue` the thread's messages.
Keys and buttons are one kind of input, because `keyboard.cpp` and `mouse.cpp`
are one piece of code over two arrays; they differ in their messages (Alt turns
those of the keys into their SYS kind, a held key repeats) and in when there are
none: keys without the focus, buttons without the pointer or the capture, which
other windows may take at any time.  `lost` remembers what went up or down
unheard.  `StatesFollowMessages` says what the program can know: the states
follow the last message, and are wrong about the device only for what is `lost`.
`PressedOncePerPress` and `EdgesReported` are about the three tests of a frame.

### Cursor

One axis.  The pointer moves between any two calls, also between `GetCursorPos`
and `SetCursorPos`; the window moves while it polls or toggles.  `travelled` and
`seen` are the movement the camera ought to be told.

### Camera

Ticks and units of one gravity step instead of floats: rounding is not modelled.
`Fixed_update_camera` is `fixed_update_camera_fps`; the sliders move between
frames.  `moved` excepts, and names, the state in which the code's own rule has
no meaning: after `head_y` was dragged the camera may count as standing while it
rises, until it next comes down.

### MeshLoad, MeshFile

A glTF file is a sequence of nodes and the primitives of each mesh; a primitive
has positions or not and, if it has, may be `empty`: an accessor its submesh gets
a count from has no elements, which the loader does not look at.  A submesh's
content is the node and the primitive it came from, or `Unset`.  In `MeshFile`
`stage` is the function of `mesh.cpp` that runs, and a `.mesh` file is the
sequence of items written to it.  It may end anywhere, because `save_mesh` looks
at no result of `fwrite`; what `load_mesh_custom` does not find keeps the value
that memory had, because it looks at no result of `fread`; a file that ends
within its version is taken for valid or not, and one that ends within the number
of submeshes gives any smaller number.  The file may fail to open each time.
Counts are 1, for any positive number, or 0; an empty primitive is saved with a
count of zero, an unset one with any.  Both builds are
there, with and without `SAVE_GLTF_MESHES_TO_CUSTOM_FORMAT` (`saves`).  The file
is closed twice (`mesh.cpp:290, 328`, `341, 416`); the second `fclose` is undefined and is
modelled as without effect.  `SavedMeshLoadsBack`: every submesh that is in the
file comes back as it was, all of them if their number is in the file, and an
assertion fails only for a file that ends early, an empty mesh, or a submesh that
the glTF loader left uninitialised or that an empty accessor gave a count of zero.
`PathsKept`: although all these functions hold pointers into one buffer that
each of them fills again, each opens the file it was asked for.

## 3. The runs

All with `CHECK_DEADLOCK` on, except where the system ends (`program`;
`mesh_load` and `strings` after the last call or at an assertion, `storage` at
one; `asset_registry` after its destructors).

| run | shows | bounds, and why they are enough |
|---|---|---|
| `hash_table` | map, free bucket, complete rehash, sound chains, termination | 4 keys whose hashes collide always, only in small tables, or wrap; capacity 2 and `MaxCount` 6: two doublings, and overwrites that make `count` run ahead |
| `asset_registry` | ownership, sharing, completeness, stability under every failure | 2 textures, 2 meshes that share them, 2 of 5 slots, 12 device objects: enough for failed loads, retries and a full load of both |
| `program` | start, frames and end | the code's own 4 cascades and 10 blur passes; sizes 0 (minimised), 1 and 2; frames repeat without a bound |
| `input` | key and button states across polls | Alt, one more key with 2 presses, one button, 2 queued messages: a press and release within one poll, held over several, lost on either side |
| `cursor` | visibility, lock, movement | a screen of 7 positions with a window at its edge and fullscreen; the ShowCursor count up to 3 either way |
| `camera` | time, ground, jumps, landing | a step of 2 ticks and frames of 1, 2 and 5 ticks (none, one and several steps); two values a slider, three for `head_y`; falling no faster than 7 |
| `mesh_load` | the two passes agree; what was saved is read back; paths | every glTF file of up to 2 nodes and 2 meshes with up to 2 primitives (a node left out, two nodes with one mesh, a submesh that stays unset between two others, one with an empty accessor), every point at which the written file may end |
| `strings` | what the loops return and leave | every text of up to 5 characters, any sequence of calls |
| `storage` | blocks apart and zeroed; the array is a list, in either kind of memory | 5 bytes, alignment 2 (so the size is no multiple of it), requests up to 2, 2 marks; first capacity 1 and length up to 3: three blocks, and a full arena while the array grows |
| `albedo_assertion`, `index_assertion`, `mark_assertion` | the findings below | |

**Fairness.**  `HashTable` (`WF` on the steps of a running call), `Camera`
(`WF` on the loop) and `Program` (`WF` on main) have liveness: all three say no
more than that the program's thread keeps running.  Calls, keys, sliders and the
window's user get no fairness; `JumpEnds` therefore allows for the user who
pauses by showing the cursor, and `ProgramEnds` speaks only of a window that was
closed.  `Input` has none: a poll ends when the queue is empty, which the rate
of the device decides and not the code.

**Findings.**
* `albedo_assertion`: `render_item` asserts an albedo texture
  (`renderer_d3d11.cpp:727`); a mesh whose texture failed to load enters the
  cache with NULL (`renderer.cpp:79-82`).
* `index_assertion`: the loops over a String look at characters it does not have
  (`my_string.cpp:62, 73, 85`) when nothing else is left; none has a caller yet.
* `mark_assertion`: `set_temporary_storage_mark` asserts that the mark is less
  than the arena's size (`temporary_storage.cpp:28`); a mark taken in an exactly
  full arena is not, and `ma_alloc` does hand out the last byte.

Things the models show that no text in the repository contradicts, so that they
are no findings: a failed mesh load leaks the buffers made before it, and a
failed view its texture; several messages for one key in one poll lose a press;
a key released without the focus stays down; the bloom target is never cleared;
a CR LF makes an empty line of its own; a primitive without positions leaves an
uninitialised submesh, and one with an empty accessor a submesh with a count of
zero, which `save_mesh` may write and `load_mesh_custom` then asserts against; a
saved file that ends early is read as far as it goes; a resize finds the back
buffer bound, so that it may keep its old size under the viewport of the new one.

Seen while reading, and in no model: `load_texture` sets stb_image's flip flag
for the first image that is no `.hdr` and never clears it (`renderer.cpp:51`),
so that the orientation of an `.hdr` depends on what was loaded before it; the
32-bit floats of `stbi_loadf` are uploaded to a 16-bit format with the row pitch
of that format (`renderer.cpp:48`, `renderer_d3d11.cpp:406`).

The hazard without a property is the bloom target that is never cleared
(`main.cpp:311`): it is what the code does, and `PassesReadThisFrame` admits
older layers under the bloom of this frame.

## 4. The proofs

| module | theorems | how |
|---|---|---|
| `HashTableProofs` | `TypeCorrect`, `TableIsSound`, `CountIsSafe`, `AddFindsRoom`, `GrowKeepsEntries`, `TableImplementsMap` | one inductive invariant, `TableInv`, in layers |
| `LibraryProofs`, arena | `ArenaTypeCorrect`, `BlocksStayApart`, `BlocksComeZeroed` | `ArenaInv` |
| array | `ArrayTypeCorrect`, `ArrayImplementsList` | a refinement mapping |
| array in the arena | `StorageImplementsArray`, `StorageImplementsList`, `StorageKeepsArena`, `ContentsKept` | the two above, and `StorageInv` |
| strings | `LoopsStayExact`, `StringsTypeCorrect` | `StringsInv` |
| `MeshFileProofs`, glTF | `LoadTypeCorrect`, `LoadFollowsFile` | `LoadInv` |
| own format | `SavedMeshLoads`, `FilePathsKept`, `FileLoadsMesh`, `FileFollowsFile` | `FileInv` beside `LoadInv` |
| `AssetRegistryProofs` | `TypeCorrect`, `CachesAreStable`, `ListIsComplete`, `MaterialsShare`, `ObjectsAreAccounted` | `LoaderInv`, and each property inductive relative to it |
| `InputProofs` | `TypeCorrect`, `MessagesAreFollowed`, `EdgesAreReported`, `PressesAreReportedOnce` | `Told`, `Edge`, `Paid` |
| `CursorProofs` | `TypeCorrect`, `PointerVisibleAsWanted`, `PointerLockedInside`, `CameraTurnsAsMoved` | `IInv` |
| `CameraProofs` | `TypeCorrect`, `NoTimeLost`, `StandingCamera`, `JumpsStayApart` | types, then `JumpInv` |
| `ProgramProofs` | `ProgramRunsFrames`, `TypeCorrect`, `PassesReadThisFrameOnly`, `TargetsAlwaysFit`, `FramesArePresented`, `ResizeFreesTargets`, `CallsFindTheirNeeds`, `EndsAreAccounted` | `FrameInv` for the loop, `LifeInv` for main around it |

They hold for every value of the constants the named ASSUMEs admit: any keys and
any hash function with any power-of-two capacity; any arena size and alignment;
any element set and first capacity; any text of any length; any number of nodes,
meshes and primitives, and any end of a saved file; any names, materials and number of texture
slots; any keys and buttons, queue length and number of presses; any screen and
window rectangles; any step length and slider ranges, of which gravity and jump
velocity are positive and gravity has a lowest value; any number of cascades,
any even number of blur passes, any set of window sizes with 0.  Apart from
these, only that `NULL` (and `Empty`, `NoName`) is none of the things it stands
beside.

*HashTable.*  `TypeOK /\ CountsOrdered` comes first: it bounds the cursors and
says that `count < allocated` in `probe` and `count = allocated` while growing.
`ProbeLoops` says what a running loop has seen: all slots between the home of
its key and the cursor hold other keys, and `find`'s cursor is `i` slots past
the home.  That makes a store at the end of the loop keep `TableSound` (and
`NewTableSound` for the table under construction).  `CountCovers` bounds the
number of entries by `count`; a table with fewer entries than slots has a free
one, which is `AddFindsRoom`.  `RehashComplete` is why `RehashDone` is a stutter
of the map, and `FindCounted` why a `find` that stops after `allocated`
iterations may answer NULL.

*Arena.*  `BlocksDisjoint` alone is not inductive: restoring a mark brings back
blocks.  `MarksDisjoint` says the blocks of a mark are apart and end below it.

*DynArray.*  `list <- [i \in 1..count |-> data[i]]`; each call maps to the call
of the same name, removal through the lemma that shifting is cutting.

*TempArray.*  A step of the composition is a step of the array, because nobody
else changes it and giving it up is `deallocate`; so it implements `List` in two
refinements.  It is not a step of `Arena`: an array asks for what it needs, and
no `MaxRequest` bounds that.  The arena's lemmas are therefore about `ArenaStep`,
a step with a request of any size.  `ArrayContentsKept` is not inductive, since
`intact` says what others have done and not what they may do.  `StorageInv` adds
that the array's block is none or one of the arena's live blocks and has a byte
for each place; with `BlocksDisjoint`, nobody else's write or block touches it.

*Strings.*  `StringsInv` says of each running loop that what lies between where
it started and where it stands is what the loop is there to pass, and of each
finished one that it stopped at something else.  `SliceSplits` turns these
statements about places of the text into the ones about characters that
`LoopsExact` makes.

*MeshLoad.*  `MeshFollowsFile` speaks of the concatenation of all nodes'
primitives, the loops of a node and a primitive at a time.  `LoadInv` says that
there are sums `B`, with `B[k]` what the first `k` nodes contribute and the last
one the whole (`Sums`).  While counting, `num_submeshes` is the length of
`B[n - 1]`; while filling, `index` is that length plus the primitives of this
node, below it the mesh follows the file, from it on it is `Unset`.  Since sums
only grow, every write lies inside the array: that is `LoadTypeCorrect`.  The
sums exist by induction over the nodes, which is done here with sets of numbers
(`LeastNumber`, `UpTo`): the library's induction theorems take an operator.

*MeshFile.*  `FileInv` says where in the file each submesh's items are although
the lengths of its arrays are not known (`SaveInv`, with `ItemsBefore`), that
what has been read is what those places hold (`ReadInv`), in which order the
functions can run (`OrderInv`), and what is in the path buffer at each of them
(`PathInv`).  `FileLoadsMesh` shows that all of it leaves `load_mesh_gltf` as
`MeshLoad` has it, so `LoadInv` holds alongside.

*AssetRegistry.*  `LoaderInv` is `TypeOK /\ Progress`; `Progress` says how far a
load has come at each `pc`: all submeshes but the current one have both buffers
and all slots, and the mesh is not in the cache yet.  With it the step that
registers a mesh registers a complete one, and an abandoned load gives up
exactly the buffers it had made.

*Input.*  `Told` carries `StatesFollowMessages` over the queue: the last message
about an input says what the device last told.  `Edge` relates the states within
a poll to those at its start.  `Paid` is the ledger of `PressedOncePerPress`:
reported presses, the one the current states show, the down messages in the
queue that will change a state, and a press nobody heard of, together never
exceed the presses of the device.

*Cursor.*  `FrameInv` says what each part of the frame may rely on (a locked
pointer is inside the rectangle the frame clipped it to), `TravelInv` where the
movement is kept while `ReadPointer` and `Recentre` are apart.

*Camera.*  `JumpsDoNotAddUp` is not inductive: it bounds a height and says
nothing of the velocity.  `JumpInv` says that with its height and velocity the
camera would, after any number of further steps under the lowest gravity, be no
higher than the best jump from the ground takes it.  A step under a larger
gravity only lowers that, and a landing or a new jump starts from the ground.
The sum over the steps is a closed form (`Triangle`), so no induction is needed.

*Program.*  `FrameInv` says, for each `pc`, which sizes are up to date
(`SizeInv`: the back buffer's may differ if `held`, and is not 0 in a window that
shows, because no context ever holds a back buffer of size 0), what the contexts still have bound when nothing is recorded
(`RestInv`) and what the recorded targets hold after so many cascades or blur
passes (`ContentInv`).  `LifeInv` gives the resources and the deferred calls at
each call of the start (`StartInv`) and on the way back (`UnwindInv`), from which
follows what is there where the start crashes.  What
holds of the loop holds of the program because `ProgramSpec => Spec`.

**Only model-checked.**  Liveness (`CallsReturn`, `JumpEnds`, `ProgramEnds`),
which is out of TLAPS's reach, as ENABLED and fairness are.  Every other property
that a passing run checks is stated by a theorem.

## 5. Not modelled, and why

* Mathematics, shaders, cascade matrices, the walking and free-flying camera:
  floating-point functions without states.
* `recursive_init_all` and `shutdown_renderer`: no callers.
* `substring` on its own, comparisons, directory and dialog helpers, the mouse
  wheel: straight-line code, system calls or values that nothing reads.
* Rendering states, uniforms and vertex data: no property tells them apart.
* Third-party code and the generated OpenGL table.  `src/tracy/` alone is some
  49,000 lines of a profiler that the program only calls through macros, and
  `gl_funcs.*` some 2,000 lines of declarations that the D3D11 build does not
  use: neither says anything about this program.  Of the other code in
  `src/src/` about two lines in five are mapped; the rest is the arithmetic and
  the straight-line code above, most of it in `main.cpp`'s editor, in `math/`
  and in the creation of D3D11 states and shaders.

## 6. The plan

Order of the work, the most important behaviour first; all of it is done:

1. hash table with its refinement and proofs;
2. registries and loading, on the map of 1, with proofs;
3. bindings, frame graph, resizing; startup and shutdown around it, with proofs;
4. keys, mouse buttons, pointer, camera, with proofs;
5. arena and array with their proofs, and their composition;
6. strings; the glTF loader and the program's own mesh format;
7. the proofs about these, and about the array in temporary storage.

Left for later, none of it about a hazard that has no property: a model of the
loader's flip flag in `AssetRegistry`; the walk of `recursive_init_all` once
something calls it; the lines of a text taken one after the other
(`consume_next_line` called until the text is empty) against a function that
splits it.
