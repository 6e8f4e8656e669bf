------------------------------ MODULE MeshFile ------------------------------
(***************************************************************************)
(* The two formats of a mesh: load_mesh chooses the loader by the          *)
(* extension, load_mesh_gltf (the module MeshLoad) may save what it has    *)
(* loaded in the program's own format, load_mesh_custom reads that back.   *)
(* The path of each function lies in the one buffer of temp_c_string.      *)
(*                                                                         *)
(* A file of the own format is the sequence of the things written to it.   *)
(* save_mesh looks at the result of no fwrite, so the file may end         *)
(* anywhere; load_mesh_custom looks at the result of no fread, so what is  *)
(* missing keeps the value it had: nothing anybody chose in a new Submesh, *)
(* except for the albedo factor, which has a default.  Where the file ends *)
(* within an item, that item is missing too.                               *)
(***************************************************************************)
EXTENDS MeshLoad

VARIABLES saves,     \* the build defines SAVE_GLTF_MESHES_TO_CUSTOM_FORMAT
          temp_c_string_buffer, \* the path in it
          stage,     \* the part of mesh.cpp to run next
          custom,    \* the .mesh file, NULL if there is none
          full,      \* writes do not reach the file any more
          i,         \* the submesh the loop of save_mesh or load_mesh_custom is at
          num_to_read, \* num_submeshes of the mesh load_mesh_custom reads into
          loaded,    \* the submeshes it has read
          (* History, for the properties only. *)
          asked,     \* the path load_mesh was called with
          opened     \* the path that was opened last

fileVars == <<saves, temp_c_string_buffer, stage, custom, full, i, num_to_read, loaded, asked, opened>>
allVars == <<vars, fileVars>>

Source == "a.gltf"
Converted == "a.mesh"
NoExtension == "a"
Paths == {Source, Converted, NoExtension}

FileInit ==
    /\ Init
    /\ saves \in BOOLEAN
    /\ temp_c_string_buffer = "" /\ asked = "" /\ opened = ""
    /\ stage = "idle"
    /\ custom = NULL /\ full = FALSE
    /\ i = 1 /\ num_to_read = 0 /\ loaded = <<>>

(* Every function of mesh.cpp starts with it, and calls the next one with  *)
(* its own result.                                                         *)
temp_c_string(path) == temp_c_string_buffer' = path

(* fopen(filepath) and cgltf_parse_file: filepath points to the buffer. *)
OpenPath == opened' = temp_c_string_buffer

(* base_filepath with the extension .mesh *)
Renamed(path) == IF path = Source THEN Converted ELSE path

-----------------------------------------------------------------------------
(* load_mesh *)

(* A caller; the glTF file is loaded once here. *)
LoadMesh(path) ==
    /\ stage = "idle"
    /\ path = Source => pc = "parse"
    /\ temp_c_string(path) /\ asked' = path
    /\ stage' = "dispatch"
    /\ UNCHANGED <<vars, saves, custom, full, i, num_to_read, loaded, opened>>

Dispatch ==
    /\ stage = "dispatch"
    /\ stage' = CASE temp_c_string_buffer = Source -> "gltf"
                  [] temp_c_string_buffer = Converted -> "open_custom"
                  [] OTHER -> "idle"
    /\ UNCHANGED <<vars, saves, temp_c_string_buffer, custom, full, i, num_to_read, loaded, asked, opened>>

(* load_mesh_gltf up to the end of its second pass. *)
LoadGltf ==
    /\ stage = "gltf"
    /\ Next
    /\ IF pc = "parse" THEN OpenPath ELSE UNCHANGED opened
    /\ UNCHANGED <<saves, temp_c_string_buffer, stage, custom, full, i, num_to_read, loaded, asked>>

(* The rest of load_mesh_gltf: a copy of the path gets a new extension,    *)
(* and save_mesh, if the build calls it, puts it in the buffer.            *)
EndGltf_SavesInPlace ==
    /\ stage = "gltf" /\ pc \in {"failed", "loaded"}
    /\ stage' = IF pc = "loaded" /\ saves THEN "open_save" ELSE "idle"
    /\ UNCHANGED <<vars, saves, temp_c_string_buffer, custom, full, i, num_to_read, loaded, asked, opened>>

EndGltf ==
    /\ stage = "gltf" /\ pc \in {"failed", "loaded"}
    /\ IF pc = "loaded" /\ saves
       THEN temp_c_string(Renamed(temp_c_string_buffer)) /\ stage' = "open_save"
       ELSE stage' = "idle" /\ UNCHANGED temp_c_string_buffer
    /\ UNCHANGED <<vars, saves, custom, full, i, num_to_read, loaded, asked, opened>>

-----------------------------------------------------------------------------
(* save_mesh *)

Item(field, of) == [field |-> field, of |-> of]

(* The items that reach the file: all of them, or those before the one the *)
(* writing stops at.                                                       *)
Write(items) ==
    IF full
    THEN UNCHANGED <<custom, full>>
    ELSE \E kept \in 0..Len(items) :
            /\ custom' = custom \o SubSeq(items, 1, kept)
            /\ full' = (kept < Len(items))

(* fopen with "wb" fails, or empties the file.  The caller ignores what    *)
(* save_mesh returns.                                                      *)
OpenToSave ==
    /\ stage = "open_save"
    /\ \/ stage' = "idle" /\ UNCHANGED <<custom, opened>>
       \/ stage' = "save_header" /\ custom' = <<>> /\ OpenPath
    /\ i' = 1
    /\ UNCHANGED <<vars, saves, temp_c_string_buffer, full, num_to_read, loaded, asked>>

SaveHeader ==
    /\ stage = "save_header"
    /\ Write(<<Item("version", 1), Item("num_submeshes", num_submeshes)>>)
    /\ stage' = "save"
    /\ UNCHANGED <<vars, saves, temp_c_string_buffer, i, num_to_read, loaded, asked, opened>>

(* What is written for submesh s if its counts are nv and ni, where 1      *)
(* stands for any positive number and 0 for any other.  The factor of a    *)
(* submesh without contents is the default of Material.                    *)
SubmeshItems_IndicesFirst(s, nv, ni) ==
    <<Item("num_indices", ni), Item("indices", s), Item("num_vertices", nv), Item("vertices", s),
      Item("albedo_factor", s)>>

SubmeshItems(s, nv, ni) ==
    <<Item("num_vertices", nv), Item("vertices", s), Item("num_indices", ni), Item("indices", s),
      Item("albedo_factor", s)>>

(* The counts that submesh s may have, of vertices and of indices.  One    *)
(* that nothing was written to has whatever the memory holds; a primitive  *)
(* with an empty accessor makes one of them zero.                          *)
PrimitiveOf(s) == primitives[nodes[s.node].mesh][s.primitive]

CountsOf(s) ==
    CASE s = Unset -> {0, 1} \X {0, 1}
      [] s # Unset /\ PrimitiveOf(s).empty -> ({0, 1} \X {0, 1}) \ {<<1, 1>>}
      [] OTHER -> {<<1, 1>>}

(* The pointers of a submesh that nothing was written to may let fwrite    *)
(* read where the process may not.                                         *)
SaveSubmesh ==
    /\ stage = "save" /\ i <= num_submeshes
    /\ \/ /\ \E counts \in CountsOf(submeshes[i]) :
                Write(SubmeshItems(submeshes[i], counts[1], counts[2]))
          /\ i' = i + 1
          /\ UNCHANGED stage
       \/ /\ submeshes[i] = Unset
          /\ stage' = "crashed"
          /\ UNCHANGED <<custom, full, i>>
    /\ UNCHANGED <<vars, saves, temp_c_string_buffer, num_to_read, loaded, asked, opened>>

(* The file is closed, and once more when the function returns. *)
EndSave ==
    /\ stage = "save" /\ i > num_submeshes
    /\ stage' = "idle"
    /\ UNCHANGED <<vars, saves, temp_c_string_buffer, custom, full, i, num_to_read, loaded, asked, opened>>

-----------------------------------------------------------------------------
(* load_mesh_custom *)

Missing == Item("missing", Unset)

(* The k-th item of the file, if it got there. *)
Read(k) == IF k <= Len(custom) THEN custom[k] ELSE Missing

(* The values a count may have after fread: what is missing, or is no      *)
(* count, may be anything.                                                 *)
Counts(item, field) == IF item.field = field THEN {item.of} ELSE {0, 1}

(* The values mesh->num_submeshes, zero in a new Mesh, may have after      *)
(* fread: where the file ends within the number, its low bytes.            *)
NumbersOfSubmeshes ==
    CASE Read(2) # Missing -> {Read(2).of}
      [] Read(2) = Missing /\ Read(1) # Missing -> 0..num_submeshes
      [] OTHER -> {0}

(* The file does not open, whether or not it is there; or it ends before   *)
(* its version, which is zero then or, if its first byte got there, right; *)
(* or it is read.  A mesh without submeshes fails the assertion.           *)
OpenCustom ==
    /\ stage = "open_custom"
    /\ loaded' = <<>> /\ i' = 1
    /\ \/ stage' = "idle" /\ UNCHANGED <<opened, num_to_read>>
       \/ /\ custom # NULL /\ OpenPath
          /\ num_to_read' \in NumbersOfSubmeshes
          /\ \/ Read(1) = Missing /\ stage' = "idle"
             \/ stage' = IF num_to_read' = 0 THEN "broken" ELSE "read"
    /\ UNCHANGED <<vars, saves, temp_c_string_buffer, custom, full, asked>>

ItemsBefore(k) == 2 + 5 * (k - 1)

ReadSubmesh ==
    /\ stage = "read" /\ i <= num_to_read
    /\ LET field(k) == Read(ItemsBefore(i) + k)
       IN  \E nv \in Counts(field(1), "num_vertices"), ni \in Counts(field(3), "num_indices") :
              IF nv = 0 \/ ni = 0
              THEN stage' = "broken" /\ UNCHANGED <<i, loaded>>
              ELSE /\ loaded' = Append(loaded, [vertices |-> field(2), indices |-> field(4),
                                                albedo_factor |-> field(5)])
                   /\ i' = i + 1
                   /\ UNCHANGED stage
    /\ UNCHANGED <<vars, saves, temp_c_string_buffer, custom, full, num_to_read, asked, opened>>

EndRead ==
    /\ stage = "read" /\ i > num_to_read
    /\ stage' = "returned"
    /\ UNCHANGED <<vars, saves, temp_c_string_buffer, custom, full, i, num_to_read, loaded, asked, opened>>

FileNext ==
    \/ \E path \in Paths : LoadMesh(path)
    \/ Dispatch \/ LoadGltf \/ EndGltf
    \/ OpenToSave \/ SaveHeader \/ SaveSubmesh \/ EndSave
    \/ OpenCustom \/ ReadSubmesh \/ EndRead

FileSpec == FileInit /\ [][FileNext]_allVars

-----------------------------------------------------------------------------
(* The submeshes whose items are all in the file; for 0, its header.       *)
Whole(k) == ItemsBefore(k + 1) <= Len(custom)

(* A submesh with contents, and with vertices and indices in them. *)
Solid(s) == s # Unset /\ ~PrimitiveOf(s).empty

(* What load_mesh_custom makes of a file of save_mesh (mesh.cpp:282-331,   *)
(* 333-419): it never gets a submesh wrong that the file holds, even if    *)
(* the file ends early; it returns as many as were saved, unless the file  *)
(* ends within their number; and it fails an assertion only for a file     *)
(* that ends early, a mesh without submeshes, or one with a submesh that   *)
(* load_mesh_gltf left uninitialised or that an empty accessor gave a      *)
(* count of zero, which nobody looks at before the assertion does.         *)
SavedMeshLoadsBack ==
    /\ stage \in {"read", "returned"} =>
          \A k \in 1..Len(loaded) : Whole(k) =>
              loaded[k] = [vertices |-> Item("vertices", submeshes[k]),
                           indices |-> Item("indices", submeshes[k]),
                           albedo_factor |-> Item("albedo_factor", submeshes[k])]
    /\ stage = "returned" /\ Whole(0) => Len(loaded) = Len(submeshes)
    /\ stage = "broken" => full \/ submeshes = <<>> \/ \E k \in 1..Len(submeshes) : ~Solid(submeshes[k])

(* All of them keep their path in one buffer, which a nested call fills    *)
(* again.  Still load_mesh opens the file its caller asked for, and what   *)
(* is opened to be overwritten is never the file the mesh came from        *)
(* (my_string.cpp:16-20; mesh.cpp:47, 260-270, 283, 334, 422).             *)
PathsKept ==
    /\ stage = "gltf" /\ pc # "parse" => opened = asked
    /\ stage \in {"read", "returned"} => opened = asked
    /\ stage \in {"save_header", "save"} => opened = Converted
=============================================================================
