--------------------------- MODULE RenderManifest ---------------------------
(***************************************************************************)
(* What the renderer computes for one frame (subsystems/renderer.rs):      *)
(* extraction from the ECS world, the sorted manifest with its batches,    *)
(* the preparation for the GPU, the upload encoded from it, and the draw   *)
(* commands of a UI packet with the mirror they read.                      *)
(*                                                                         *)
(* An entity is [entity, mesh, material], its mesh 0 when it has no render *)
(* components.  Offsets into the instances start at 0, as in the code.     *)
(***************************************************************************)
EXTENDS Integers, Sequences, SequencesExt

CONSTANTS
    MaxInstances,   \* capacity of the render world, the manifest and the preparation
    MaxBatchCount   \* batches of a manifest, commands of a preparation

-----------------------------------------------------------------------------
(* Extraction and the manifest.                                            *)

\* Entities in order, until one does not fit: then the rest is not looked at.
extract_typed(world) ==
    LET shown == SelectSeq(world, LAMBDA e : e.mesh # 0)
    IN  [ok |-> Len(shown) <= MaxInstances,
         instances |-> SubSeq(shown, 1, IF Len(shown) <= MaxInstances THEN Len(shown) ELSE MaxInstances)]

\* Mutant: the material is not part of the order.
BeforeByMesh(a, b) == a.mesh < b.mesh \/ (a.mesh = b.mesh /\ a.entity < b.entity)

Before(a, b) ==
    \/ a.mesh < b.mesh
    \/ a.mesh = b.mesh /\ a.material < b.material
    \/ a.mesh = b.mesh /\ a.material = b.material /\ a.entity < b.entity

\* Runs of equal mesh and material.
BatchesOf(instances) ==
    LET add(b, k) ==
          IF b # <<>> /\ Last(b).mesh = instances[k].mesh /\ Last(b).material = instances[k].material
          THEN [b EXCEPT ![Len(b)].count = @ + 1]
          ELSE Append(b, [mesh |-> instances[k].mesh, material |-> instances[k].material,
                          first |-> k - 1, count |-> 1])
    IN  FoldLeft(add, <<>>, [k \in 1..Len(instances) |-> k])

build_manifest(instances) ==
    LET sorted == SortSeq(instances, Before)
        found  == BatchesOf(sorted)
    IN  IF Len(instances) > MaxInstances THEN [ok |-> FALSE, instances |-> <<>>, batches |-> <<>>]
        ELSE [ok |-> Len(found) <= MaxBatchCount, instances |-> sorted,
              batches |-> SubSeq(found, 1, IF Len(found) <= MaxBatchCount THEN Len(found) ELSE MaxBatchCount)]

-----------------------------------------------------------------------------
(* The preparation and the upload.                                         *)

\* Every command lies within the instances.
validate(p) == \A k \in DOMAIN p.commands : p.commands[k].first + p.commands[k].count <= Len(p.instances)

Unprepared == [ok |-> FALSE, instances |-> <<>>, commands |-> <<>>]

prepare(manifest) ==
    LET p == [ok |-> TRUE, instances |-> manifest.instances, commands |-> manifest.batches]
    IN  IF Len(p.instances) > MaxInstances \/ Len(p.commands) > MaxBatchCount THEN Unprepared
        ELSE [p EXCEPT !.ok = validate(p)]

\* Rounded up.
Workgroups(count, size) == (count + size - 1) \div size

\* GpuFrameUpload::try_encode_into the caller's staging buffers.  geometry is
\* [mesh -> index count]: a mesh without an entry or without indices ends the
\* encoding after the buffers were resized and the instances written.
try_encode_into(p, geometry, size, staging) ==
    LET good(k)  == p.commands[k].mesh \in DOMAIN geometry /\ geometry[p.commands[k].mesh] > 0
        upto     == {n \in 0..Len(p.commands) : \A k \in 1..n : good(k)}
        n        == CHOOSE m \in upto : \A o \in upto : o <= m
        old(k)   == IF k <= Len(staging.commands) THEN staging.commands[k] ELSE [index_count |-> 0]
        code(k)  == [index_count |-> geometry[p.commands[k].mesh], count |-> p.commands[k].count,
                     first |-> p.commands[k].first]
    IN  IF size = 0 \/ ~validate(p) THEN [staging EXCEPT !.ok = FALSE]
        ELSE [ok |-> n = Len(p.commands), instances |-> p.instances,
              commands |-> [k \in 1..Len(p.commands) |-> IF k <= n THEN code(k) ELSE old(k)],
              workgroups |-> Workgroups(Len(p.instances), size)]

-----------------------------------------------------------------------------
(* The draws of a UI packet.                                               *)

\* UiCommandPlan::try_build: the batches follow each other and cover the items.
PlanBuilds(snapshot) ==
    LET b == snapshot.batches
        end(k) == IF k = 0 THEN 0 ELSE b[k].first + b[k].count
    IN  /\ \A k \in DOMAIN b : b[k].count > 0 /\ b[k].first = end(k - 1)
        /\ end(Len(b)) = Len(snapshot.items)

build_draw_commands(snapshot) ==
    [k \in 1..Len(snapshot.batches) |->
        [instance_count |-> snapshot.batches[k].count, first_instance |-> snapshot.batches[k].first]]

-----------------------------------------------------------------------------
(* The upload mirror of the presentation engine.                           *)

\* Mutant: the mirror keeps its length when the stream gets shorter.
SetUiUploadRangesKeepsTail(mirror, ranges, total) ==
    LET size == IF total > Len(mirror) THEN total ELSE Len(mirror)
        zeroed == [k \in 1..size |-> IF k <= Len(mirror) THEN mirror[k] ELSE <<"zero">>]
        put(m, r) == [k \in 1..Len(m) |->
                        IF k \in r.offset + 1..r.offset + Len(r.bytes) THEN r.bytes[k - r.offset] ELSE m[k]]
    IN  FoldLeft(put, zeroed, ranges)

\* Resized with zeros, then every range copied over it.  Ranges end within total.
set_ui_upload_ranges(mirror, ranges, total) ==
    LET resized == [k \in 1..total |-> IF k <= Len(mirror) THEN mirror[k] ELSE <<"zero">>]
        put(m, r) == [k \in 1..Len(m) |->
                        IF k \in r.offset + 1..r.offset + Len(r.bytes) THEN r.bytes[k - r.offset] ELSE m[k]]
    IN  FoldLeft(put, resized, ranges)
=============================================================================
