--------------------------- MODULE RenderResources ---------------------------
(***************************************************************************)
(* The renderer's state machines that stand for GPU objects                *)
(* (subsystems/renderer.rs): a frame in flight, the surface and its        *)
(* swapchain, a command pool; and its tables of meshes and of materials    *)
(* (renderer_3d.rs).  Every method may be called at any time; one that     *)
(* returns an error may have made some of its changes before.              *)
(***************************************************************************)
EXTENDS Integers, Sequences, SequencesExt, FiniteSets

CONSTANTS
    PoolCapacity,        \* command buffers of the pool
    MaxMeshes, MaxVertexBytes, MaxIndexBytes, MaxMaterials,
    MeshSizes,           \* vertex and index bytes of the meshes inserted
    MaxGeneration,       \* u32::MAX in the code
    MaxFrees             \* bound: how often one material slot is freed

\* Generations start at 1; sizes are numbers of bytes.
ASSUME ResourcesAssumption == MaxGeneration \in Nat \ {0} /\ MeshSizes \subseteq Nat \X Nat

VARIABLES
    frame,       \* RenderFrame: command, slot, wait, signal, fence
    surface, swapchain,
    pool,        \* the states of the command buffers allocated
    meshes, materials,
    removed      \* history: the handles removed, with the times their slot was freed

resourceVars == <<frame, surface, swapchain, pool, meshes, materials, removed>>

NewFrame == [command |-> "initial", slot |-> "available", wait |-> FALSE, signal |-> FALSE,
             fence |-> "unsignalled"]

EmptyTable == [slots |-> <<>>, free |-> <<>>, vertices |-> 0, indices |-> 0, freed |-> <<>>]

ResourcesInit ==
    /\ frame = NewFrame /\ surface = "uncreated" /\ swapchain = "uncreated" /\ pool = <<>>
    /\ meshes = EmptyTable /\ materials = EmptyTable /\ removed = {}

-----------------------------------------------------------------------------
(* A frame in flight.  A method stops at its first transition that is not  *)
(* allowed.                                                                *)

begin(f) ==
    IF f.slot # "available" THEN f
    ELSE [f EXCEPT !.slot = "acquired", !.command = IF @ = "initial" THEN "recording" ELSE @]

\* submit_frame checks all four before it changes any.
submit_frame(f) ==
    IF f.command = "executable" /\ f.wait /\ ~f.signal /\ f.fence = "unsignalled"
    THEN [f EXCEPT !.command = "submitted", !.wait = FALSE, !.signal = TRUE, !.fence = "submitted"]
    ELSE f

\* The command buffer is ended before the semaphores are looked at: without a
\* signalled wait semaphore it stays executable, and no later submit ends it.
submit(f) ==
    LET ended == [f EXCEPT !.command = "executable"]
        sent  == submit_frame(ended)
    IN  IF f.command # "recording" THEN f
        ELSE IF sent = ended THEN ended
        ELSE [sent EXCEPT !.slot = IF @ = "acquired" THEN "submitted" ELSE @]

\* Mutant: the fence is left signalled.
CompleteKeepsFence(f) ==
    IF ~f.signal THEN f
    ELSE IF f.fence # "submitted" THEN [f EXCEPT !.signal = FALSE]
    ELSE IF f.slot # "submitted" THEN [f EXCEPT !.signal = FALSE, !.fence = "signalled"]
    ELSE [f EXCEPT !.signal = FALSE, !.fence = "signalled", !.slot = "available", !.command = "initial"]

complete(f) ==
    IF ~f.signal THEN f
    ELSE IF f.fence # "submitted" THEN [f EXCEPT !.signal = FALSE]
    ELSE IF f.slot # "submitted" THEN [f EXCEPT !.signal = FALSE, !.fence = "unsignalled"]
    ELSE [f EXCEPT !.signal = FALSE, !.fence = "unsignalled", !.slot = "available",
                   !.command = IF @ = "submitted" THEN "initial" ELSE @]

FrameStep ==
    /\ frame' \in {begin(frame), submit(frame), complete(frame), [frame EXCEPT !.wait = TRUE]}
    /\ UNCHANGED <<surface, swapchain, pool, meshes, materials, removed>>

-----------------------------------------------------------------------------
(* The surface and its swapchain; the command pool.                        *)

SurfaceStep ==
    /\ \/ surface = "uncreated" /\ surface' = "ready" /\ UNCHANGED swapchain
       \/ surface = "ready" /\ surface' = "destroyed" /\ UNCHANGED swapchain
       \/ swapchain = "uncreated" /\ surface = "ready" /\ swapchain' = "ready" /\ UNCHANGED surface
       \/ swapchain = "ready" /\ swapchain' = "out_of_date" /\ UNCHANGED surface
       \/ swapchain \in {"ready", "out_of_date"} /\ swapchain' = "destroyed" /\ UNCHANGED surface
    /\ UNCHANGED <<frame, pool, meshes, materials, removed>>

NextCommandState == [initial |-> "recording", recording |-> "executable", executable |-> "submitted",
                     submitted |-> "initial"]

\* allocate; begin, end, submit and reset of one buffer; reset of the pool.
PoolStep ==
    /\ \/ Len(pool) < PoolCapacity /\ pool' = Append(pool, "initial")
       \/ \E k \in DOMAIN pool : pool' = [pool EXCEPT ![k] = NextCommandState[@]]
       \/ /\ \A k \in DOMAIN pool : pool[k] # "submitted"
          /\ pool' = [k \in DOMAIN pool |-> "initial"]
    /\ UNCHANGED <<frame, surface, swapchain, meshes, materials, removed>>

-----------------------------------------------------------------------------
(* The tables.  A slot is [generation, record], its record <<>> when free. *)

next_generation(g) == IF g = MaxGeneration THEN 1 ELSE g + 1

Used(t) == Len(t.slots) - Len(t.free)

HandleOf(t) == IF t.free = <<>> THEN <<Len(t.slots) + 1, 1>> ELSE <<Last(t.free), t.slots[Last(t.free)].generation>>

Valid(t, h) == h[1] \in DOMAIN t.slots /\ t.slots[h[1]].generation = h[2] /\ t.slots[h[1]].record # <<>>

Filled(t, record) ==
    LET h == HandleOf(t)
    IN  IF t.free = <<>>
        THEN [t EXCEPT !.slots = Append(@, [generation |-> 1, record |-> record]), !.freed = Append(@, 0)]
        ELSE [t EXCEPT !.slots[h[1]].record = record, !.free = Front(@)]

\* Mutant: the bytes of a removed mesh are used again.
InsertMeshReusesBytes(t, size) ==
    LET h == HandleOf(t)
        at == IF t.free = <<>> THEN <<t.vertices, t.indices>>
              ELSE <<(h[1] - 1) * size[1], (h[1] - 1) * size[2]>>
    IN  [Filled(t, <<at[1], size[1], at[2], size[2]>>)
            EXCEPT !.vertices = IF t.free = <<>> THEN @ + size[1] ELSE @,
                   !.indices = IF t.free = <<>> THEN @ + size[2] ELSE @]

\* The bytes go behind those of every mesh inserted before, removed ones too.
insert_mesh(t, size) ==
    [Filled(t, <<t.vertices, size[1], t.indices, size[2]>>)
        EXCEPT !.vertices = @ + size[1], !.indices = @ + size[2]]

RoomFor(t, size) ==
    Used(t) < MaxMeshes /\ t.vertices + size[1] <= MaxVertexBytes /\ t.indices + size[2] <= MaxIndexBytes

remove(t, h) ==
    [t EXCEPT !.slots[h[1]] = [generation |-> next_generation(h[2]), record |-> <<>>],
              !.free = Append(@, h[1]), !.freed[h[1]] = @ + 1]

MeshStep ==
    /\ \/ \E size \in MeshSizes : RoomFor(meshes, size) /\ meshes' = insert_mesh(meshes, size) /\ UNCHANGED removed
       \/ \E k \in DOMAIN meshes.slots :
            LET h == <<k, meshes.slots[k].generation>>
            IN  /\ Valid(meshes, h) /\ meshes' = remove(meshes, h)
                /\ removed' = removed \union {<<"mesh", h, meshes.freed[k] + 1>>}
    /\ UNCHANGED <<frame, surface, swapchain, pool, materials>>

MaterialStep ==
    /\ \/ Used(materials) < MaxMaterials /\ materials' = Filled(materials, <<"material">>) /\ UNCHANGED removed
       \/ \E k \in DOMAIN materials.slots :
            LET h == <<k, materials.slots[k].generation>>
            IN  /\ Valid(materials, h) /\ materials.freed[k] < MaxFrees
                /\ materials' = remove(materials, h)
                /\ removed' = removed \union {<<"material", h, materials.freed[k] + 1>>}
    /\ UNCHANGED <<frame, surface, swapchain, pool, meshes>>

-----------------------------------------------------------------------------
(* Properties.                                                             *)

\* The five objects of a frame (RenderFrame) move together: no call, whatever
\* failed before it, leaves the fence or the signal semaphore armed without a
\* submitted command buffer, and a frame whose slot is available can begin.  A
\* command buffer that is seen executable is that of a refused submission, and
\* its frame is over for good: begin, submit and complete all refuse it, also
\* when the semaphore it lacked has been signalled.
FrameObjectsAgree ==
    /\ (frame.fence = "submitted") = (frame.command = "submitted")
    /\ frame.signal = (frame.command = "submitted")
    /\ (frame.slot = "submitted") = (frame.command = "submitted")
    /\ frame.slot = "available" => frame.command = "initial" /\ frame.fence = "unsignalled"
    /\ frame.command = "executable" => {begin(frame), submit(frame), complete(frame)} = {frame}

Overlap(a, la, b, lb) == a < b + lb /\ b < a + la

\* The byte ranges of two live meshes (MeshTable) never overlap and lie within
\* the data; and a handle that was removed from either table is refused for as
\* long as its slot was freed fewer than MaxGeneration times since.
TablesKeepApart ==
    /\ \A i, j \in {k \in DOMAIN meshes.slots : meshes.slots[k].record # <<>>} :
          LET a == meshes.slots[i].record
              b == meshes.slots[j].record
          IN  /\ i # j => ~Overlap(a[1], a[2], b[1], b[2]) /\ ~Overlap(a[3], a[4], b[3], b[4])
              /\ a[1] + a[2] <= meshes.vertices /\ a[3] + a[4] <= meshes.indices
    /\ \A x \in removed :
          LET t == IF x[1] = "mesh" THEN meshes ELSE materials
          IN  t.freed[x[2][1]] - x[3] < MaxGeneration - 1 => ~Valid(t, x[2])
=============================================================================
