---------------------------- MODULE PresentEngine ----------------------------
(***************************************************************************)
(* The presentation engine of one window, executed step by step: build,    *)
(* the hand-over of packets, present_frame, recreate and drop, each as the *)
(* program of its platform (PresentLinux, PresentWindows), together with   *)
(* the GPU that completes what was submitted.                              *)
(*                                                                         *)
(* Every fallible step may fail: an entry point is missing for the whole   *)
(* run (cfg.missing), or else any other step fails while faults remain.  A *)
(* failing step releases what the code releases by hand, then the locals   *)
(* are dropped, the latest first, as Rust does on an early return.         *)
(***************************************************************************)
EXTENDS Integers, FiniteSets, Sequences, SequencesExt

CONSTANTS
    Platforms,   \* the platforms to run on, a subset of {"linux", "windows"}
    Images,      \* images of a swapchain, and frame slots of an engine
    MaxFaults,   \* failing calls in one run
    MaxCalls,    \* calls of the engine in one run, after build
    Recreates    \* how many of them may be recreate

ASSUME EngineAssumption ==
    /\ Platforms \subseteq {"linux", "windows"}
    /\ Images \in Nat \ {0, 1}      \* configure_surface asks for two at least
    /\ MaxFaults \in Nat /\ MaxCalls \in Nat /\ Recreates \in Nat

L == INSTANCE PresentLinux
W == INSTANCE PresentWindows
C == INSTANCE VulkanCalls
P == INSTANCE GpuPolicy

Slots == 1..Images

VARIABLES
    cfg,      \* the platform, the shaders, the memory and the missing entry point
    faults,   \* failing calls left
    calls,    \* calls of the engine left
    made,     \* swapchains created by recreate
    op,       \* the function under way, "idle" or "gone"
    todo,     \* the steps it has left
    locals,   \* its variables with a Drop, the latest last: [name, objs]
    live,     \* the objects that exist
    active,   \* the instance the loader resolves through, <<>> for none
    engine,   \* the wrapper in each field of the engine, <<>> before and after
    up,       \* the packets handed over
    slot,     \* the frame slot of the next frame, image_index modulo the slots
    gpu,      \* fences, semaphores, command buffers, images and buffer contents
    lost,     \* a call failed between the acquisition of an image and its end
    misuse    \* rules broken so far: pairs of a rule and an object

vars == << cfg, faults, calls, made, op, todo, locals, live, active, engine, up, slot, gpu,
           lost, misuse >>

\* A definition of the platform the engine runs on.
On(linux, windows) == IF cfg.platform = "linux" THEN linux ELSE windows

Fields == {"ui_pipeline", "world_pipeline", "ui_targets", "swapchain", "surface", "frames",
           "ui_staging", "ui_device", "world_staging", "world_device", "device", "instance",
           "loader"}

NoEngine == [f \in Fields |-> <<>>]

\* The entry points whose absence the runs try, one at a time.
Missable ==
    LET frame    == [up |-> [ui |-> 1, ui_commands |-> TRUE, world |-> 0,
                             transfer |-> [dirty |-> FALSE, transfers |-> 0]],
                     slot |-> 1, slots |-> 1, ui_pipeline |-> TRUE, world_pipeline |-> TRUE,
                     targets |-> TRUE, coherent |-> FALSE]
        steps    == L!build(1, TRUE) \o L!present_frame(frame) \o L!recreate(1, 1, TRUE)
        resolved == {i \in DOMAIN steps : steps[i].op \in {"command", "device_command"}}
    IN  UNION {steps[i].cmds : i \in resolved}

Init ==
    /\ cfg \in [platform : Platforms, shaders : BOOLEAN, coherent : BOOLEAN,
                missing : {{}} \union {{c} : c \in Missable}]
    /\ cfg.coherent = ~cfg.shaders      \* independent: both values of each occur
    /\ cfg.missing # {} => cfg.shaders
    /\ faults = (IF cfg.missing = {} THEN MaxFaults ELSE 0)
    /\ calls = MaxCalls /\ made = 0
    /\ op = "build"
    /\ todo = On(L!build(Images, cfg.shaders), W!build(Images, cfg.shaders))
    /\ locals = <<>> /\ live = {} /\ active = <<>> /\ engine = NoEngine
    /\ up = [ui |-> 0, ui_commands |-> FALSE, world |-> 0,
             transfer |-> [dirty |-> FALSE, transfers |-> 0]]
    /\ slot = 1
    /\ gpu = [fence    |-> [s \in Slots |-> "signalled"],
              ready    |-> [s \in 0..Images |-> FALSE],    \* 0: no semaphore
              waits    |-> [s \in Slots |-> 0],
              commands |-> [s \in 0..Images |-> "initial"],
              log      |-> [s \in 0..Images |-> <<>>],
              held     |-> 0,
              staging  |-> [b \in {"ui", "world"} |-> 0],
              device   |-> [b \in {"ui", "world"} |-> 0],
              drawn    |-> <<0, 0>>]
    /\ lost = FALSE /\ misuse = {}

-----------------------------------------------------------------------------
(***************************************************************************)
(* Releasing objects.                                                      *)
(***************************************************************************)

InFlight == {s \in Slots : gpu.fence[s] = "pending"}

\* What the driver frees along with an object.
Implied(o) == CASE o[1] = "set_pool" -> {<<"set", o[2]>>}
                [] o[1] = "pool"     -> {<<"commands", o[2]>>}
                [] o[1] = "memory"   -> {<<"map", o[2]>>}
                [] OTHER             -> {}

Closure(objs) == objs \union UNION {Implied(o) : o \in objs}

\* The objects that must be gone before o is; a swapchain nobody owns any
\* more is counted as leaked, not here.
Children(o) ==
    LET mine == {c \in live : c[1] = "swapchain" => c \in Range(engine["swapchain"]) \union {o}}
    IN  CASE o[1] = "library"   -> mine \ {o}
          [] o[1] = "instance"  -> {c \in mine : o[2] = <<"instance">>
                                               /\ c[1] \notin {"library", "instance"}}
          [] o[1] = "device"    -> {c \in mine :
                                       c[1] \notin {"library", "instance", "device", "surface"}}
          [] o = <<"surface", <<"surface">>>> -> {c \in mine : c[1] = "swapchain"}
          [] o[1] = "swapchain" -> {c \in mine : c[1] = "view" /\ c[2] # <<"depth_view">>}
          [] o[1] = "image"     -> {c \in mine : c = <<"view", <<"depth_view">>>>}
          [] o[1] \in {"view", "render_pass"} -> {c \in mine : c[1] = "framebuffer"}
          [] OTHER              -> {}

\* The rules that releasing the objects of seq one after the other breaks.
Broken(seq) ==
    {<<"dead", seq[i]>> : i \in {j \in DOMAIN seq :
        seq[j] \notin live \/ \E k \in 1..(j - 1) : seq[k] = seq[j]}}
    \union
    {<<"orphan", seq[i]>> : i \in {j \in DOMAIN seq :
        Children(seq[j]) \ Closure({seq[k] : k \in 1..(j - 1)}) # {}}}
    \union
    {<<"busy", seq[i]>> : i \in {j \in DOMAIN seq : InFlight # {}}}

Free(objs) ==
    \E seq \in {objs} :
        /\ live' = live \ Closure(Range(seq))
        /\ misuse' = misuse \union Broken(seq)

Keep == UNCHANGED << live, misuse >>

\* The objects of the locals, in the order an early return drops them.
Unwound == FlattenSeq([i \in DOMAIN locals |-> locals[Len(locals) + 1 - i].objs])

Local(name) == LET i == CHOOSE i \in DOMAIN locals : locals[i].name = name IN locals[i].objs

Without(names) == SelectSeq(locals, LAMBDA v : v.name \notin names)

\* An early return: undo by hand, then the locals.
Abort(undo) ==
    /\ Free(undo \o Unwound)
    /\ todo' = <<>> /\ locals' = <<>>
    /\ op' = IF op = "build" THEN "gone" ELSE "idle"
    /\ lost' = (lost \/ gpu.held > 0)

Advance == todo' = Tail(todo) /\ UNCHANGED << op, lost >>

-----------------------------------------------------------------------------
(***************************************************************************)
(* The steps that create, move and release.                                *)
(***************************************************************************)

Now == Head(todo)
At(kinds) == todo # <<>> /\ Now.op \in kinds

Spend == faults > 0 /\ faults' = faults - 1

Settled == UNCHANGED << cfg, calls, made, slot, up >>

Missing == Now.cmds \cap cfg.missing # {}

\* An entry point looked up by way of an instance that is gone.
Stale == IF active # <<>> /\ active \notin live THEN {<<"dead", active>>} ELSE {}

\* An entry point is found, by way of a live instance, or the call returns.
Resolve ==
    /\ At({"command", "device_command"})
    /\ IF Missing
       THEN Abort(<<>>)
       ELSE /\ misuse' = misuse \union (IF Now.op = "command" THEN Stale ELSE {})
            /\ Advance /\ UNCHANGED << live, locals >>
    /\ UNCHANGED << faults, active, engine, gpu >> /\ Settled

\* A check, a call or a creation succeeds.
Succeed ==
    /\ At({"check", "call", "create", "optional"})
    /\ live' = IF Now.op = "create" THEN live \union {Now.what} ELSE live
    /\ misuse' = misuse \union (IF Now.op = "create" /\ Now.what \in live
                                THEN {<<"twice", Now.what>>} ELSE {})
    /\ Advance
    /\ UNCHANGED << faults, locals, active, engine, gpu >> /\ Settled

\* It does not, and what the step releases by hand goes first.
Fail ==
    /\ \/ At({"check", "call", "create", "wait", "acquire", "reset_commands", "begin_commands",
              "end_commands", "reset_fence", "submit", "wait_idle"}) /\ Spend
       \/ At({"optional"}) /\ ~Missing /\ Spend
       \/ At({"refuse"}) /\ UNCHANGED faults
    /\ Abort(Now.undo)
    /\ UNCHANGED << active, engine, gpu >> /\ Settled

\* Ownership: a wrapper is bound, moved into another, or dropped.
Move ==
    /\ At({"own", "pack", "activate", "adopt", "finish", "set_field"})
    /\ LET w == Now.what IN
       CASE Now.op = "own" ->
              /\ locals' = Append(locals, [name |-> w[1], objs |-> w[2]])
              /\ UNCHANGED << active, engine, gpu >>
         [] Now.op = "pack" ->
              LET moved == FlattenSeq([i \in DOMAIN w[2] |-> Local(w[2][i])])
                  rest  == Without(Range(w[2]))
              IN  /\ locals' = IF \E i \in DOMAIN rest : rest[i].name = w[1]
                               THEN [i \in DOMAIN rest |->
                                        IF rest[i].name = w[1]
                                        THEN [rest[i] EXCEPT !.objs = @ \o moved] ELSE rest[i]]
                               ELSE Append(rest, [name |-> w[1], objs |-> moved])
                  /\ UNCHANGED << active, engine, gpu >>
         [] Now.op = "activate" -> active' = w /\ UNCHANGED << locals, engine, gpu >>
         [] Now.op = "adopt" ->
              /\ engine' = [engine EXCEPT ![w[1]] = Local(<<w[2]>>)]
              /\ gpu' = [gpu EXCEPT !.held = 0]
              /\ UNCHANGED << locals, active >>
         [] Now.op = "finish" ->
              /\ engine' = [f \in Fields |-> Local(<<f>>)]
              /\ locals' = <<>> /\ UNCHANGED << active, gpu >>
         [] Now.op = "set_field" ->
              /\ engine' = [engine EXCEPT ![w] = Local(<<w>>)]
              /\ locals' = Without({<<w>>}) /\ UNCHANGED << active, gpu >>
    /\ Advance /\ Keep /\ UNCHANGED faults /\ Settled

Dropped ==
    /\ At({"release", "drop_local", "drop_field", "drop_fields"})
    /\ Free(CASE Now.op = "release"    -> << Now.what >>
              [] Now.op = "drop_local" -> Local(Now.what)
              [] Now.op = "drop_field" -> engine[Now.what]
              [] Now.op = "drop_fields" -> FlattenSeq([i \in DOMAIN Now.what |-> engine[Now.what[i]]]))
    /\ locals' = IF Now.op = "drop_local" THEN Without({Now.what}) ELSE locals
    /\ engine' = CASE Now.op = "drop_field"  -> [engine EXCEPT ![Now.what] = <<>>]
                    [] Now.op = "drop_fields" -> NoEngine
                    [] OTHER                  -> engine
    /\ Advance /\ UNCHANGED << faults, active, gpu >> /\ Settled

-----------------------------------------------------------------------------
(***************************************************************************)
(* The steps of a frame.                                                   *)
(***************************************************************************)

Rule(broken, r, o) == IF broken THEN {<<r, o>>} ELSE {}

\* On record when Drop could not wait for the device.
Unwaited == <<"unwaited", <<"device", <<"device">>>>>>

\* vkWaitForFences and vkDeviceWaitIdle return when the GPU is done.
Wait ==
    /\ \/ At({"wait"}) /\ gpu.fence[Now.what] = "signalled"
       \/ At({"wait_idle"}) /\ InFlight = {}
    /\ Advance /\ Keep /\ UNCHANGED << faults, locals, active, engine, gpu >> /\ Settled

\* The wait of Drop, whose error nobody sees: it waits as well, or it could not
\* and the teardown goes on at once.
TryWaitIdle ==
    /\ At({"try_wait_idle"})
    /\ \/ ~Missing /\ InFlight = {} /\ misuse' = misuse \union Stale /\ UNCHANGED faults
       \/ /\ IF Missing THEN UNCHANGED faults ELSE Spend
          /\ misuse' = misuse \union Stale \union {Unwaited}
    /\ Advance /\ UNCHANGED << locals, live, active, engine, gpu >> /\ Settled

\* An image is acquired; the semaphore will signal, so it must be free.
Acquired(s) ==
    /\ gpu.held < Images
    /\ gpu' = [gpu EXCEPT !.held = @ + 1, !.ready[s] = TRUE]
    /\ misuse' = misuse \union Rule(gpu.ready[s], "signalled", <<"semaphore", <<s>>>>)
                        \union {<<"dead", o>> : o \in Range(engine["swapchain"]) \ live}

Acquire ==
    /\ At({"acquire"})
    /\ Acquired(Now.what)
    /\ slot' = (slot % Images) + 1
    /\ Advance /\ UNCHANGED << cfg, faults, calls, made, locals, live, active, engine, up >>

\* VK_SUBOPTIMAL_KHR is an error to the code although the image is acquired.
AcquireSuboptimal ==
    /\ At({"acquire"}) /\ Spend
    /\ Acquired(Now.what)
    /\ todo' = <<>> /\ op' = "idle" /\ lost' = TRUE
    /\ UNCHANGED << live, locals, active, engine >> /\ Settled

\* The surface changed: no image.
AcquireOutOfDate ==
    /\ At({"acquire"})
    /\ todo' = <<>> /\ op' = "idle"
    /\ Keep /\ UNCHANGED << faults, locals, active, engine, gpu, lost >> /\ Settled

\* The slot whose command buffer is recorded: present_frame has moved on to
\* the next slot by then; a client records into a buffer of its own.
Recorder == IF op # "present" THEN 0 ELSE IF slot = 1 THEN Images ELSE slot - 1

\* The state a command buffer must be in for each operation on it.
Wanted == [reset_commands |-> {"initial", "recording", "executable"},
           begin_commands |-> {"initial"},
           end_commands   |-> {"recording"},
           record         |-> {"recording"}]

\* The pool of slot s lets its command buffer be reset by itself.
Resettable(s) == \E o \in live : o[1] = "pool" /\ o[2] = <<"pool", s>> /\ "reset" \in o[3]

Unresettable(s) == <<"unresettable", <<"commands", <<s>>>>>>

\* A reset the pool does not allow is put on record, and then honoured.
Recording ==
    /\ At(DOMAIN Wanted)
    /\ LET s == Recorder IN
       /\ gpu' = CASE Now.op = "reset_commands" ->
                       [gpu EXCEPT !.commands[s] = "initial", !.log[s] = <<>>]
                   [] Now.op = "begin_commands" -> [gpu EXCEPT !.commands[s] = "recording"]
                   [] Now.op = "end_commands"   -> [gpu EXCEPT !.commands[s] = "executable"]
                   [] Now.op = "record"         -> [gpu EXCEPT !.log[s] = Append(@, Now.what)]
       /\ misuse' = misuse \union Rule(s \in InFlight \/ gpu.commands[s] \notin Wanted[Now.op],
                                       Now.op, <<"commands", <<s>>>>)
                           \union (IF Now.op = "reset_commands" /\ ~Resettable(s)
                                   THEN {Unresettable(s)} ELSE {})
    /\ Advance /\ UNCHANGED << faults, locals, live, active, engine >> /\ Settled

Buffer(name) == IF name = <<"ui_staging">> THEN "ui" ELSE "world"

\* The host overwrites staging memory the GPU may still be copying from.
Write ==
    /\ At({"write"})
    /\ gpu' = [gpu EXCEPT !.staging[Buffer(Now.what)] = up[Buffer(Now.what)]]
    /\ misuse' = misuse \union Rule(InFlight # {}, "race", <<"buffer", Now.what>>)
    /\ Advance /\ UNCHANGED << faults, locals, live, active, engine >> /\ Settled

ResetFence ==
    /\ At({"reset_fence"})
    /\ gpu' = [gpu EXCEPT !.fence[Now.what] = "unsignalled"]
    /\ misuse' = misuse \union Rule(Now.what \in InFlight, "reset", <<"fence", <<Now.what>>>>)
    /\ Advance /\ UNCHANGED << faults, locals, live, active, engine >> /\ Settled

Logged(s, entry) == entry \in Range(gpu.log[s])

\* What the draw of the submitted commands will read, and what it should.
DrawnBy(s) ==
    LET of(b, dev) == << IF Logged(s, <<"copy", dev>>) THEN gpu.staging[b] ELSE gpu.device[b],
                         IF up[b] = 0 THEN gpu.device[b] ELSE up[b] >>
    IN  CASE Logged(s, <<"draw", "world_device">>) -> of("world", "world_device")
          [] Logged(s, <<"draw", "ui_device">>)    -> of("ui", "ui_device")
          [] OTHER                                 -> <<0, 0>>

Submit ==
    /\ At({"submit"})
    /\ LET s == Now.what.slot IN
       /\ gpu' = [gpu EXCEPT !.fence[s] = "pending", !.waits[s] = Now.what.ready, !.drawn = DrawnBy(s)]
       /\ misuse' = misuse \union Rule(gpu.commands[s] # "executable", "submit", <<"commands", <<s>>>>)
                           \union Rule(gpu.fence[s] # "unsignalled", "submit", <<"fence", <<s>>>>)
    /\ Advance /\ UNCHANGED << faults, locals, live, active, engine >> /\ Settled

Submitted ==
    /\ At({"submitted"})
    /\ up' = [up EXCEPT !.transfer = P!submitted(@)]
    /\ Advance /\ Keep
    /\ UNCHANGED << cfg, faults, calls, made, locals, active, engine, slot, gpu >>

\* The image goes back whatever the answer: presented, out of date, or, with
\* a fault, suboptimal or failed.
Present ==
    /\ At({"present"})
    /\ faults' \in {faults} \union (IF faults > 0 THEN {faults - 1} ELSE {})
    /\ gpu' = [gpu EXCEPT !.held = @ - 1]
    /\ misuse' = misuse \union {<<"dead", o>> : o \in Range(engine["swapchain"]) \ live}
    /\ Advance /\ UNCHANGED << locals, live, active, engine >> /\ Settled

\* The GPU finishes a submission: it has waited for the image, copies land,
\* the fence signals.
GpuCompletes(s) ==
    /\ gpu.fence[s] = "pending"
    /\ gpu' = [gpu EXCEPT
                 !.fence[s] = "signalled",
                 !.ready[gpu.waits[s]] = FALSE,
                 !.commands[s] = "executable",
                 !.device = [b \in {"ui", "world"} |->
                     IF Logged(s, <<"copy", IF b = "ui" THEN "ui_device" ELSE "world_device">>)
                     THEN gpu.staging[b] ELSE @[b]]]
    /\ UNCHANGED << cfg, faults, calls, made, op, todo, locals, live, active, engine, up, slot,
                    lost, misuse >>

-----------------------------------------------------------------------------
(***************************************************************************)
(* The calls.                                                              *)
(***************************************************************************)

\* The end of a function: its result belongs to the caller, who keeps the
\* engine and, here, lets go of anything else.
Return ==
    /\ todo = <<>> /\ op \notin {"idle", "gone"}
    /\ op' = IF op = "drop" THEN "gone" ELSE "idle"
    /\ Free(Unwound) /\ locals' = <<>>
    /\ gpu' = [gpu EXCEPT !.log[0] = <<>>]
    /\ UNCHANGED << cfg, faults, calls, made, todo, active, engine, up, slot, lost >>

Enter(name, program) ==
    /\ op = "idle" /\ calls > 0
    /\ calls' = calls - 1
    /\ op' = name /\ todo' = program
    /\ UNCHANGED << cfg, faults, locals, live, active, engine, slot, gpu, lost, misuse >>

Snapshot(u) ==
    [up |-> u, slot |-> slot, slots |-> Images, coherent |-> cfg.coherent,
     ui_pipeline |-> engine["ui_pipeline"] # <<>>,
     world_pipeline |-> engine["world_pipeline"] # <<>>,
     targets |-> engine["ui_targets"] # <<>>]

\* A draw of one instance of the built-in cube, and a packet cut short.
OneCube == [halves |-> 2, finite |-> TRUE,
            draws |-> {[first_vertex |-> 0, vertices |-> 36, first_instance |-> 0, instances |-> 1]}]
TornRecord == [OneCube EXCEPT !.halves = 1]

\* The renderer hands over a world packet, or a UI packet, or neither, and
\* asks for a frame.
Packets ==
    LET cleared == On(L!set_ui_draw_commands(L!set_ui_upload(up, 0), FALSE),
                      W!set_ui_draw_commands(W!set_ui_upload(up, 0), FALSE))
        ui      == On(L!set_ui_draw_commands(L!set_ui_upload(up, calls), TRUE),
                      W!set_ui_draw_commands(W!set_ui_upload(up, calls), TRUE))
        world(p) == On(L!set_world_upload(cleared, calls, p), W!set_world_upload(cleared, calls, p))
    IN  {cleared, ui} \union {world(p) : p \in {OneCube, TornRecord}}

PresentFrame ==
    \E u \in Packets :
        /\ Enter("present", On(L!present_frame(Snapshot(u)), W!present_frame(Snapshot(u))))
        /\ up' = u /\ UNCHANGED made

Recreate ==
    /\ made < Recreates
    /\ Enter("recreate", On(L!recreate(made + 1, Images, cfg.shaders),
                            W!recreate(made + 1, Images, cfg.shaders)))
    /\ made' = made + 1 /\ UNCHANGED up

\* The engine goes after its last call; one that finds the surface out of
\* date does nothing, so shorter histories are among these.
Drop ==
    /\ op = "idle" /\ calls = 0
    /\ op' = "drop" /\ todo' = On(L!drop, W!drop)
    /\ UNCHANGED << cfg, faults, calls, made, locals, live, active, engine, up, slot, gpu, lost,
                    misuse >>

\* The bindings the engine itself does not use, as two clients of its device:
\* a probe of the surface and the devices, and culling with a compute
\* pipeline and a command buffer of the client's own.
Probe ==
    /\ calls = MaxCalls
    /\ Enter("client", On(L!surface_create(<<"window">>) \o L!instance_api_version
                              \o L!discover_physical_devices(<<"probe">>),
                          W!surface_create(<<"window">>) \o W!instance_api_version
                              \o W!discover_physical_devices(<<"probe">>)))
    /\ UNCHANGED << up, made >>

CullOnLinux ==
    L!create_shader_module(<<"voxel">>) \o L!create_voxel_compute_descriptor_set_layout(<<"sets">>)
      \o L!create_voxel_compute_descriptor_pool(<<"set_pool">>)
      \o L!allocate_voxel_compute_set(<<"set_pool">>)
      \o L!create_voxel_compute_pipeline_layout(<<"layout">>)
      \o L!create_compute_pipeline(<<"pipeline">>)
      \o << C!Own(<<"pipeline">>, L!NativeGraphicsPipeline(<<"pipeline">>)) >>
      \o L!create_buffer(<<"indirect">>) \o L!write_host_coherent(<<"indirect">>)
      \o L!create_command_pool(<<"client">>) \o L!allocate_command_buffers(<<"client">>)
      \o L!begin_command_buffer(0) \o L!record_cull_and_indirect_draw
      \o L!cmd_bind_vertex_buffer_device("indirect") \o L!cmd_draw_device("indirect")
      \o L!cmd_draw_indexed_indirect("indirect") \o L!cmd_dispatch
      \o L!end_command_buffer(0) \o L!free_command_buffers(<<"client">>)

CullOnWindows ==
    W!create_shader_module(<<"voxel">>) \o W!create_voxel_compute_descriptor_set_layout(<<"sets">>)
      \o W!create_voxel_compute_descriptor_pool(<<"set_pool">>)
      \o W!allocate_voxel_compute_set(<<"set_pool">>)
      \o W!create_voxel_compute_pipeline_layout(<<"layout">>)
      \o W!create_compute_pipeline(<<"pipeline">>)
      \o << C!Own(<<"pipeline">>, W!NativeGraphicsPipeline(<<"pipeline">>)) >>
      \o W!create_buffer(<<"indirect">>) \o W!write_host_coherent(<<"indirect">>)
      \o W!create_command_pool(<<"client">>) \o W!allocate_command_buffers(<<"client">>)
      \o W!begin_command_buffer(0) \o W!record_cull_and_indirect_draw
      \o W!cmd_bind_vertex_buffer_device("indirect") \o W!cmd_draw_device("indirect")
      \o W!cmd_draw_indexed_indirect("indirect") \o W!cmd_dispatch
      \o W!end_command_buffer(0) \o W!free_command_buffers(<<"client">>)

Cull ==
    /\ calls = MaxCalls
    /\ Enter("client", On(CullOnLinux, CullOnWindows))
    /\ UNCHANGED << up, made >>

\* The driver blocks, perhaps for ever: a frame that broke off can leave a
\* fence nobody signals and images nobody gives back.
Stuck == At({"wait", "acquire"}) /\ UNCHANGED vars

Done == op = "gone" /\ UNCHANGED vars

Step == Resolve \/ Succeed \/ Fail \/ Move \/ Dropped \/ Wait \/ TryWaitIdle \/ Acquire \/ AcquireSuboptimal
        \/ AcquireOutOfDate \/ Recording \/ Write \/ ResetFence \/ Submit \/ Submitted \/ Present
        \/ Return

Gpu == \E s \in Slots : GpuCompletes(s)

Next == Step \/ Gpu \/ PresentFrame \/ Recreate \/ Drop \/ Probe \/ Cull \/ Stuck \/ Done

\* A call under way keeps running, and the GPU finishes what it was given.
Spec == Init /\ [][Next]_vars /\ WF_vars(Step) /\ WF_vars(Gpu)

-----------------------------------------------------------------------------
(***************************************************************************)
(* What the code relies on.                                                *)
(***************************************************************************)

\* Entry points that are resolved while something is held that the early
\* return does not release: a buffer or an image without memory, an instance
\* without its destructor, memory that is mapped.
Strays == [vkGetPhysicalDeviceMemoryProperties |-> {"buffer", "image"},
           vkDestroyInstance                   |-> {"instance"},
           vkFlushMappedMemoryRanges           |-> {"map"}]

\* The kinds of objects that the entry point missing in this run leaves behind.
StrayKinds == UNION {Strays[c] : c \in cfg.missing \cap DOMAIN Strays}

Owned ==
    LET direct == UNION {Range(engine[f]) : f \in Fields}
    IN  direct \union {<<"set", o[2]>> : o \in {d \in direct : d[1] = "set_pool"}}
               \union {<<"commands", o[2]>> : o \in {d \in direct : d[1] = "pool"}}

NotSwapchain(objs) == {o \in objs : o[1] # "swapchain"}

\* Whichever step of build, present_frame, recreate or a client's call fails,
\* what exists afterwards is exactly what the engine owns: nothing it owns is
\* gone, and nothing is leaked but the strays of the three entry points above,
\* when it is one of these that is missing.  Once recreate has run, the
\* swapchain is out of this account.
NothingLeaks ==
    op \in {"idle", "gone"} =>
        /\ NotSwapchain(Owned) \subseteq live
        /\ \A o \in NotSwapchain(live \ Owned) : o[1] \in StrayKinds
        /\ made = 0 => {o \in live : o[1] = "swapchain"} = {o \in Owned : o[1] = "swapchain"}

\* Every object is released once, after everything made from it ("children
\* before parents"), and never under a submission the GPU has not finished,
\* unless it was Drop that could not wait: its wait_idle is meant to "stop GPU
\* use before field destructors release pipelines and targets", an error of
\* it is thrown away and the destructors run all the same.  Commands are
\* resolved through a live instance, but for a loader that probed the devices:
\* it keeps resolving through the instance of the probe.  A stray is mapped
\* twice, or outlives its parents.
TeardownInOrder ==
    /\ \A m \in misuse :
        CASE m[1] = "busy" -> Unwaited \in misuse
          [] m[1] = "dead" -> \/ m[2][1] = "swapchain" /\ made > 0
                              \/ m[2] = <<"instance", <<"probe">>>>
          [] m[1] = "orphan" -> StrayKinds # {} /\ m[2][1] \in {"device", "instance", "library"}
          [] m[1] = "twice" -> m[2][1] = "map" /\ "map" \in StrayKinds
          [] OTHER -> TRUE
    /\ Unwaited \in misuse => op \in {"drop", "gone"}

\* Draws see what was written: between the last write of a buffer and a draw
\* from it lies a barrier.
WritesVisible(log) ==
    \A i \in DOMAIN log : log[i][1] = "draw" =>
        \A w \in 1..(i - 1) :
            log[w] \in {<<"copy", log[i][2]>>, <<"dispatch", "compute">>} =>
                \E b \in w..i : log[b] = <<"barrier", log[i][2]>>

\* Draws lie in a render pass with the pass's pipeline bound; transfers do not.
PassesBalanced(log) ==
    \A i \in DOMAIN log :
        LET inside == \E b \in 1..i : /\ log[b][1] = "begin_pass"
                                      /\ \A e \in b..(i - 1) : log[e][1] # "end_pass"
        IN  /\ log[i][1] = "draw" => inside /\ \E b \in 1..i : log[b][1] = "bind"
            /\ log[i][1] \in {"copy", "barrier", "layout", "clear"} => ~inside

\* The image is in the layout for presentation at the end: a render pass
\* leaves it so, a clear needs the two transitions around it.
EndsPresentable(log) ==
    \/ \E i \in DOMAIN log : log[i][1] = "end_pass"
    \/ \E i, j, k \in DOMAIN log : /\ i < j /\ j < k
                                   /\ log[i] = <<"layout", "general">>
                                   /\ log[j] = <<"clear", "image">>
                                   /\ log[k] = <<"layout", "present">>

\* What present_frame submits is well formed however earlier frames ended,
\* command buffers and fences are touched only when the GPU is done with
\* them, and the shared staging buffers are never written under a copy.  An
\* image is acquired with a semaphore that is not signalled already, as long
\* as no earlier frame broke off between its acquisition and its end.  The one
\* rule every frame breaks is the reset of its command buffer, which the pool
\* it comes from does not allow.
RecordingIsValid ==
    /\ \A s \in InFlight : /\ WritesVisible(gpu.log[s])
                           /\ PassesBalanced(gpu.log[s])
                           /\ EndsPresentable(gpu.log[s])
    /\ WritesVisible(gpu.log[0])
    /\ \A m \in misuse :
          m[1] \in {"dead", "orphan", "busy", "twice", "unwaited", "signalled", "unresettable"}
    /\ ~lost => \A m \in misuse : m[1] # "signalled"
    /\ \A s \in Slots : gpu.commands[s] # "initial" => Unresettable(s) \in misuse

\* A frame draws the packet handed over last, although a world packet is
\* transferred only once: the transfer is forgotten only when submitted.
DrawsLatestPacket == gpu.drawn[1] = gpu.drawn[2]

\* present_frame returns: the fences it waits for were signalled at creation
\* or belong to submissions, and an image is left to acquire.  A frame that
\* broke off after its acquisition may leave a fence nothing will signal, or
\* an image that is never given back.
PresentReturns == op = "present" ~> (op # "present" \/ lost)

\* Every answer of a driver, on a small scale.
Capabilities == SUBSET {"graphics", "compute", "transfer"}
Families == UNION {[1..n -> [flags : Capabilities, count : 0..2]] : n \in 1..2}
Properties == SUBSET {"device_local", "host_visible", "host_coherent"}
Extents == {c \in [current : 0..3, least : 1..2, most : 2..3, min : 1..3, max : 0..3] :
              c.max = 0 \/ c.min <= c.max}
Offers(values) == UNION {[1..n -> values] : n \in 0..2}
Draws == [first_vertex : {0, 30, 35, 36}, vertices : {0, 1, 6, 36}, first_instance : 0..2, instances : 0..2]

\* Each role gets a family that can do it, a dedicated one if there is one,
\* and the device is asked for three queues in all, each family once.
QueuePlanIsSound ==
    \A raw \in Families : \A families \in {L!enumerate_queue_families(raw), W!enumerate_queue_families(raw)} :
        LET plan     == P!select_queue_families(families)
            requests == P!build_queue_create_requests(plan)
            role     == << "graphics", "compute", "transfer" >>
            can(r)   == {i \in DOMAIN raw : raw[i].count > 0 /\ r \in raw[i].flags}
        IN  IF plan = <<>> THEN \E r \in 1..3 : can(role[r]) = {}
            ELSE /\ \A r \in 1..3 : plan[r] \in can(role[r])
                 /\ \A r \in 2..3 :
                      (\E i \in can(role[r]) : raw[i].flags = {role[r]}) =>
                          raw[plan[r]].flags \cap {role[q] : q \in 1..(r - 1)} = {}
                 /\ requests[1].count + requests[2].count + requests[3].count = 3
                 /\ \A i \in 1..3, j \in 1..3 :
                      i < j /\ requests[i].family = requests[j].family => requests[j].count = 0

\* A memory type has what is required, and no other type that does has more
\* of what is preferred.
MemoryTypeIsBest ==
    \A types \in [1..2 -> Properties], required \in Properties, preferred \in Properties,
       compatible \in SUBSET (1..2) :
        LET ok == {j \in compatible : required \subseteq types[j]}
        IN  \A i \in {L!select_memory_type(types, compatible, required, preferred),
                      W!select_memory_type(types, compatible, required, preferred)} :
            IF i = P!None THEN ok = {}
            ELSE i \in ok /\ \A j \in ok : Cardinality(types[j] \cap preferred)
                                             <= Cardinality(types[i] \cap preferred)

\* The swapchain stays inside the surface's limits, except on a surface that
\* allows one image only: the code insists on two.  It has three images or
\* more when the driver allows that, except on a surface that is content with
\* one: there default_image_count asks for two, although it is meant to ask
\* for ">= 3 when the driver allows it, else clamped".
SurfaceChoiceIsLegal ==
    /\ \A caps \in Extents, size \in 0..4, formats \in Offers({"bgra_srgb", "rgba_srgb", "other"}),
          modes \in {<<>>, <<"fifo">>, <<"fifo", "mailbox">>} :
         \A c \in {L!configured(caps, formats, modes, size), W!configured(caps, formats, modes, size)} :
             /\ c.images >= caps.min
             /\ caps.max \notin 1..2 /\ caps.min > 1 => c.images >= 3
             /\ caps.min = 1 => c.images = 2
             /\ caps.max > 1 => c.images <= caps.max
             /\ caps.current = 0 => c.extent \in caps.least..caps.most
             /\ formats # <<>> => c.format \in Range(formats)
             /\ modes # <<>> => c.mode \in Range(modes)
    /\ \A devices \in Offers([presentable : BOOLEAN, type : {"discrete", "integrated", "cpu"}]) :
         LET ok == {j \in DOMAIN devices : devices[j].presentable}
         IN  \A i \in {L!best_present_device(devices), W!best_present_device(devices)} :
             IF i = P!None THEN ok = {}
             ELSE i \in ok /\ (devices[i].type # "discrete" => \A j \in ok : devices[j].type # "discrete")

\* Every vertex and every instance record an accepted packet makes the shader
\* read exists.
PacketsStayInBounds ==
    \A halves \in 0..5, d \in Draws :
        P!valid_world_packet(halves, 4, TRUE, {d}) =>
            /\ d.vertices > 0 /\ d.instances > 0 /\ halves <= 4
            /\ \A v \in 0..(d.vertices - 1) : d.first_vertex + v < 36
            /\ \A i \in 0..(d.instances - 1) : 2 * (d.first_instance + i) + 1 < halves

\* Whatever a driver reports or a caller hands over, what the code goes on
\* with is supported, on both platforms.
ChoicesAreSupported ==
    op = "build" =>
        QueuePlanIsSound /\ MemoryTypeIsBest /\ SurfaceChoiceIsLegal /\ PacketsStayInBounds

\* A comment in Swapchain::recreate says "old swapchain is destroyed by
\* vkCreateSwapchainKHR; don't double free": after recreate the engine's
\* swapchain should be alive, and it alone.
SwapchainSurvivesRecreate ==
    op = "idle" => {o \in live : o[1] = "swapchain"} = Range(engine["swapchain"])
=============================================================================
