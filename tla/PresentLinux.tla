---------------------------- MODULE PresentLinux ----------------------------
(***************************************************************************)
(* platform/linux/{surface,swapchain,gpu_pipeline,present}.rs as programs  *)
(* over the bindings of VulkanLinux, and the choices they make about the   *)
(* surface.                                                                *)
(***************************************************************************)
EXTENDS VulkanLinux, SequencesExt

-----------------------------------------------------------------------------
\* The surface.
Surface(n) == << <<"surface", n>> >>

surface_create(n) ==
    << Check, Command({"vkCreateXlibSurfaceKHR", "vkDestroySurfaceKHR"}),
       Create("vkCreateXlibSurfaceKHR", <<"surface", n>>, <<>>), Own(n, Surface(n)) >>

create_with_handles(n) ==
    << Check, Command({"vkCreateXlibSurfaceKHR", "vkDestroySurfaceKHR"}),
       Create("vkCreateXlibSurfaceKHR", <<"surface", n>>, <<>>), Own(n, Surface(n)) >>

-----------------------------------------------------------------------------
\* Questions put to the surface, and the choices made from the answers.
surface_supported ==
    << Command({"vkGetPhysicalDeviceSurfaceSupportKHR"}),
       Call("vkGetPhysicalDeviceSurfaceSupportKHR", <<>>) >>

query_capabilities ==
    << Command({"vkGetPhysicalDeviceSurfaceCapabilitiesKHR"}),
       Call("vkGetPhysicalDeviceSurfaceCapabilitiesKHR", <<>>) >>

query_formats ==
    << Command({"vkGetPhysicalDeviceSurfaceFormatsKHR"}),
       Call("vkGetPhysicalDeviceSurfaceFormatsKHR", <<>>),
       Call("vkGetPhysicalDeviceSurfaceFormatsKHR", <<>>) >>

query_present_modes ==
    << Command({"vkGetPhysicalDeviceSurfacePresentModesKHR"}),
       Call("vkGetPhysicalDeviceSurfacePresentModesKHR", <<>>),
       Call("vkGetPhysicalDeviceSurfacePresentModesKHR", <<>>) >>

\* The first preference on offer, the driver's first, or a fixed one.
select_format(formats, preferred) ==
    LET i == FirstIndex(preferred, LAMBDA k : \E j \in DOMAIN formats : formats[j] = preferred[k])
    IN  IF i # None THEN preferred[i]
        ELSE IF formats # <<>> THEN formats[1] ELSE "bgra_srgb"

\* Mutant: the maximum is forgotten.
DefaultImageCountUnclamped(caps) == IF caps.min = 0 THEN 3 ELSE caps.min + 1

\* One image more than the driver's minimum, within its maximum (0: none).
default_image_count(caps) ==
    IF caps.min = 0 THEN 3
    ELSE IF caps.max # 0
         THEN IF caps.min + 1 > caps.max THEN caps.max ELSE caps.min + 1
         ELSE caps.min + 1

pick_present_mode(modes) ==
    LET preferred == << "mailbox", "immediate", "fifo", "fifo_relaxed" >>
        i == FirstIndex(preferred, LAMBDA k : \E j \in DOMAIN modes : modes[j] = preferred[k])
    IN  IF i # None THEN preferred[i] ELSE IF modes # <<>> THEN modes[1] ELSE "none"

\* One dimension: the surface's own extent, else the window's, clamped.
pick_extent(caps, size) ==
    IF caps.current # None THEN caps.current
    ELSE IF size < caps.least THEN caps.least
    ELSE IF size > caps.most THEN caps.most ELSE size

\* The mode itself is data no property reads.
pick_composite_alpha == query_capabilities

pick_present_device == surface_supported \o << Check >>

best_present_device(devices) ==
    BestIndex(devices, LAMBDA i : devices[i].presentable,
              LAMBDA i : selection_score(devices[i].type))

configure_surface ==
    query_capabilities \o query_formats \o query_present_modes \o << Check >>

\* What configure_surface returns when the driver answers.
configured(caps, formats, modes, size) ==
    [format |-> select_format(formats, << "bgra_srgb", "rgba_srgb" >>),
     mode   |-> pick_present_mode(modes),
     extent |-> pick_extent(caps, size),
     images |-> IF default_image_count(caps) < 2 THEN 2 ELSE default_image_count(caps)]

-----------------------------------------------------------------------------
\* The swapchain.
Swapchain(g) == << <<"swapchain", <<g>>>> >>

\* g numbers the swapchains of an engine.
swapchain_create(n, g) ==
    LET sc == <<"swapchain", <<g>>>>
    IN  << DeviceCommand({"vkCreateSwapchainKHR", "vkDestroySwapchainKHR",
                         "vkGetSwapchainImagesKHR", "vkAcquireNextImageKHR"}),
           Create("vkCreateSwapchainKHR", sc, <<>>),
           Call("vkGetSwapchainImagesKHR", << sc >>),
           Call("vkGetSwapchainImagesKHR", << sc >>),
           Own(n, Swapchain(g)) >>

acquire(f) == << [Slot("acquire", "vkAcquireNextImageKHR") EXCEPT !.what = f] >>

present(f) ==
    << DeviceCommand({"vkQueuePresentKHR"}),
       [Slot("present", "vkQueuePresentKHR") EXCEPT !.what = f] >>

\* The replacement's handle is copied into the engine's swapchain; the
\* replacement itself, with its Drop, goes out of scope at the end.
swapchain_recreate(g) ==
    swapchain_create(<<"replacement">>, g)
      \o << Step("adopt", {}, <<"swapchain", "replacement">>, <<>>), DropLocal(<<"replacement">>) >>

cmd_image_layout_transition(to) ==
    << DeviceCommand({"vkCmdPipelineBarrier"}), Record(<<"layout", to>>) >>

cmd_clear_image ==
    << DeviceCommand({"vkCmdClearColorImage"}), Record(<<"clear", "image">>) >>

-----------------------------------------------------------------------------
\* Culling on the GPU.
\* A bare handle: its destruction is the caller's.
create_compute_pipeline(n) ==
    << Check, DeviceCommand({"vkCreateComputePipelines"}),
       Create("vkCreateComputePipelines", <<"pipeline", n>>, <<>>) >>

record_cull_and_indirect_draw ==
    << Check >>
      \o cmd_bind_pipeline_device("compute") \o cmd_dispatch_device
      \o cmd_buffer_barrier_device("visibility") \o cmd_buffer_barrier_device("indirect")
      \o cmd_bind_pipeline_device("graphics") \o cmd_draw_indexed_indirect_device("indirect")

-----------------------------------------------------------------------------
\* What the engine owns, in the order its fields are dropped.
\* Mutant: the device goes before what was made from it.
EngineFieldsDeviceFirst ==
    << "device", "ui_pipeline", "world_pipeline", "ui_targets", "swapchain", "surface", "frames",
       "ui_staging", "ui_device", "world_staging", "world_device", "instance", "loader" >>

EngineFields ==
    << "ui_pipeline", "world_pipeline", "ui_targets", "swapchain", "surface", "frames",
       "ui_staging", "ui_device", "world_staging", "world_device",
       "device", "instance", "loader" >>

TargetFields ==
    << <<"framebuffers">>, <<"depth_view">>, <<"depth_image">>, <<"image_views">>, <<"render_pass">> >>

FrameFields(i) ==
    << <<"pool", i>>, <<"image_ready", i>>, <<"render_done", i>>, <<"fence", i>> >>

UiPipelineFields ==
    << "pipeline", "layout", "set_pool", "set_layout", "fragment", "vertex" >>

WorldPipelineFields ==
    << "pipeline", "layout", "set_pool", "set_layout", "fragment", "vertex" >>

UiFrameTargets_build(images) ==
    create_ui_render_pass(<<"render_pass">>) \o create_depth_image(<<"depth_image">>)
      \o create_depth_image_view(<<"depth_view">>) \o << Check >>
      \o FlattenSeq([i \in 1..images |->
            create_color_image_view(<<"view", i>>) \o << Pack(<<"image_views">>, << <<"view", i>> >>) >>])
      \o << Check >>
      \o FlattenSeq([i \in 1..images |->
            create_framebuffer(<<"fb", i>>) \o << Pack(<<"framebuffers">>, << <<"fb", i>> >>) >>])
      \o << Pack(<<"ui_targets">>, TargetFields) >>

\* Without compiled shaders there is no pipeline, and that is no error.
UiNativePipeline_build(shaders) ==
    LET n(part) == <<"ui", part>>
    IN  IF ~shaders THEN << Own(<<"ui_pipeline">>, <<>>) >>
        ELSE create_shader_module(n("vertex")) \o create_shader_module(n("fragment"))
          \o create_ui_descriptor_set_layout(n("set_layout")) \o create_ui_descriptor_pool(n("set_pool"))
          \o allocate_ui_set(n("set_pool")) \o create_ui_pipeline_layout(n("layout"))
          \o create_ui_graphics_pipeline(n("pipeline"))
          \o << Pack(<<"ui_pipeline">>, [i \in DOMAIN UiPipelineFields |-> n(UiPipelineFields[i])]) >>

WorldNativePipeline_build(shaders) ==
    LET n(part) == <<"world", part>>
    IN  IF ~shaders THEN << Own(<<"world_pipeline">>, <<>>) >>
        ELSE create_shader_module(n("vertex")) \o create_shader_module(n("fragment"))
          \o create_ui_descriptor_set_layout(n("set_layout")) \o create_ui_descriptor_pool(n("set_pool"))
          \o allocate_ui_set(n("set_pool")) \o create_ui_pipeline_layout(n("layout"))
          \o create_ui_graphics_pipeline(n("pipeline"))
          \o << Pack(<<"world_pipeline">>, [i \in DOMAIN WorldPipelineFields |-> n(WorldPipelineFields[i])]) >>

build_frame_states(frames) ==
    << Check >>
      \o FlattenSeq([i \in 1..frames |->
            create_command_pool(<<"pool", i>>) \o allocate_command_buffers(<<"pool", i>>)
              \o create_semaphore(<<"image_ready", i>>) \o create_semaphore(<<"render_done", i>>)
              \o create_fence(<<"fence", i>>) \o << Pack(<<"frames">>, FrameFields(i)) >>])

build(images, shaders) ==
    << Check >> \o load(<<"loader">>) \o create_instance(<<"instance">>)
      \o create_with_handles(<<"surface">>) \o devices_and_handles \o pick_present_device
      \o create_logical_device(<<"device">>) \o queue \o pick_composite_alpha \o configure_surface
      \o swapchain_create(<<"swapchain">>, 0) \o UiFrameTargets_build(images)
      \o create_buffer(<<"ui_staging">>) \o create_buffer(<<"ui_device">>)
      \o create_buffer(<<"world_staging">>) \o create_buffer(<<"world_device">>)
      \o UiNativePipeline_build(shaders) \o WorldNativePipeline_build(shaders)
      \o build_frame_states(images) \o << Step("finish", {}, <<>>, <<>>) >>

\* Drop waits for the device and then the fields go.  wait_idle looks up its
\* entry point; that it is missing, or that the call fails, is ignored.
drop ==
    << Step("try_wait_idle", {"vkDeviceWaitIdle"}, <<>>, <<>>),
       Step("drop_fields", {}, EngineFields, <<>>) >>

-----------------------------------------------------------------------------
\* What the caller hands over for the next frames.  up is the record
\* [ui, ui_commands, world, transfer]; a packet is a number, None if empty.
set_ui_upload(up, v) == [up EXCEPT !.ui = v]

set_ui_draw_commands(up, some) == [up EXCEPT !.ui_commands = some]

\* Mutant: a new packet does not ask for a transfer.
SetWorldUploadKeepsTransfer(up, v, packet) ==
    [up EXCEPT !.world = v, !.transfer = IF up.world = None THEN invalidate(@) ELSE @]

\* A packet that is refused leaves everything as it was.  The buffer has
\* room for four halves of an instance record.
set_world_upload(up, v, packet) ==
    IF valid_world_packet(packet.halves, 4, packet.finite, packet.draws)
    THEN [up EXCEPT !.world = v, !.transfer = invalidate(up.transfer)] ELSE up

-----------------------------------------------------------------------------
\* A frame.  s is the engine as present_frame finds it: the packets, which
\* pipelines and targets exist, the frame slot, the number of slots and
\* whether the staging memory is coherent.
world_pass(s) ==
    (IF pending(s.up.transfer)
     THEN write_host_visible(<<"world_staging">>, s.coherent)
          \o cmd_copy_buffer_device("world_device") \o cmd_buffer_barrier_device("world_device")
     ELSE <<>>)
      \o cmd_world_draw

ui_upload(s) ==
    IF s.up.ui = None THEN <<>>
    ELSE write_host_visible(<<"ui_staging">>, s.coherent)
         \o cmd_copy_buffer_device("ui_device") \o cmd_buffer_barrier_device("ui_device")

ui_pass(s) ==
    IF s.up.ui_commands /\ s.ui_pipeline /\ s.targets THEN cmd_ui_draw
    ELSE cmd_image_layout_transition("general") \o cmd_clear_image
         \o cmd_image_layout_transition("present")

frame_commands(s) ==
    reset_command_buffer(s.slot) \o begin_command_buffer(s.slot)
      \o (IF s.up.world # None THEN world_pass(s) ELSE ui_upload(s) \o ui_pass(s))
      \o end_command_buffer(s.slot)

\* A world packet excludes a UI packet and needs its pipeline.
refused(s) == s.up.world # None /\ (s.up.ui # None \/ ~s.world_pipeline)

submission(s) ==
    queue_submit(s.slot, s.slot)
      \o (IF s.up.world # None THEN << Step("submitted", {}, <<>>, <<>>) >> ELSE <<>>)
      \o present(s.slot)

\* Mutant: only the slot's own fence is waited for.
PresentFrameOwnFence(s) ==
    IF refused(s) THEN << Refuse >>
    ELSE wait(s.slot) \o acquire(s.slot) \o frame_commands(s) \o reset(s.slot) \o submission(s)

\* Mutant: the fence is reset as soon as it has been waited for.
PresentFrameResetsEarly(s) ==
    IF refused(s) THEN << Refuse >>
    ELSE FlattenSeq([i \in 1..s.slots |-> wait(i)]) \o reset(s.slot) \o acquire(s.slot)
         \o frame_commands(s) \o submission(s)

\* The fences of all slots are waited for, then the slot's own once more.
present_frame(s) ==
    IF refused(s) THEN << Refuse >>
    ELSE FlattenSeq([i \in 1..s.slots |-> wait(i)]) \o wait(s.slot) \o acquire(s.slot)
         \o frame_commands(s) \o reset(s.slot) \o submission(s)

\* The frame slots are kept.
recreate(g, images, shaders) ==
    wait_idle \o configure_surface
      \o << Step("drop_field", {}, "ui_pipeline", <<>>), Step("drop_field", {}, "world_pipeline", <<>>),
            Step("drop_field", {}, "ui_targets", <<>>) >>
      \o pick_composite_alpha \o swapchain_recreate(g)
      \o UiFrameTargets_build(images) \o << Step("set_field", {}, "ui_targets", <<>>) >>
      \o UiNativePipeline_build(shaders) \o << Step("set_field", {}, "ui_pipeline", <<>>) >>
      \o WorldNativePipeline_build(shaders) \o << Step("set_field", {}, "world_pipeline", <<>>) >>
=============================================================================
