----------------------------- MODULE VulkanLinux -----------------------------
(***************************************************************************)
(* platform/linux/vulkan.rs, function by function, in the vocabulary of    *)
(* VulkanCalls.  A function that creates something takes the name n of the *)
(* local variable its caller binds the result to.                          *)
(***************************************************************************)
EXTENDS VulkanCalls, GpuPolicy

-----------------------------------------------------------------------------
\* What the Drop of each wrapper releases, in order.
NativeInstance(n) == << <<"instance", n>> >>

LogicalDevice(n) == << <<"device", n>> >>

\* A pool is known by the flags it was created with, too.
NativeCommandPool(n, flags) == << <<"pool", n, flags>> >>

NativeFence(n) == << <<"fence", n>> >>

NativeSemaphore(n) == << <<"semaphore", n>> >>

NativeShaderModule(n) == << <<"shader", n>> >>

NativeDescriptorSetLayout(n) == << <<"set_layout", n>> >>

NativeDescriptorPool(n) == << <<"set_pool", n>> >>

NativePipelineLayout(n) == << <<"layout", n>> >>

NativeImageView(n) == << <<"view", n>> >>

NativeRenderPass(n) == << <<"render_pass", n>> >>

NativeFramebuffer(n) == << <<"framebuffer", n>> >>

NativeGraphicsPipeline(n) == << <<"pipeline", n>> >>

NativeDepthImage(n) == << <<"image", n>>, <<"memory", n>> >>

NativeBuffer(n) == << <<"buffer", n>>, <<"memory", n>> >>

VulkanLoader(n) == << <<"library", n>> >>

-----------------------------------------------------------------------------
\* The loader, the instance and the devices.
\* The library is a local when its two entry points are looked up.
load(n) ==
    << Create("dlopen", <<"library", n>>, <<>>), Own(n, VulkanLoader(n)),
       Command({"vkGetInstanceProcAddr", "vkGetDeviceProcAddr"}) >>

\* The entry point that destroys the instance is resolved after it exists,
\* and after the loader has been told to resolve through it.
create_instance(n) ==
    << Command({"vkCreateInstance"}), Create("vkCreateInstance", <<"instance", n>>, <<>>),
       Step("activate", {}, <<"instance", n>>, <<>>),
       Command({"vkDestroyInstance"}), Own(n, NativeInstance(n)) >>

\* A missing entry point means version 1.0, not an error; a failing call is one.
instance_api_version == << Step("optional", {"vkEnumerateInstanceVersion"}, <<>>, <<>>) >>

\* Count, no device, no room, handles.
enumerate_handles ==
    << Command({"vkEnumeratePhysicalDevices"}), Call("vkEnumeratePhysicalDevices", <<>>),
       Check, Check, Call("vkEnumeratePhysicalDevices", <<>>) >>

describe_device ==
    << Command({"vkGetPhysicalDeviceProperties",
                 "vkGetPhysicalDeviceQueueFamilyProperties"}) >>

devices_and_handles == enumerate_handles \o << Check >> \o describe_device

\* The instance lives for the length of the call; the loader keeps resolving
\* through it afterwards.
discover_physical_devices(n) ==
    create_instance(n) \o devices_and_handles \o << DropLocal(n) >>

create_logical_device(n) ==
    << Check, Check, Command({"vkCreateDevice", "vkDestroyDevice", "vkGetDeviceQueue"}),
       Create("vkCreateDevice", <<"device", n>>, <<>>), Own(n, LogicalDevice(n)) >>

queue == << Check >>

wait_idle == << Command({"vkDeviceWaitIdle"}), Slot("wait_idle", "vkDeviceWaitIdle") >>

\* The first of the best-scoring types that has every required property.
select_memory_type(types, compatible, required, preferred) ==
    BestIndex(types,
              LAMBDA i : i \in compatible /\ required \subseteq types[i],
              LAMBDA i : Cardinality(types[i] \cap preferred))

\* Only three of the driver's capability flags are kept.
enumerate_queue_families(raw) ==
    [i \in DOMAIN raw |-> [index |-> i,
                            flags |-> raw[i].flags \cap {"graphics", "compute", "transfer"},
                            count |-> raw[i].count]]

selection_score(device_type) ==
    CASE device_type = "discrete"   -> 4
      [] device_type = "integrated" -> 3
      [] device_type = "virtual"    -> 2
      [] device_type = "cpu"        -> 1
      [] OTHER                      -> 0

-----------------------------------------------------------------------------
\* Objects of the device.
create_shader_module(n) ==
    Creator(n, "vkCreateShaderModule", "vkDestroyShaderModule", NativeShaderModule(n))

\* No argument to check.
create_ui_descriptor_set_layout(n) ==
    Tail(Creator(n, "vkCreateDescriptorSetLayout", "vkDestroyDescriptorSetLayout",
                 NativeDescriptorSetLayout(n)))

create_ui_descriptor_pool(n) ==
    Tail(Creator(n, "vkCreateDescriptorPool", "vkDestroyDescriptorPool",
                 NativeDescriptorPool(n)))

create_voxel_compute_descriptor_pool(n) ==
    Tail(Creator(n, "vkCreateDescriptorPool", "vkDestroyDescriptorPool",
                 NativeDescriptorPool(n)))

create_voxel_compute_descriptor_set_layout(n) ==
    Tail(Creator(n, "vkCreateDescriptorSetLayout", "vkDestroyDescriptorSetLayout",
                 NativeDescriptorSetLayout(n)))

allocate_ui_set(pool) == DescriptorSet(<<"set", pool>>)

allocate_voxel_compute_set(pool) == DescriptorSet(<<"set", pool>>)

create_ui_pipeline_layout(n) ==
    Creator(n, "vkCreatePipelineLayout", "vkDestroyPipelineLayout", NativePipelineLayout(n))

create_voxel_compute_pipeline_layout(n) ==
    Creator(n, "vkCreatePipelineLayout", "vkDestroyPipelineLayout", NativePipelineLayout(n))

create_color_image_view(n) ==
    Creator(n, "vkCreateImageView", "vkDestroyImageView", NativeImageView(n))

create_depth_image_view(n) ==
    Creator(n, "vkCreateImageView", "vkDestroyImageView", NativeImageView(n))

create_ui_render_pass(n) ==
    Creator(n, "vkCreateRenderPass", "vkDestroyRenderPass", NativeRenderPass(n))

create_framebuffer(n) ==
    Creator(n, "vkCreateFramebuffer", "vkDestroyFramebuffer", NativeFramebuffer(n))

create_ui_graphics_pipeline(n) ==
    Creator(n, "vkCreateGraphicsPipelines", "vkDestroyPipeline", NativeGraphicsPipeline(n))

create_depth_image(n) ==
    MemoryBacked(n, "vkCreateImage", "vkDestroyImage", "vkGetImageMemoryRequirements",
                 "vkBindImageMemory", <<"image", n>>, <<"memory", n>>, NativeDepthImage(n))

create_buffer(n) ==
    MemoryBacked(n, "vkCreateBuffer", "vkDestroyBuffer", "vkGetBufferMemoryRequirements",
                 "vkBindBufferMemory", <<"buffer", n>>, <<"memory", n>>, NativeBuffer(n))

create_semaphore(n) ==
    LoaderCreator(n, "vkCreateSemaphore", {"vkDestroySemaphore"}, NativeSemaphore(n))

create_fence(n) ==
    LoaderCreator(n, "vkCreateFence",
                  {"vkDestroyFence", "vkWaitForFences", "vkResetFences"}, NativeFence(n))

\* flags is 0: without RESET_COMMAND_BUFFER_BIT the buffers of the pool may not
\* be reset one by one.
create_command_pool(n) ==
    LET flags == {}
    IN  LoaderCreator(n, "vkCreateCommandPool", {"vkDestroyCommandPool"},
                      NativeCommandPool(n, flags))

allocate_command_buffers(pool) ==
    << Command({"vkAllocateCommandBuffers"}),
       Create("vkAllocateCommandBuffers", <<"commands", pool>>, <<>>) >>

free_command_buffers(pool) ==
    << Command({"vkFreeCommandBuffers"}), Release(<<"commands", pool>>) >>

-----------------------------------------------------------------------------
\* Host writes, fences and submission.
\* Refused, by its check, unless the memory is coherent.
write_host_coherent(buffer) == HostWrite(buffer, TRUE)

write_host_visible(buffer, coherent) == HostWrite(buffer, coherent)

wait(f) == << [Slot("wait", "vkWaitForFences") EXCEPT !.what = f] >>

reset(f) == << [Slot("reset_fence", "vkResetFences") EXCEPT !.what = f] >>

queue_submit(f, ready) ==
    << Check, Command({"vkQueueSubmit"}),
       [Slot("submit", "vkQueueSubmit") EXCEPT !.what = [slot |-> f, ready |-> ready]] >>

-----------------------------------------------------------------------------
\* Command buffers.
reset_command_buffer(f) ==
    << Check, Command({"vkResetCommandBuffer"}),
       [Slot("reset_commands", "vkResetCommandBuffer") EXCEPT !.what = f] >>

begin_command_buffer(f) ==
    << Check, Command({"vkBeginCommandBuffer"}),
       [Slot("begin_commands", "vkBeginCommandBuffer") EXCEPT !.what = f] >>

end_command_buffer(f) ==
    << Check, Command({"vkEndCommandBuffer"}),
       [Slot("end_commands", "vkEndCommandBuffer") EXCEPT !.what = f] >>

cmd_dispatch == LoaderRecorded("vkCmdDispatch", <<"dispatch", "compute">>)

cmd_dispatch_device == Recorded("vkCmdDispatch", <<"dispatch", "compute">>)

cmd_bind_pipeline_device(pipeline) == Recorded("vkCmdBindPipeline", <<"bind", pipeline>>)

cmd_draw_indexed_indirect(buffer) ==
    LoaderRecorded("vkCmdDrawIndexedIndirect", <<"draw", buffer>>)

cmd_draw_indexed_indirect_device(buffer) ==
    Recorded("vkCmdDrawIndexedIndirect", <<"draw", buffer>>)

cmd_bind_vertex_buffer_device(buffer) ==
    Recorded("vkCmdBindVertexBuffers", <<"vertices", buffer>>)

cmd_draw_device(buffer) == Recorded("vkCmdDraw", <<"draw", buffer>>)

cmd_copy_buffer_device(buffer) ==
    << Check >> \o Recorded("vkCmdCopyBuffer", <<"copy", buffer>>)

cmd_buffer_barrier_device(buffer) ==
    Recorded("vkCmdPipelineBarrier", <<"barrier", buffer>>)

cmd_ui_draw == << Check >> \o DrawPass("ui_pipeline", "ui_device")

cmd_world_draw == << Check >> \o DrawPass("world_pipeline", "world_device")
=============================================================================
