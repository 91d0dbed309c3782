----------------------------- MODULE VulkanCalls -----------------------------
(***************************************************************************)
(* The vocabulary in which the functions of the Vulkan bindings are        *)
(* written down.  A function is a sequence of steps; the module            *)
(* PresentEngine executes them one at a time and lets each fallible step   *)
(* fail.  What is kept of a binding is its control: the order in which it  *)
(* checks its arguments, resolves entry points and calls them, what it     *)
(* creates, what it releases by hand before an early return, and which     *)
(* value with a Drop implementation ends up owning the result.  The        *)
(* contents of the create-info structures are left out, but for the flags  *)
(* of a command pool.                                                      *)
(*                                                                         *)
(* An object is a pair <<kind, name>>; a command pool has its flags as a   *)
(* third part.  A wrapper is the sequence of the objects its Drop          *)
(* releases, in order.                                                     *)
(***************************************************************************)
EXTENDS Naturals, Sequences

Step(op, cmds, what, undo) ==
    [op |-> op, cmds |-> cmds, what |-> what, undo |-> undo]

\* An argument check, or a bounded allocation: an early return of Err.
Check == Step("check", {}, <<>>, <<>>)

\* A combination of arguments the function always refuses.
Refuse == Step("refuse", {}, <<>>, <<>>)

\* VulkanLoader::command for each of cmds, by way of the active instance.
Command(cmds) == Step("command", cmds, <<>>, <<>>)

\* VulkanLoader::device_command for each of cmds.
DeviceCommand(cmds) == Step("device_command", cmds, <<>>, <<>>)

\* A call that yields object o; undo is released by hand when it fails.
Create(cmd, o, undo) == Step("create", {cmd}, o, undo)

\* A fallible call that yields no object.
Call(cmd, undo) == Step("call", {cmd}, <<>>, undo)

\* An infallible call that ends object o.
Release(o) == Step("release", {}, o, <<>>)

\* `let name = wrapper`: from here on the early returns drop it.
Own(name, wrapper) == Step("own", {}, <<name, wrapper>>, <<>>)

\* Locals moved, in the order of the struct's fields, to the end of `name`.
Pack(name, fields) == Step("pack", {}, <<name, fields>>, <<>>)

\* The end of the scope of a local.
DropLocal(name) == Step("drop_local", {}, name, <<>>)

\* A command appended to the command buffer being recorded.
Record(entry) == Step("record", {}, entry, <<>>)

\* A step with an effect on a frame slot, executed by PresentEngine.
Slot(op, cmd) == Step(op, {cmd}, <<>>, <<>>)

(***************************************************************************)
(* The shapes that most bindings have.                                     *)
(***************************************************************************)

\* Both entry points first, then the object, then its wrapper: between the
\* creation and the wrapper nothing can fail.
Creator(name, create, destroy, wrapper) ==
    << Check, DeviceCommand({create, destroy}),
       Create(create, Head(wrapper), <<>>), Own(name, wrapper) >>

\* The same by way of the instance, for the bindings that resolve there.
LoaderCreator(name, create, others, wrapper) ==
    << Command({create} \union others),
       Create(create, Head(wrapper), <<>>), Own(name, wrapper) >>

\* Mutant: a failed bind forgets the memory.
MemoryBackedForgets(name, create, destroy, require, bind, res, mem, wrapper) ==
    << Create(create, res, <<>>), Create("vkAllocateMemory", mem, << res >>),
       Call(bind, << res >>), Own(name, wrapper) >>

\* A resource with memory of its own.  The memory properties are resolved
\* when the resource exists already, and an early return there keeps it.
MemoryBacked(name, create, destroy, require, bind, res, mem, wrapper) ==
    << Check,
       DeviceCommand({create, destroy, require, bind, "vkAllocateMemory", "vkFreeMemory"}),
       Create(create, res, <<>>),
       Command({"vkGetPhysicalDeviceMemoryProperties"}),
       Call("select_memory_type", << res >>),
       Create("vkAllocateMemory", mem, << res >>),
       Call(bind, << mem, res >>),
       Own(name, wrapper) >>

\* A descriptor set of a pool; the pool's destruction frees it.
DescriptorSet(set) ==
    << Check, DeviceCommand({"vkAllocateDescriptorSets"}),
       Create("vkAllocateDescriptorSets", set, <<>>),
       DeviceCommand({"vkUpdateDescriptorSets"}) >>

\* One command recorded through the device's dispatch table.
Recorded(cmd, entry) == << Check, DeviceCommand({cmd}), Record(entry) >>

\* One command recorded through the instance's dispatch.
LoaderRecorded(cmd, entry) == << Check, Command({cmd}), Record(entry) >>

\* Bytes copied into a buffer's memory while it is mapped.  Memory that is
\* not coherent is flushed before it is unmapped; an entry point missing
\* at that place leaves the memory mapped.
HostWrite(buffer, coherent) ==
    LET map == <<"map", buffer>>
    IN  << Check, DeviceCommand({"vkMapMemory", "vkUnmapMemory"}),
           Create("vkMapMemory", map, <<>>), Step("write", {}, buffer, <<>>) >>
        \o (IF coherent THEN <<>>
            ELSE << DeviceCommand({"vkFlushMappedMemoryRanges"}),
                    Call("vkFlushMappedMemoryRanges", << map >>) >>)
        \o << Release(map) >>

\* A whole render pass that draws from one storage buffer.
DrawPass(pipeline, buffer) ==
    << Check,
       DeviceCommand({"vkCmdBeginRenderPass", "vkCmdEndRenderPass", "vkCmdBindPipeline",
                      "vkCmdBindDescriptorSets", "vkCmdPushConstants", "vkCmdDraw"}),
       Record(<<"begin_pass", pipeline>>), Record(<<"bind", pipeline>>),
       Record(<<"draw", buffer>>), Record(<<"end_pass", pipeline>>) >>
=============================================================================
