------------------------------- MODULE UiFrame -------------------------------
(***************************************************************************)
(* One frame after another through the subsystems that put a UI on the     *)
(* screen: window, input, ui and renderer tick in this order (their        *)
(* dependencies allow no other) and talk over the message bus, which       *)
(* delivers at once or loses the message when the inbox is full.  Between  *)
(* frames the operating system queues events, the game calls the tree or   *)
(* sends messages.                                                         *)
(*                                                                         *)
(* The renderer's other state machines (RenderResources) take their steps  *)
(* in scenarios of their own.                                              *)
(***************************************************************************)
EXTENDS UiPaint, RenderManifest, RenderResources

CONSTANTS
    Scenarios,       \* a sequence of them: what may happen, and how often
    Contents,        \* contents for new nodes
    Styles, Texts, Sizes, Points, Buttons,
    Geometries,      \* index counts of meshes: [mesh -> count]
    InboxCapacity,   \* 64 in the code
    MirrorCapacity   \* UI_UPLOAD_CAPACITY, in units of 16 bytes

VARIABLES
    scenario,  \* the number of the scenario
    left,      \* bounds: calls, messages, events and frames left
    phase,     \* the subsystem to tick next, or "between" frames, "new", "stopped"
    window,    \* size, and whether a resize waits
    input,     \* InputSubsystem: pending events, current and previous buttons
    uiInbox, renderInbox,
    ui,        \* UiSubsystem
    renderer,  \* RendererSubsystem
    mirror,    \* the UI packet in the presentation engine
    staging,   \* the caller's buffers for the encoded upload
    dead,      \* history: handles of destroyed nodes
    lostInput  \* history: an InputFrame was lost

frameVars == <<scenario, left, phase, window, input, uiInbox, renderInbox, ui, renderer, mirror,
               staging, dead, lostInput>>
vars == <<frameVars, resourceVars>>

Scene == Scenarios[scenario]

NoPacket == [snapshot |-> Failed, ranges |-> <<>>, serial |-> 0, base |-> 0]

Init ==
    /\ scenario \in DOMAIN Scenarios
    /\ left = Scene.bounds
    /\ phase = "new"
    /\ window = [size |-> Scene.size, resized |-> FALSE]
    /\ input = [pending |-> <<>>, point |-> <<0, 0>>, buttons |-> {}, previous |-> {}, keys |-> 0]
    /\ uiInbox = <<>> /\ renderInbox = <<>>
    /\ ui = [tree |-> Scene.tree, commands |-> <<>>, focus |-> NoFocus, textures |-> <<>>,
             fonts |-> <<>>, viewport |-> Scene.size, packet |-> NoPacket]
    /\ renderer = [state |-> "new", size |-> Scene.size, packet |-> NoPacket,
                   world |-> <<>>, prep |-> Unprepared, overflowed |-> FALSE,
                   submission |-> "none"]
    /\ mirror = [bytes |-> <<>>, draws |-> <<>>, applied |-> 0, chain |-> TRUE]
    /\ staging = [ok |-> FALSE, instances |-> <<>>, commands |-> <<>>, workgroups |-> 0]
    /\ dead = {} /\ lostInput = FALSE
    /\ ResourcesInit

Spent(what) == left[what] > 0 /\ left' = [left EXCEPT ![what] = @ - 1]

\* MessageBus::publish to an inbox: the message is gone when it is full.
Sent(inbox, m) == IF Len(inbox) < InboxCapacity THEN Append(inbox, m) ELSE inbox

-----------------------------------------------------------------------------
(* Between frames.                                                         *)

RendererInit ==
    /\ phase = "new" /\ Scene.part = "ui"
    /\ renderer' = [renderer EXCEPT !.state = "ready"]
    /\ phase' = "between"
    /\ UNCHANGED <<scenario, left, window, input, uiInbox, renderInbox, ui, mirror, staging, dead,
                   lostInput, resourceVars>>

RendererShutdown ==
    /\ phase = "between" /\ left.frames = 0
    /\ renderer' = [renderer EXCEPT !.state = "shutdown"]
    /\ phase' = "stopped"
    /\ UNCHANGED <<scenario, left, window, input, uiInbox, renderInbox, ui, mirror, staging, dead,
                   lostInput, resourceVars>>

\* The handles a game may hold: those of live and of destroyed nodes.
Handles == Live(ui.tree) \union dead

\* tree_mut() and resources_mut(): the game's own changes, done at once.
TreeCall ==
    /\ phase = "between" /\ "tree" \in Scene.ops /\ Spent("calls")
    /\ \E id \in Handles :
         \/ \E c \in Contents : ui' = [ui EXCEPT !.tree = create(@, id, c)]
         \/ ui' = [ui EXCEPT !.tree = destroy(@, id)]
         \/ \E up \in Handles : ui' = [ui EXCEPT !.tree = reparent(@, id, up)]
         \/ \E c \in Contents : ui' = [ui EXCEPT !.tree = set_content(@, id, c)]
         \/ "insane" \in Scene.ops /\ \E c \in Contents :
              ui' = [ui EXCEPT !.tree = Assign(@, id, [c EXCEPT !.style.gap = -1])]
    /\ dead' = dead \union (Live(ui.tree) \ Live(ui'.tree))
    /\ UNCHANGED <<scenario, phase, window, input, uiInbox, renderInbox, renderer, mirror, staging,
                   lostInput, resourceVars>>

Register ==
    /\ phase = "between" /\ "register" \in Scene.ops /\ Spent("calls")
    /\ \/ ui' = [ui EXCEPT !.textures = register_resource(@, <<"texture", 1>>, "loading")]
       \/ ui' = [ui EXCEPT !.fonts = register_resource(@, <<"font", 1>>, "loading")]
    /\ UNCHANGED <<scenario, phase, window, input, uiInbox, renderInbox, renderer, mirror, staging,
                   dead, lostInput, resourceVars>>

Command(op, id, v) == [topic |-> "command", op |-> op, node |-> id, value |-> v]

Messages ==
    UNION {
      IF "command" \in Scene.ops
      THEN UNION {{Command("create", id, c) : c \in Contents} \union {Command("destroy", id, None)}
                    \union {Command("reparent", id, up) : up \in Handles} : id \in Handles}
      ELSE {},
      IF "change" \in Scene.ops
      THEN UNION {{Command("style", id, s) : s \in Styles} \union {Command("text", id, n) : n \in Texts}
                    \union {Command("visible", id, b) : b \in BOOLEAN}
                    \union {Command("z_index", id, z) : z \in 0..1}
                    \union {Command("role", id, "button")} : id \in Handles}
      ELSE {},
      IF "asset" \in Scene.ops
      THEN {[topic |-> "asset", id |-> i, state |-> s] :
              i \in {<<"texture", 1>>, <<"font", 1>>}, s \in {"ready", "failed"}}
      ELSE {},
      IF "resize" \in Scene.ops THEN {[topic |-> "resize", size |-> s] : s \in Sizes \union {ZeroRect}} ELSE {} }

\* A game or driver subsystem publishes to the ui.
Message ==
    /\ phase = "between" /\ Spent("messages")
    /\ \E m \in Messages : uiInbox' = Sent(uiInbox, m)
    /\ UNCHANGED <<scenario, phase, window, input, renderInbox, ui, renderer, mirror, staging, dead,
                   lostInput, resourceVars>>

\* The driver queues an event for the input or a new size for the window.
OsEvent ==
    /\ phase = "between" /\ "os" \in Scene.ops /\ Spent("events")
    /\ \/ \E e \in [op : {"move"}, point : Points] \union [op : {"press", "release"}, button : Buttons]
                   \union [op : {"key"}] :
            input' = [input EXCEPT !.pending = Append(@, e)] /\ UNCHANGED window
       \/ \E s \in Sizes : window' = [size |-> s, resized |-> TRUE] /\ UNCHANGED input
    /\ UNCHANGED <<scenario, phase, uiInbox, renderInbox, ui, renderer, mirror, staging, dead,
                   lostInput, resourceVars>>

\* The latest preparation is encoded into the caller's buffers.
Upload ==
    /\ phase = "between" /\ "upload" \in Scene.ops /\ Spent("calls")
    /\ \E g \in Geometries, size \in {0, 2} :
         staging' = try_encode_into(renderer.prep, g, size, staging)
    /\ UNCHANGED <<scenario, phase, window, input, uiInbox, renderInbox, ui, renderer, mirror, dead,
                   lostInput, resourceVars>>

-----------------------------------------------------------------------------
(* The ticks of window and input.                                          *)

\* The renderer is told the latest size, once a frame; the ui is not told.
WindowTick ==
    /\ phase = "between" /\ Spent("frames")
    /\ renderInbox' = IF window.resized THEN Sent(renderInbox, [topic |-> "resize", size |-> window.size])
                      ELSE renderInbox
    /\ window' = [window EXCEPT !.resized = FALSE]
    /\ phase' = "input"
    /\ UNCHANGED <<scenario, input, uiInbox, ui, renderer, mirror, staging, dead, lostInput, resourceVars>>

\* try_apply of one event.
Applied(s, e) ==
    CASE e.op = "move" -> [s EXCEPT !.point = e.point]
      [] e.op = "press" -> [s EXCEPT !.buttons = @ \union {e.button}]
      [] e.op = "release" -> [s EXCEPT !.buttons = @ \ {e.button}]
      [] e.op = "key" -> [s EXCEPT !.keys = @ + 1]

\* Mutant: the buttons of the frame before are not kept, so no release is seen.
PreviousForgotten(s) == [s EXCEPT !.pending = <<>>, !.keys = 0]

\* What is left for the next frame to compare with.
Settled(s) == [s EXCEPT !.pending = <<>>, !.previous = s.buttons, !.keys = 0]

\* Presses and releases are differences of two frames: a button pressed and
\* released within one is never seen.
InputTick ==
    /\ phase = "input"
    /\ \E s \in {FoldLeft(Applied, input, input.pending)} :
         /\ input' = Settled(s)
         /\ uiInbox' = Sent(uiInbox, [topic |-> "input", point |-> s.point, pressed |-> s.buttons \ s.previous,
                                      released |-> s.previous \ s.buttons, keys |-> s.keys])
    /\ lostInput' = (lostInput \/ Len(uiInbox) >= InboxCapacity)
    /\ phase' = "ui"
    /\ UNCHANGED <<scenario, left, window, renderInbox, ui, renderer, mirror, staging, dead,
                   resourceVars>>

-----------------------------------------------------------------------------
(* The tick of the ui.                                                     *)

\* The pointer moves, then every button in turn, pressed before released.
RouteFrame(t, focus, m) ==
    LET moved == route(focus, t, [op |-> "move", point |-> m.point])
        button(f, b) ==
            LET p == IF b \in m.pressed THEN route(f, t, [op |-> "press", point |-> m.point]) ELSE f
            IN  IF b \in m.released THEN route(p, t, [op |-> "release", point |-> m.point]) ELSE p
        clicked == FoldLeft(button, moved, SetToSortSeq(Buttons, <))
    IN  IF m.keys > 0 THEN route(clicked, t, [op |-> "key", point |-> None]) ELSE clicked

Receive(u, m) ==
    CASE m.topic = "resize" -> u
      [] m.topic = "input" -> [u EXCEPT !.focus = RouteFrame(u.tree, @, m)]
      [] m.topic = "asset" -> IF m.id[1] = "texture" THEN [u EXCEPT !.textures = set_state(@, m.id, m.state)]
                              ELSE [u EXCEPT !.fonts = set_state(@, m.id, m.state)]
      [] m.topic = "command" -> [u EXCEPT !.commands = try_push(@, m)]

\* The last size received counts, and is ignored when it is empty.
Resized(viewport, inbox) ==
    LET sizes == SelectSeq(inbox, LAMBDA m : m.topic = "resize")
    IN  IF sizes # <<>> /\ Last(sizes).size.w > 0 /\ Last(sizes).size.h > 0 THEN Last(sizes).size
        ELSE viewport

\* The packet of this tick; none when the frame could not be painted.
PacketOf(previous, snapshot) ==
    IF snapshot = Failed THEN NoPacket
    ELSE [snapshot |-> snapshot, ranges |-> encode_dirty_ranges(snapshot, previous.snapshot),
          serial |-> Scene.bounds.frames - left.frames, base |-> previous.serial]

\* Messages, commands, layout (whose failure only leaves old rectangles), paint,
\* and the packet published.
UiTick ==
    /\ phase = "ui"
    /\ \E got \in {FoldLeft(Receive, [ui EXCEPT !.viewport = Resized(@, uiInbox)], uiInbox)} :
       \E tree \in {apply(got.tree, got.commands)} :
       \E laid \in {layout(tree, got.viewport)} :
       \E packet \in {PacketOf(ui.packet,
                         build_with_resources(laid.tree, got.textures @@ got.fonts, got.viewport))} :
         /\ ui' = [got EXCEPT !.tree = laid.tree, !.commands = <<>>, !.focus = clear_stale(@, tree),
                              !.packet = packet]
         /\ dead' = dead \union (Live(ui.tree) \ Live(tree))
         /\ renderInbox' = IF packet = NoPacket THEN renderInbox
                           ELSE Sent(renderInbox, [topic |-> "packet", packet |-> packet])
    /\ uiInbox' = <<>>
    /\ phase' = "renderer"
    /\ UNCHANGED <<scenario, left, window, input, renderer, mirror, staging, lostInput, resourceVars>>

-----------------------------------------------------------------------------
(* The tick of the renderer.                                               *)

Heard(r, m) == IF m.topic = "resize" THEN [r EXCEPT !.size = m.size] ELSE [r EXCEPT !.packet = m.packet]

\* Whether the mirror was the packet before this one, or is this one already,
\* or does not matter because the packet is complete.
Follows(packet) == packet.base = 0 \/ (mirror.chain /\ mirror.applied \in {packet.base, packet.serial})

\* NativeLane::submit, up to present_frame: the mirror it leaves and whether it
\* gets there.  Without a packet the mirror is cleared.
Mirrored(packet) ==
    IF packet = NoPacket \/ ~PlanBuilds(packet.snapshot)
    THEN [go |-> TRUE, mirror |-> [bytes |-> <<>>, draws |-> <<>>, applied |-> 0, chain |-> TRUE]]
    ELSE IF packet.snapshot.upload > MirrorCapacity THEN [go |-> FALSE, mirror |-> mirror]
    ELSE [go |-> TRUE,
          mirror |-> [bytes |-> set_ui_upload_ranges(mirror.bytes, packet.ranges, packet.snapshot.upload),
                      draws |-> build_draw_commands(packet.snapshot),
                      applied |-> packet.serial, chain |-> Follows(packet)]]

\* What the engine makes of present_frame.  An out-of-date swapchain is
\* recreated at the size last heard, and the submission before stays the last.
Outcomes == {"presented", "out_of_date", "lost"}

RendererTick ==
    /\ phase = "renderer" /\ renderer.state = "ready"
    /\ \E world \in Scene.worlds, outcome \in Scene.outcomes :
       \E heard \in {FoldLeft(Heard, renderer, renderInbox)} :
       \E extracted \in {extract_typed(world)} :
       \E manifest \in {build_manifest(extracted.instances)} :
       \E prep \in {IF extracted.ok /\ manifest.ok THEN prepare(manifest) ELSE renderer.prep} :
       \E lane \in {Mirrored(heard.packet)}, over \in {~(extracted.ok /\ manifest.ok /\ prep.ok)} :
         /\ mirror' = IF over \/ ~Scene.native THEN mirror ELSE lane.mirror
         /\ renderer' = [heard EXCEPT !.world = extracted.instances, !.prep = prep, !.overflowed = over,
              !.submission = IF over \/ (Scene.native /\ lane.go /\ outcome = "out_of_date") THEN @
                             ELSE IF Scene.native /\ (~lane.go \/ outcome = "lost") THEN "none"
                             ELSE "frame"]
    /\ renderInbox' = <<>>
    /\ phase' = "between"
    /\ UNCHANGED <<scenario, left, window, input, uiInbox, ui, staging, dead, lostInput, resourceVars>>

ResourceStep ==
    /\ Scene.part # "ui"
    /\ \/ Scene.part = "frames" /\ (FrameStep \/ SurfaceStep \/ PoolStep)
       \/ Scene.part = "tables" /\ (MeshStep \/ MaterialStep)
    /\ UNCHANGED frameVars

Next ==
    \/ RendererInit \/ RendererShutdown
    \/ TreeCall \/ Register \/ Message \/ OsEvent \/ Upload
    \/ WindowTick \/ InputTick \/ UiTick \/ RendererTick
    \/ ResourceStep

Spec == Init /\ [][Next]_vars

-----------------------------------------------------------------------------
(* Properties.                                                             *)

\* Whatever was created, moved and destroyed, directly or by commands, the slots
\* of the tree (UiTree) hold one tree: from the root every live node is reached
\* once, parents and children name each other, and the free slots are the rest.
\* The handle of a destroyed node is refused for good, also after its slot was
\* used again.
TreeInv ==
    LET t == ui.tree
        order == preorder(t)
        free == {i \in DOMAIN t.slots : t.slots[i] = NoNode}
    IN  /\ ToSet(order) = Live(t) /\ Len(order) = t.count /\ Cardinality(Live(t)) = t.count
        /\ t.count <= MaxNodes
        /\ \A id \in Live(t) : contains(t, id) /\ Has(t, id)
        /\ \A id \in Live(t) : \A k \in DOMAIN children(t, id) : parent(t, children(t, id)[k]) = id
        /\ ToSet(t.free) = free /\ Cardinality(free) = Len(t.free)
        /\ \A id \in dead : ~contains(t, id) /\ ~Has(t, id)

\* After a tick neither the focus nor the capture (UiFocusCapture) holds a node
\* that was destroyed, and no node keeps the pointer once every button is up:
\* the release reaches route through two subsystems and a frame, unless the bus
\* lost an InputFrame.
FocusIsLive ==
    phase = "renderer" =>
        /\ ui.focus.focused \notin dead /\ ui.focus.captured \notin dead
        /\ input.buttons = {} /\ ~lostInput => ui.focus.captured = None

Unplaced(t) == [t EXCEPT !.slots = [i \in DOMAIN @ |-> IF @[i] = NoNode THEN NoNode ELSE [@[i] EXCEPT !.rect = ZeroRect]]]

\* The rectangles a layout gives (UiLayoutEngine::layout) depend on the tree and
\* the viewport, not on the rectangles of the frame before.
LayoutForgetsPast ==
    phase = "renderer" =>
        LET again == layout(Unplaced(ui.tree), ui.viewport)
        IN  again.ok => \A id \in Live(ui.tree) : rect(again.tree, id) = rect(ui.tree, id)

\* What the pointer hits is on the screen there: a node found by hit_test, none
\* of whose ancestors ends before the point, has an item whose clip covers it.
HitIsPainted ==
    phase = "renderer" /\ ui.packet # NoPacket =>
        LET s == ui.packet.snapshot
        IN  \A p \in Points :
               LET id == hit_test(ui.tree, p)
               IN  id # None /\ (\A k \in DOMAIN Path(ui.tree, id) : Covers(rect(ui.tree, Path(ui.tree, id)[k]), p))
                     => \E k \in DOMAIN s.items : s.items[k].node = id /\ Covers(s.clips[s.items[k].clip + 1], p)

\* The renderer accepts every packet the ui paints (UiCommandPlan::try_build):
\* batches follow each other without a gap, and no batch crosses a clip, a
\* texture, a font, a z index or a kind.
PacketIsDrawable ==
    ui.packet # NoPacket =>
        LET s == ui.packet.snapshot
        IN  /\ PlanBuilds(s)
            /\ \A b \in DOMAIN s.batches :
                 \A i, j \in s.batches[b].first + 1 .. s.batches[b].first + s.batches[b].count :
                    /\ s.items[i].clip = s.items[j].clip /\ s.items[i].z = s.items[j].z
                    /\ s.items[i].what.kind = s.items[j].what.kind
                    /\ s.items[i].what.texture = s.items[j].what.texture
                    /\ s.items[i].what.font = s.items[j].what.font

\* The dirty ranges put together over the frames (encode_dirty_ranges, then
\* set_ui_upload_ranges) give the bytes of the latest snapshot, as long as every
\* packet was applied: after a lost packet, or a frame the renderer skipped
\* because the world did not fit, only the next complete packet repairs it.
MirrorFollowsUi ==
    mirror.applied > 0 /\ mirror.chain /\ mirror.applied = renderer.packet.serial =>
        /\ mirror.bytes = encode_bytes(renderer.packet.snapshot)
        /\ Len(mirror.draws) = Len(renderer.packet.snapshot.batches)

\* A frame is prepared whenever the entities fit, and draws each of them once
\* with its own mesh and material, all that share both in one command
\* (CpuRenderManifest::build, prepare); an upload that was encoded stays within
\* its instances.
EntitiesDrawnOnce ==
    LET p == renderer.prep
    IN  /\ phase = "between" /\ ~renderer.overflowed /\ p.ok =>
             /\ ToSet(p.instances) = ToSet(renderer.world) /\ Len(p.instances) = Len(renderer.world)
             /\ \A i \in 1..Len(p.instances) :
                  Cardinality({k \in DOMAIN p.commands :
                     /\ i - 1 \in p.commands[k].first .. p.commands[k].first + p.commands[k].count - 1
                     /\ p.commands[k].mesh = p.instances[i].mesh
                     /\ p.commands[k].material = p.instances[i].material}) = 1
             /\ \A j, k \in DOMAIN p.commands :
                  j # k => <<p.commands[j].mesh, p.commands[j].material>> # <<p.commands[k].mesh, p.commands[k].material>>
        /\ staging.ok => \A k \in DOMAIN staging.commands :
             staging.commands[k].first + staging.commands[k].count <= Len(staging.instances)
        /\ renderer.overflowed => Len(renderer.world) = MaxInstances
=============================================================================
