------------------------------ MODULE MCUiFrame ------------------------------
(***************************************************************************)
(* The scenarios in which UiFrame is checked.                              *)
(***************************************************************************)
EXTENDS UiFrame

Screen(w, h) == [x |-> 0, y |-> 0, w |-> w, h |-> h]
MCSizes == {Screen(48, 48), Screen(24, 48)}
MCPoints == {<<2, 2>>, <<30, 30>>}
MCButtons == {0, 1}
MCTexts == {0, 3, 5}
MCMeshSizes == {<<1, 1>>, <<2, 1>>}
MCGeometries == {(1 :> 3 @@ 2 :> 6), (1 :> 3), (1 :> 3 @@ 2 :> 0)}

Edges(n) == [left |-> n, right |-> n, top |-> n, bottom |-> n]
RowStyle == [DefaultStyle EXCEPT !.direction = "row", !.gap = 2, !.padding = Edges(4), !.align = "center",
                                 !.overflow = "clip"]
Narrow   == [DefaultStyle EXCEPT !.width = <<"points", 4>>, !.height = <<"percent", 50>>, !.margin = Edges(1),
                                 !.background = 2]
Floating == [DefaultStyle EXCEPT !.position = <<"absolute", 8, 8>>, !.width = <<"points", 16>>,
                                 !.border = TRUE, !.shape = "rounded"]
Scrolled == [DefaultStyle EXCEPT !.overflow = "scroll", !.scroll_y = 20, !.align = "end", !.max_height = 40]
Broken   == [DefaultStyle EXCEPT !.min_width = 2, !.max_width = 1]

Panel == NodeContent("panel")
Row == [Panel EXCEPT !.style = RowStyle]
Button == [Panel EXCEPT !.style = Floating, !.focusable = TRUE, !.z_index = 1]
Label == [NodeContent("text") EXCEPT !.text = 2]
Titled == [NodeContent("text") EXCEPT !.text = 1, !.font = <<"font", 1>>]
Picture == [NodeContent("image") EXCEPT !.image = <<"texture", 1>>]
Shapeless == [NodeContent("custom") EXCEPT !.disabled = TRUE]

MCContents == {Panel, Button}
MCStyles == {RowStyle, Narrow, Scrolled, Broken}

\* A row with a label and a button in it, and a panel after it.
Form == create(create(create(EmptyTree, Root, Row), <<2, 1>>, Label), <<2, 1>>, Button)
Media == create(create(create(EmptyTree, Root, Picture), Root, Titled), Root, Shapeless)

Entity(e, mesh, material) == [entity |-> e, mesh |-> mesh, material |-> material]
Small == <<Entity(1, 1, 1)>>
Large == <<Entity(1, 2, 1), Entity(2, 1, 2), Entity(3, 1, 1), Entity(4, 1, 2)>>
SomeWorlds == {w \in UNION {[1..n -> [entity : {0}, mesh : 0..2, material : 1..2]] : n \in 0..4} :
                 \A i \in DOMAIN w : w[i].mesh = 0 => w[i].material = 1}
Numbered(w) == [i \in DOMAIN w |-> [w[i] EXCEPT !.entity = i]]

Scenario(part, tree, ops, bounds) ==
    [part |-> part, tree |-> tree, ops |-> ops, bounds |-> bounds, size |-> Screen(48, 48),
     native |-> TRUE, worlds |-> {Small}, outcomes |-> {"presented"}]

Bounds(calls, messages, events, frames) ==
    [calls |-> calls, messages |-> messages, events |-> events, frames |-> frames]

Cases == <<
    \* the tree under every sequence of a few direct calls, then a frame
    Scenario("ui", EmptyTree, {"tree"}, Bounds(4, 0, 0, 1)),
    Scenario("ui", Form, {"tree", "insane"}, Bounds(2, 0, 0, 2)),
    \* deferred commands
    Scenario("ui", Form, {"command", "resize"}, Bounds(0, 2, 0, 2)),
    \* the mirror over frames that change, are skipped or lost
    [Scenario("ui", Form, {"change"}, Bounds(0, 2, 0, 3))
       EXCEPT !.worlds = {Small, Large}],
    \* the pointer, and a node destroyed under it
    Scenario("ui", Form, {"os", "tree"}, Bounds(1, 0, 3, 3)),
    \* assets that arrive late, and a swapchain that gets lost
    [Scenario("ui", Media, {"register", "asset"}, Bounds(2, 2, 0, 2)) EXCEPT !.outcomes = Outcomes],
    \* the world's entities
    [Scenario("ui", EmptyTree, {"upload"}, Bounds(2, 0, 0, 1))
       EXCEPT !.worlds = {Numbered(w) : w \in SomeWorlds}, !.native = FALSE],
    \* the renderer's own objects
    Scenario("frames", EmptyTree, {}, Bounds(0, 0, 0, 0)),
    Scenario("tables", EmptyTree, {}, Bounds(0, 0, 0, 0)) >>

MCScenarios == Cases
=============================================================================
