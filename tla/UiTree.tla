------------------------------- MODULE UiTree -------------------------------
(***************************************************************************)
(* The retained UI tree (subsystems/ui/tree.rs), the content of its nodes  *)
(* (components.rs) and the buffer of deferred commands (commands.rs).      *)
(*                                                                         *)
(* A tree is a value; an operation gives the tree it leaves, the same tree *)
(* when it returns an error.  A handle is <<index, generation>>, the index *)
(* counted from 1 (from 0 in the code).  f32 lengths are integers, and a   *)
(* value that is not finite does not occur; allocations do not fail.       *)
(***************************************************************************)
EXTENDS Integers, Sequences, SequencesExt

CONSTANTS
    MaxNodes, MaxDepth, MaxTextBytes, MaxCommands,   \* of UiConfig
    MaxUiGeneration                                  \* u32::MAX in the code

None == <<>>       \* no node, no texture, no font
Root == <<1, 1>>
Far  == 1000       \* f32::MAX, the default of max_width and max_height

ZeroRect == [x |-> 0, y |-> 0, w |-> 0, h |-> 0]

DefaultStyle ==
    [width |-> <<"auto", 0>>, height |-> <<"auto", 0>>, min_width |-> 0, min_height |-> 0,
     max_width |-> Far, max_height |-> Far, margin |-> [left |-> 0, right |-> 0, top |-> 0, bottom |-> 0],
     padding |-> [left |-> 0, right |-> 0, top |-> 0, bottom |-> 0], gap |-> 0,
     direction |-> "column", align |-> "stretch", position |-> <<"flow", 0, 0>>,
     background |-> 0, shape |-> "rect", border |-> FALSE,
     overflow |-> "visible", scroll_x |-> 0, scroll_y |-> 0]

\* UiNodeContent::new; text is the number of its characters, -1 without a text.
NodeContent(kind) ==
    [kind |-> kind, style |-> DefaultStyle, visible |-> TRUE, z_index |-> 0, text |-> -1,
     image |-> None, font |-> None, focusable |-> FALSE, disabled |-> FALSE, hit_test |-> TRUE,
     role |-> "none"]

NonNegative(s) == \A e \in DOMAIN s : s[e] >= 0

StyleSane(s) ==
    /\ NonNegative(s.margin) /\ NonNegative(s.padding) /\ s.gap >= 0
    /\ s.min_width >= 0 /\ s.min_height >= 0
    /\ s.max_width >= s.min_width /\ s.max_height >= s.min_height
    /\ s.scroll_x >= 0 /\ s.scroll_y >= 0

Node(id, parent, content) ==
    [id |-> id, parent |-> parent, children |-> <<>>, content |-> content, rect |-> ZeroRect,
     dirty |-> TRUE]

NoNode == [id |-> None]

EmptyTree ==
    [slots |-> <<Node(Root, None, NodeContent("root"))>>, generations |-> <<1>>, free |-> <<>>,
     count |-> 1]

-----------------------------------------------------------------------------
(* Reading the tree.                                                       *)

Live(t) == {t.slots[i].id : i \in {j \in 1..Len(t.slots) : t.slots[j] # NoNode}}

contains(t, id) ==
    id # None /\ id[1] \in 1..Len(t.slots) /\ t.generations[id[1]] = id[2] /\ t.slots[id[1]] # NoNode

\* node(): what content(), parent(), children() and rect() look at.
Has(t, id) == id # None /\ id[1] \in 1..Len(t.slots) /\ t.slots[id[1]].id = id

At(t, id) == t.slots[id[1]]
content(t, id) == At(t, id).content
parent(t, id) == At(t, id).parent
children(t, id) == At(t, id).children
rect(t, id) == At(t, id).rect

\* From a node up to the root.
Path(t, id) ==
    LET climb[k \in 0..Len(t.slots)] ==
          IF k = 0 THEN <<id>>
          ELSE LET p == climb[k - 1]
                   up == parent(t, Last(p))
               IN  IF up = None THEN p ELSE Append(p, up)
    IN  climb[Len(t.slots)]

\* depth() + 1 < MaxDepth; depth() itself fails from MaxDepth on.
RoomBelow(t, id) == Len(Path(t, id)) < MaxDepth

collect_subtree(t, id) ==
    LET sub[x \in Live(t)] ==
          <<x>> \o FlattenSeq([k \in 1..Len(children(t, x)) |-> sub[children(t, x)[k]]])
    IN  sub[id]

preorder(t) == collect_subtree(t, Root)

-----------------------------------------------------------------------------
(* Changing the tree.                                                      *)

Update(t, id, node) == [t EXCEPT !.slots[id[1]] = node]

mark_ancestors_dirty(t, id) ==
    FoldLeft(LAMBDA u, x : Update(u, x, [At(u, x) EXCEPT !.dirty = TRUE]), t, Path(t, id))

set_rect(t, id, r) == Update(t, id, [At(t, id) EXCEPT !.rect = r, !.dirty = FALSE])

Acceptable(c) == StyleSane(c.style) /\ c.text <= MaxTextBytes

CanCreate(t, up, c) ==
    contains(t, up) /\ Acceptable(c) /\ RoomBelow(t, up) /\ t.count < MaxNodes

\* The handle the next create gives: the slot freed last, or a new one.
NextHandle(t) ==
    IF t.free = <<>> THEN <<Len(t.slots) + 1, 1>> ELSE <<Last(t.free), t.generations[Last(t.free)]>>

create(t, up, c) ==
    LET id == NextHandle(t)
        grown == IF t.free # <<>> THEN [t EXCEPT !.free = Front(@)]
                 ELSE [t EXCEPT !.slots = Append(@, NoNode), !.generations = Append(@, 1)]
    IN  IF ~CanCreate(t, up, c) THEN t
        ELSE [Update(Update(grown, up, [At(t, up) EXCEPT !.children = Append(@, id)]), id, Node(id, up, c))
                EXCEPT !.count = @ + 1]

set_content(t, id, c) ==
    IF ~(Acceptable(c) /\ Has(t, id)) THEN t
    ELSE mark_ancestors_dirty(Update(t, id, [At(t, id) EXCEPT !.content = c]), id)

Without(s, id) == SelectSeq(s, LAMBDA x : x # id)

\* Mutant: the new parent may be below the node.
ReparentNoCycleCheck(t, id, up) ==
    IF ~(id # Root /\ contains(t, up) /\ Has(t, id) /\ RoomBelow(t, up)) THEN t
    ELSE LET old == parent(t, id)
             cut == Update(t, old, [At(t, old) EXCEPT !.children = Without(@, id)])
             put == Update(cut, up, [At(cut, up) EXCEPT !.children = Append(@, id)])
         IN  Update(put, id, [At(put, id) EXCEPT !.parent = up])

reparent(t, id, up) ==
    IF ~(id # Root /\ contains(t, up) /\ Has(t, id) /\ RoomBelow(t, up)
         /\ \A k \in DOMAIN Path(t, up) : Path(t, up)[k] # id) THEN t
    ELSE LET old == parent(t, id)
             cut == Update(t, old, [At(t, old) EXCEPT !.children = Without(@, id)])
             put == Update(cut, up, [At(cut, up) EXCEPT !.children = Append(@, id)])
         IN  mark_ancestors_dirty(Update(put, id, [At(put, id) EXCEPT !.parent = up]), id)

Freed(t, id) ==
    [t EXCEPT !.slots[id[1]] = NoNode, !.generations[id[1]] = @ + 1, !.free = Append(@, id[1]),
              !.count = @ - 1]

\* The whole subtree goes, the deepest nodes first, unless a generation is used up.
destroy(t, id) ==
    IF id = Root \/ ~Has(t, id) THEN t
    ELSE LET order == collect_subtree(t, id)
             old   == parent(t, id)
         IN  IF \E k \in DOMAIN order : t.generations[order[k][1]] = MaxUiGeneration THEN t
             ELSE FoldLeft(Freed, Update(t, old, [At(t, old) EXCEPT !.children = Without(@, id)]),
                           Reverse(order))

-----------------------------------------------------------------------------
(* Deferred commands.                                                      *)

\* content_mut() and an assignment: nothing is marked dirty.
Assign(t, id, c) == IF Has(t, id) THEN Update(t, id, [At(t, id) EXCEPT !.content = c]) ELSE t

Assigned(t, cmd, field) ==
    IF Has(t, cmd.node) THEN Assign(t, cmd.node, [content(t, cmd.node) EXCEPT ![field] = cmd.value])
    ELSE t

Apply1(t, cmd) ==
    CASE cmd.op = "create"   -> create(t, cmd.node, cmd.value)
      [] cmd.op = "destroy"  -> destroy(t, cmd.node)
      [] cmd.op = "reparent" -> reparent(t, cmd.node, cmd.value)
      [] cmd.op = "style"    -> IF StyleSane(cmd.value) THEN Assigned(t, cmd, "style") ELSE t
      [] cmd.op = "text"     -> IF cmd.value <= MaxTextBytes THEN Assigned(t, cmd, "text") ELSE t
      [] cmd.op = "visible"  -> Assigned(t, cmd, "visible")
      [] cmd.op = "z_index"  -> Assigned(t, cmd, "z_index")
      [] cmd.op = "role"     -> Assigned(t, cmd, "role")

\* UiCommandBuffer::apply: in order, and a command that fails is skipped.
apply(t, commands) == FoldLeft(Apply1, t, commands)

try_push(commands, cmd) == IF Len(commands) >= MaxCommands THEN commands ELSE Append(commands, cmd)
=============================================================================
