------------------------------- MODULE UiPaint -------------------------------
(***************************************************************************)
(* From the tree to the packet the renderer gets: paint items, clips and   *)
(* batches (subsystems/ui/paint.rs), the glyphs of a text (text.rs), the   *)
(* resource table (resources.rs) and the byte stream with its dirty ranges.*)
(*                                                                         *)
(* Bytes are counted in units of 16: an item is five units, a glyph two,   *)
(* the chunk in which streams are compared two.  Every unit holds whole    *)
(* fields but one: glyph_count lies across the last two of an item, its    *)
(* value in the fourth.                                                    *)
(***************************************************************************)
EXTENDS UiLayout

CONSTANTS MaxClips, MaxPaintItems, MaxBatches   \* of UiConfig

Failed == [ok |-> FALSE]

-----------------------------------------------------------------------------
(* Resources: [id -> state], only the registered ones in the domain.       *)

register_resource(table, id, state) ==
    IF id \in DOMAIN table THEN [table EXCEPT ![id] = state]
    ELSE IF Cardinality(DOMAIN table) >= MaxNodes THEN table
    ELSE [i \in DOMAIN table \union {id} |-> IF i = id THEN state ELSE table[i]]

set_state(table, id, state) == IF id \in DOMAIN table THEN [table EXCEPT ![id] = state] ELSE table

resource_ready(table, id) == id \in DOMAIN table /\ table[id] = "ready"

-----------------------------------------------------------------------------
(* Painting.                                                               *)

\* shape_wrapped: a line must hold at least one glyph.
Shapes(c, width) == c.text < 0 \/ (c.text <= MaxGlyphs /\ Most(width, 1) \div 8 > 0)

Placeholder(c) == [kind |-> "rect", color |-> c.style.background, texture |-> None, font |-> None, glyphs |-> 0]

Drawn(t, table, id) ==
    LET c == content(t, id)
    IN  CASE c.kind \in {"root", "panel"} -> [Placeholder(c) EXCEPT !.kind = c.style.shape]
          [] c.kind = "text" ->
               IF c.font # None /\ ~resource_ready(table, c.font) THEN Placeholder(c)
               ELSE [kind |-> "glyphs", color |-> 1, texture |-> None,
                     font |-> IF c.font # None THEN c.font ELSE <<"font", 0>>, glyphs |-> Most(c.text, 0)]
          [] c.kind = "image" ->
               IF c.image # None /\ resource_ready(table, c.image)
               THEN [kind |-> "image", color |-> 1, texture |-> c.image, font |-> None, glyphs |-> 0]
               ELSE Placeholder(c)
          [] c.kind = "custom" -> [Placeholder(c) EXCEPT !.kind = "custom", !.color = 1]

\* One node: its clip, then its item and the one of its border.  Every node has
\* a clip, a hidden node too, and its children are painted all the same.
PaintNode(t, table, viewport, r, id) ==
    LET c      == content(t, id)
        up     == parent(t, id)
        within == IF up = None THEN viewport ELSE r.clips[r.clip[up]]
        clip   == Intersect(within, rect(t, id))
        hidden == ~c.visible \/ clip.w * clip.h <= 0
        drawn  == Drawn(t, table, id)
        item   == [node |-> id, rect |-> rect(t, id), clip |-> Len(r.clips), z |-> c.z_index, what |-> drawn]
        items  == IF hidden THEN <<>>
                  ELSE IF c.style.border
                  THEN <<item, [item EXCEPT !.what = [Placeholder(c) EXCEPT !.kind = "border"]]>>
                  ELSE <<item>>
    IN  IF ~r.ok \/ Len(r.clips) >= MaxClips
           \/ (~hidden /\ drawn.kind = "glyphs" /\ ~Shapes(c, rect(t, id).w))
           \/ Len(r.items) + Len(items) > MaxPaintItems
        THEN [r EXCEPT !.ok = FALSE]
        ELSE [r EXCEPT !.clips = Append(@, clip), !.clip = (id :> Len(r.clips) + 1) @@ @,
                       !.items = @ \o items]

\* Mutant: the clip is not part of the key, so items of two nodes share a batch.
KeyWithoutClip(item) == [texture |-> item.what.texture, font |-> item.what.font,
                         z |-> item.z, kind |-> item.what.kind]

\* The key of an item: the pass follows from the kind.
Key(item) == [clip |-> item.clip, texture |-> item.what.texture, font |-> item.what.font,
              z |-> item.z, kind |-> item.what.kind]

\* Items that follow each other with one key are one batch.
build_batches(items) ==
    LET add(b, k) ==
          IF b # <<>> /\ Last(b).key = Key(items[k])
          THEN [b EXCEPT ![Len(b)].count = @ + 1]
          ELSE Append(b, [key |-> Key(items[k]), first |-> k - 1, count |-> 1])
    IN  FoldLeft(add, <<>>, [k \in 1..Len(items) |-> k])

Glyphs(items) == SumOf([k \in 1..Len(items) |-> items[k].what.glyphs])
UploadUnits(items) == 5 * Len(items) + 2 * Glyphs(items)

\* build_with_resources and snapshot.  A clip is numbered from 0, the viewport's.
build_with_resources(t, table, viewport) ==
    LET r == FoldLeft(LAMBDA acc, id : PaintNode(t, table, viewport, acc, id),
                      [ok |-> MaxClips > 0, clips |-> <<viewport>>, clip |-> <<>>, items |-> <<>>],
                      preorder(t))
        batches == build_batches(r.items)
    IN  IF ~r.ok \/ Len(batches) > MaxBatches \/ UploadUnits(r.items) > MaxUploadUnits THEN Failed
        ELSE [ok |-> TRUE, items |-> r.items, clips |-> r.clips, batches |-> batches,
              upload |-> UploadUnits(r.items)]

-----------------------------------------------------------------------------
(* The byte stream.                                                        *)

\* Only the index of a texture or font is encoded, not its generation.
ItemUnits(s, k) ==
    LET i == s.items[k]
    IN  << <<"rect", i.rect>>, <<"clip", s.clips[i.clip + 1]>>, <<"color", i.what.color>>,
           <<"key", i.clip, i.z, i.what.kind, i.what.glyphs>>,
           <<"refs", Glyphs(SubSeq(s.items, 1, k - 1)), i.what.texture, i.what.font>> >>

\* The n glyphs of one run; what tells two apart is the position in the atlas.
RunUnits(n) == FlattenSeq([k \in 1..n |-> << <<"glyph", k>>, <<"pad">> >>])

encode_bytes(s) ==
    FlattenSeq([k \in 1..Len(s.items) |-> ItemUnits(s, k)])
      \o FlattenSeq([k \in 1..Len(s.items) |-> RunUnits(s.items[k].what.glyphs)])

\* slice.get(from..to), offsets from 0: nothing when it is not within the slice.
Get(s, from, to) == IF from <= to /\ to <= Len(s) THEN <<SubSeq(s, from + 1, to)>> ELSE None

Chunk == 2

Changed(current, old, start) ==
    LET end     == Least(start + Chunk, Len(current))
        old_end == Least(start + Chunk, Len(old))
    IN  Get(current, start, end) # Get(old, start, old_end) \/ (Len(current) # Len(old) /\ end # old_end)

\* The runs of chunks that changed, as [offset, bytes]; all of it the first time.
encode_dirty_ranges(s, previous) ==
    LET current == encode_bytes(s)
        old     == encode_bytes(previous)
        chunks  == (Most(Len(current), Len(old)) + Chunk - 1) \div Chunk
        Piece(from, to) == IF from < to THEN <<[offset |-> from, bytes |-> SubSeq(current, from + 1, to)]>>
                           ELSE <<>>
        step(r, k) ==
            LET start   == k * Chunk
                changed == Changed(current, old, start)
                pending == IF r.pending = -1 /\ changed THEN start ELSE r.pending
            IN  CASE changed /\ k + 1 = chunks -> [pending |-> -1, out |-> r.out \o Piece(pending, Len(current))]
                  [] ~changed /\ pending # -1 ->
                       [pending |-> -1, out |-> r.out \o Piece(pending, Least(start, Len(current)))]
                  [] OTHER -> [r EXCEPT !.pending = pending]
    IN  IF previous = Failed THEN <<[offset |-> 0, bytes |-> current]>>
        ELSE FoldLeft(step, [pending |-> -1, out |-> <<>>], [k \in 1..chunks |-> k - 1]).out
=============================================================================
