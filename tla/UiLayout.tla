------------------------------ MODULE UiLayout ------------------------------
(***************************************************************************)
(* Layout (subsystems/ui/layout.rs), hit testing and the routing of input  *)
(* (input.rs).  The two axes of a parent are its main one, along which its *)
(* children follow each other, and its cross one.                          *)
(***************************************************************************)
EXTENDS UiTree

CONSTANTS MaxGlyphs, MaxUploadUnits, MaxLayoutIterations   \* of UiConfig

Least(a, b) == IF a <= b THEN a ELSE b
Most(a, b) == IF a >= b THEN a ELSE b
Clamp(v, low, high) == Least(Most(v, low), high)

Right(r) == r.x + r.w
Bottom(r) == r.y + r.h
Covers(r, p) == p[1] >= r.x /\ p[2] >= r.y /\ p[1] < Right(r) /\ p[2] < Bottom(r)

Intersect(a, b) ==
    LET left == Most(a.x, b.x)
        top  == Most(a.y, b.y)
    IN  [x |-> left, y |-> top, w |-> Most(Least(Right(a), Right(b)) - left, 0),
         h |-> Most(Least(Bottom(a), Bottom(b)) - top, 0)]

Horizontal(e) == e.left + e.right
Vertical(e) == e.top + e.bottom
SumOf(s) == FoldLeft(LAMBDA a, b : a + b, 0, s)
MostOf(s) == FoldLeft(Most, 0, s)

\* UiLength::resolve, the alternative being taken for Auto and for a bad percentage.
Resolve(length, available, otherwise) ==
    CASE length[1] = "points" /\ length[2] >= 0 -> length[2]
      [] length[1] = "percent" /\ length[2] \in 0..100 -> (available * length[2]) \div 100
      [] OTHER -> otherwise

-----------------------------------------------------------------------------
(* The pass from the leaves up: the size of the content, 8 by 16 a glyph.  *)

Measured(t, sizes, id) ==
    LET c      == content(t, id)
        s      == c.style
        glyphs == Least(c.text, MaxGlyphs)
        kids   == children(t, id)
        widths  == [k \in 1..Len(kids) |-> sizes[kids[k]].w]
        heights == [k \in 1..Len(kids) |-> sizes[kids[k]].h]
        gaps   == s.gap * Most(Len(kids) - 1, 0)
        row    == s.direction = "row"
        w == Most(IF glyphs > 0 THEN Least(8 * glyphs, 16 * MaxUploadUnits) ELSE 0,
                  IF row THEN SumOf(widths) + gaps ELSE MostOf(widths))
        h == Most(IF glyphs > 0 THEN 16 ELSE 0,
                  IF row THEN MostOf(heights) ELSE SumOf(heights) + gaps)
    IN  [w |-> Least(w + Horizontal(s.padding), s.max_width),
         h |-> Least(h + Vertical(s.padding), s.max_height)]

measure(t) ==
    FoldLeft(LAMBDA sizes, id : [sizes EXCEPT ![id] = Measured(t, sizes, id)],
             [id \in Live(t) |-> [w |-> 0, h |-> 0]], Reverse(preorder(t)))

-----------------------------------------------------------------------------
(* The pass from the root down: a rectangle for every node.                *)

Inner(t, up) ==
    LET r == rect(t, up)
        p == content(t, up).style.padding
    IN  [x |-> r.x + p.left, y |-> r.y + p.top, w |-> Most(r.w - Horizontal(p), 0),
         h |-> Most(r.h - Vertical(p), 0)]

Sized(length, available, intrinsic, otherwise, low, high) ==
    LET least == Least(low, available)
    IN  Clamp(Resolve(length, available, IF intrinsic > 0 THEN intrinsic ELSE otherwise),
              least, Most(Least(high, available), least))

\* Mutant: the siblings after the node, placed by an earlier pass, are counted too.
OffsetOfAll(t, up, index) ==
    LET s == content(t, up).style
    IN  SumOf([k \in 1..Len(children(t, up)) |->
                 IF k = index THEN 0
                 ELSE LET r == rect(t, children(t, up)[k])
                      IN  (IF s.direction = "row" THEN r.w ELSE r.h) + s.gap])

\* Where the node starts along the main axis: after the siblings before it, as
\* this pass has placed them.
Offset(t, up, index) ==
    LET s == content(t, up).style
    IN  SumOf([k \in 1..index - 1 |->
                 LET r == rect(t, children(t, up)[k]) IN (IF s.direction = "row" THEN r.w ELSE r.h) + s.gap])

Aligned(align, available, size) ==
    CASE align = "center" -> Most(available - size, 0) \div 2
      [] align = "end" -> Most(available - size, 0)
      [] OTHER -> 0

Placed(t, sizes, id) ==
    LET up    == parent(t, id)
        s     == content(t, id).style
        ps    == content(t, up).style
        inner == Inner(t, up)
        kids  == children(t, up)
        row   == ps.direction = "row"
        share == Most((IF row THEN inner.w ELSE inner.h) - ps.gap * (Len(kids) - 1), 0) \div Len(kids)
        w == Sized(s.width, inner.w, sizes[id].w, IF row THEN share ELSE inner.w, s.min_width, s.max_width)
        h == Sized(s.height, inner.h, sizes[id].h, IF row THEN inner.h ELSE share, s.min_height, s.max_height)
        start == Offset(t, up, CHOOSE k \in DOMAIN kids : kids[k] = id)
        m     == s.margin
        w0    == Most(w - Horizontal(m), 0)
        h0    == Most(h - Vertical(m), 0)
        scroll == ps.overflow = "scroll"
        stretch == ps.align = "stretch"
    IN  IF s.position[1] = "absolute"
        THEN [x |-> inner.x + s.position[2] + m.left, y |-> inner.y + s.position[3] + m.top,
              w |-> w, h |-> h]
        ELSE [x |-> inner.x + m.left + (IF row THEN start ELSE Aligned(ps.align, inner.w, w0))
                      - (IF scroll THEN ps.scroll_x ELSE 0),
              y |-> inner.y + m.top + (IF row THEN Aligned(ps.align, inner.h, h0) ELSE start)
                      - (IF scroll THEN ps.scroll_y ELSE 0),
              w |-> IF stretch /\ ~row THEN Most(inner.w - Horizontal(m), 0) ELSE w0,
              h |-> IF stretch /\ row THEN Most(inner.h - Vertical(m), 0) ELSE h0]

\* The tree layout leaves.  A node whose content is not sane ends the pass: the
\* nodes before it have new rectangles, the others keep the old ones.
layout(t, viewport) ==
    LET sizes == measure(t)
        place(r, id) ==
            IF ~r.ok \/ ~StyleSane(content(r.tree, id).style) THEN [r EXCEPT !.ok = FALSE]
            ELSE [r EXCEPT !.tree = set_rect(@, id, Placed(@, sizes, id))]
        done == FoldLeft(place, [tree |-> set_rect(t, Root, viewport), ok |-> TRUE], Tail(preorder(t)))
    IN  [done EXCEPT !.ok = @ /\ 1 <= MaxLayoutIterations]

-----------------------------------------------------------------------------
(* Input.                                                                  *)

ancestors_allow_hit(t, id, p) ==
    \A k \in 2..Len(Path(t, id)) :
        LET a == Path(t, id)[k]
        IN  content(t, a).visible /\ (content(t, a).style.overflow = "visible" \/ Covers(rect(t, a), p))

\* Mutant: a node that is hidden itself is found.
HittableHidden(t, id, p) ==
    LET c == content(t, id)
    IN  c.hit_test /\ ~c.disabled /\ Covers(rect(t, id), p) /\ ancestors_allow_hit(t, id, p)

Hittable(t, id, p) ==
    LET c == content(t, id)
    IN  c.visible /\ c.hit_test /\ ~c.disabled /\ Covers(rect(t, id), p) /\ ancestors_allow_hit(t, id, p)

\* The highest z index, the latest in order among equals.
hit_test(t, p) ==
    LET order == preorder(t)
        hits  == {k \in DOMAIN order : Hittable(t, order[k], p)}
        z(k)  == content(t, order[k]).z_index
    IN  IF hits = {} THEN None
        ELSE order[CHOOSE k \in hits : \A j \in hits : z(k) > z(j) \/ (z(k) = z(j) /\ k >= j)]

NoFocus == [focused |-> None, captured |-> None]

clear_stale(f, t) ==
    [focused |-> IF contains(t, f.focused) THEN f.focused ELSE None,
     captured |-> IF contains(t, f.captured) THEN f.captured ELSE None]

\* An event with a point is a pointer event; "press" and "release" are its buttons.
route(f0, t, event) ==
    LET f == clear_stale(f0, t)
        target == IF f.captured # None THEN f.captured
                  ELSE IF event.point # None THEN hit_test(t, event.point) ELSE None
    IN  CASE event.op = "press" /\ target # None ->
               [captured |-> target,
                focused |-> IF content(t, target).focusable THEN target ELSE None]
          [] event.op = "release" -> [f EXCEPT !.captured = None]
          [] OTHER -> f
=============================================================================
