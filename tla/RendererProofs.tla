--------------------------- MODULE RendererProofs ---------------------------
(***************************************************************************)
(* The renderer's objects (module RenderResources) within the frames of    *)
(* UiFrame, for any capacities, mesh sizes and generation limit: the five  *)
(* objects of a frame in flight move together, and the tables of meshes    *)
(* and materials keep their entries apart.  Last, the choices both         *)
(* platforms share (module GpuPolicy), for every answer of a driver.       *)
(***************************************************************************)
EXTENDS UiFrame, NatSets

-----------------------------------------------------------------------------
(* What a step of the whole system does to the renderer's objects.         *)

ResourceMove == FrameStep \/ SurfaceStep \/ PoolStep \/ MeshStep \/ MaterialStep

LEMMA NextMoves ==
  ASSUME [Next]_vars
  PROVE  ResourceMove \/ UNCHANGED resourceVars
<1>1. CASE RendererInit
  BY <1>1, Zenon DEF RendererInit
<1>2. CASE RendererShutdown
  BY <1>2, Zenon DEF RendererShutdown
<1>3. CASE TreeCall
  BY <1>3, Zenon DEF TreeCall
<1>4. CASE Register
  BY <1>4, Zenon DEF Register
<1>5. CASE Message
  BY <1>5, Zenon DEF Message
<1>6. CASE OsEvent
  BY <1>6, Zenon DEF OsEvent
<1>7. CASE Upload
  BY <1>7, Zenon DEF Upload
<1>8. CASE WindowTick
  BY <1>8, Zenon DEF WindowTick
<1>9. CASE InputTick
  BY <1>9, Zenon DEF InputTick
<1>10. CASE UiTick
  BY <1>10, Zenon DEF UiTick
<1>11. CASE RendererTick
  BY <1>11, Zenon DEF RendererTick
<1>12. CASE ResourceStep
  BY <1>12, Zenon DEF ResourceStep, ResourceMove
<1>13. CASE UNCHANGED vars
  BY <1>13, Zenon DEF vars
<1>14. QED
  BY <1>1, <1>2, <1>3, <1>4, <1>5, <1>6, <1>7, <1>8, <1>9, <1>10, <1>11, <1>12, <1>13, Zenon DEF Next

-----------------------------------------------------------------------------
(* A frame in flight.                                                      *)

FrameType ==
  [command : {"initial", "recording", "executable", "submitted"},
   slot : {"available", "acquired", "submitted"},
   wait : BOOLEAN, signal : BOOLEAN, fence : {"unsignalled", "submitted"}]

Agree(f) ==
  /\ (f.fence = "submitted") = (f.command = "submitted")
  /\ f.signal = (f.command = "submitted")
  /\ (f.slot = "submitted") = (f.command = "submitted")
  /\ f.slot = "available" => f.command = "initial" /\ f.fence = "unsignalled"

FrameIInv == frame \in FrameType /\ Agree(frame)

LEMMA BeginAgrees ==
  ASSUME NEW f \in FrameType, Agree(f)
  PROVE  begin(f) \in FrameType /\ Agree(begin(f))
BY DEF begin, FrameType, Agree

LEMMA SubmitAgrees ==
  ASSUME NEW f \in FrameType, Agree(f)
  PROVE  submit(f) \in FrameType /\ Agree(submit(f))
<1> DEFINE e == [f EXCEPT !.command = "executable"]
           s == [e EXCEPT !.command = "submitted", !.wait = FALSE, !.signal = TRUE, !.fence = "submitted"]
           g == [s EXCEPT !.slot = "submitted"]
<1>1. submit_frame(e) = e \/ submit_frame(e) = s
  BY Zenon DEF submit_frame
<1>2. submit(f) = IF f.command # "recording" THEN f
                  ELSE IF submit_frame(e) = e THEN e
                  ELSE [submit_frame(e) EXCEPT !.slot = IF @ = "acquired" THEN "submitted" ELSE @]
  BY Zenon DEF submit
<1>3. CASE f.command = "recording"
  <2>1. f.slot = "acquired" /\ ~f.signal /\ f.fence = "unsignalled"
    BY <1>3 DEF FrameType, Agree
  <2>2. e \in FrameType /\ Agree(e)
    BY <1>3, <2>1 DEF FrameType, Agree
  <2>3. s.slot = "acquired"
    BY <2>1 DEF FrameType
  <2>4. g \in FrameType /\ Agree(g)
    BY <2>1 DEF FrameType, Agree
  <2>5. submit(f) = e \/ submit(f) = g
    <3>1. CASE submit_frame(e) = e
      BY <1>2, <1>3, <3>1, Zenon
    <3>2. CASE submit_frame(e) # e
      <4>1. submit(f) = [s EXCEPT !.slot = IF s.slot = "acquired" THEN "submitted" ELSE s.slot]
        BY <1>1, <1>2, <1>3, <3>2, Zenon
      <4>2. QED
        BY <2>3, <4>1, Zenon
    <3>3. QED
      BY <3>1, <3>2
  <2>6. QED
    BY <2>2, <2>4, <2>5, Zenon
<1>4. QED
  BY <1>2, <1>3, Zenon

LEMMA CompleteAgrees ==
  ASSUME NEW f \in FrameType, Agree(f)
  PROVE  complete(f) \in FrameType /\ Agree(complete(f))
BY DEF complete, FrameType, Agree

LEMMA WaitAgrees ==
  ASSUME NEW f \in FrameType, Agree(f)
  PROVE  [f EXCEPT !.wait = TRUE] \in FrameType /\ Agree([f EXCEPT !.wait = TRUE])
BY DEF FrameType, Agree

LEMMA FrameStart == Init => FrameIInv
<1>1. Init => frame = NewFrame
  BY Zenon DEF Init, ResourcesInit
<1>2. NewFrame \in FrameType /\ Agree(NewFrame)
  BY DEF NewFrame, FrameType, Agree
<1>3. QED
  BY <1>1, <1>2, Zenon DEF FrameIInv

LEMMA FrameKeeps ==
  ASSUME FrameIInv, [Next]_vars
  PROVE  FrameIInv'
<1>1. CASE FrameStep
  <2>1. \/ frame' = begin(frame) \/ frame' = submit(frame) \/ frame' = complete(frame)
        \/ frame' = [frame EXCEPT !.wait = TRUE]
    BY <1>1, Zenon DEF FrameStep
  <2>2. frame' \in FrameType /\ Agree(frame')
    BY <2>1, BeginAgrees, SubmitAgrees, CompleteAgrees, WaitAgrees, Zenon DEF FrameIInv
  <2>3. QED
    BY <2>2, Zenon DEF FrameIInv, Agree
<1>2. CASE frame' = frame
  BY <1>2, Zenon DEF FrameIInv, Agree
<1>3. QED
  BY <1>1, <1>2, NextMoves, Zenon
     DEF ResourceMove, SurfaceStep, PoolStep, MeshStep, MaterialStep, resourceVars

(***************************************************************************)
(* The five objects of a frame in flight (RenderFrame of renderer.rs) move *)
(* together: whichever methods are called in whichever order, and however  *)
(* many of them fail half way, the fence and the signal semaphore are      *)
(* armed exactly under a submitted command buffer, a frame whose slot is   *)
(* available can begin, and one whose submission was refused stays as it   *)
(* is whatever is called.                                                  *)
(***************************************************************************)
THEOREM FrameObjectsStayTogether == Spec => []FrameObjectsAgree
<1>1. Init => FrameIInv
  BY FrameStart
<1>2. FrameIInv /\ [Next]_vars => FrameIInv'
  BY FrameKeeps
<1>3. FrameIInv => FrameObjectsAgree
  <2> SUFFICES ASSUME FrameIInv PROVE FrameObjectsAgree
    OBVIOUS
  <2>1. ASSUME frame.command = "executable"
        PROVE  {begin(frame), submit(frame), complete(frame)} = {frame}
    <3>1. frame.slot # "available" /\ ~frame.signal /\ frame.command # "recording"
      BY <2>1 DEF FrameIInv, FrameType, Agree
    <3>2. begin(frame) = frame /\ submit(frame) = frame /\ complete(frame) = frame
      BY <3>1, Zenon DEF begin, submit, complete
    <3>3. QED
      BY <3>2, Zenon
  <2>2. QED
    BY <2>1, Zenon DEF FrameIInv, Agree, FrameObjectsAgree
<1>4. QED
  BY <1>1, <1>2, <1>3, PTL DEF Spec

-----------------------------------------------------------------------------
(* A table of meshes or of materials.                                      *)

MeshRecords == Nat \X Nat \X Nat \X Nat
Records == {<<>>} \cup {<<"material">>} \cup MeshRecords
Slots == [generation : Nat, record : Records]
Tables == [slots : Seq(Slots), free : Seq(Nat), vertices : Nat, indices : Nat, freed : Seq(Nat)]

\* The generation of a slot counts, from 1 to MaxGeneration and round again, how
\* often the slot was freed.
TableOK(t) ==
  /\ t \in Tables
  /\ Len(t.freed) = Len(t.slots)
  /\ \A k \in 1 .. Len(t.free) : t.free[k] \in 1 .. Len(t.slots)
  /\ \A k \in 1 .. Len(t.slots) : t.slots[k].generation = (t.freed[k] % MaxGeneration) + 1

\* u is t with a record put at k, a new slot or a free one.
Puts(u, t, k, rec) ==
  /\ Len(t.slots) <= Len(u.slots) /\ k \in 1 .. Len(u.slots)
  /\ u.slots[k].record = rec
  /\ \A i \in 1 .. Len(u.slots) : i # k => i \in 1 .. Len(t.slots) /\ u.slots[i] = t.slots[i]
  /\ \A i \in 1 .. Len(t.slots) : u.freed[i] = t.freed[i]

\* u is t with slot k freed.
Takes(u, t, k) ==
  /\ Len(u.slots) = Len(t.slots) /\ k \in 1 .. Len(u.slots)
  /\ u.slots[k].record = <<>>
  /\ \A i \in 1 .. Len(u.slots) : i # k => u.slots[i] = t.slots[i] /\ u.freed[i] = t.freed[i]
  /\ u.freed[k] = t.freed[k] + 1

LEMMA GrowsOK ==
  ASSUME NEW t, TableOK(t), t.free = <<>>, NEW rec \in Records
  PROVE  /\ TableOK(Filled(t, rec))
         /\ Puts(Filled(t, rec), t, Len(t.slots) + 1, rec)
         /\ Filled(t, rec).vertices = t.vertices /\ Filled(t, rec).indices = t.indices
<1> DEFINE e == [generation |-> 1, record |-> rec]
           S == Append(t.slots, e)
           F == Append(t.freed, 0)
           n == Len(t.slots)
           u == [slots |-> S, free |-> t.free, vertices |-> t.vertices, indices |-> t.indices, freed |-> F]
<1>1. t \in Tables /\ t.slots \in Seq(Slots) /\ t.freed \in Seq(Nat) /\ Len(t.freed) = n /\ n \in Nat
  BY DEF TableOK, Tables
<1>2. Filled(t, rec) = [t EXCEPT !.slots = S, !.freed = F]
  BY DEF Filled
<1>3. Filled(t, rec) = u
  BY <1>1, <1>2 DEF Tables
<1>4. e \in Slots /\ e.generation = 1 /\ e.record = rec
  BY DEF Slots
<1> HIDE DEF e
<1>5. S \in Seq(Slots) /\ Len(S) = n + 1 /\ S[n + 1] = e /\ \A i \in 1 .. n : S[i] = t.slots[i]
  BY <1>1, <1>4
<1>6. F \in Seq(Nat) /\ Len(F) = n + 1 /\ F[n + 1] = 0 /\ \A i \in 1 .. n : F[i] = t.freed[i]
  BY <1>1
<1> HIDE DEF S, F
<1>7. u \in Tables /\ u.slots = S /\ u.free = <<>> /\ u.freed = F /\ u.vertices = t.vertices
      /\ u.indices = t.indices
  BY <1>1, <1>5, <1>6 DEF Tables
<1> HIDE DEF u
<1>8. 0 % MaxGeneration = 0
  BY ResourcesAssumption, Division
<1>9. ASSUME NEW k \in 1 .. n + 1
      PROVE  S[k].generation = (F[k] % MaxGeneration) + 1
  <2>1. CASE k = n + 1
    BY <2>1, <1>4, <1>5, <1>6, <1>8
  <2>2. CASE k \in 1 .. n
    BY <2>2, <1>1, <1>5, <1>6 DEF TableOK
  <2>3. QED
    BY <1>1, <2>1, <2>2
<1>10. TableOK(u)
  BY <1>5, <1>6, <1>7, <1>9 DEF TableOK
<1>11. Puts(u, t, n + 1, rec)
  BY <1>1, <1>4, <1>5, <1>6, <1>7 DEF Puts
<1>12. QED
  BY <1>3, <1>7, <1>10, <1>11

LEMMA RefillsOK ==
  ASSUME NEW t, TableOK(t), t.free # <<>>, NEW rec \in Records
  PROVE  /\ TableOK(Filled(t, rec))
         /\ Puts(Filled(t, rec), t, Last(t.free), rec)
         /\ Filled(t, rec).vertices = t.vertices /\ Filled(t, rec).indices = t.indices
<1> DEFINE n == Len(t.slots)
           k == Last(t.free)
           e == [generation |-> t.slots[k].generation, record |-> rec]
           S == [t.slots EXCEPT ![k] = e]
           R == Front(t.free)
           u == [slots |-> S, free |-> R, vertices |-> t.vertices, indices |-> t.indices,
                 freed |-> t.freed]
<1>1. t \in Tables /\ t.slots \in Seq(Slots) /\ t.free \in Seq(Nat) /\ t.freed \in Seq(Nat)
      /\ Len(t.freed) = n /\ n \in Nat
  BY DEF TableOK, Tables
<1>2. Len(t.free) \in Nat \ {0} /\ k = t.free[Len(t.free)]
  BY <1>1 DEF Last
<1>3. k \in 1 .. n
  BY <1>2 DEF TableOK
<1>4. t.slots[k] \in Slots
  BY <1>1, <1>3
<1>5. HandleOf(t)[1] = k
  BY DEF HandleOf
<1>6. [t.slots[k] EXCEPT !.record = rec] = e
  BY <1>4 DEF Slots
<1>7. Filled(t, rec) = [t EXCEPT !.slots[HandleOf(t)[1]].record = rec, !.free = Front(@)]
  BY DEF Filled
<1>8. Filled(t, rec) = [t EXCEPT !.slots = [t.slots EXCEPT ![k] = [t.slots[k] EXCEPT !.record = rec]], !.free = R]
  BY <1>1, <1>3, <1>4, <1>5, <1>7 DEF Tables
<1>9. Filled(t, rec) = [t EXCEPT !.slots = S, !.free = R]
  BY <1>6, <1>8
<1>10. Filled(t, rec) = u
  BY <1>1, <1>9 DEF Tables
<1>11. e \in Slots /\ e.generation = t.slots[k].generation /\ e.record = rec
  BY <1>4 DEF Slots
<1> HIDE DEF e
<1>12. S \in Seq(Slots) /\ Len(S) = n /\ S[k] = e /\ \A i \in 1 .. n : i # k => S[i] = t.slots[i]
  BY <1>1, <1>3, <1>11
<1>13. R \in Seq(Nat) /\ Len(R) = Len(t.free) - 1 /\ \A i \in 1 .. Len(R) : R[i] = t.free[i]
  BY <1>1, <1>2 DEF Front
<1>14. \A i \in 1 .. Len(R) : R[i] \in 1 .. n
  <2>1. \A i \in 1 .. Len(t.free) : t.free[i] \in 1 .. n
    BY DEF TableOK
  <2>2. \A i \in 1 .. Len(R) : i \in 1 .. Len(t.free)
    BY <1>2, <1>13
  <2>3. QED
    BY <1>13, <2>1, <2>2, Zenon
<1> HIDE DEF S, R, k
<1>15. u \in Tables /\ u.slots = S /\ u.free = R /\ u.freed = t.freed /\ u.vertices = t.vertices
       /\ u.indices = t.indices
  BY <1>1, <1>12, <1>13 DEF Tables
<1> HIDE DEF u
<1>16. \A i \in 1 .. n : S[i].generation = (t.freed[i] % MaxGeneration) + 1
  BY <1>11, <1>12 DEF TableOK
<1>17. TableOK(u)
  BY <1>1, <1>12, <1>14, <1>15, <1>16 DEF TableOK
<1>18. Puts(u, t, k, rec)
  BY <1>1, <1>3, <1>11, <1>12, <1>15 DEF Puts
<1>19. QED
  BY <1>10, <1>15, <1>17, <1>18 DEF k

LEMMA FilledOK ==
  ASSUME NEW t, TableOK(t), NEW rec \in Records
  PROVE  /\ TableOK(Filled(t, rec))
         /\ \E k : Puts(Filled(t, rec), t, k, rec)
         /\ Filled(t, rec).vertices = t.vertices /\ Filled(t, rec).indices = t.indices
BY GrowsOK, RefillsOK, Zenon

\* The next generation is that of one more removal.
LEMMA NextGeneration ==
  ASSUME NEW f \in Nat
  PROVE  next_generation((f % MaxGeneration) + 1) = ((f + 1) % MaxGeneration) + 1
<1> DEFINE M == MaxGeneration
<1>1. M \in Nat /\ M > 0
  BY ResourcesAssumption
<1> HIDE DEF M
<1>2. PICK q \in Nat, r \in 0 .. M - 1 : f = M * q + r
  BY <1>1, DivisionExists
<1>3. f % M = r
  BY <1>1, <1>2, DivisionUnique
<1>4. CASE r = M - 1
  <2>1. q + 1 \in Nat /\ 0 \in 0 .. M - 1 /\ f + 1 = M * (q + 1) + 0
    BY <1>1, <1>2, <1>4
  <2>2. (f + 1) % M = 0
    <3>1. \A z \in 0 .. M - 1 : (M * (q + 1) + z) % M = z
      BY <1>1, <2>1, DivisionUnique
    <3>2. \A z \in 0 .. M - 1 : z = 0 => (f + 1) % M = z
      BY <2>1, <3>1
    <3>3. QED
      BY <2>1, <3>2
  <2>3. QED
    BY <1>1, <1>3, <1>4, <2>2 DEF next_generation, M
<1>5. CASE r # M - 1
  <2>1. r + 1 \in 0 .. M - 1 /\ f + 1 = M * q + (r + 1)
    BY <1>1, <1>2, <1>5
  <2>2. (f + 1) % M = r + 1
    BY <1>1, <1>2, <2>1, DivisionUnique
  <2>3. r + 1 # M
    BY <1>1, <1>5
  <2>4. QED
    BY <1>1, <1>2, <1>3, <2>2, <2>3 DEF next_generation, M
<1>6. QED
  BY <1>4, <1>5

LEMMA RemoveOK ==
  ASSUME NEW t, TableOK(t), NEW k \in 1 .. Len(t.slots)
  PROVE  LET u == remove(t, <<k, t.slots[k].generation>>)
         IN  /\ TableOK(u) /\ Takes(u, t, k) /\ u.vertices = t.vertices /\ u.indices = t.indices
<1> DEFINE n == Len(t.slots)
           g == t.slots[k].generation
           h == <<k, g>>
           e == [generation |-> next_generation(g), record |-> <<>>]
           S == [t.slots EXCEPT ![k] = e]
           R == Append(t.free, k)
           F == [t.freed EXCEPT ![k] = t.freed[k] + 1]
           u == [slots |-> S, free |-> R, vertices |-> t.vertices, indices |-> t.indices, freed |-> F]
<1>1. t \in Tables /\ t.slots \in Seq(Slots) /\ t.free \in Seq(Nat) /\ t.freed \in Seq(Nat)
      /\ Len(t.freed) = n /\ n \in Nat
  BY DEF TableOK, Tables
<1>2. t.slots[k] \in Slots /\ t.freed[k] \in Nat /\ k \in Nat
  BY <1>1
<1>3. g = (t.freed[k] % MaxGeneration) + 1
  BY DEF TableOK
<1>4. remove(t, h) = [t EXCEPT !.slots = S, !.free = R, !.freed = F]
  BY <1>1 DEF remove, Tables
<1>5. remove(t, h) = u
  BY <1>1, <1>4 DEF Tables
<1>6. e.generation = ((t.freed[k] + 1) % MaxGeneration) + 1 /\ e.record = <<>>
  BY <1>2, <1>3, NextGeneration
<1>7. (t.freed[k] + 1) % MaxGeneration \in Nat
  BY <1>2, ResourcesAssumption, Division
<1>8. e \in Slots
  BY <1>6, <1>7 DEF Slots, Records
<1> HIDE DEF e, g
<1>9. S \in Seq(Slots) /\ Len(S) = n /\ S[k] = e /\ \A i \in 1 .. n : i # k => S[i] = t.slots[i]
  BY <1>1, <1>8
<1>10. R \in Seq(Nat) /\ \A i \in 1 .. Len(R) : R[i] \in 1 .. n
  <2>1. Len(R) = Len(t.free) + 1 /\ R \in Seq(Nat) /\ R[Len(t.free) + 1] = k
        /\ \A i \in 1 .. Len(t.free) : R[i] = t.free[i]
    BY <1>1, <1>2
  <2>2. \A i \in 1 .. Len(t.free) : t.free[i] \in 1 .. n
    BY DEF TableOK
  <2> HIDE DEF R
  <2>3. Len(t.free) \in Nat
    BY <1>1
  <2>4. ASSUME NEW i \in 1 .. Len(R)
        PROVE  R[i] \in 1 .. n
    <3>1. i \in 1 .. Len(t.free) \/ i = Len(t.free) + 1
      BY <2>1, <2>3
    <3>2. CASE i \in 1 .. Len(t.free)
      BY <3>2, <2>1, <2>2, Zenon
    <3>3. CASE i = Len(t.free) + 1
      BY <3>3, <2>1, Zenon
    <3>4. QED
      BY <3>1, <3>2, <3>3
  <2>5. QED
    BY <2>1, <2>4
<1>11. F \in Seq(Nat) /\ Len(F) = n /\ F[k] = t.freed[k] + 1
       /\ \A i \in 1 .. n : i # k => F[i] = t.freed[i]
  BY <1>1, <1>2
<1> HIDE DEF S, R, F
<1>12. u \in Tables /\ u.slots = S /\ u.free = R /\ u.freed = F /\ u.vertices = t.vertices
       /\ u.indices = t.indices
  BY <1>1, <1>9, <1>10, <1>11 DEF Tables
<1> HIDE DEF u
<1>13. \A i \in 1 .. n : S[i].generation = (F[i] % MaxGeneration) + 1
  BY <1>6, <1>9, <1>11 DEF TableOK
<1>14. TableOK(u)
  BY <1>1, <1>9, <1>10, <1>11, <1>12, <1>13 DEF TableOK
<1>15. Takes(u, t, k)
  BY <1>1, <1>6, <1>9, <1>11, <1>12 DEF Takes
<1>16. QED
  BY <1>5, <1>12, <1>14, <1>15 DEF g

-----------------------------------------------------------------------------
(* The byte ranges of the meshes.                                          *)

Apart(a, b) == ~Overlap(a[1], a[2], b[1], b[2]) /\ ~Overlap(a[3], a[4], b[3], b[4])
Below(a, v, w) == a \in MeshRecords /\ a[1] + a[2] <= v /\ a[3] + a[4] <= w

RangesOK(t) ==
  /\ \A i \in 1 .. Len(t.slots) : t.slots[i].record # <<>> => Below(t.slots[i].record, t.vertices, t.indices)
  /\ \A i, j \in 1 .. Len(t.slots) :
       i # j /\ t.slots[i].record # <<>> /\ t.slots[j].record # <<>>
       => Apart(t.slots[i].record, t.slots[j].record)

LEMMA BelowIsApart ==
  ASSUME NEW v \in Nat, NEW w \in Nat, NEW a, Below(a, v, w), NEW x \in Nat, NEW y \in Nat
  PROVE  /\ <<v, x, w, y>> \in MeshRecords
         /\ Apart(a, <<v, x, w, y>>) /\ Apart(<<v, x, w, y>>, a)
         /\ Below(<<v, x, w, y>>, v + x, w + y)
         /\ Below(a, v + x, w + y)
<1>1. a[1] \in Nat /\ a[2] \in Nat /\ a[3] \in Nat /\ a[4] \in Nat
  BY DEF Below, MeshRecords
<1>2. QED
  BY <1>1 DEF Below, MeshRecords, Apart, Overlap

LEMMA InsertMeshOK ==
  ASSUME NEW t, TableOK(t), RangesOK(t), NEW size \in MeshSizes
  PROVE  LET u == insert_mesh(t, size)
         IN  TableOK(u) /\ RangesOK(u) /\ \E k, rec : Puts(u, t, k, rec)
<1> DEFINE v == t.vertices
           w == t.indices
           x == size[1]
           y == size[2]
           rec == <<v, x, w, y>>
           f == Filled(t, rec)
           u == [slots |-> f.slots, free |-> f.free, vertices |-> v + x, indices |-> w + y,
                 freed |-> f.freed]
<1>1. v \in Nat /\ w \in Nat
  BY DEF TableOK, Tables
<1>2. x \in Nat /\ y \in Nat
  BY ResourcesAssumption
<1>3. rec \in MeshRecords /\ rec \in Records /\ rec # <<>>
  BY <1>1, <1>2 DEF MeshRecords, Records
<1>4. insert_mesh(t, size) = [f EXCEPT !.vertices = @ + x, !.indices = @ + y]
  BY DEF insert_mesh
<1> HIDE DEF v, w, x, y, f
<1>5. TableOK(f) /\ (\E k : Puts(f, t, k, rec)) /\ f.vertices = v /\ f.indices = w
  BY <1>3, FilledOK DEF f, v, w
<1>6. PICK k : Puts(f, t, k, rec)
  BY <1>5
<1>7. f \in Tables
  BY <1>5 DEF TableOK
<1>8. insert_mesh(t, size) = u
  BY <1>4, <1>5, <1>7 DEF Tables
<1>9. u \in Tables /\ u.slots = f.slots /\ u.free = f.free /\ u.freed = f.freed
      /\ u.vertices = v + x /\ u.indices = w + y
  BY <1>1, <1>2, <1>7 DEF Tables
<1> HIDE DEF u, rec
<1>10. TableOK(u) /\ Puts(u, t, k, rec)
  BY <1>5, <1>6, <1>9 DEF TableOK, Puts
<1>11. ASSUME NEW i \in 1 .. Len(u.slots), u.slots[i].record # <<>>, i # k
       PROVE  /\ i \in 1 .. Len(t.slots) /\ u.slots[i].record = t.slots[i].record
              /\ Below(t.slots[i].record, v, w)
  BY <1>10, <1>11 DEF Puts, RangesOK, v, w
<1>12. \A a : Below(a, v, w) => Apart(a, rec) /\ Apart(rec, a) /\ Below(a, v + x, w + y)
  BY <1>1, <1>2, BelowIsApart DEF rec
<1>13. Below(rec, v + x, w + y)
  BY <1>1, <1>2 DEF Below, MeshRecords, rec
<1>14. k \in 1 .. Len(u.slots) /\ u.slots[k].record = rec
  BY <1>10 DEF Puts
<1>15. ASSUME NEW i \in 1 .. Len(u.slots), u.slots[i].record # <<>>
       PROVE  Below(u.slots[i].record, u.vertices, u.indices)
  <2>1. CASE i = k
    BY <2>1, <1>9, <1>13, <1>14
  <2>2. CASE i # k
    BY <2>2, <1>9, <1>11, <1>12, <1>15
  <2>3. QED
    BY <2>1, <2>2
<1>16. ASSUME NEW i \in 1 .. Len(u.slots), NEW j \in 1 .. Len(u.slots),
              i # j, u.slots[i].record # <<>>, u.slots[j].record # <<>>
       PROVE  Apart(u.slots[i].record, u.slots[j].record)
  <2>1. CASE i = k
    BY <2>1, <1>11, <1>12, <1>14, <1>16
  <2>2. CASE j = k
    BY <2>2, <1>11, <1>12, <1>14, <1>16
  <2>3. CASE i # k /\ j # k
    BY <2>3, <1>11, <1>16 DEF RangesOK
  <2>4. QED
    BY <2>1, <2>2, <2>3
<1>17. RangesOK(u)
  BY <1>15, <1>16 DEF RangesOK
<1>18. QED
  BY <1>8, <1>10, <1>17

LEMMA RemoveMeshOK ==
  ASSUME NEW t, TableOK(t), RangesOK(t), NEW u, NEW k, Takes(u, t, k),
         u.vertices = t.vertices, u.indices = t.indices
  PROVE  RangesOK(u)
<1>1. \A i \in 1 .. Len(u.slots) : u.slots[i].record # <<>> => u.slots[i] = t.slots[i] /\ i \in 1 .. Len(t.slots)
  BY DEF Takes
<1>2. QED
  BY <1>1 DEF RangesOK

-----------------------------------------------------------------------------
(* The handles removed.                                                    *)

\* h names a slot of t, and its generation is the one of the slot before the
\* n-th time it was freed.
Since(t, h, n) ==
  /\ h[1] \in 1 .. Len(t.slots) /\ n \in 1 .. t.freed[h[1]]
  /\ h[2] = ((n - 1) % MaxGeneration) + 1

TableOf(x) == IF x[1] = "mesh" THEN meshes ELSE materials
RemovedIInv == \A x \in removed : Since(TableOf(x), x[2], x[3])

LEMMA PutsKeepSince ==
  ASSUME NEW t, TableOK(t), NEW u, NEW k, NEW rec, Puts(u, t, k, rec), NEW h, NEW n, Since(t, h, n)
  PROVE  Since(u, h, n)
<1>1. Len(t.slots) \in Nat
  BY DEF TableOK, Tables
<1>2. Len(u.slots) \in Nat
  BY DEF Puts
<1>3. QED
  BY <1>1, <1>2 DEF Puts, Since

LEMMA TakesKeepSince ==
  ASSUME NEW t, TableOK(t), NEW u, NEW k, Takes(u, t, k), NEW h, NEW n, Since(t, h, n)
  PROVE  Since(u, h, n)
<1>1. h[1] \in 1 .. Len(u.slots)
  BY DEF Takes, Since
<1>2. t.freed[h[1]] \in Nat
  BY DEF TableOK, Tables, Since
<1>3. u.freed[h[1]] = t.freed[h[1]] \/ u.freed[h[1]] = t.freed[h[1]] + 1
  BY <1>1 DEF Takes
<1>4. QED
  BY <1>1, <1>2, <1>3 DEF Since

LEMMA TakesAddSince ==
  ASSUME NEW t, TableOK(t), NEW u, NEW k, Takes(u, t, k)
  PROVE  Since(u, <<k, t.slots[k].generation>>, t.freed[k] + 1)
<1>1. k \in 1 .. Len(u.slots) /\ k \in 1 .. Len(t.slots) /\ u.freed[k] = t.freed[k] + 1
  BY DEF Takes
<1>2. t.freed[k] \in Nat /\ t.slots[k].generation = (t.freed[k] % MaxGeneration) + 1
  BY <1>1 DEF TableOK, Tables
<1>3. t.freed[k] + 1 \in 1 .. u.freed[k] /\ (t.freed[k] + 1) - 1 = t.freed[k]
  BY <1>1, <1>2
<1>4. QED
  BY <1>1, <1>2, <1>3 DEF Since

\* A handle is refused until its slot was freed MaxGeneration times.
LEMMA OldIsRefused ==
  ASSUME NEW t, TableOK(t), NEW h, NEW n, Since(t, h, n),
         t.freed[h[1]] - n < MaxGeneration - 1
  PROVE  ~Valid(t, h)
<1> DEFINE k == h[1]
           f == t.freed[k]
<1>1. k \in 1 .. Len(t.slots) /\ n \in 1 .. f /\ h[2] = ((n - 1) % MaxGeneration) + 1
  BY DEF Since
<1>2. f \in Nat /\ t.slots[k].generation = (f % MaxGeneration) + 1
  <2>1. t.freed \in Seq(Nat) /\ Len(t.freed) = Len(t.slots)
    BY DEF TableOK, Tables
  <2>2. f \in Nat
    BY <1>1, <2>1
  <2>3. QED
    BY <1>1, <2>2, Zenon DEF TableOK
<1>3. MaxGeneration \in Nat /\ MaxGeneration > 0
  BY ResourcesAssumption
<1> DEFINE m == n - 1
<1>4. m \in Nat /\ m < f /\ f < m + MaxGeneration
  <2>1. f - n < MaxGeneration - 1
    OBVIOUS
  <2> HIDE DEF f
  <2>2. QED
    BY <1>1, <1>2, <1>3, <2>1
<1>5. m % MaxGeneration # f % MaxGeneration
  BY <1>2, <1>3, <1>4, ModWindow
<1>6. m % MaxGeneration \in Nat /\ f % MaxGeneration \in Nat
  BY <1>2, <1>3, <1>4, Division
<1>7. t.slots[k].generation # h[2]
  BY <1>1, <1>2, <1>5, <1>6
<1>8. QED
  BY <1>7 DEF Valid

-----------------------------------------------------------------------------
(* The tables' invariant.                                                  *)

TablesIInv == TableOK(meshes) /\ RangesOK(meshes) /\ TableOK(materials) /\ RemovedIInv

LEMMA TablesStart == Init => TablesIInv
<1> SUFFICES ASSUME Init PROVE TablesIInv
  OBVIOUS
<1>1. meshes = EmptyTable /\ materials = EmptyTable /\ removed = {}
  BY Zenon DEF Init, ResourcesInit
<1>2. TableOK(EmptyTable)
  BY DEF TableOK, Tables, EmptyTable
<1>3. RangesOK(EmptyTable)
  BY DEF RangesOK, EmptyTable
<1>4. QED
  BY <1>1, <1>2, <1>3, Zenon DEF TablesIInv, RemovedIInv

\* What the two kinds of steps on a table do to it.
LEMMA MeshesMove ==
  ASSUME TablesIInv, MeshStep
  PROVE  /\ TableOK(meshes') /\ RangesOK(meshes') /\ materials' = materials
         /\ \A h, n : Since(meshes, h, n) => Since(meshes', h, n)
         /\ \A x \in removed' : x \in removed \/ (x[1] = "mesh" /\ Since(meshes', x[2], x[3]))
<1> DEFINE t == meshes
<1>0. TableOK(t) /\ RangesOK(t)
  BY DEF TablesIInv
<1>1. materials' = materials
  BY Zenon DEF MeshStep
<1>2. CASE \E size \in MeshSizes : RoomFor(meshes, size) /\ meshes' = insert_mesh(meshes, size) /\ UNCHANGED removed
  <2>1. PICK size \in MeshSizes : meshes' = insert_mesh(t, size) /\ removed' = removed
    BY <1>2, Zenon
  <2>2. TableOK(meshes') /\ RangesOK(meshes') /\ \E k, rec : Puts(meshes', t, k, rec)
    BY <1>0, <2>1, InsertMeshOK, Zenon
  <2>3. \A h, n : Since(t, h, n) => Since(meshes', h, n)
    BY <1>0, <2>2, PutsKeepSince, Zenon
  <2>4. QED
    BY <1>1, <2>1, <2>2, <2>3, Zenon
<1>3. CASE \E k \in DOMAIN meshes.slots :
             LET h == <<k, meshes.slots[k].generation>>
             IN  /\ Valid(meshes, h) /\ meshes' = remove(meshes, h)
                 /\ removed' = removed \union {<<"mesh", h, meshes.freed[k] + 1>>}
  <2>1. PICK k \in DOMAIN t.slots :
           /\ meshes' = remove(t, <<k, t.slots[k].generation>>)
           /\ removed' = removed \union {<<"mesh", <<k, t.slots[k].generation>>, t.freed[k] + 1>>}
    BY <1>3, Zenon
  <2>2. DOMAIN t.slots = 1 .. Len(t.slots)
    BY <1>0 DEF TableOK, Tables
  <2>3. TableOK(meshes') /\ Takes(meshes', t, k) /\ meshes'.vertices = t.vertices /\ meshes'.indices = t.indices
    BY <1>0, <2>1, <2>2, RemoveOK, Zenon
  <2>4. RangesOK(meshes')
    BY <1>0, <2>3, RemoveMeshOK, Zenon
  <2>5. \A h, n : Since(t, h, n) => Since(meshes', h, n)
    BY <1>0, <2>3, TakesKeepSince, Zenon
  <2>6. Since(meshes', <<k, t.slots[k].generation>>, t.freed[k] + 1)
    BY <1>0, <2>3, TakesAddSince, Zenon
  <2> DEFINE y == <<"mesh", <<k, t.slots[k].generation>>, t.freed[k] + 1>>
  <2>7. y[1] = "mesh" /\ Since(meshes', y[2], y[3])
    BY <2>6
  <2>8. QED
    BY <1>1, <2>1, <2>3, <2>4, <2>5, <2>7, Zenon
<1>4. QED
  BY <1>2, <1>3, Zenon DEF MeshStep

LEMMA MaterialsMove ==
  ASSUME TablesIInv, MaterialStep
  PROVE  /\ TableOK(materials') /\ meshes' = meshes
         /\ \A h, n : Since(materials, h, n) => Since(materials', h, n)
         /\ \A x \in removed' : x \in removed \/ (x[1] = "material" /\ Since(materials', x[2], x[3]))
<1> DEFINE t == materials
<1>0. TableOK(t)
  BY DEF TablesIInv
<1>1. meshes' = meshes
  BY Zenon DEF MaterialStep
<1>2. CASE Used(materials) < MaxMaterials /\ materials' = Filled(materials, <<"material">>) /\ UNCHANGED removed
  <2>1. <<"material">> \in Records
    BY DEF Records
  <2>2. TableOK(materials') /\ \E k : Puts(materials', t, k, <<"material">>)
    BY <1>0, <1>2, <2>1, FilledOK, Zenon
  <2>3. \A h, n : Since(t, h, n) => Since(materials', h, n)
    BY <1>0, <2>2, PutsKeepSince, Zenon
  <2>4. QED
    BY <1>1, <1>2, <2>2, <2>3, Zenon
<1>3. CASE \E k \in DOMAIN materials.slots :
             LET h == <<k, materials.slots[k].generation>>
             IN  /\ Valid(materials, h) /\ materials.freed[k] < MaxFrees
                 /\ materials' = remove(materials, h)
                 /\ removed' = removed \union {<<"material", h, materials.freed[k] + 1>>}
  <2>1. PICK k \in DOMAIN t.slots :
           /\ materials' = remove(t, <<k, t.slots[k].generation>>)
           /\ removed' = removed \union {<<"material", <<k, t.slots[k].generation>>, t.freed[k] + 1>>}
    BY <1>3, Zenon
  <2>2. DOMAIN t.slots = 1 .. Len(t.slots)
    BY <1>0 DEF TableOK, Tables
  <2>3. TableOK(materials') /\ Takes(materials', t, k)
    BY <1>0, <2>1, <2>2, RemoveOK, Zenon
  <2>5. \A h, n : Since(t, h, n) => Since(materials', h, n)
    BY <1>0, <2>3, TakesKeepSince, Zenon
  <2>6. Since(materials', <<k, t.slots[k].generation>>, t.freed[k] + 1)
    BY <1>0, <2>3, TakesAddSince, Zenon
  <2> DEFINE y == <<"material", <<k, t.slots[k].generation>>, t.freed[k] + 1>>
  <2>7. y[1] = "material" /\ Since(materials', y[2], y[3])
    BY <2>6
  <2>8. QED
    BY <1>1, <2>1, <2>3, <2>5, <2>7, Zenon
<1>4. QED
  BY <1>2, <1>3, Zenon DEF MaterialStep

LEMMA TablesKeep ==
  ASSUME TablesIInv, [Next]_vars
  PROVE  TablesIInv'
<1>1. CASE MeshStep
  <2>1. ASSUME NEW x \in removed'
        PROVE  Since(TableOf(x)', x[2], x[3])
    BY <1>1, <2>1, MeshesMove, Zenon DEF TablesIInv, RemovedIInv, TableOf
  <2>2. QED
    BY <1>1, <2>1, MeshesMove, Zenon DEF TablesIInv, RemovedIInv, TableOK, RangesOK, Since, TableOf
<1>2. CASE MaterialStep
  <2>1. ASSUME NEW x \in removed'
        PROVE  Since(TableOf(x)', x[2], x[3])
    BY <1>2, <2>1, MaterialsMove, Zenon DEF TablesIInv, RemovedIInv, TableOf
  <2>2. QED
    BY <1>2, <2>1, MaterialsMove, Zenon DEF TablesIInv, RemovedIInv, TableOK, RangesOK, Since, TableOf
<1>3. CASE meshes' = meshes /\ materials' = materials /\ removed' = removed
  BY <1>3, Zenon DEF TablesIInv, RemovedIInv, TableOf, TableOK, RangesOK, Since
<1>4. QED
  BY <1>1, <1>2, <1>3, NextMoves, Zenon DEF ResourceMove, FrameStep, SurfaceStep, PoolStep, resourceVars

LEMMA TablesFollow == TablesIInv => TablesKeepApart
<1> SUFFICES ASSUME TablesIInv PROVE TablesKeepApart
  OBVIOUS
<1>0. TableOK(meshes) /\ RangesOK(meshes)
  BY Zenon DEF TablesIInv
<1>1. RangesOK(meshes) /\ DOMAIN meshes.slots = 1 .. Len(meshes.slots)
  <2>1. meshes \in Tables
    BY <1>0, Zenon DEF TableOK
  <2>2. meshes.slots \in Seq(Slots)
    BY <2>1 DEF Tables
  <2>3. QED
    BY <1>0, <2>2
<1>2. ASSUME NEW i \in {k \in DOMAIN meshes.slots : meshes.slots[k].record # <<>>},
             NEW j \in {k \in DOMAIN meshes.slots : meshes.slots[k].record # <<>>}
      PROVE  LET a == meshes.slots[i].record
                 b == meshes.slots[j].record
             IN  /\ i # j => ~Overlap(a[1], a[2], b[1], b[2]) /\ ~Overlap(a[3], a[4], b[3], b[4])
                 /\ a[1] + a[2] <= meshes.vertices /\ a[3] + a[4] <= meshes.indices
  BY <1>1 DEF RangesOK, Apart, Below
<1>3. ASSUME NEW x \in removed, TableOf(x).freed[x[2][1]] - x[3] < MaxGeneration - 1
      PROVE  ~Valid(TableOf(x), x[2])
  <2>1. TableOK(TableOf(x)) /\ Since(TableOf(x), x[2], x[3])
    BY Zenon DEF TablesIInv, RemovedIInv, TableOf
  <2>2. QED
    BY <1>3, <2>1, OldIsRefused, Zenon
<1>4. QED
  BY <1>2, <1>3, Zenon DEF TablesKeepApart, TableOf

(***************************************************************************)
(* For any sizes and capacities, the byte ranges of two live meshes        *)
(* (MeshTable::insert, remove of renderer_3d.rs) never overlap and lie     *)
(* within the data, also after a slot was freed and filled again; and a    *)
(* handle removed from either table is refused until its slot was freed    *)
(* MaxGeneration times.                                                    *)
(***************************************************************************)
THEOREM TablesStayApart == Spec => []TablesKeepApart
<1>1. Init => TablesIInv
  BY TablesStart
<1>2. TablesIInv /\ [Next]_vars => TablesIInv'
  BY TablesKeep
<1>3. QED
  BY <1>1, <1>2, TablesFollow, PTL DEF Spec

-----------------------------------------------------------------------------
(* The choices both platforms share (vulkan_policy.rs, world_upload.rs).   *)

P == INSTANCE GpuPolicy

Roles == {"graphics", "compute", "transfer"}
FamilyLists == Seq([flags : SUBSET Roles, count : Nat])

\* The families of a list that can do what is required.
Able(families, required) == {i \in 1 .. Len(families) : P!supports(families[i], required)}

\* The families of a set S that have none of the capabilities to avoid.
Dedicated(families, S, avoid) == {i \in S : families[i].flags \cap avoid = {}}

\* k is the first of S, or 0 when there is none.
FirstOf(k, S) == IF S = {} THEN k = 0 ELSE k \in S /\ \A j \in S : k <= j

LEMMA LeastIsChosen ==
  ASSUME NEW S \in SUBSET Nat, S # {}
  PROVE  LET k == CHOOSE i \in S : \A j \in S : i <= j IN k \in S /\ \A j \in S : k <= j
<1>1. \E i \in S : \A j \in S : i <= j
  BY LeastNat
<1>2. QED
  BY <1>1, Zenon

LEMMA FirstAble ==
  ASSUME NEW families \in FamilyLists, NEW required
  PROVE  FirstOf(P!FirstIndex(families, LAMBDA i : P!supports(families[i], required)), Able(families, required))
<1> DEFINE S == Able(families, required)
           best == {i \in S : \A j \in S : 0 <= 0}
           k == P!FirstIndex(families, LAMBDA i : P!supports(families[i], required))
<1>1. DOMAIN families = 1 .. Len(families)
  BY DEF FamilyLists
<1>2. best = S /\ S \in SUBSET Nat
  BY <1>1 DEF Able
<1>3. k = IF S = {} THEN 0 ELSE CHOOSE i \in best : \A j \in best : i <= j
  BY <1>1 DEF P!FirstIndex, P!BestIndex, P!None, Able
<1> HIDE DEF k, best, S
<1>4. k = IF S = {} THEN 0 ELSE CHOOSE i \in S : \A j \in S : i <= j
  BY <1>2, <1>3
<1>5. QED
  BY <1>2, <1>4, LeastIsChosen DEF FirstOf, k, S

\* first_preferred gives the first dedicated family, or the first able one when no
\* able one is dedicated.
LEMMA PreferredIsFirst ==
  ASSUME NEW families \in FamilyLists, NEW required, NEW avoid
  PROVE  LET S == Able(families, required)
             D == Dedicated(families, S, avoid)
         IN  FirstOf(P!first_preferred(families, required, avoid), IF D = {} THEN S ELSE D)
<1> DEFINE S == Able(families, required)
           D == Dedicated(families, S, avoid)
           best == {i \in D : \A j \in D : 0 <= 0}
           d == P!FirstIndex(families, LAMBDA i : /\ P!supports(families[i], required)
                                                  /\ families[i].flags \cap avoid = {})
           k == P!FirstIndex(families, LAMBDA i : P!supports(families[i], required))
<1>1. DOMAIN families = 1 .. Len(families)
  BY DEF FamilyLists
<1>2. best = D /\ D \in SUBSET Nat /\ 0 \notin D
  BY <1>1 DEF Able, Dedicated
<1>3. D = {i \in DOMAIN families : P!supports(families[i], required) /\ families[i].flags \cap avoid = {}}
  BY <1>1 DEF Able, Dedicated
<1>4. d = IF D = {} THEN 0 ELSE CHOOSE i \in best : \A j \in best : i <= j
  BY <1>3 DEF P!FirstIndex, P!BestIndex, P!None
<1>5. FirstOf(k, S)
  BY FirstAble
<1>6. P!first_preferred(families, required, avoid) = IF d # 0 THEN d ELSE k
  BY DEF P!first_preferred, P!None
<1> HIDE DEF d, k, best, S, D
<1>7. d = IF D = {} THEN 0 ELSE CHOOSE i \in D : \A j \in D : i <= j
  BY <1>2, <1>4
<1>8. FirstOf(d, D)
  BY <1>2, <1>7, LeastIsChosen DEF FirstOf
<1>9. QED
  BY <1>2, <1>5, <1>6, <1>8 DEF FirstOf, S, D

(***************************************************************************)
(* For every list of queue families a driver may report, of any length,    *)
(* select_queue_families fails exactly when some role has no family that   *)
(* can do it; otherwise each role gets the first family that can, compute  *)
(* and transfer the first one free of the capabilities to avoid where      *)
(* there is one; and the requests built from it                            *)
(* (build_queue_create_requests) ask for three queues in all, and for no   *)
(* family twice.                                                           *)
(***************************************************************************)
THEOREM QueueFamiliesAreSound ==
  ASSUME NEW families \in FamilyLists
  PROVE  LET plan     == P!select_queue_families(families)
             requests == P!build_queue_create_requests(plan)
             graphics == Able(families, {"graphics"})
             compute  == Able(families, {"compute"})
             transfer == Able(families, {"transfer"})
             apart(S, avoid) == LET D == Dedicated(families, S, avoid) IN IF D = {} THEN S ELSE D
         IN  IF graphics = {} \/ compute = {} \/ transfer = {} THEN plan = <<>>
             ELSE /\ FirstOf(plan[1], graphics)
                  /\ FirstOf(plan[2], apart(compute, {"graphics"}))
                  /\ FirstOf(plan[3], apart(transfer, {"graphics", "compute"}))
                  /\ requests[1].count + requests[2].count + requests[3].count = 3
                  /\ \A i, j \in 1 .. 3 :
                       i < j /\ requests[i].family = requests[j].family => requests[j].count = 0
<1> DEFINE plan == P!select_queue_families(families)
           requests == P!build_queue_create_requests(plan)
           g == P!FirstIndex(families, LAMBDA i : P!supports(families[i], {"graphics"}))
           c == P!first_preferred(families, {"compute"}, {"graphics"})
           t == P!first_preferred(families, {"transfer"}, {"graphics", "compute"})
           G == Able(families, {"graphics"})
           C == Able(families, {"compute"})
           T == Able(families, {"transfer"})
           C1 == LET D == Dedicated(families, C, {"graphics"}) IN IF D = {} THEN C ELSE D
           T1 == LET D == Dedicated(families, T, {"graphics", "compute"}) IN IF D = {} THEN T ELSE D
<1>1. FirstOf(g, G)
  BY FirstAble
<1>2. FirstOf(c, C1) /\ FirstOf(t, T1)
  BY PreferredIsFirst
<1>3. 0 \notin G /\ 0 \notin C /\ 0 \notin T
  BY DEF Able
<1>4. /\ C1 \subseteq C /\ (C1 = {} <=> C = {})
      /\ T1 \subseteq T /\ (T1 = {} <=> T = {})
  BY DEF Dedicated
<1>5. plan = IF 0 \in {g, c, t} THEN <<>> ELSE <<g, c, t>>
  BY DEF P!select_queue_families, P!None
<1> HIDE DEF g, c, t, G, C, T, C1, T1, plan
<1>6. (g = 0 <=> G = {}) /\ (c = 0 <=> C = {}) /\ (t = 0 <=> T = {})
  BY <1>1, <1>2, <1>3, <1>4 DEF FirstOf
<1>7. CASE G = {} \/ C = {} \/ T = {}
  <2>1. plan = <<>>
    BY <1>5, <1>6, <1>7
  <2>2. QED
    BY <1>7, <2>1 DEF plan, G, C, T
<1>8. CASE ~(G = {} \/ C = {} \/ T = {})
  <2>1. plan[1] = g /\ plan[2] = c /\ plan[3] = t
    BY <1>5, <1>6, <1>8
  <2>2. \A i \in 1 .. 3 :
          /\ requests[i].family = plan[i]
          /\ requests[i].count = IF \E j \in 1 .. (i - 1) : plan[j] = plan[i] THEN 0
                                 ELSE Cardinality({j \in i .. 3 : plan[j] = plan[i]})
    <3>1. requests = [i \in 1 .. 3 |->
             [family |-> plan[i],
              count  |-> IF \E j \in 1 .. (i - 1) : plan[j] = plan[i] THEN 0
                         ELSE Cardinality({j \in i .. 3 : plan[j] = plan[i]})]]
      BY Zenon DEF P!build_queue_create_requests, P!Cardinality, Cardinality
    <3> HIDE DEF requests
    <3>2. QED
      BY <3>1
  <2> HIDE DEF requests
  <2>3. \A i, j \in 1 .. 3 : i < j /\ requests[i].family = requests[j].family => requests[j].count = 0
    BY <2>2
  <2>4. requests[1].count + requests[2].count + requests[3].count = 3
    <3> DEFINE S1 == {j \in 1 .. 3 : plan[j] = plan[1]}
               S2 == {j \in 2 .. 3 : plan[j] = plan[2]}
               S3 == {j \in 3 .. 3 : plan[j] = plan[3]}
    <3>1. /\ requests[1].count = Cardinality(S1)
          /\ requests[2].count = IF plan[1] = plan[2] THEN 0 ELSE Cardinality(S2)
          /\ requests[3].count = IF plan[1] = plan[3] \/ plan[2] = plan[3] THEN 0 ELSE Cardinality(S3)
      BY <2>2
    <3>2. \A x : IsFiniteSet({x}) /\ Cardinality({x}) = 1
      BY FS_Singleton, Zenon
    <3>3. /\ IsFiniteSet({1} \cup {2})
          /\ Cardinality({1} \cup {2}) = 2 /\ Cardinality({1} \cup {3}) = 2 /\ Cardinality({2} \cup {3}) = 2
      <4>1. ASSUME NEW x, NEW y, x # y
            PROVE  IsFiniteSet({x} \cup {y}) /\ Cardinality({x} \cup {y}) = Cardinality({x}) + 1
        BY <3>2, <4>1, FS_AddElement
      <4>2. /\ IsFiniteSet({1} \cup {2}) /\ Cardinality({1} \cup {2}) = Cardinality({1}) + 1
            /\ Cardinality({1} \cup {3}) = Cardinality({1}) + 1
            /\ Cardinality({2} \cup {3}) = Cardinality({2}) + 1
        <5>1. 1 # 2 /\ 1 # 3 /\ 2 # 3
          OBVIOUS
        <5>2. QED
          BY <4>1, <5>1, Zenon
      <4>3. Cardinality({1}) = 1 /\ Cardinality({2}) = 1
        BY <3>2, Zenon
      <4>4. QED
        BY <4>2, <4>3
    <3>4. Cardinality({1} \cup {2} \cup {3}) = 3
      <4>1. Cardinality({1} \cup {2} \cup {3}) = Cardinality({1} \cup {2}) + 1
        <5>1. 3 \notin {1} \cup {2}
          OBVIOUS
        <5>2. QED
          BY <3>3, <5>1, FS_AddElement, Zenon
      <4>2. QED
        BY <3>3, <4>1
    <3>5. CASE plan[1] = plan[2] /\ plan[2] = plan[3]
      <4>1. S1 = {1} \cup {2} \cup {3}
        BY <3>5
      <4>2. QED
        BY <3>1, <3>4, <3>5, <4>1
    <3>6. CASE plan[1] = plan[2] /\ plan[2] # plan[3]
      <4>1. S1 = {1} \cup {2} /\ S3 = {3}
        BY <3>6
      <4>2. Cardinality(S1) = 2 /\ Cardinality(S3) = 1
        BY <3>2, <3>3, <4>1, Zenon
      <4>3. QED
        BY <3>1, <3>6, <4>2
    <3>7. CASE plan[1] # plan[2] /\ plan[2] = plan[3]
      <4>1. S1 = {1} /\ S2 = {2} \cup {3}
        BY <3>7
      <4>2. Cardinality(S1) = 1 /\ Cardinality(S2) = 2
        BY <3>2, <3>3, <4>1, Zenon
      <4>3. QED
        BY <3>1, <3>7, <4>2
    <3>8. CASE plan[1] # plan[2] /\ plan[1] = plan[3]
      <4>1. S1 = {1} \cup {3} /\ S2 = {2}
        BY <3>8
      <4>2. Cardinality(S1) = 2 /\ Cardinality(S2) = 1
        BY <3>2, <3>3, <4>1, Zenon
      <4>3. QED
        BY <3>1, <3>8, <4>2
    <3>9. CASE plan[1] # plan[2] /\ plan[1] # plan[3] /\ plan[2] # plan[3]
      <4>1. S1 = {1} /\ S2 = {2} /\ S3 = {3}
        BY <3>9
      <4>2. Cardinality(S1) = 1 /\ Cardinality(S2) = 1 /\ Cardinality(S3) = 1
        BY <3>2, <4>1
      <4>3. QED
        BY <3>1, <3>9, <4>2
    <3>10. QED
      BY <3>5, <3>6, <3>7, <3>8, <3>9
  <2>5. QED
    BY <1>1, <1>2, <1>8, <2>1, <2>3, <2>4 DEF plan, requests, G, C, T, C1, T1
<1>9. QED
  BY <1>7, <1>8

(***************************************************************************)
(* Of a world packet that valid_world_packet accepts, whatever its size    *)
(* and the capacity, every vertex and every instance record a draw makes   *)
(* the shader read exists.                                                 *)
(***************************************************************************)
THEOREM WorldPacketsStayInBounds ==
  ASSUME NEW halves \in Nat, NEW capacity \in Nat, NEW finite \in BOOLEAN,
         NEW draws \in SUBSET [first_vertex : Nat, vertices : Nat, first_instance : Nat, instances : Nat],
         P!valid_world_packet(halves, capacity, finite, draws)
  PROVE  /\ halves <= capacity
         /\ \A d \in draws :
              /\ \A v \in 0 .. d.vertices - 1 : d.first_vertex + v < P!VertexLimit
              /\ \A i \in 0 .. d.instances - 1 : 2 * (d.first_instance + i) + 1 < halves
<1>1. halves <= capacity /\ halves % 2 = 0
  BY DEF P!valid_world_packet
<1> DEFINE n == halves \div 2
<1>2. n \in Nat /\ halves = 2 * n + (halves % 2)
  BY Division
<1>3. halves = 2 * n
  BY <1>1, <1>2
<1>4. ASSUME NEW d \in draws
      PROVE  /\ \A v \in 0 .. d.vertices - 1 : d.first_vertex + v < P!VertexLimit
             /\ \A i \in 0 .. d.instances - 1 : 2 * (d.first_instance + i) + 1 < halves
  <2>1. /\ d.first_vertex \in Nat /\ d.vertices \in Nat /\ d.first_instance \in Nat /\ d.instances \in Nat
    OBVIOUS
  <2>2. d.first_vertex + d.vertices <= P!VertexLimit /\ d.first_instance + d.instances <= n
    BY DEF P!valid_world_packet
  <2> HIDE DEF n
  <2>3. P!VertexLimit = 36
    BY DEF P!VertexLimit
  <2>4. QED
    BY <1>2, <1>3, <2>1, <2>2, <2>3
<1>5. QED
  BY <1>1, <1>4
=============================================================================
