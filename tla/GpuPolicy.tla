------------------------------ MODULE GpuPolicy ------------------------------
(***************************************************************************)
(* platform/vulkan_policy.rs and platform/world_upload.rs: the choices and *)
(* the bookkeeping both platforms share.  A queue family is a record       *)
(* [index, flags, count] with flags a set of capabilities.                 *)
(***************************************************************************)
EXTENDS Integers, FiniteSets, Sequences

None == 0

\* The first index of s that satisfies Ok and scores highest, None if none does.
BestIndex(s, Ok(_), Score(_)) ==
    LET good == {i \in DOMAIN s : Ok(i)}
        best == {i \in good : \A j \in good : Score(j) <= Score(i)}
    IN  IF good = {} THEN None ELSE CHOOSE i \in best : \A j \in best : i <= j

\* The first index of s that satisfies Ok.
FirstIndex(s, Ok(_)) == BestIndex(s, Ok, LAMBDA i : 0)

supports(family, required) == family.count > 0 /\ required \subseteq family.flags

\* A family without the capabilities to avoid, otherwise any that will do.
first_preferred(families, required, avoid) ==
    LET dedicated == FirstIndex(families, LAMBDA i : /\ supports(families[i], required)
                                                     /\ families[i].flags \cap avoid = {})
    IN  IF dedicated # None THEN dedicated
        ELSE FirstIndex(families, LAMBDA i : supports(families[i], required))

\* Positions of the three families, None when one of them is missing.
select_queue_families(families) ==
    LET graphics == FirstIndex(families, LAMBDA i : supports(families[i], {"graphics"}))
        compute  == first_preferred(families, {"compute"}, {"graphics"})
        transfer == first_preferred(families, {"transfer"}, {"graphics", "compute"})
    IN  IF None \in {graphics, compute, transfer} THEN <<>>
        ELSE << graphics, compute, transfer >>

\* One request per role; a role whose family was already requested adds to
\* the earlier request instead.
build_queue_create_requests(selection) ==
    [i \in 1..3 |->
        [family |-> selection[i],
         count  |-> IF \E j \in 1..(i - 1) : selection[j] = selection[i] THEN 0
                    ELSE Cardinality({j \in i..3 : selection[j] = selection[i]})]]

-----------------------------------------------------------------------------
\* UploadState: whether the world packet still has to be transferred, and how
\* many transfers were submitted.
invalidate(transfer) == [transfer EXCEPT !.dirty = TRUE]

pending(transfer) == transfer.dirty

submitted(transfer) ==
    IF transfer.dirty THEN [dirty |-> FALSE, transfers |-> transfer.transfers + 1]
    ELSE transfer

\* The number of vertices of the built-in cube the shader can address.
VertexLimit == 36

\* A packet the shader cannot be made to read past: a whole number of
\* instance records within the capacity, and draws that stay inside both the
\* vertices and the instances.  bytes and capacity count instance records,
\* and halves of one.
valid_world_packet(halves, capacity, finite, draws) ==
    /\ halves > 0 /\ halves <= capacity /\ halves % 2 = 0
    /\ finite
    /\ draws # {}
    /\ \A d \in draws : /\ d.vertices > 0 /\ d.instances > 0
                        /\ d.first_vertex + d.vertices <= VertexLimit
                        /\ d.first_instance + d.instances <= halves \div 2
=============================================================================
