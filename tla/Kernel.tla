------------------------------- MODULE Kernel -------------------------------
(***************************************************************************)
(* The kernel's life cycle (kernel/scheduler.rs, struct Kernel) with what  *)
(* it drives: the registry, the planner (module Schedule), the message bus *)
(* and its inboxes, the deferred ECS commands and the entity table.  The   *)
(* kernel is one thread.  A subsystem callback is a sequence of calls on   *)
(* its KernelContext, chosen freely, and then a return.  Subsystem i and   *)
(* subscriber i of the code (0-based) are i + 1 here.                      *)
(***************************************************************************)
EXTENDS Schedule, Entities

CONSTANTS
  InboxCapacity,  \* 64 in the code
  DeferredCapacity,
  MaxInbox,       \* bound: addresses a subsystem may try to send to
  MaxSeq,         \* bound: messages built
  MaxInits,       \* bound: successful calls of init
  MaxIncarnation, \* bound: allocations of one entity slot
  Scenarios       \* kernels to look at: [subsystems, calls, debug, frames]

\* A slot is not allocated more often than a generation has values: after 2^32
\* allocations of one slot a kept handle could match again.
ASSUME KernelAssumption ==
  /\ InboxCapacity \in Nat /\ DeferredCapacity \in Nat /\ MaxInbox \in Nat
  /\ MaxIncarnation \in 0 .. Generations
  /\ \A c \in Scenarios :
       /\ c.debug \in BOOLEAN
       /\ \A s \in c.subsystems : Len(s.needs) \in Nat

VARIABLES
  registry,    \* Registry.entries
  names,       \* Kernel.names
  exec,        \* Kernel.order
  inboxes,     \* MessageBus.inboxes, contents oldest first
  outbox,      \* MessageBus.outbox
  edges,       \* MessageBus.edges: pairs <<to, from>>
  nextSeq, undeclared,
  deferred,    \* DeferredCommands.commands
  table,       \* World.entities
  initialized,
  frame,       \* Kernel.frame_index
  kpc,         \* "idle", "plan", "callback", "between" frames, or "crashed"
  stage,       \* which callback is running: "init", "tick" or "shutdown"
  at,          \* its position in exec
  budget,      \* frames left in run_until
  up,          \* history: subsystems initialised and not shut down
  inits, incarnation, issued,
  scenario     \* what may be registered, the context calls its callbacks make,
               \* whether debug assertions are compiled in, and the frames run

busVars == <<inboxes, outbox, edges, nextSeq, undeclared>>
worldVars == <<deferred, table, incarnation, issued>>
flowVars == <<initialized, frame, kpc, stage, at, budget, up, inits,
              scenario>>
vars == <<schedVars, registry, names, exec, busVars, worldVars, flowVars>>

Current == exec[at]          \* the subsystem whose callback runs
IndexOf(name) == CHOOSE i \in 1 .. Len(registry) : registry[i].name = name
Known(name) == \E i \in 1 .. Len(registry) : registry[i].name = name

Init ==
  /\ StartSort(<<>>, <<>>)
  /\ registry = <<>> /\ names = <<>> /\ exec = <<>>
  /\ inboxes = <<>> /\ outbox = <<>> /\ edges = {}
  /\ nextSeq = 0 /\ undeclared = 0
  /\ deferred = <<>> /\ table = EmptyTable
  /\ incarnation = [s \in Slots |-> 0] /\ issued = {}
  /\ initialized = FALSE /\ frame = 0
  /\ kpc = "idle" /\ stage = "init" /\ at = 0 /\ budget = 0
  /\ up = {} /\ inits = 0
  /\ scenario \in Scenarios

-----------------------------------------------------------------------------
(* Registry and Kernel::init                                               *)

\* A duplicate name is refused.  Nothing stops a registration after init.
Register(s) ==
  /\ kpc = "idle" /\ ~Known(s.name)
  /\ registry' = Append(registry, s)
  /\ UNCHANGED <<schedVars, names, exec, busVars, worldVars, flowVars>>

\* resolve_dependencies succeeds: the planner starts.  (It fails, changing
\* nothing, on an unknown name; a second init of a running kernel is Ok(()).)
InitCall ==
  /\ kpc = "idle" /\ ~initialized /\ inits < MaxInits
  /\ \A i \in 1 .. Len(registry) :
       \A k \in 1 .. Len(registry[i].needs) : Known(registry[i].needs[k])
  /\ names' = [i \in 1 .. Len(registry) |-> registry[i].name]
  /\ deps' = [i \in 1 .. Len(registry) |->
                [k \in 1 .. Len(registry[i].needs) |-> IndexOf(registry[i].needs[k])]]
  /\ access' = [i \in 1 .. Len(registry) |-> registry[i].access]
  /\ phase' = "sort"
  /\ color' = [n \in 1 .. Len(registry) |-> "WHITE"]
  /\ cursor' = [n \in 1 .. Len(registry) |-> 1]
  /\ level' = [n \in 1 .. Len(registry) |-> 0]
  /\ stack' = <<>> /\ order' = <<>> /\ report' = <<>> /\ levelled' = 0
  /\ grouped' = 0 /\ waves' = <<>>
  /\ kpc' = "plan"
  /\ UNCHANGED <<registry, exec, busVars, worldVars, initialized, frame, stage,
                 at, budget, up, inits, scenario>>

Plan ==
  /\ kpc = "plan" /\ PlanStep
  /\ UNCHANGED <<registry, names, exec, busVars, worldVars, flowVars>>

\* Mutant: a cycle error is not returned to the caller.
PlanFailedSwallowed ==
  /\ kpc = "plan" /\ phase = "cycle"
  /\ UNCHANGED vars

\* A dependency cycle: init returns the error, the bus is untouched.
PlanFailed ==
  /\ kpc = "plan" /\ phase = "cycle"
  /\ kpc' = "idle"
  /\ UNCHANGED <<schedVars, registry, names, exec, busVars, worldVars, initialized,
                 frame, stage, at, budget, up, inits, scenario>>

\* Mutant: subsystems run in registration order.
PlanAdoptedUnsorted ==
  /\ kpc = "plan" /\ phase = "planned"
  /\ exec' = [i \in Nodes |-> i]
  /\ inboxes' = inboxes \o [i \in Nodes |-> <<>>]
  /\ edges' = {e \in Nodes \X Nodes : Edge(e[1], e[2])}
  /\ inits' = inits + 1
  /\ at' = 1 /\ stage' = "init"
  /\ kpc' = IF order = <<>> THEN "idle" ELSE "callback"
  /\ initialized' = (order = <<>>)
  /\ UNCHANGED <<schedVars, registry, names, outbox, nextSeq, undeclared,
                 worldVars, frame, budget, up, scenario>>

\* The plan is adopted: one more inbox per subsystem, the routing matrix
\* replaced, and the init callbacks begin.
PlanAdopted ==
  /\ kpc = "plan" /\ phase = "planned"
  /\ exec' = order
  /\ inboxes' = inboxes \o [i \in Nodes |-> <<>>]
  /\ edges' = {e \in Nodes \X Nodes : Edge(e[1], e[2])}
  /\ inits' = inits + 1
  /\ at' = 1 /\ stage' = "init"
  /\ kpc' = IF order = <<>> THEN "idle" ELSE "callback"
  /\ initialized' = (order = <<>>)
  /\ UNCHANGED <<schedVars, registry, names, outbox, nextSeq, undeclared,
                 worldVars, frame, budget, up, scenario>>

-----------------------------------------------------------------------------
(* KernelContext: what a callback may do.                                  *)

routing_ok(from, to) == from = to \/ <<to, from>> \in edges

\* Whether an inbox takes a message (push), and the inboxes with it.
Fits(ib, m) == m.to <= Len(ib) /\ Len(ib[m.to]) < InboxCapacity
\* Mutant: the newest message is put first.
DeliveredFirst(ib, m) == [ib EXCEPT ![m.to] = <<m>> \o @]

Delivered(ib, m) == [ib EXCEPT ![m.to] = Append(@, m)]

\* Mutant: a refused message stays at the head of the outbox, for the next
\* publish or flush to deliver.
LeftInKeepsRefused(out, delivered) == IF delivered THEN Tail(out) ELSE out

\* The popped message has left the outbox, delivered or not.
LeftIn(out, delivered) == Tail(out)

\* MessageBus::publish of a fresh envelope: counted if undeclared, pushed to
\* the outbox, and what the outbox pops delivered to its inbox; the message is
\* gone when the inbox is unknown or full.
Publish(to) ==
  LET env == [from |-> Current, to |-> to, seq |-> nextSeq]
      out == Append(outbox, env)
      queued == Head(out)
      delivered == Fits(inboxes, queued)
  IN /\ "publish" \in scenario.calls
     /\ kpc = "callback" /\ nextSeq < MaxSeq
     /\ ~(scenario.debug /\ ~routing_ok(Current, to))
     /\ nextSeq' = nextSeq + 1
     /\ undeclared' = undeclared + IF routing_ok(Current, to) THEN 0 ELSE 1
     /\ outbox' = LeftIn(out, delivered)
     /\ inboxes' = IF delivered THEN Delivered(inboxes, queued) ELSE inboxes
     /\ UNCHANGED <<schedVars, registry, names, exec, edges, worldVars, flowVars>>

\* In a debug build an undeclared send panics out of the kernel.
PublishPanics(to) ==
  /\ "publish" \in scenario.calls /\ scenario.debug
  /\ kpc = "callback" /\ nextSeq < MaxSeq /\ ~routing_ok(Current, to)
  /\ nextSeq' = nextSeq + 1
  /\ undeclared' = undeclared + 1
  /\ kpc' = "crashed"
  /\ UNCHANGED <<schedVars, registry, names, exec, inboxes, outbox, edges,
                 worldVars, initialized, frame, stage, at, budget, up, inits, scenario>>

\* One turn of the iterator of receive().
Receive ==
  /\ "receive" \in scenario.calls
  /\ kpc = "callback" /\ inboxes[Current] # <<>>
  /\ inboxes' = [inboxes EXCEPT ![Current] = Tail(@)]
  /\ UNCHANGED <<schedVars, registry, names, exec, outbox, edges, nextSeq, undeclared, worldVars, flowVars>>

\* DeferredCommands::push, for a spawn or for a handle the subsystem has kept.
Defer(cmd) ==
  /\ "defer" \in scenario.calls
  /\ kpc = "callback" /\ Len(deferred) < DeferredCapacity
  /\ deferred' = Append(deferred, cmd)
  /\ UNCHANGED <<schedVars, registry, names, exec, busVars, table, incarnation,
                 issued, flowVars>>

Room(t, inc) == CanCreate(t) /\ inc[Created(t).entity.index] < MaxIncarnation

\* world_write().spawn() and .despawn(), at once.
SpawnNow ==
  /\ "world" \in scenario.calls /\ kpc = "callback" /\ Room(table, incarnation)
  /\ LET made == Created(table) IN
     /\ table' = made.table
     /\ incarnation' = [incarnation EXCEPT ![made.entity.index] = @ + 1]
     /\ issued' = issued \cup {[handle |-> made.entity,
                                incarnation |-> incarnation[made.entity.index] + 1]}
  /\ UNCHANGED <<schedVars, registry, names, exec, busVars, deferred, flowVars>>

DespawnNow(x) ==
  /\ "world" \in scenario.calls /\ kpc = "callback" /\ is_alive(table, x.handle)
  /\ table' = Destroyed(table, x.handle)
  /\ UNCHANGED <<schedVars, registry, names, exec, busVars, deferred, incarnation,
                 issued, flowVars>>

ContextCall ==
  \/ \E to \in 1 .. MaxInbox : Publish(to) \/ PublishPanics(to)
  \/ Receive
  \/ Defer([kind |-> "spawn"])
  \/ \E x \in issued : Defer([kind |-> "despawn", target |-> x]) \/ DespawnNow(x)
  \/ SpawnNow

-----------------------------------------------------------------------------
(* Callbacks return; run_until; shutdown.                                  *)

\* init() of the current subsystem returns.
InitReturns ==
  /\ kpc = "callback" /\ stage = "init"
  /\ up' = up \cup {Current}
  /\ at' = at + 1
  /\ initialized' = (at = Len(exec))
  /\ kpc' = IF at = Len(exec) THEN "idle" ELSE "callback"
  /\ UNCHANGED <<schedVars, registry, names, exec, busVars, worldVars, frame, stage,
                 budget, inits, scenario>>

RunCall(n) ==
  /\ kpc = "idle" /\ initialized /\ frame + n <= scenario.frames
  /\ budget' = n
  /\ kpc' = "between"
  /\ UNCHANGED <<schedVars, registry, names, exec, busVars, worldVars, initialized,
                 frame, stage, at, up, inits, scenario>>

\* The budget is used up or keep_running() says no.
RunReturns ==
  /\ kpc = "between"
  /\ kpc' = "idle" /\ budget' = 0
  /\ UNCHANGED <<schedVars, registry, names, exec, busVars, worldVars, initialized,
                 frame, stage, at, up, inits, scenario>>

\* MessageBus::flush, as far as it gets: it stops at the first message it
\* cannot deliver, and that message is gone.
Flushed ==
  LET go[k \in 0 .. Len(outbox)] ==
        IF k = 0 THEN [ib |-> inboxes, going |-> TRUE, taken |-> 0]
        ELSE LET r == go[k - 1] IN
             IF ~r.going THEN r
             ELSE IF Fits(r.ib, outbox[k])
                  THEN [ib |-> Delivered(r.ib, outbox[k]), going |-> TRUE, taken |-> k]
                  ELSE [ib |-> r.ib, going |-> FALSE, taken |-> k]
  IN go[Len(outbox)]

BeginFrame ==
  /\ kpc = "between" /\ budget > 0
  /\ inboxes' = Flushed.ib
  /\ outbox' = SubSeq(outbox, Flushed.taken + 1, Len(outbox))
  /\ stage' = "tick" /\ at' = 1
  /\ kpc' = IF exec = <<>> THEN "frame_end" ELSE "callback"
  /\ UNCHANGED <<schedVars, registry, names, exec, edges, nextSeq, undeclared,
                 worldVars, initialized, frame, budget, up, inits, scenario>>

TickReturns ==
  /\ kpc = "callback" /\ stage = "tick"
  /\ at' = at + 1
  /\ kpc' = IF at = Len(exec) THEN "frame_end" ELSE "callback"
  /\ UNCHANGED <<schedVars, registry, names, exec, busVars, worldVars, initialized,
                 frame, stage, budget, up, inits, scenario>>

\* DeferredCommands::apply: every command in order, a spawn into a full table
\* and a despawn of a dead entity having no effect.
Applied ==
  LET run[k \in 0 .. Len(deferred)] ==
        IF k = 0 THEN [t |-> table, inc |-> incarnation, new |-> {}, killed |-> {}]
        ELSE LET r == run[k - 1]
                 c == deferred[k]
                 made == Created(r.t)
             IN IF c.kind = "spawn"
                THEN IF Room(r.t, r.inc)
                     THEN [t |-> made.table,
                           inc |-> [r.inc EXCEPT ![made.entity.index] = @ + 1],
                           new |-> r.new \cup {[handle |-> made.entity,
                                       incarnation |-> r.inc[made.entity.index] + 1]},
                           killed |-> r.killed]
                     ELSE r
                ELSE IF is_alive(r.t, c.target.handle)
                     THEN [t |-> Destroyed(r.t, c.target.handle), inc |-> r.inc, new |-> r.new,
                           killed |-> r.killed \cup {<<c.target,
                                        r.inc[c.target.handle.index]>>}]
                     ELSE r
  IN run[Len(deferred)]

EndFrame ==
  /\ kpc = "frame_end"
  /\ table' = Applied.t
  /\ incarnation' = Applied.inc
  /\ issued' = issued \cup Applied.new
  /\ deferred' = <<>>
  /\ frame' = frame + 1
  /\ budget' = budget - 1
  /\ kpc' = "between"
  /\ UNCHANGED <<schedVars, registry, names, exec, busVars, initialized, stage, at,
                 up, inits, scenario>>

\* Mutant: the walk starts one place too early.
ShutdownCallOffByOne ==
  /\ kpc = "idle" /\ initialized
  /\ stage' = "shutdown" /\ at' = Len(exec) - 1
  /\ IF exec = <<>>
     THEN kpc' = "idle" /\ initialized' = FALSE
     ELSE kpc' = "callback" /\ UNCHANGED initialized
  /\ UNCHANGED <<schedVars, registry, names, exec, busVars, worldVars, frame, budget,
                 up, inits, scenario>>

ShutdownCall ==
  /\ kpc = "idle" /\ initialized
  /\ stage' = "shutdown" /\ at' = Len(exec)
  /\ IF exec = <<>>
     THEN kpc' = "idle" /\ initialized' = FALSE
     ELSE kpc' = "callback" /\ UNCHANGED initialized
  /\ UNCHANGED <<schedVars, registry, names, exec, busVars, worldVars, frame, budget,
                 up, inits, scenario>>

\* shutdown() of the current subsystem returns; after the last one the order
\* and the waves are cleared.  Inboxes and deferred commands are not.
ShutdownReturns ==
  /\ kpc = "callback" /\ stage = "shutdown"
  /\ up' = up \ {Current}
  /\ at' = at - 1
  /\ IF at = 1
     THEN kpc' = "idle" /\ initialized' = FALSE /\ exec' = <<>> /\ waves' = <<>>
     ELSE UNCHANGED <<kpc, initialized, exec, waves>>
  /\ UNCHANGED <<deps, access, phase, sortVars, level, levelled, grouped, registry, names,
                 busVars, worldVars, frame, stage, budget, inits, scenario>>

KernelStep ==
  \/ Plan \/ PlanFailed \/ PlanAdopted
  \/ InitReturns \/ TickReturns \/ ShutdownReturns
  \/ BeginFrame \/ EndFrame \/ RunReturns

Next ==
  \/ KernelStep \/ ContextCall
  \/ \E s \in scenario.subsystems : Register(s)
  \/ InitCall \/ ShutdownCall
  \/ \E n \in 0 .. scenario.frames : RunCall(n)

Spec == Init /\ [][Next]_vars

\* A callback makes finitely many calls and returns; the kernel goes on.
LiveSpec == Spec /\ WF_vars(KernelStep)

-----------------------------------------------------------------------------
KernelTypeOK ==
  /\ kpc \in {"idle", "plan", "callback", "between", "frame_end", "crashed"}
  /\ stage \in {"init", "tick", "shutdown"}
  /\ initialized \in BOOLEAN
  /\ kpc = "callback" => at \in 1 .. Len(exec)
  /\ Len(outbox) <= 1 /\ Len(deferred) <= DeferredCapacity
  /\ \A i \in 1 .. Len(inboxes) : Len(inboxes[i]) <= InboxCapacity
  /\ up \subseteq 1 .. Len(registry)

\* The kernel's parts fit together: callbacks run at a place of the order,
\* queues keep their bounds, and every subsystem that may run has the inbox
\* with its number.  In the first session there is "exactly one inbox per
\* subsystem"; every later init adds as many again, and those are nobody's.
KernelInv ==
  /\ KernelTypeOK
  /\ Len(exec) <= Len(inboxes)
  /\ inits <= 1 /\ exec # <<>> => Len(inboxes) = Len(exec)

Needs(i) == {IndexOf(registry[i].needs[k]) : k \in 1 .. Len(registry[i].needs)}

\* At every moment a subsystem that is up has everything it depends on up:
\* initialised before it, shut down after it, in every session of a kernel
\* that is registered to, initialised and shut down again and again.
UpWithDependencies == \A i \in up : Needs(i) \subseteq up

\* A callback only ever runs for a subsystem in the right state: init for one
\* that is down, tick and shutdown for one that is up, and a tick only after
\* the dependencies have had theirs in this frame.
CallbackDiscipline ==
  kpc = "callback" =>
    /\ (stage = "init") <=> (Current \notin up)
    /\ stage = "tick" => \A d \in Needs(Current) : \E p \in 1 .. at - 1 : exec[p] = d

\* Callbacks of Kernel::init, run_until and shutdown come in dependency order,
\* in every session.
CallbacksInOrder == UpWithDependencies /\ CallbackDiscipline

\* Messages wait in the inbox of the subsystem they are addressed to, in the
\* order they were built, over restarts of the kernel and late registrations.
InboxesInOrder ==
  \A i \in 1 .. Len(inboxes) :
    /\ \A k \in 1 .. Len(inboxes[i]) : inboxes[i][k].to = i /\ inboxes[i][k].seq < nextSeq
    /\ \A k, l \in 1 .. Len(inboxes[i]) : k < l => inboxes[i][k].seq < inboxes[i][l].seq

\* Only in a release build does an undeclared send go through, and it is
\* counted; a debug build stops at the first one.
UndeclaredIsPoliced ==
  /\ scenario.debug => \A i \in 1 .. Len(inboxes) : \A k \in 1 .. Len(inboxes[i]) :
                     \/ inboxes[i][k].from = i
                     \/ i <= Len(registry) /\ inboxes[i][k].from \in Needs(i)
  /\ (scenario.debug /\ undeclared > 0) => kpc = "crashed"

\* What MessageBus::publish and flush deliver is addressed, ordered and allowed.
BusIsOrderly == InboxesInOrder /\ UndeclaredIsPoliced

\* The inbox with number i, before there is one and after.
Box(ib, i) == IF i <= Len(ib) THEN ib[i] ELSE <<>>

\* An inbox gains the message that is being published, and no other, or its
\* owner takes one.
InboxMove(i) ==
  \/ inboxes'[i] = Box(inboxes, i)
  \/ /\ kpc = "callback" /\ i = Current /\ Box(inboxes, i) # <<>>
     /\ inboxes'[i] = Tail(Box(inboxes, i))
  \/ /\ kpc = "callback" /\ nextSeq' = nextSeq + 1
     /\ inboxes'[i] = Append(Box(inboxes, i), [from |-> Current, to |-> i, seq |-> nextSeq])

\* MessageBus::publish delivers its own message or none, and its answer is
\* final: a message it refused, because the inbox is full or unknown, is never
\* delivered by a later publish or by the flush of a frame, so that a sender
\* that repeats it does not deliver it twice.  (The message is gone, although
\* the comment on publish says that it returns Err "without dropping" it.)
PublishIsFinal == [][\A i \in 1 .. Len(inboxes') : InboxMove(i)]_vars

\* A deferred despawn never kills another entity than the one its handle was
\* issued for, however many spawns and despawns lie between queueing and the
\* end of the frame, the next session's first frame included.
DespawnHitsTarget ==
  kpc = "frame_end" => \A x \in Applied.killed : x[1].incarnation = x[2]

\* Every call into the kernel comes back, unless a routing panic ends it.
CallsReturn == (kpc # "idle") ~> (kpc \in {"idle", "crashed"})
=============================================================================
