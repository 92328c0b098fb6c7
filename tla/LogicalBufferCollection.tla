---------------------- MODULE LogicalBufferCollection ----------------------
(***************************************************************************)
(* A buffer collection of sysmem.  Its participants form a tree of nodes.  *)
(* A node is a token until its client binds it, then a BufferCollection,   *)
(* and an orphan once the client has closed it.  When every node that has  *)
(* to is ready, the buffers are allocated; sub-trees attached with         *)
(* AttachToken join later if the buffers that exist suit them.  A node     *)
(* that fails takes its failure domain with it.  The buffers go once       *)
(* sysmem and the clients hold no handle to them.                          *)
(*                                                                         *)
(* The operators take and return g, the state of the collection; every     *)
(* action is one callback of sysmem's single-threaded dispatcher or a      *)
(* client that closes a buffer.                                            *)
(***************************************************************************)
EXTENDS Integers, FiniteSets, FiniteSetsExt

CONSTANTS
  Node,        \* the nodes a behaviour may create, 1 .. k; 1 is the root
  MaxBuffers,  \* kMaxCountBufferCollectionInfoBuffers
  Scenarios    \* what the clients do in a behaviour: records with
               \*   tokens      how many nodes are created
               \*   rootAsks    the constraints the root sets, one of
               \*   otherAsks   and the other nodes
               \*   attaches    whether AttachToken is called
               \*   early       by which nodes also before they have buffers
               \*   dispenses   whether SetDispensable is called
               \*   waits       which nodes call WaitForBuffersAllocated
               \*   tracks      the buffers_remaining of AttachLifetimeTracking
               \*   misuses     the reasons of calls that sysmem refuses
               \*   oom         whether the memory allocator may fail

VARIABLES
  node,      \* node[n]: NodeProperties and the Node it owns
  attempted, \* is_allocate_attempted_
  info,      \* whether allocation_result_info_ holds the buffers
  buffers,   \* buffers().count() of buffer_collection_info_before_population_
  vmos,      \* parent_vmos_
  held,      \* held[n]: the buffers the client of n has handles to
  tracker,   \* tracker[n]: the eventpair n gave to AttachLifetimeTracking
  panic,     \* the assertion that failed, if any
  scenario   \* what the clients do in this behaviour

vars == <<node, attempted, info, buffers, vmos, held, tracker, panic, scenario>>

Root == 1
NoNode == 0

\* Constraints: how many buffers the participant may hold at once and how many
\* there have to be at all.  A participant without needs sets Null.
Unset == [camping |-> -1, least |-> 0]
Null == [camping |-> 0, least |-> 0]

\* ErrorPropagationMode, from the weakest isolation to the strongest, is
\* "propagate", "before_allocation" (SetDispensable) and "never" (AttachToken).
Blank == [kind |-> "none", parent |-> NoNode, mode |-> "propagate", allocated |-> FALSE,
          constraints |-> Unset, clients |-> 0, collections |-> 0,
          done |-> FALSE, request |-> FALSE, failing |-> "no", wait |-> "no"]

Now == [node |-> node, attempted |-> attempted, info |-> info, buffers |-> buffers, vmos |-> vmos,
        held |-> held, tracker |-> tracker, panic |-> panic]

\* A callback leaves g; nothing follows a failed assertion.
Callback(g) ==
  /\ panic = "none"
  /\ node' = g.node /\ attempted' = g.attempted /\ info' = g.info /\ buffers' = g.buffers
  /\ vmos' = g.vmos /\ held' = g.held /\ tracker' = g.tracker /\ panic' = g.panic
  /\ UNCHANGED scenario

Panic(g, why) == [g EXCEPT !.panic = IF @ = "none" THEN why ELSE @]
Require(g, p, why) == IF p THEN g ELSE Panic(g, why)

-----------------------------------------------------------------------------
\* The tree.

Connected(k) == k \in {"token", "collection"}
Tree(g) == {n \in Node : g.node[n].kind \in {"token", "collection", "orphan"}}

\* n and its ancestors.
RECURSIVE Up(_, _)
Up(g, n) == IF n = NoNode THEN {} ELSE {n} \cup Up(g, g.node[n].parent)

BreadthFirstOrder(g, top) == {n \in Tree(g) : top \in Up(g, n)}

AdjustRelevantNodeCounts(g, n, kind, by) ==
  [g EXCEPT !.node = [m \in Node |->
     IF m \in Up(g, n)
       THEN [g.node[m] EXCEPT !.clients = @ + IF Connected(kind) THEN by ELSE 0,
                              !.collections = @ + IF kind = "collection" THEN by ELSE 0]
       ELSE g.node[m]]]

\* A BufferCollection that goes before it was allocated closes the eventpair
\* it was given.
DropPending(g, S) ==
  [g EXCEPT !.tracker = [n \in Node |->
     IF n \in S /\ @[n].at = "pending" THEN [@[n] EXCEPT !.at = "dropped"] ELSE @[n]]]

\* A new Node takes n's place.
Swap(g, n, kind) ==
  [DropPending(g, {n}) EXCEPT !.node[n] =
     [@ EXCEPT !.kind = kind, !.done = FALSE, !.request = FALSE, !.failing = "no", !.wait = "no"]]
SetNode(g, n, kind) ==
  Swap(AdjustRelevantNodeCounts(AdjustRelevantNodeCounts(g, n, kind, 1), n, g.node[n].kind, -1), n, kind)

Fresh(g) == {n \in Node : g.node[n].kind = "none"}

\* A token below p.
CreateBufferCollectionToken(g, p, mode) ==
  LET n == Min(Fresh(g))
  IN  SetNode([g EXCEPT !.node[n] = [Blank EXCEPT !.parent = p, !.mode = mode]], n, "token")

\* parent_ is cleared before the counts of n are taken back.
RemoveFromTreeAndDelete(g, n) ==
  LET cut == [g EXCEPT !.node[n].parent = NoNode]
  IN  [AdjustRelevantNodeCounts(cut, n, g.node[n].kind, -1) EXCEPT !.node[n] = [Blank EXCEPT !.kind = "gone"]]

RECURSIVE RemoveAll(_, _)
RemoveAll(g, S) ==
  IF S = {} THEN g
  ELSE LET n == CHOOSE n \in S : \A m \in S \ {n} : n \notin Up(g, m)
       IN  RemoveAll(RemoveFromTreeAndDelete(g, n), S \ {n})

\* Mutant: sysmem keeps its handles to the buffers.
FailDownFromKeeping(g, top) ==
  LET S == BreadthFirstOrder(g, top)
  IN  RemoveAll(DropPending(g, S), S)
FailDownFrom(g, top) ==
  LET S == BreadthFirstOrder(g, top)
  IN  [RemoveAll(DropPending(g, S), S) EXCEPT !.info = IF top = Root THEN FALSE ELSE @]

\* Mutant: an attached sub-tree is isolated only once it has buffers.
RECURSIVE FindTreeToFailTogether(_, _)
FindTreeToFailTogether(g, n) ==
  IF n = Root \/ (g.node[n].mode # "propagate" /\ g.node[n].allocated)
    THEN n
    ELSE FindTreeToFailTogether(g, g.node[n].parent)
\* The top of the sub-tree that fails with n.
RECURSIVE FindTreeToFail(_, _)
FindTreeToFail(g, n) ==
  IF \/ n = Root
     \/ g.node[n].mode = "never"
     \/ g.node[n].mode = "before_allocation" /\ g.node[n].allocated
    THEN n
    ELSE FindTreeToFail(g, g.node[n].parent)

FailNode(g, n) == FailDownFrom(g, FindTreeToFail(g, n))

-----------------------------------------------------------------------------
\* Allocation.

ReadyForAllocation(g, n) ==
  \/ g.node[n].kind = "orphan"
  \/ g.node[n].kind = "collection" /\ g.node[n].constraints # Unset

\* Mutant: off by one.
SweepLifetimeTrackingBelow(g) ==
  [g EXCEPT !.tracker = [n \in Node |->
     IF @[n].at = "listed" /\ @[n].remaining > Cardinality(g.vmos) THEN [@[n] EXCEPT !.at = "told"] ELSE @[n]]]
\* The eventpairs whose count of buffers is reached are closed.
SweepLifetimeTracking(g) ==
  [g EXCEPT !.tracker = [n \in Node |->
     IF @[n].at = "listed" /\ @[n].remaining >= Cardinality(g.vmos) THEN [@[n] EXCEPT !.at = "told"] ELSE @[n]]]

\* The client gets handles to the buffers if it means to use them.
MaybeCompleteWaitForBuffersAllocated(g, n, ok) ==
  IF g.node[n].wait # "pending" THEN g
  ELSE [g EXCEPT !.node[n].wait = "answered",
                 !.held[n] = IF ok /\ g.node[n].constraints # Null THEN g.vmos ELSE @]

MaybeFlushPendingLifetimeTracking(g, n, ok) ==
  IF g.tracker[n].at # "pending" THEN g
  ELSE SweepLifetimeTracking([g EXCEPT !.tracker[n].at = IF ok THEN "listed" ELSE "dropped"])

\* Mutant: only the next call of WaitForBuffersAllocated is answered.
OnBuffersAllocatedUnanswered(g, n, ok) ==
  LET h == [Require(g, g.node[n].kind # "token", "a token is told of the allocation")
              EXCEPT !.node[n].allocated = TRUE]
  IN  MaybeFlushPendingLifetimeTracking(h, n, ok)
OnBuffersAllocated(g, n, ok) ==
  LET h == [Require(g, g.node[n].kind # "token", "a token is told of the allocation")
              EXCEPT !.node[n].allocated = TRUE]
  IN  MaybeFlushPendingLifetimeTracking(MaybeCompleteWaitForBuffersAllocated(h, n, ok), n, ok)

Tell(g, S, ok) == FoldSet(LAMBDA n, h : OnBuffersAllocated(h, n, ok), g, S)

\* The constraints that count among those of S, and the number of buffers
\* they add up to.
Constrained(g, S) == {n \in S : g.node[n].constraints # Unset}
BuffersNeeded(g, S) ==
  LET C == Constrained(g, S)
  IN  Max({MapThenSumSet(LAMBDA n : g.node[n].constraints.camping, C)}
            \cup {g.node[n].constraints.least : n \in C})

SendAllocationResult(g, S, ok) ==
  LET told == Tell(Require(g, g.node[Root].collections # 0, "buffer_collection_count() is 0"), S, ok)
  IN  IF ok THEN told ELSE FailDownFrom(told, Root)

SetFailedAllocationResult(g) == SendAllocationResult(g, BreadthFirstOrder(g, Root), FALSE)

\* When memory runs out, the buffers there are go away on their own.
Allocate(g, S, need) ==
  {SendAllocationResult([g EXCEPT !.buffers = need, !.vmos = 1 .. need, !.info = TRUE], S, TRUE)}
    \cup {SetFailedAllocationResult([g EXCEPT !.buffers = need, !.vmos = 1 .. k]) :
            k \in IF scenario.oom THEN 0 .. need ELSE {}}

\* The collections that the first allocation may lead to.
TryAllocate(g, S) ==
  LET h == [Require(g, Constrained(g, S) # {}, "no constraints") EXCEPT !.attempted = TRUE]
      need == BuffersNeeded(g, S)
  IN  IF h.panic # "none" THEN {h}
      ELSE IF (\A n \in Constrained(g, S) : g.node[n].constraints = Null) \/ need > MaxBuffers
             THEN {SetFailedAllocationResult(h)}
             ELSE Allocate(h, S, need)

SetFailedLateLogicalAllocationResult(g, top) ==
  FailDownFrom(Tell(g, BreadthFirstOrder(g, top), FALSE), top)

\* Mutant: the participants that have the buffers are not counted.
TryLateLogicalAllocationAlone(g, top, S) ==
  IF BuffersNeeded(g, S) <= g.buffers
    THEN Tell(g, S, TRUE)
    ELSE SetFailedLateLogicalAllocationResult(g, top)
\* The sub-tree below top asks for the buffers that are there.
TryLateLogicalAllocation(g, top, S) ==
  LET served == {n \in Tree(g) : g.node[n].allocated}
  IN  IF BuffersNeeded(g, served \cup S) <= g.buffers
        THEN Tell(g, S, TRUE)
        ELSE SetFailedLateLogicalAllocationResult(g, top)

FailureDomainSubtrees(g) == {n \in Tree(g) : n = Root \/ g.node[n].mode # "propagate"}

\* Failure domains nobody is connected to fail, the smaller ones first.
RECURSIVE FailAbandoned(_)
FailAbandoned(g) ==
  LET A == {n \in FailureDomainSubtrees(g) : g.node[n].clients = 0}
  IN  IF A = {} THEN g
      ELSE FailAbandoned(FailNode(g, CHOOSE n \in A : \A m \in A \ {n} : n \notin Up(g, m)))

PrunedSubtreesEligibleForLogicalAllocation(g) ==
  {n \in Tree(g) : /\ ~g.node[n].allocated
                   /\ n = Root \/ g.node[g.node[n].parent].allocated}

NodesOfPrunedSubtree(g, top) ==
  {n \in BreadthFirstOrder(g, top) : \A m \in Up(g, n) \ Up(g, top) : g.node[m].mode # "never"}

\* The sub-trees in R get what they ask for, or fail: parents first, those of one
\* depth in any order (children_ is an unordered map).
RECURSIVE TryEach(_, _)
TryEach(g, R) ==
  LET next == {t \in R : \A u \in R : Cardinality(Up(g, t)) <= Cardinality(Up(g, u))}
      tried(t) == TryLateLogicalAllocation(g, t, NodesOfPrunedSubtree(g, t))
  IN  IF R = {} THEN {g} ELSE UNION {TryEach(tried(t), R \ {t}) : t \in next}

\* Mutant: there is no second look.
MaybeAllocateOnce(g) ==
  LET h == FailAbandoned(g)
      E == PrunedSubtreesEligibleForLogicalAllocation(h)
      ready == {t \in E : \A n \in NodesOfPrunedSubtree(h, t) : ReadyForAllocation(h, n)}
  IN  IF ready = {} THEN {h}
      ELSE IF h.attempted THEN TryEach(h, ready) ELSE TryAllocate(h, NodesOfPrunedSubtree(h, Root))
\* What may be left when everyone who can be served is.
RECURSIVE MaybeAllocate(_)
MaybeAllocate(g) ==
  LET h == FailAbandoned(g)
      E == PrunedSubtreesEligibleForLogicalAllocation(h)
      ready == {t \in E : \A n \in NodesOfPrunedSubtree(h, t) : ReadyForAllocation(h, n)}
      passed == IF h.attempted THEN TryEach(h, ready) ELSE TryAllocate(h, NodesOfPrunedSubtree(h, Root))
  IN  IF \E t \in E : t # Root /\ h.node[t].mode # "never" THEN {Panic(h, "not an attached sub-tree")}
      ELSE IF ready = {} \/ h.panic # "none" THEN {h}
      ELSE UNION {MaybeAllocate(k) : k \in passed}

-----------------------------------------------------------------------------
\* What clients ask for.

Init ==
  /\ \E s \in Scenarios : scenario = s
  /\ node = [n \in Node |-> IF n = Root THEN [Blank EXCEPT !.kind = "token", !.clients = 1] ELSE Blank]
  /\ attempted = FALSE /\ info = FALSE /\ buffers = 0 /\ vmos = {}
  /\ held = [n \in Node |-> {}]
  /\ tracker = [n \in Node |-> [at |-> "none", remaining |-> 0]]
  /\ panic = "none"

\* The dispatcher reads messages of n, whose client has not called Close().
Open(n, kind) == node[n].kind = kind /\ node[n].failing = "no" /\ ~node[n].done

CanCreate == Cardinality(Tree(Now) \cup {n \in Node : node[n].kind = "gone"}) < scenario.tokens

Duplicate(n) ==
  /\ Open(n, "token") /\ CanCreate
  /\ Callback(CreateBufferCollectionToken(Now, n, "propagate"))

\* The only call that is heeded even after Close().
SetDispensable(n) ==
  /\ scenario.dispenses
  /\ node[n].kind = "token" /\ node[n].failing = "no" /\ node[n].mode = "propagate"
  /\ Callback([Now EXCEPT !.node[n].mode = "before_allocation"])

\* Whoever has the client end of the token trades it for a BufferCollection.
BindSharedCollection(n) ==
  /\ Open(n, "token") /\ ~node[n].request
  /\ Callback([Now EXCEPT !.node[n].request = TRUE])

Close(n) ==
  /\ \/ Open(n, "token") /\ ~node[n].request
     \/ Open(n, "collection") /\ (scenario.early = {} \/ node[n].allocated)
  /\ Callback([Now EXCEPT !.node[n].done = TRUE])

SetConstraints(n) ==
  /\ Open(n, "collection") /\ node[n].constraints = Unset
  /\ \E c \in IF n = Root THEN scenario.rootAsks ELSE scenario.otherAsks :
       \E h \in MaybeAllocate([Now EXCEPT !.node[n].constraints = c]) : Callback(h)

WaitForBuffersAllocated(n) ==
  /\ n \in scenario.waits /\ Open(n, "collection") /\ node[n].wait = "no"
  /\ LET g == [Now EXCEPT !.node[n].wait = "pending"]
     IN  Callback(IF node[n].allocated THEN MaybeCompleteWaitForBuffersAllocated(g, n, TRUE) ELSE g)

AttachToken(n) ==
  /\ scenario.attaches /\ (node[n].allocated \/ n \in scenario.early)
  /\ Open(n, "collection") /\ CanCreate
  /\ Callback(CreateBufferCollectionToken(Now, n, "never"))

AttachLifetimeTracking(n) ==
  /\ Open(n, "collection") /\ tracker[n].at = "none"
  /\ \E r \in scenario.tracks :
       LET g == [Now EXCEPT !.tracker[n] = [at |-> "pending", remaining |-> r]]
       IN  Callback(IF node[n].allocated THEN MaybeFlushPendingLifetimeTracking(g, n, TRUE) ELSE g)

\* A call that sysmem does not accept: any after Close(), a second Close() or
\* BindSharedCollection(), GetAuxBuffers() before the allocation; and a second
\* SetConstraints(), malformed arguments, or a call not implemented.
FailSync(n) ==
  /\ node[n].failing = "no"
  /\ \E status \in scenario.misuses :
       /\ \/ /\ status = "bad_state" /\ Connected(node[n].kind)
             /\ node[n].done \/ node[n].request \/ (node[n].kind = "collection" /\ ~node[n].allocated)
          \/ status = "not_supported" /\ Open(n, "collection")
       /\ Callback([Now EXCEPT !.node[n].failing = status])

\* The channel of n is closed, by its client or after FailSync: the error
\* handlers that CreateBufferCollectionToken and BindSharedCollectionInternal set.
Unbound(n) ==
  /\ Connected(node[n].kind)
  /\ CASE node[n].failing = "bad_state" -> Callback(FailDownFrom(Now, Root))
       [] node[n].failing = "no" /\ node[n].request -> Callback(SetNode(Now, n, "collection"))
       [] node[n].failing = "no" /\ node[n].done -> \E h \in MaybeAllocate(SetNode(Now, n, "orphan")) : Callback(h)
       [] OTHER -> Callback(FailNode(Now, n))

\* The client closes its handle to buffer b.
CloseVmo(n, b) ==
  /\ b \in held[n]
  /\ Callback([Now EXCEPT !.held[n] = @ \ {b}])

\* Neither sysmem nor a client has a handle to buffer b any more.
ZeroChildren(b) == b \in vmos /\ ~info /\ \A n \in Node : b \notin held[n]

OnZeroChildren(b) ==
  /\ ZeroChildren(b)
  /\ Callback(SweepLifetimeTracking([Now EXCEPT !.vmos = @ \ {b}]))

Call(n) ==
  \/ Duplicate(n) \/ SetDispensable(n) \/ BindSharedCollection(n) \/ Close(n) \/ SetConstraints(n)
  \/ WaitForBuffersAllocated(n) \/ AttachToken(n) \/ AttachLifetimeTracking(n) \/ FailSync(n) \/ Unbound(n)

Next ==
  \/ \E n \in Node : Call(n)
  \/ \E n \in Node : \E b \in 1 .. MaxBuffers : CloseVmo(n, b)
  \/ \E b \in 1 .. MaxBuffers : OnZeroChildren(b)

Spec == Init /\ [][Next]_vars

-----------------------------------------------------------------------------
\* No assertion of sysmem fails: only nodes that can be are told of an
\* allocation, there are constraints to combine, a sub-tree that is served later
\* than its parent is an attached one.
AssertionsHold == panic = "none"

Served(g) == {n \in Tree(g) : g.node[n].allocated}

\* No sub-tree is left waiting for buffers it could have been given or refused:
\* MaybeAllocate runs wherever a node becomes ready, and goes on until nothing
\* is left that queued up behind an allocation.
NoneOverlooked ==
  \A t \in PrunedSubtreesEligibleForLogicalAllocation(Now) :
    \E n \in NodesOfPrunedSubtree(Now, t) : ~ReadyForAllocation(Now, n)

\* The participants that were given the buffers can all hold at once what they
\* said they need: a sub-tree that joins late counts against everyone there.
BuffersSuffice == info => BuffersNeeded(Now, Served(Now)) <= buffers /\ vmos = 1 .. buffers

\* An eventpair given to AttachLifetimeTracking is closed when the number of
\* buffers has come down to the one asked for, neither before nor later, whether
\* it was attached before the allocation, after it or to buffers that are going.
TrackersExact ==
  \A n \in Node :
    /\ tracker[n].at = "told" => Cardinality(vmos) <= tracker[n].remaining
    /\ tracker[n].at = "listed" => Cardinality(vmos) > tracker[n].remaining

\* Nothing that the participants of an attached sub-tree do, or of a dispensable
\* one that has its buffers, costs a participant outside it its channel:
\* FindTreeToFail stops there, and a late allocation that fails stays below.
Isolated ==
  [][\A t \in Tree(Now) \ {Root} :
       node[t].mode = "never" \/ (node[t].mode = "before_allocation" /\ node[t].allocated) =>
         \A n \in BreadthFirstOrder(Now, t) : Call(n) =>
           \A m \in Tree(Now) \ BreadthFirstOrder(Now, t) : Connected(node[m].kind) => Connected(node'[m].kind)]_vars

-----------------------------------------------------------------------------
\* Participants get on with it: who has a token does not just keep it, who has a
\* BufferCollection does not keep everyone waiting for constraints, a channel
\* that was given up is closed, and buffers are not kept for ever.
Undecided(n) ==
  \/ Open(n, "token") /\ ~node[n].request
  \/ Open(n, "collection") /\ node[n].constraints = Unset
GivenUp(n) == Connected(node[n].kind) /\ ~ReadyForAllocation(Now, n) /\ ~Undecided(n)
Participants == \A n \in Node : []<>~Undecided(n) /\ []<>(held[n] = {})

\* The dispatcher gets round to channels that were closed, and to buffers without
\* handles.  Each happens a bounded number of times.
Dispatched ==
  /\ []<>(\A n \in Node : ~GivenUp(n)) \/ []<><<\E n \in Node : Unbound(n)>>_vars
  /\ []<>(\A b \in vmos : ~ZeroChildren(b)) \/ []<><<\E b \in vmos : OnZeroChildren(b)>>_vars

FairSpec == Spec /\ Participants /\ Dispatched

\* WaitForBuffersAllocated is answered, or the channel closed, if the participants
\* get on with it: no order of calls leaves a client hanging.  (A client waits
\* once here, so that "all are answered" recurs.)
WaitsAnswered == []<>(\A n \in Node : node[n].wait # "pending")

\* Once the collection has failed or been given up, its buffers go back to the
\* memory allocator: FailDownFrom drops sysmem's own handles with the root.
Reclaimed == Root \notin Tree(Now) ~> vmos = {}
=============================================================================
