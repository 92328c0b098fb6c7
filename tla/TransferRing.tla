---------------------------- MODULE TransferRing ----------------------------
(***************************************************************************)
(* A transfer ring of the xHCI driver, or its command ring.  The ring is a *)
(* list of segments, pages of TRBs whose last TRB links to the next one;   *)
(* the driver adds segments, and more links, while the controller reads.   *)
(* A TRB belongs to the controller when its cycle bit is the controller's, *)
(* which changes at the one link that toggles it.                          *)
(*                                                                         *)
(* The driver's calls are serialized by the device's transaction_lock, or  *)
(* the command ring's mutex_; the controller reads between any two of      *)
(* them.  The operators take and return g, the driver's state of the ring. *)
(***************************************************************************)
EXTENDS Integers, Sequences, FiniteSets, SequencesExt

CONSTANTS
  N,          \* TRBs in a segment
  MaxSegs,    \* bound: segments
  Scenarios   \* what happens in a behaviour: records with
              \*   control   the numbers of data TRBs of control requests
              \*   normal    the numbers of TRBs of normal requests
              \*   commands  whether commands are added
              \*   segs      how many segments there is memory for
              \*   faults    which of "short", "stall" and "oom" may happen

VARIABLES
  trb,       \* trb[t]: the memory of the ring
  segs,      \* buffers_: how many segments there are
  enq,       \* trbs_
  pcs,       \* pcs_, the producer's cycle state
  deq,       \* dequeue_trb_
  pending,   \* pending_trbs_
  stalled,   \* stalled_
  txn,       \* the request that is being queued
  hw,        \* the controller: where it reads, its cycle state, how it fares
  events,    \* transfer events the driver has not handled
  scenario

vars == <<trb, segs, enq, pcs, deq, pending, stalled, txn, hw, events, scenario>>

TRB == (1 .. MaxSegs) \X (0 .. N - 1)
Start == <<1, 0>>
Nowhere == <<0, 0>>
After(t) == <<t[1], t[2] + 1>>

\* status is where AllocateTRB hands out the cycle bit to be written, ioc asks
\* for an event, and tc is a link's EntTC.
Empty(cycle) == [type |-> "none", cycle |-> cycle, tc |-> FALSE, ptr |-> Nowhere, status |-> FALSE, ioc |-> FALSE]
LinkTo(t, tc, cycle) == [Empty(cycle) EXCEPT !.type = "link", !.ptr = t, !.tc = tc]

NoTxn == [phase |-> "idle", trbs |-> <<>>, first |-> Nowhere, cycle |-> FALSE]

Now == [trb |-> trb, segs |-> segs, enq |-> enq, pcs |-> pcs, deq |-> deq, pending |-> pending]
Becomes(g) ==
  /\ trb' = g.trb /\ segs' = g.segs /\ enq' = g.enq /\ pcs' = g.pcs /\ deq' = g.deq
  /\ pending' = g.pending

-----------------------------------------------------------------------------
(* xhci-transfer-ring.cc                                                   *)

IsLink(g, t) == g.trb[t].type = "link"

\* A new segment, all of which is still the driver's, that ends in a link.
AllocBuffer(g) ==
  LET s == g.segs + 1
  IN  [g EXCEPT !.segs = s,
                !.trb = [t \in TRB |->
                  IF t[1] # s THEN @[t]
                  ELSE IF t[2] = N - 1 THEN LinkTo(Start, TRUE, ~g.pcs) ELSE Empty(~g.pcs)]]

\* Mutant: the links are followed but stay the driver's.
RECURSIVE FollowLinksHidden(_)
FollowLinksHidden(g) ==
  IF ~IsLink(g, g.enq) THEN g
  ELSE FollowLinksHidden([g EXCEPT !.pcs = IF g.trb[g.enq].tc THEN ~@ ELSE @, !.enq = g.trb[g.enq].ptr])

\* The links at enq are given to the controller and followed.
RECURSIVE FollowLinks(_)
FollowLinks(g) ==
  IF ~IsLink(g, g.enq) THEN g
  ELSE FollowLinks([g EXCEPT !.trb[g.enq].cycle = g.pcs,
                             !.pcs = IF g.trb[g.enq].tc THEN ~@ ELSE @,
                             !.enq = g.trb[g.enq].ptr])
AdvancePointer(g) == FollowLinks([g EXCEPT !.enq = After(@)])

\* Whether count TRBs after t come before dequeue_trb_.
RECURSIVE Slots(_, _, _)
Slots(g, t, count) ==
  \/ count = 0
  \/ /\ t # g.deq
     /\ IF IsLink(g, t) THEN Slots(g, g.trb[t].ptr, count) ELSE Slots(g, After(t), count - 1)
AvailableSlots(g, count) == Slots(g, After(g.enq), count)

\* Mutant: the link in front of the new segment toggles as well.
GrowTogglesTwice(g) ==
  LET new == <<g.segs + 1, 0>>
      end == <<g.segs + 1, N - 1>>
      h == AllocBuffer(g)
      spare == After(g.enq)
      old == g.trb[spare]
  IN  IF IsLink(g, spare)
        THEN [h EXCEPT !.trb[g.enq].type = "nop",
                       !.trb[end] = LinkTo(old.ptr, old.tc, IF old.tc THEN g.pcs ELSE ~g.pcs),
                       !.trb[spare].ptr = new]
        ELSE [h EXCEPT !.trb[end] = LinkTo(spare, FALSE, ~g.pcs),
                       !.trb[g.enq] = LinkTo(new, FALSE, g.pcs),
                       !.enq = new]

\* A new segment behind enq.  If the TRB after enq is a link the segment goes
\* behind that link, and takes the toggle over; else enq becomes a link to
\* the segment and the segment links to the TRB after enq.
Grow(g) ==
  LET new == <<g.segs + 1, 0>>
      end == <<g.segs + 1, N - 1>>
      h == AllocBuffer(g)
      spare == After(g.enq)
      old == g.trb[spare]
  IN  IF IsLink(g, spare)
        THEN [h EXCEPT !.trb[g.enq].type = "nop",
                       !.trb[end] = LinkTo(old.ptr, old.tc, IF old.tc THEN g.pcs ELSE ~g.pcs),
                       !.trb[spare] = [@ EXCEPT !.ptr = new, !.tc = FALSE]]
        ELSE [h EXCEPT !.trb[end] = LinkTo(spare, FALSE, ~g.pcs),
                       !.trb[g.enq] = LinkTo(new, FALSE, g.pcs),
                       !.enq = new]

\* Mutant: nothing is kept in reserve.
AllocInternalToTheEnd(g, oom) == [ok |-> TRUE, g |-> g]

\* [ok, g]: two TRBs beside the one at enq are kept in reserve.
AllocInternal(g, oom) ==
  IF AvailableSlots(g, 2) THEN [ok |-> TRUE, g |-> g]
  ELSE IF oom \/ g.segs = scenario.segs THEN [ok |-> FALSE, g |-> g] ELSE [ok |-> TRUE, g |-> Grow(g)]

\* The TRB at enq is cleared, but for its cycle bit.
Clear(g) == [g EXCEPT !.trb[g.enq] = [Empty(@.cycle) EXCEPT !.status = g.pcs]]

\* r is [ok, g, got]; the TRB that is allocated is appended to got.
AllocateSlot(r, a) ==
  IF ~a.ok \/ IsLink(a.g, a.g.enq) THEN [r EXCEPT !.ok = FALSE, !.g = a.g]
  ELSE [ok |-> TRUE, g |-> AdvancePointer(Clear(a.g)), got |-> Append(r.got, a.g.enq)]
AllocateTRB(r, oom) == AllocateSlot(r, AllocInternal(r.g, oom))
NoneYet(g) == [ok |-> TRUE, g |-> g, got |-> <<>>]

RECURSIVE Allocate(_, _, _)
Allocate(r, count, oom) == IF count = 0 \/ ~r.ok THEN r ELSE Allocate(AllocateTRB(r, oom), count - 1, oom)

\* A run of TRBs without a link between them.
Contiguous(s) == \A i \in 1 .. Len(s) - 1 : s[i + 1] = After(s[i])
RECURSIVE AllocateRun(_, _, _)
AllocateRun(r, count, oom) ==
  IF count = 0 \/ ~r.ok \/ ~Contiguous(r.got) THEN r
  ELSE AllocateRun(AllocateTRB(r, oom), count - 1, oom)

\* If count TRBs do not fit in front of a link, those in front of it become
\* no-ops; then all of them have to fit behind it.
Info(r, nops) == [ok |-> r.ok /\ Contiguous(r.got), g |-> r.g, nops |-> nops, got |-> r.got]
AnotherRun(r, count, oom) ==
  IF ~r.ok \/ Contiguous(r.got) THEN Info(r, <<>>)
  ELSE Info(AllocateRun([r EXCEPT !.got = <<Last(@)>>], count - 1, oom), Front(r.got))
AllocateContiguous(g, count, oom) == AnotherRun(AllocateRun(NoneYet(g), count, oom), count, oom)

SaveState(g) == [enq |-> g.enq, pcs |-> g.pcs]
Restore(g, state) == [g EXCEPT !.enq = state.enq, !.pcs = state.pcs]

\* The context is lost if the ring cannot grow.
Assigned(a, context) == IF a.ok THEN [a.g EXCEPT !.pending = Append(@, context)] ELSE a.g
AssignContext(g, context) == Assigned(AllocInternal(g, FALSE), context)

\* [ok, g]: the oldest context is taken, whatever it is.
CompleteTRB(g, t) ==
  IF g.pending = <<>> THEN [ok |-> FALSE, g |-> g]
  ELSE [ok |-> Head(g.pending).trb = t, g |-> [g EXCEPT !.deq = t, !.pending = Tail(@)]]

TakePendingTRBs(g) == [g EXCEPT !.pending = <<>>]

\* Whether the walk from t meets the short TRB before the next transfer.
RECURSIVE FindShort(_, _, _, _)
FindShort(g, t, short, end) ==
  /\ t # end
  /\ \/ t = short
     \/ IF IsLink(g, t) THEN FindShort(g, g.trb[t].ptr, short, end) ELSE FindShort(g, After(t), short, end)

\* Mutant: the transfer is found but not marked.
HandleShortPacketUnmarked(g, short) ==
  LET c == Head(g.pending)
      end == IF Len(g.pending) > 1 THEN g.pending[2].first ELSE Nowhere
  IN  [t |-> IF g.pending # <<>> /\ ~c.short /\ FindShort(g, c.first, short, end) THEN c.trb ELSE short,
       g |-> g]

\* [t, g]: the TRB that completes the transfer, or the short TRB itself.
HandleShortPacket(g, short) ==
  LET c == Head(g.pending)
      end == IF Len(g.pending) > 1 THEN g.pending[2].first ELSE Nowhere
  IN  IF g.pending # <<>> /\ ~c.short /\ FindShort(g, c.first, short, end)
        THEN [t |-> c.trb, g |-> [g EXCEPT !.pending[1].short = TRUE]]
        ELSE [t |-> short, g |-> g]

-----------------------------------------------------------------------------
(* Requests and events: usb-xhci.cc and xhci-event-ring.cc                 *)

\* Bound: a request is only made when there is room for it, if need be in
\* one more segment.
Room(count) == AvailableSlots(Now, count + 2) \/ segs < scenario.segs

Oom == IF "oom" \in scenario.faults THEN BOOLEAN ELSE {FALSE}

\* The TRBs in s are written, each with the cycle bit it was handed out.
Fill(g, s, type) ==
  [g EXCEPT !.trb = [t \in TRB |->
    IF t \notin Range(s) THEN g.trb[t]
    ELSE [g.trb[t] EXCEPT !.type = type, !.cycle = g.trb[t].status, !.status = FALSE]]]

\* A request waits for its commit, or is given back.
Prepared(g, t) == Becomes(g) /\ txn' = t /\ UNCHANGED <<stalled, hw, events, scenario>>
Rollback(g) == Prepared(Restore(g, SaveState(Now)), NoTxn)

\* Setup, data and status TRBs.  The setup TRB keeps its cycle bit, which is
\* still the driver's.
ControlPhases(g, setup, data, status) ==
  [Fill(Fill(g, data, "data"), <<status>>, "status") EXCEPT !.trb[setup].status = FALSE, !.trb[status].ioc = TRUE]
ControlRequest(r, len) ==
  IF ~r.ok THEN Rollback(r.g)
  ELSE Prepared(ControlPhases(r.g, r.got[1], SubSeq(r.got, 2, len + 1), Last(r.got)),
                [phase |-> "control", trbs |-> r.got, cycle |-> r.g.trb[r.got[1]].status,
                 first |-> IF len = 0 THEN Nowhere ELSE r.got[2]])
UsbHciControlRequestQueue ==
  /\ txn = NoTxn /\ ~stalled
  /\ \E len \in scenario.control, oom \in Oom :
       Room(len + 2) /\ ControlRequest(Allocate(NoneYet(Now), len + 2, oom), len)

\* Mutant: the first data TRB is kept from the controller, and no no-op is.
ContinueNormalTransactionNopsFirst(r, first) ==
  [Fill(Fill(r.g, r.nops, "nop"), r.got, "data") EXCEPT
     !.trb[r.got[1]].cycle = ~r.g.trb[first].status, !.trb[Last(r.got)].ioc = TRUE]

\* No-ops up to a link, if need be, and the data.  The first TRB of all is
\* kept from the controller.
ContinueNormalTransaction(r, first) ==
  [Fill(Fill(r.g, r.nops, "nop"), r.got, "data") EXCEPT
     !.trb[first].cycle = ~r.g.trb[first].status, !.trb[Last(r.got)].ioc = TRUE]
NormalRequest(r, trbs) ==
  IF ~r.ok THEN Rollback(r.g)
  ELSE Prepared(ContinueNormalTransaction(r, trbs[1]),
                [phase |-> "normal", trbs |-> trbs, cycle |-> r.g.trb[trbs[1]].status, first |-> trbs[1]])
StartNormalTransaction(r) == NormalRequest(r, r.nops \o r.got)
UsbHciNormalRequestQueue ==
  /\ txn = NoTxn /\ ~stalled
  /\ \E count \in scenario.normal, oom \in Oom :
       Room(2 * count) /\ StartNormalTransaction(AllocateContiguous(Now, count, oom))

\* The context is queued, and then the first TRB's cycle bit makes all of the
\* transfer the controller's.
Publish(g, t) ==
  [g EXCEPT !.trb[t].cycle = txn.cycle, !.trb[t].type = IF txn.phase = "control" THEN "setup" ELSE @]
Commit ==
  /\ txn.phase \in {"control", "normal"}
  /\ Prepared(Publish(AssignContext(Now, [trb |-> Last(txn.trbs), first |-> txn.first, short |-> FALSE]),
                      txn.trbs[1]),
              NoTxn)

\* A command is one TRB, which the controller may execute at once ...
WriteCommand(a) ==
  IF ~a.ok \/ IsLink(a.g, a.g.enq) THEN Prepared(a.g, NoTxn)
  ELSE Prepared([a.g EXCEPT !.trb[a.g.enq] = [Empty(a.g.pcs) EXCEPT !.type = "command", !.ioc = TRUE]],
                [NoTxn EXCEPT !.phase = "command", !.trbs = <<a.g.enq>>])
SubmitCommand ==
  /\ txn = NoTxn /\ scenario.commands /\ Room(1)
  /\ \E oom \in Oom : WriteCommand(AllocInternal(Now, oom))

\* ... and whose context is queued before the ring is unlocked.
AddTRB ==
  /\ txn.phase = "command"
  /\ Prepared([AdvancePointer(Now) EXCEPT
                 !.pending = Append(@, [trb |-> txn.trbs[1], first |-> Nowhere, short |-> FALSE])],
              NoTxn)

\* A transfer event or a command completion event.  A stall, or an event for
\* another TRB than the oldest context's, gives all contexts back.
Completed(c, stall) == IF stall \/ ~c.ok THEN TakePendingTRBs(c.g) ELSE c.g
\* Mutant: a short packet completes its transfer at once.
NotedAtOnce(e, s) == Completed(CompleteTRB(s.g, s.t), e.code = "stall")

\* After a short packet the transfer's last TRB has an event of its own.
Noted(e, s) == IF s.t # e.trb THEN s.g ELSE Completed(CompleteTRB(s.g, s.t), e.code = "stall")
HandleEvent ==
  /\ txn = NoTxn /\ events # <<>>
  /\ LET e == Head(events)
     IN  /\ Becomes(Noted(e, IF e.code = "short" THEN HandleShortPacket(Now, e.trb) ELSE [t |-> e.trb, g |-> Now]))
         /\ stalled' = (stalled \/ e.code = "stall")
  /\ events' = Tail(events)
  /\ UNCHANGED <<txn, hw, scenario>>

\* The endpoint is reset and the controller sent to where the next TRB will
\* be written; the ring takes requests again when that is done.
SetTRDequeuePointer(g) == Becomes(g) /\ hw' = [at |-> g.enq, ccs |-> g.pcs, mode |-> "running", cut |-> FALSE]
UsbHciResetEndpoint ==
  /\ stalled /\ hw.mode = "halted" /\ Room(1)
  /\ SetTRDequeuePointer(AllocInternal(Now, FALSE).g)
  /\ UNCHANGED <<stalled, txn, events, scenario>>
ResetDone ==
  /\ stalled /\ hw.mode = "running"
  /\ stalled' = FALSE
  /\ UNCHANGED <<trb, segs, enq, pcs, deq, pending, txn, hw, events, scenario>>

-----------------------------------------------------------------------------
(* The controller, as the xHCI specification has it                        *)

Visible == hw.mode = "running" /\ trb[hw.at].cycle = hw.ccs

FollowLink ==
  /\ Visible /\ trb[hw.at].type = "link"
  /\ hw' = [hw EXCEPT !.at = trb[hw.at].ptr, !.ccs = IF trb[hw.at].tc THEN ~@ ELSE @]
  /\ UNCHANGED <<trb, segs, enq, pcs, deq, pending, stalled, txn, events, scenario>>

\* cut: the transfer under way has been cut short.  The event of its last TRB
\* may then be a success or another short packet.
Execute(code) ==
  LET b == trb[hw.at]
      cut == hw.cut \/ code = "short"
  IN  /\ Visible /\ b.type # "link"
      /\ code = "short" => /\ "short" \in scenario.faults /\ b.type = "data"
                           /\ hw.cut => b.ioc
      /\ events' = IF b.ioc \/ code = "short"
                     THEN Append(events, [code |-> code, trb |-> hw.at, cut |-> cut]) ELSE events
      /\ hw' = [hw EXCEPT !.at = After(@), !.cut = cut /\ ~b.ioc]
      /\ UNCHANGED <<trb, segs, enq, pcs, deq, pending, stalled, txn, scenario>>

Stall ==
  /\ Visible /\ trb[hw.at].type \in {"data", "status"} /\ "stall" \in scenario.faults
  /\ events' = Append(events, [code |-> "stall", trb |-> hw.at, cut |-> FALSE])
  /\ hw' = [hw EXCEPT !.mode = "halted"]
  /\ UNCHANGED <<trb, segs, enq, pcs, deq, pending, stalled, txn, scenario>>

-----------------------------------------------------------------------------
Init ==
  LET none == [trb |-> [t \in TRB |-> Empty(FALSE)], segs |-> 0, enq |-> Start, pcs |-> TRUE,
               deq |-> Start, pending |-> <<>>]
      g == AllocBuffer(none)
  IN  /\ trb = g.trb /\ segs = g.segs /\ enq = g.enq /\ pcs = g.pcs /\ deq = g.deq
      /\ pending = g.pending
      /\ stalled = FALSE /\ txn = NoTxn /\ events = <<>>
      /\ hw = [at |-> Start, ccs |-> TRUE, mode |-> "running", cut |-> FALSE]
      /\ scenario \in Scenarios

Driver == UsbHciControlRequestQueue \/ UsbHciNormalRequestQueue \/ Commit \/ SubmitCommand \/ AddTRB
          \/ HandleEvent \/ UsbHciResetEndpoint \/ ResetDone
Controller == FollowLink \/ (\E code \in {"success", "short"} : Execute(code)) \/ Stall

Next == Driver \/ Controller

Spec == Init /\ [][Next]_vars

\* A request that was started is finished, the interrupt thread handles its
\* events, and the controller, whose doorbell is rung, reads on.
FairSpec ==
  /\ Spec
  /\ WF_vars(Commit) /\ WF_vars(AddTRB) /\ WF_vars(HandleEvent)
  /\ WF_vars(Controller)

-----------------------------------------------------------------------------
\* What the controller has before it: the TRBs, with links, that it will read
\* if the driver writes nothing more.
RECURSIVE Walk(_, _, _)
Walk(t, ccs, fuel) ==
  IF fuel = 0 \/ trb[t].cycle # ccs THEN <<>>
  ELSE IF trb[t].type = "link" THEN <<t>> \o Walk(trb[t].ptr, ccs # trb[t].tc, fuel - 1)
  ELSE <<t>> \o Walk(After(t), ccs, fuel - 1)
Ahead == Walk(hw.at, hw.ccs, 2 * N * MaxSegs)
Queue == SelectSeq(Ahead, LAMBDA t : trb[t].type # "link")

\* The segments are one ring whatever was grown where and when: from trbs_
\* every TRB of every segment is met once, and the cycle bit toggles once on
\* the way round (AllocInternal, AllocBuffer).
RECURSIVE Lap(_, _)
Lap(t, fuel) ==
  IF fuel = 0 THEN <<>>
  ELSE <<t>> \o Lap(IF trb[t].type = "link" THEN trb[t].ptr ELSE After(t), fuel - 1)
OneRing ==
  LET lap == Lap(enq, segs * N)
  IN  /\ Range(lap) = (1 .. segs) \X (0 .. N - 1)
      /\ Cardinality({t \in Range(lap) : trb[t].type = "link" /\ trb[t].tc}) = 1

\* The driver never rewrites a TRB that the controller may be reading, or
\* one of a transfer whose completion it has yet to handle: the two TRBs in
\* reserve and dequeue_trb_ keep it away (AvailableSlots, AllocInternal).
NothingOverwritten ==
  [][\A t \in Range(Ahead) \cup {pending[i].trb : i \in 1 .. Len(pending)} : trb'[t] = trb[t]]_vars

\* Contexts and TRBs stay in step: unless a stall is under way, the contexts
\* are, in order, those of the completions that wait to be handled and those
\* of the transfers before the controller (AssignContext, AddTRB,
\* CompleteTRB).
Final(s) == SelectSeq(s, LAMBDA t : trb[t].ioc)
ContextsInStep ==
  LET ends == [i \in 1 .. Len(pending) |-> pending[i].trb]
      over == Final([i \in 1 .. Len(events) |-> events[i].trb])
      late == IF txn.phase = "command" THEN txn.trbs ELSE <<>>
  IN  hw.mode = "running" /\ ~stalled => ends \o late = over \o Final(Queue)

\* A transfer is completed as a short one exactly if it was cut short, though
\* the short packet and the completion are separate events (HandleShortPacket).
ShortsNoted ==
  events # <<>> /\ pending # <<>> /\ Head(events).trb = Head(pending).trb /\ Head(events).code = "success"
    => Head(pending).short = Head(events).cut

\* The ring is a queue: transfers reach the controller whole and in order,
\* while the ring grows, wraps and takes failed requests back.
Abstract == INSTANCE TransferQueue WITH queue <- Queue,
              offer <- IF txn.phase \in {"control", "normal"} THEN txn.trbs ELSE <<>>
IsQueue == Abstract!Spec

\* Every transfer is given back, by its completion or by a stall: no context
\* stays the oldest one for ever.
TransfersComplete == \A t \in TRB : []<>(pending = <<>> \/ Head(pending).trb # t)
=============================================================================
