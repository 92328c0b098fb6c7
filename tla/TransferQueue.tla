--------------------------- MODULE TransferQueue ---------------------------
(***************************************************************************)
(* What a transfer ring promises: a queue of TRBs between a driver and a   *)
(* controller.  A transfer is offered and then appended whole, TRBs are    *)
(* taken one by one in that order, and what is left is given up when the   *)
(* endpoint is reset.                                                      *)
(***************************************************************************)
EXTENDS Sequences, SequencesExt

CONSTANT TRB   \* the places a TRB can be written to

VARIABLES
  queue,       \* the TRBs the controller has yet to take
  offer        \* the TRBs of the transfer that is being prepared

vars == <<queue, offer>>

\* A transfer in places that the controller is done with.
Transfer(td) == td \in Seq(TRB) /\ td # <<>> /\ IsInjective(td) /\ Range(td) \cap Range(queue) = {}

Init == queue = <<>> /\ offer = <<>>

Offer == offer = <<>> /\ Transfer(offer') /\ UNCHANGED queue
Publish == offer # <<>> /\ queue' = queue \o offer /\ offer' = <<>>
Add == offer = <<>> /\ (\E t \in TRB : Transfer(<<t>>) /\ queue' = Append(queue, t)) /\ UNCHANGED offer
Take == queue # <<>> /\ queue' = Tail(queue) /\ UNCHANGED offer
Flush == offer = <<>> /\ queue' = <<>> /\ UNCHANGED offer

Next == Offer \/ Publish \/ Add \/ Take \/ Flush

Spec == Init /\ [][Next]_vars
=============================================================================
