--------------------- MODULE MCLogicalBufferCollection ---------------------
(* Buffer collections of up to three participants and two buffers.          *)
EXTENDS LogicalBufferCollection

One == [camping |-> 1, least |-> 0]
OneOfTwo == [camping |-> 1, least |-> 2]

\* Participants share tokens; the clients keep to the protocol.
Plain(k) ==
  [tokens |-> k, rootAsks |-> {One}, otherAsks |-> {Null, One}, attaches |-> FALSE, early |-> {},
   dispenses |-> FALSE, waits |-> {}, tracks |-> {}, misuses |-> {}, oom |-> FALSE]

\* Three participants, who together may need more buffers than there can be;
\* calls that are refused; memory that runs out and lifetimes that are tracked;
\* sub-trees attached once there are buffers, and by the root before there are.
Collections ==
  {[Plain(3) EXCEPT !.otherAsks = {One}, !.waits = {2}, !.dispenses = TRUE],
   [Plain(2) EXCEPT !.rootAsks = {Null, One}, !.misuses = {"bad_state", "not_supported"}, !.waits = {2}],
   [Plain(2) EXCEPT !.tracks = {0, 1}, !.waits = {1, 2}, !.oom = TRUE],
   [Plain(3) EXCEPT !.attaches = TRUE, !.rootAsks = {OneOfTwo}, !.waits = {2}],
   [Plain(2) EXCEPT !.attaches = TRUE, !.rootAsks = {OneOfTwo}, !.waits = {2}, !.tracks = {1},
                    !.misuses = {"not_supported"}],
   [Plain(3) EXCEPT !.attaches = TRUE, !.early = {Root}, !.rootAsks = {OneOfTwo}, !.otherAsks = {One},
                    !.dispenses = TRUE, !.waits = {3}]}
=============================================================================
