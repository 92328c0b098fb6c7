-------------------------- MODULE MCDeviceManager --------------------------
(* A device tree with two driver hosts: sys and its proxy sysp, in h1 the   *)
(* device bus that sysp's driver added, and in h2 its proxy busp with child *)
(* and, below child, leaf.                                                  *)
EXTENDS DeviceManager

CONSTANTS sys, sysp, bus, busp, child, leaf, h1, h2

MCParent == (sys :> sys) @@ (sysp :> sys) @@ (bus :> sys) @@ (busp :> bus) @@ (child :> bus) @@ (leaf :> child)
MCProxy == (sys :> sysp) @@ (bus :> busp)
MCHostOf == (sysp :> h1) @@ (busp :> h2)
BootAll == <<sys, bus, child, leaf>>
BootBus == <<sys, bus>>
Requests == {"remove", "rebind", "restart"}

\* Nothing happens to the devices that were booted.
Quiescent(booted) ==
  [booted |-> booted, requests |-> {}, asks |-> 0, adds |-> 0, inits |-> {}, lateAdds |-> FALSE,
   fails |-> {}, crashes |-> 0, retries |-> 0, stops |-> {}, unregisters |-> FALSE]

\* Three requests; requests while devices are added; devices added, driver
\* hosts crashing and bus devices bound again.
Removals ==
  {[Quiescent(BootAll) EXCEPT !.requests = Requests, !.asks = 3],
   [Quiescent(BootBus) EXCEPT !.requests = Requests, !.asks = 2, !.adds = 2, !.inits = {bus, child, leaf},
                              !.fails = {"init"}],
   [Quiescent(BootBus) EXCEPT !.adds = 3, !.inits = {bus, child, leaf}, !.fails = {"init"},
                              !.crashes = 2, !.retries = 2]}
\* The system stops, while devices are added; fshost unregisters the system
\* storage, while devices are removed or crash.
Stops ==
  {[Quiescent(BootAll) EXCEPT !.stops = {"ram", "reboot"}, !.fails = {"suspend"}],
   [Quiescent(BootBus) EXCEPT !.stops = {"reboot"}, !.adds = 2, !.inits = {child, leaf},
                              !.fails = {"init", "suspend"}],
   [Quiescent(BootAll) EXCEPT !.unregisters = TRUE, !.requests = Requests, !.asks = 2],
   [Quiescent(BootAll) EXCEPT !.unregisters = TRUE, !.crashes = 2],
   [Quiescent(BootBus) EXCEPT !.unregisters = TRUE, !.adds = 2, !.inits = {child, leaf}]}
DeviceTree == Removals \cup Stops
=============================================================================
