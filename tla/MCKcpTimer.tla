---------------------------- MODULE MCKcpTimer -----------------------------
(* Scenarios of KcpTimer for TLC. *)
EXTENDS KcpTimer

\* A clock nobody steps: two segments, one of which may overtake the other, each
\* lost at most once, and whose acknowledgements may come when they are gone; one
\* that may be lost twice; one that waits for a closed window.
SteadySend  == [segs |-> 2, xmit |-> 2, wnds |-> {SndWnd}, steps |-> {}, late |-> 3]
SteadyLost  == [segs |-> 1, xmit |-> 3, wnds |-> {SndWnd}, steps |-> {}, late |-> 0]
SteadyProbe == [segs |-> 1, xmit |-> 1, wnds |-> {0, SndWnd}, steps |-> {}, late |-> 0]

\* A stepped clock: set back by less than SlapMax, by a little more and by far
\* more, or set ahead; with a segment on its way, and with a closed window.
SteppedSend  == [segs |-> 1, xmit |-> 2, wnds |-> {SndWnd}, steps |-> {-2, 2}, late |-> 0]
SteppedProbe == [segs |-> 0, xmit |-> 0, wnds |-> {0, SndWnd}, steps |-> {-2, -4, -6, 2},
                 late |-> 0]

MCScenarios == {SteadySend, SteadyLost, SteadyProbe, SteppedSend, SteppedProbe}

\* The hypothesis of the theorems of KcpTimerProofs.
ASSUME ReachAssumption == Reach
=============================================================================
