----------------------------- MODULE MCKcpLink -----------------------------
(* Loads of KcpLink for TLC. *)
EXTENDS KcpLink

Msgs(a, b) == ("a" :> a) @@ ("b" :> b)

\* One end sends two messages of one or two fragments: reordered fragments, a
\* full receive queue, early and late retransmission.
OneWay == [snd_wnd |-> 2, rcv_wnd |-> 2, msgs |-> Msgs(2, 0), frags |-> {1, 2},
           losses |-> 1, dups |-> 1, early |-> 1]

\* Both ends send, so that acknowledgements share datagrams with data.
BothWays == [snd_wnd |-> 2, rcv_wnd |-> 2, msgs |-> Msgs(1, 1), frags |-> {2},
             losses |-> 1, dups |-> 1, early |-> 0]

\* A receive window of 1 and two duplicates: window announcements that are out
\* of date twice, so that the sender overruns the window.
Overrun == [snd_wnd |-> 3, rcv_wnd |-> 1, msgs |-> Msgs(4, 0), frags |-> {1},
            losses |-> 1, dups |-> 2, early |-> 0]

SafeLoads == {OneWay, BothWays, Overrun}

\* A receive window of 1 closes after every segment; two losses reach the
\* message that opens it again.
LiveLoads == {[snd_wnd |-> 2, rcv_wnd |-> 1, msgs |-> Msgs(3, 0), frags |-> {1},
               losses |-> 2, dups |-> 0, early |-> 0]}
=============================================================================
