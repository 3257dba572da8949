----------------------- MODULE MCLoraGatewayListener -----------------------
EXTENDS LoraGatewayListener

packet(id, class, post) == [id |-> id, class |-> class, post |-> post,
                            valid |-> TRUE]
a1 == packet("a1", "A", 1)
a2 == packet("a2", "A", 5)
c1 == packet("c1", "C", 2)
c2 == packet("c2", "C", 1)
b1 == packet("b1", "B", 1)

MCPackets == {a1, a2, c1, c2, b1}
MCAdvances == {4, 5, 9, 12}

base == [noSend |-> FALSE, noBeacon |-> TRUE, scan |-> FALSE, slow |-> FALSE,
         errors |-> FALSE, starts |-> 1, packets |-> {},
         advances |-> MCAdvances]

\* Downlinks on a concentrator that works; a queue that fills because nothing is
\* sent; starts and stops of a concentrator that works, fails, is slow, or may not
\* send.
MCConfigs ==
    {[base EXCEPT !.packets = p] : p \in {{a1, a2}, {a1, c1}, {b1}}}
    \cup {[base EXCEPT !.noSend = TRUE, !.packets = {a1, c1, c2}, !.advances = {9}]}
    \cup {[base EXCEPT !.noBeacon = b, !.scan = TRUE, !.starts = 2] : b \in BOOLEAN}
    \cup {[base EXCEPT !.noSend = TRUE, !.errors = TRUE, !.starts = 2],
          [base EXCEPT !.errors = TRUE, !.packets = {a1}],
          [base EXCEPT !.slow = TRUE, !.errors = TRUE],
          [base EXCEPT !.slow = TRUE, !.starts = 2]}
=============================================================================
