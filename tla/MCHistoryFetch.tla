--------------------------- MODULE MCHistoryFetch ---------------------------
(* Six minutes of two ticks each.                                          *)
EXTENDS HistoryFetch

MCProviders == Backward \cup Forward \cup Spans

\* Valid requests of one to five minutes, and one of each kind that is refused.
MCRequests ==
    [start : {2, 4}, end : {4, 8, 12}, limit : {1, 2, 5}]
        \cup {[start |-> s, end |-> e, limit |-> l] :
                 <<s, e, l>> \in {<<0, 4, 1>>, <<3, 4, 1>>, <<2, 5, 1>>, <<6, 4, 1>>,
                                  <<2, 14, 1>>, <<2, 4, 0>>, <<2, 4, 6>>}}

MCGaps == SUBSET {2, 4, 6, 8, 10}
=============================================================================
