------------------------- MODULE MCTraceSubscriber -------------------------
(***************************************************************************)
(* TraceSubscriber with traces that touch one account or several.          *)
(***************************************************************************)
EXTENDS TraceSubscriber

CONSTANTS both

\* The trace "both" touches every account, another one only the first.
MCAccountsOf ==
    [t \in Trace |->
        IF t = both THEN Account ELSE {CHOOSE a \in Account : TRUE}]

=============================================================================
