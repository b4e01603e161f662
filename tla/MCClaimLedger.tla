-------------------------- MODULE MCClaimLedger ----------------------------
(* Panes 1 and 2 share a workspace, pane 101 is in another.  Patterns of one and *)
(* two segments over two names.                                                *)
EXTENDS ClaimLedger, TLC

MCPane    == {1, 2, 101}
MCGroupOf == [p \in MCPane |-> p \div 100]
MCName    == {"a", "b"}

\* What meets the referee's cases: equal, nested, wildcard, a path that ends first;
\* and a "." inside.
GlobRaw == {<<"a", "b">>, <<"*", "a">>, <<"a", "**">>, <<".", "b", "a">>, <<"b">>,
            <<"a", ".", "b">>}

MCPath == UNION {[1 .. n -> MCName] : n \in 1 .. 2}
============================================================================
