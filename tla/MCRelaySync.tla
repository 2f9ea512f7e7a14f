----------------------------- MODULE MCRelaySync -----------------------------
(***************************************************************************)
(* Instances of RelaySync for TLC: named feeds, each there for a case of   *)
(* the code, from which the configurations choose.                         *)
(***************************************************************************)
EXTENDS RelaySync, TLC

CONSTANTS j1, j2, c1, c2, a1, a2

\* One entry of a feed; the tokens are given as <<address of 1, address of 2>>.
E(c, tokens) == [chain |-> c, valid |-> TRUE, disabled |-> FALSE, tokens |-> tokens]
Off(e) == [e EXCEPT !.disabled = TRUE]
Bad(e) == [e EXCEPT !.valid = FALSE]
F(entries) == [entries |-> entries, malformed |-> FALSE]
Malformed(f) == [f EXCEPT !.malformed = TRUE]

None == <<NoAddress, NoAddress>>
One == <<a1, NoAddress>>
Two == <<a1, a2>>

\* One job alone, every kind of feed.
FeedsAlone == {
    F({E(c1, Two), E(c2, One)}),              \* everything is there
    F({E(c1, <<a2, NoAddress>>), Off(E(c2, One))}),  \* 2 leaves, 1 moves there
    F({E(c1, None), Bad(E(c2, One))}),        \* no token, invalid values
    Malformed(F({E(c1, <<NoAddress, a1>>)})), \* c2 unusable, another id for a1
    F({E(c1, One)}),                          \* c2 and a token of c1 leave
    F({E(c2, One), E(c2, Two)}),              \* a chain listed twice
    F({}) }

\* Two jobs that overlap: c1 is disabled and enabled, c2 comes and goes.
FeedsOverlap == {
    F({E(c1, <<a1>>), E(c2, <<a1>>)}),
    F({Off(E(c1, <<a1>>))}) }

\* Relay gives the token at a1 another id, or its id to another token, or
\* lists it under two ids.
FeedsRenamed == { F({E(c1, One)}), F({E(c1, <<NoAddress, a1>>)}), F({E(c1, <<a2, a1>>)}),
                  F({E(c1, <<a1, a1>>)}) }

\* Two jobs that overlap while Relay moves from one chain to the other.
FeedsMove == { F({E(c1, <<a1>>)}), F({E(c2, <<a1>>)}) }

OneToken == {1}
TwoTokens == {1, 2}

Symmetry == Permutations(Jobs)
=============================================================================
