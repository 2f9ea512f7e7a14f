---------------------------- MODULE MCRelayFeed ----------------------------
(***************************************************************************)
(* Instances of RelayFeed for TLC: one plain element and one variation of  *)
(* it for each thing the loop looks at.                                    *)
(***************************************************************************)
EXTENDS RelayFeed, TLC

CONSTANTS usdc, lower, UPPER, other

\* UPPER and lower are two spellings of one address.
Lower == [t \in Texts |-> IF t = UPPER THEN lower ELSE t]

Plain == [object |-> TRUE, disabled |-> "absent", enabled |-> "absent",
          supported |-> "absent", off |-> FALSE, id |-> usdc, address |-> UPPER,
          symbol |-> TRUE, decimals |-> 6]

Variations == {
    Plain,
    [Plain EXCEPT !.object = FALSE],
    [Plain EXCEPT !.disabled = "true"],
    [Plain EXCEPT !.disabled = "odd", !.enabled = "true", !.supported = "true"],
    [Plain EXCEPT !.enabled = "false"],
    [Plain EXCEPT !.enabled = "odd"],
    [Plain EXCEPT !.enabled = "true", !.disabled = "true"],
    [Plain EXCEPT !.supported = "false"],
    [Plain EXCEPT !.off = TRUE],
    [Plain EXCEPT !.symbol = FALSE],
    [Plain EXCEPT !.address = Empty],
    [Plain EXCEPT !.address = other],
    [Plain EXCEPT !.decimals = 0],
    [Plain EXCEPT !.decimals = 18],
    [Plain EXCEPT !.id = Empty],
    [Plain EXCEPT !.id = Empty, !.address = lower, !.decimals = 0],
    [Plain EXCEPT !.id = Empty, !.address = Empty],
    [Plain EXCEPT !.id = other, !.address = other],
    [Plain EXCEPT !.id = UPPER] }
=============================================================================
