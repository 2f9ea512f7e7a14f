--------------------------- MODULE MCRelayReaders ---------------------------
(***************************************************************************)
(* Instances of RelayReaders for TLC: small integers of four bits, lists   *)
(* of up to three rows, pages of one and two.                              *)
(***************************************************************************)
EXTENDS RelayReaders, TLC

AllTokens == [of |-> "tokens", chains |-> {}, tokens |-> {}, addresses |-> Addresses,
              enabled |-> BOOLEAN, supported |-> BOOLEAN, page |-> 1, size |-> 1]
AllChains == [AllTokens EXCEPT !.of = "chains"]

\* Walks by one and by two, with defaults, of some chains, with a filter on a
\* column that changes, from a page whose offset wraps, and of a size that
\* is negative as an int.
Walks == {
    AllTokens,
    [AllTokens EXCEPT !.page = 0, !.size = 2],
    [AllTokens EXCEPT !.size = 0],
    [AllTokens EXCEPT !.chains = {1, 3}],
    [AllTokens EXCEPT !.page = 9, !.size = 2],
    [AllTokens EXCEPT !.size = 9],
    AllChains,
    [AllChains EXCEPT !.size = 2],
    [AllChains EXCEPT !.enabled = {TRUE}] }

FilteredWalks == {[AllTokens EXCEPT !.supported = {TRUE}]}
=============================================================================
