---------------------------- MODULE MCRelayRows ----------------------------
(***************************************************************************)
(* An instance of RelayRows for TLC: a plain element and one for each way  *)
(* in which Relay's values differ from it.                                 *)
(***************************************************************************)
EXTENDS RelayRows

CONSTANTS eth, pol, svm, yes, frac, a, b

AllWords == {eth, pol, svm, yes, frac, Evm}

Str(core) == [type |-> "string", text |-> T(core)]
Pad(core) == [type |-> "string", text |-> [core |-> core, padded |-> TRUE]]
Num(core) == [type |-> "number", text |-> T(core)]
Bool(b_) == [type |-> "bool", value |-> b_]
Null == [type |-> "other"]

Coin(x, n) == [address |-> x, name |-> T(eth), symbol |-> T(eth), decimals |-> n,
               native |-> FALSE, is_featured |-> FALSE]
Tokens(s, t) == [n \in TokenIDs |-> IF n = 1 THEN s ELSE t]

Plain == [id |-> Num(1), chainId |-> Missing, name |-> Str(eth), displayName |-> Missing,
          vmType |-> Str(svm), protocol |-> Missing, type |-> Missing, symbol |-> Str(eth), decimals |-> Num(2),
          depositEnabled |-> Bool(TRUE), disabled |-> Missing,
          tokens |-> Tokens(Coin(a, 2), Coin(b, 0))]

Variations == {
    Plain,
    [Plain EXCEPT !.id = Pad(1), !.chainId = Num(2), !.displayName = Pad(pol), !.vmType = Null,
                  !.symbol = Missing, !.decimals = Missing, !.protocol = Str(pol)],
    [Plain EXCEPT !.id = Null, !.chainId = Str(1), !.vmType = Pad(Empty), !.decimals = Str(2),
                  !.tokens = Tokens(Coin(b, 2), Gone)],
    [Plain EXCEPT !.disabled = Str(yes), !.depositEnabled = Num(frac)],
    [Plain EXCEPT !.displayName = Pad(Empty)],
    [Plain EXCEPT !.id = Str(eth), !.chainId = Num(1)],
    [Plain EXCEPT !.name = Null, !.depositEnabled = Num(1), !.type = Str(pol), !.displayName = Str(pol), !.vmType = Missing,
                  !.tokens = Tokens(Gone, Gone)],
    [Plain EXCEPT !.tokens = Tokens(Gone, [Coin(a, 1) EXCEPT !.native = TRUE, !.is_featured = TRUE])],
    [Plain EXCEPT !.tokens = Tokens(Coin(a, -1), Gone)],
    [Plain EXCEPT !.id = Num(2), !.tokens = Tokens(Coin(a, 0), Gone)]}
=============================================================================
