------------------------- MODULE RelayReadersProofs -------------------------
(***************************************************************************)
(* Theorems about RelayReaders, for any finite sets of chains and tokens,  *)
(* any requests, any size of an int and any default page size.             *)
(***************************************************************************)
EXTENDS RelayReaders, FiniteSetTheorems, TLAPS

Keys == Chains \X (TokenIDs \cup {0})

-----------------------------------------------------------------------------
(* Positions in an ordered list: they number its rows from 0, so a page    *)
(* that lies within the list is full, and no page has more than its size.  *)

LEMMA KeysFinite ==
  /\ IsFiniteSet(Keys)
  /\ Keys \subseteq Nat \X Nat
  /\ \A R \in SUBSET Keys : IsFiniteSet(R) /\ Cardinality(R) \in Nat /\ Cardinality(R) <= MaxInt
<1>1. IsFiniteSet(TokenIDs \cup {0})
  BY IdsAssumption, FS_Singleton, FS_Union
<1>2. IsFiniteSet(Keys)
  BY <1>1, IdsAssumption, FS_Product DEF Keys
<1>3. Keys \subseteq Nat \X Nat
  <2>1. Chains \subseteq Nat /\ TokenIDs \cup {0} \subseteq Nat
    BY IdsAssumption
  <2> QED
    BY <2>1 DEF Keys
<1>4. ASSUME NEW R \in SUBSET Keys
      PROVE  IsFiniteSet(R) /\ Cardinality(R) \in Nat /\ Cardinality(R) <= MaxInt
  <2>1. /\ IsFiniteSet(R) /\ Cardinality(R) <= Cardinality(Keys)
        /\ Cardinality(R) \in Nat /\ Cardinality(Keys) \in Nat
    BY <1>2, FS_Subset, FS_CardinalityType
  <2> QED
    BY <2>1, TablesFit, IntAssumption DEF Keys
<1> QED
  BY <1>2, <1>3, <1>4

LEMMA BeforeIsTotal ==
  ASSUME NEW r \in Keys, NEW s \in Keys
  PROVE  /\ ~Before(r, r)
         /\ r = s \/ Before(r, s) \/ Before(s, r)
         /\ \A x \in Keys : Before(x, r) /\ Before(r, s) => Before(x, s)
<1>1. /\ r = <<r[1], r[2]>> /\ s = <<s[1], s[2]>>
      /\ r[1] \in Nat /\ r[2] \in Nat /\ s[1] \in Nat /\ s[2] \in Nat
  BY KeysFinite
<1>2. \A x \in Keys : x[1] \in Nat /\ x[2] \in Nat
  BY KeysFinite
<1> QED
  BY <1>1, <1>2 DEF Before

LEMMA PositionType ==
  ASSUME NEW R \in SUBSET Keys, NEW r \in R
  PROVE  Position(r, R) \in 0 .. Cardinality(R) - 1
<1> DEFINE P == {s \in R : Before(s, r)}
<1>1. P \in SUBSET (R \ {r})
  BY BeforeIsTotal
<1>2. IsFiniteSet(R \ {r}) /\ Cardinality(R \ {r}) = Cardinality(R) - 1
  BY KeysFinite, FS_RemoveElement
<1>3. IsFiniteSet(P) /\ Cardinality(P) <= Cardinality(R \ {r})
  BY <1>1, <1>2, FS_Subset
<1>4. Cardinality(P) \in Nat /\ Cardinality(R) \in Nat
  BY <1>3, KeysFinite, FS_CardinalityType
<1> QED
  BY <1>2, <1>3, <1>4 DEF Position

LEMMA PositionOrders ==
  ASSUME NEW R \in SUBSET Keys, NEW r \in R, NEW s \in R, Before(r, s)
  PROVE  Position(r, R) < Position(s, R)
<1> DEFINE P == {x \in R : Before(x, r)}
           Q == {x \in R : Before(x, s)}
<1>1. P \cup {r} \in SUBSET Q /\ r \notin P
  BY BeforeIsTotal
<1>2. IsFiniteSet(P) /\ IsFiniteSet(Q) /\ Cardinality(P) \in Nat /\ Cardinality(Q) \in Nat
  BY KeysFinite
<1>3. IsFiniteSet(P \cup {r}) /\ Cardinality(P \cup {r}) = Cardinality(P) + 1
  BY <1>1, <1>2, FS_AddElement
<1>4. Cardinality(P \cup {r}) <= Cardinality(Q)
  BY <1>1, <1>2, FS_Subset
<1> QED
  BY <1>2, <1>3, <1>4 DEF Position

LEMMA PositionGrows ==
  ASSUME NEW R \in SUBSET Keys, NEW S \in SUBSET Keys, R \subseteq S, NEW r \in R
  PROVE  Position(r, R) <= Position(r, S)
<1> DEFINE P == {x \in R : Before(x, r)}
           Q == {x \in S : Before(x, r)}
<1>1. P \in SUBSET Q /\ IsFiniteSet(Q)
  BY KeysFinite
<1> QED
  BY <1>1, FS_Subset DEF Position

Numbering(R) == [r \in R |-> Position(r, R)]

LEMMA NumberingCovers ==
  ASSUME NEW R \in SUBSET Keys
  PROVE  \A i \in 0 .. Cardinality(R) - 1 : \E r \in R : Position(r, R) = i
<1> DEFINE n == Cardinality(R)
           f == Numbering(R)
           T == 0 .. n - 1
<1>1. n \in Nat /\ IsFiniteSet(R)
  BY KeysFinite
<1>2. IsFiniteSet(T) /\ Cardinality(T) = n
  BY <1>1, FS_Interval
<1>3. f \in [R -> T]
  BY PositionType DEF Numbering
<1>4. \A r, s \in R : f[r] = f[s] => r = s
  <2> SUFFICES ASSUME NEW r \in R, NEW s \in R, r # s PROVE f[r] # f[s]
    OBVIOUS
  <2>1. Before(r, s) \/ Before(s, r)
    BY BeforeIsTotal
  <2>2. Position(r, R) \in Int /\ Position(s, R) \in Int
    BY PositionType, <1>1
  <2> QED
    BY <2>1, <2>2, PositionOrders DEF Numbering
<1>5. f \in Injection(R, T)
  BY <1>3, <1>4 DEF Injection, IsInjective
<1>6. f \in Surjection(R, T)
  <2> HIDE DEF f, T
  <2> QED
    BY <1>2, <1>5, FS_Injection
<1> QED
  BY <1>6 DEF Surjection, Numbering

Window(R, lo, hi) == {r \in R : lo <= Position(r, R) /\ Position(r, R) < hi}

LEMMA WindowIsFull ==
  ASSUME NEW R \in SUBSET Keys, NEW lo \in Nat, NEW hi \in Nat, lo <= hi
  PROVE  /\ Cardinality(Window(R, lo, hi)) \in 0 .. hi - lo
         /\ hi <= Cardinality(R) => Cardinality(Window(R, lo, hi)) >= hi - lo
<1> DEFINE W == Window(R, lo, hi)
           T == lo .. hi - 1
           f == [r \in W |-> Position(r, R)]
<1>1. W \in SUBSET R /\ W \in SUBSET Keys /\ Cardinality(R) \in Nat
  BY KeysFinite DEF Window
<1>2. IsFiniteSet(W) /\ Cardinality(W) \in Nat
  BY <1>1, KeysFinite
<1>3. IsFiniteSet(T) /\ Cardinality(T) = hi - lo
  <2>1. lo \in Int /\ hi - 1 \in Int
    OBVIOUS
  <2>2. /\ IsFiniteSet(lo .. hi - 1)
        /\ Cardinality(lo .. hi - 1) = IF lo > hi - 1 THEN 0 ELSE (hi - 1) - lo + 1
    BY <2>1, FS_Interval
  <2> QED
    BY <2>2
<1>4. \A r \in R : Position(r, R) \in Nat
  BY <1>1, PositionType
<1>5. f \in [W -> T]
  BY <1>1, <1>4 DEF Window
<1>6. \A r, s \in W : f[r] = f[s] => r = s
  <2> SUFFICES ASSUME NEW r \in W, NEW s \in W, r # s PROVE f[r] # f[s]
    OBVIOUS
  <2>1. Before(r, s) \/ Before(s, r)
    BY <1>1, BeforeIsTotal
  <2>2. Position(r, R) \in Nat /\ Position(s, R) \in Nat
    BY <1>1, <1>4
  <2> QED
    BY <1>1, <2>1, <2>2, PositionOrders
<1>7. f \in Injection(W, T)
  BY <1>5, <1>6 DEF Injection, IsInjective
<1>8. Cardinality(W) <= Cardinality(T)
  <2> HIDE DEF W, T, f
  <2> QED
    BY <1>3, <1>7, FS_Injection
<1>9. ASSUME hi <= Cardinality(R) PROVE Cardinality(W) >= hi - lo
  <2>1. \A i \in T : \E r \in W : f[r] = i
    <3> SUFFICES ASSUME NEW i \in T PROVE \E r \in W : f[r] = i
      OBVIOUS
    <3>1. PICK r \in R : Position(r, R) = i
      BY <1>1, <1>9, NumberingCovers
    <3>2. r \in W
      BY <3>1 DEF Window
    <3> QED
      BY <3>1, <3>2
  <2>2. f \in Surjection(W, T)
    BY <1>5, <2>1 DEF Surjection
  <2>3. Cardinality(T) <= Cardinality(W)
    <3> HIDE DEF W, T, f
    <3> QED
      BY <1>2, <2>2, FS_Surjection
  <2> QED
    BY <1>2, <1>3, <2>3
<1> QED
  BY <1>2, <1>3, <1>8, <1>9

-----------------------------------------------------------------------------
(* Pages. *)

LEMMA SizesAndPages ==
  ASSUME ReadersTypeOK
  PROVE  /\ PageNum \in Nat \ {0}
         /\ PageSize \in 1 .. 2 * MaxInt + 1
         /\ (PageNum - 1) * PageSize \in Nat
<1>1. req.size \in UInt /\ page \in Nat
  BY RequestsAssumption DEF ReadersTypeOK, Request
<1>2. PageNum \in Nat \ {0} /\ PageSize \in 1 .. 2 * MaxInt + 1
  BY <1>1, DefaultAssumption, IntAssumption DEF PageNum, PageSize, UInt
<1> QED
  BY <1>2, IntAssumption

(* The page arithmetic, where it does not wrap and the database accepts it. *)
LEMMA SkipWithinRange ==
  ASSUME NEW p \in Nat \ {0}, NEW n \in 1 .. 2 * MaxInt + 1,
         (p - 1) * n <= 2 * MaxInt + 1, (p - 1) * n \in Nat, ~Refused(p, n)
  PROVE  /\ Skip(p, n) = (p - 1) * n
         /\ (p - 1) * n <= MaxInt
         /\ ToInt(n) = n /\ n <= MaxInt
<1> DEFINE x == (p - 1) * n
           M == 2 * MaxInt + 2
<1>1. x \in Nat /\ x < M /\ M \in Nat /\ M > 0 /\ MaxInt \in Nat
  BY IntAssumption
<1>2. x % M = x
  <2> HIDE DEF x, M
  <2> QED
    BY <1>1
<1>3. Skip(p, n) = IF x > MaxInt THEN x - M ELSE x
  BY <1>2 DEF Skip, ToInt
<1>4. Skip(p, n) >= 0 /\ ToInt(n) >= 0
  <2>1. ToInt(n) \in Int /\ Skip(p, n) \in Int
    <3> HIDE DEF x, M
    <3> QED
      BY <1>1, <1>3 DEF ToInt
  <2> QED
    BY <2>1 DEF Refused
<1>5. x <= MaxInt
  <2> HIDE DEF x
  <2> QED
    BY <1>1, <1>3, <1>4
<1>6. n <= MaxInt /\ ToInt(n) = n
  BY <1>1, <1>4 DEF ToInt
<1>7. Skip(p, n) = x
  <2> HIDE DEF x, M
  <2> QED
    BY <1>1, <1>3, <1>5
<1> QED
  BY <1>5, <1>6, <1>7

LEMMA RowsAreKeys == CatalogTypeOK => Rows(req) \in SUBSET Keys
<1> SUFFICES ASSUME CatalogTypeOK PROVE Rows(req) \subseteq Keys
  OBVIOUS
<1>1. ChainRows(req) \subseteq Keys
  BY DEF ChainRows, Keys, CatalogTypeOK
<1>2. TokenRows(req) \subseteq Keys
  BY DEF TokenRows, Keys
<1> QED
  BY <1>1, <1>2 DEF Rows

(* Where no filter looks at a column that is rewritten, rows only come.    *)
LEMMA RowsGrow ==
  ASSUME TypeOK, CatalogTypeOK', req' = req, Stable(req), cRows \subseteq cRows',
         \A c \in Chains : Listed(tAddress[c]) \subseteq Listed(tAddress'[c])
  PROVE  Rows(req) \subseteq Rows(req)'
<1>1. ChainRows(req) \subseteq ChainRows(req)'
  <2> SUFFICES ASSUME NEW c \in cRows, Admits(req.chains, c)
               PROVE  <<c, 0>> \in ChainRows(req)'
    BY DEF ChainRows
  <2>1. (c \in cEnabled') \in BOOLEAN /\ (c \in cSupported') \in BOOLEAN
    OBVIOUS
  <2>2. (c \in cEnabled') \in req.enabled /\ (c \in cSupported') \in req.supported
    BY <2>1 DEF Stable
  <2> QED
    BY <2>2 DEF ChainRows, Admits
<1>2. TokenRows(req) \subseteq TokenRows(req)'
  <2> SUFFICES ASSUME NEW r \in Chains \X TokenIDs, r[2] \in Listed(tAddress[r[1]]),
                      Admits(req.chains, r[1]), Admits(req.tokens, r[2])
               PROVE  r \in TokenRows(req)'
    BY DEF TokenRows
  <2>1. r[2] \in Listed(tAddress'[r[1]])
    OBVIOUS
  <2>2. tAddress'[r[1]][r[2]] \in Addresses
    BY <2>1 DEF Listed, Listing, CatalogTypeOK
  <2>3. (r[2] \in tSupported'[r[1]]) \in BOOLEAN
    OBVIOUS
  <2>4. (r[2] \in tSupported'[r[1]]) \in req.supported /\ tAddress'[r[1]][r[2]] \in req.addresses
    BY <2>2, <2>3 DEF Stable
  <2> QED
    BY <2>1, <2>4 DEF TokenRows, Admits, Listed
<1> QED
  BY <1>1, <1>2 DEF Rows

-----------------------------------------------------------------------------
(* Types. *)

LEMMA CatalogInitType == Init => CatalogTypeOK
  BY DEF Init, CatalogTypeOK, Listing

(* A write keeps the catalog's types and takes no row away. *)
LEMMA WriteKeepsRows ==
  ASSUME CatalogTypeOK,
         \/ \E c \in Chains : ReplaceChain(c) \/ SwitchChain(c)
         \/ WithdrawChains
         \/ WithdrawTokens
  PROVE  /\ CatalogTypeOK'
         /\ cRows \subseteq cRows'
         /\ \A c \in Chains : Listed(tAddress[c]) \subseteq Listed(tAddress'[c])
<1> USE DEF CatalogTypeOK
<1>1. ASSUME NEW c \in Chains, ReplaceChain(c)
      PROVE  /\ CatalogTypeOK' /\ cRows \subseteq cRows'
             /\ \A d \in Chains : Listed(tAddress[d]) \subseteq Listed(tAddress'[d])
  <2>1. PICK list \in Listing, offered \in SUBSET TokenIDs :
           /\ Listed(tAddress[c]) \subseteq Listed(list)
           /\ cRows' = cRows \cup {c}
           /\ cSupported' \in {cSupported \cup {c}, cSupported \ {c}}
           /\ cEnabled' \in {cEnabled \cup {c}, cEnabled}
           /\ tAddress' = [tAddress EXCEPT ![c] = list]
           /\ tSupported' = [tSupported EXCEPT ![c] = offered]
    BY <1>1 DEF ReplaceChain
  <2> QED
    BY <2>1 DEF Listed
<1>2. ASSUME NEW c \in Chains, SwitchChain(c)
      PROVE  CatalogTypeOK' /\ UNCHANGED <<cRows, tAddress>>
  BY <1>2 DEF SwitchChain
<1>3. CASE WithdrawChains
  BY <1>3 DEF WithdrawChains
<1>4. CASE WithdrawTokens
  BY <1>4 DEF WithdrawTokens
<1> QED
  BY <1>1, <1>2, <1>3, <1>4

LEMMA PageIsAWindow ==
  ASSUME TypeOK, ~Refused(PageNum, PageSize)
  PROVE  /\ Cardinality(Page(Rows(req))) \in 0 .. PageSize
         /\ Page(Rows(req)) \subseteq Rows(req)
         /\ (PageNum - 1) * PageSize <= 2 * MaxInt + 1 =>
              Page(Rows(req)) = Window(Rows(req), (PageNum - 1) * PageSize,
                                       (PageNum - 1) * PageSize + PageSize)
<1> DEFINE s == Skip(PageNum, PageSize)
           z == ToInt(PageSize)
<1>1. /\ PageNum \in Nat \ {0} /\ PageSize \in 1 .. 2 * MaxInt + 1
      /\ (PageNum - 1) * PageSize \in Nat
  BY SizesAndPages DEF TypeOK
<1>2. s \in Nat /\ z \in Nat /\ z = PageSize
  <2>1. MaxInt \in Nat
    BY IntAssumption
  <2>2. ToInt(PageSize) \in Int
    BY <1>1, <2>1 DEF ToInt
  <2>3. ((PageNum - 1) * PageSize) % (2 * MaxInt + 2) \in Nat
    <3> DEFINE x == (PageNum - 1) * PageSize
    <3>1. x \in Nat
      BY <1>1
    <3> HIDE DEF x
    <3> QED
      BY <3>1, <2>1 DEF x
  <2>4. s \in Int
    <3> DEFINE y == ((PageNum - 1) * PageSize) % (2 * MaxInt + 2)
    <3>1. y \in Nat
      BY <2>3
    <3>2. s = ToInt(y)
      BY DEF Skip
    <3> HIDE DEF y, s
    <3> QED
      BY <3>1, <3>2, <2>1 DEF ToInt
  <2>5. s >= 0 /\ z >= 0
    BY <2>2, <2>4 DEF Refused
  <2> QED
    BY <1>1, <2>1, <2>2, <2>4, <2>5 DEF ToInt
<1>3. Page(Rows(req)) = Window(Rows(req), s, s + PageSize)
  <2>1. \A r \in Rows(req) : Position(r, Rows(req)) \in Nat
    <3>1. Rows(req) \in SUBSET Keys
      BY RowsAreKeys DEF TypeOK
    <3>2. \A r \in Rows(req) : Position(r, Rows(req)) \in 0 .. Cardinality(Rows(req)) - 1
      BY <3>1, PositionType
    <3> QED
      BY <3>2
  <2>2. \A r \in Rows(req) : OnPage(Position(r, Rows(req)), PageNum, PageSize)
           <=> s <= Position(r, Rows(req)) /\ Position(r, Rows(req)) < s + PageSize
    BY <1>1, <1>2, <2>1 DEF OnPage
  <2> QED
    BY <2>2 DEF Page, Window
<1>4. Cardinality(Window(Rows(req), s, s + PageSize)) \in 0 .. (s + PageSize) - s
  <2> HIDE DEF s
  <2>1. s + PageSize \in Nat /\ s <= s + PageSize
    BY <1>1, <1>2
  <2> QED
    BY <1>2, <2>1, RowsAreKeys, WindowIsFull DEF TypeOK
<1>5. (PageNum - 1) * PageSize <= 2 * MaxInt + 1 => s = (PageNum - 1) * PageSize
  BY <1>1, SkipWithinRange
<1>6. (s + PageSize) - s = PageSize
  <2> HIDE DEF s
  <2> QED
    BY <1>1, <1>2
<1> QED
  BY <1>3, <1>4, <1>5, <1>6 DEF Page

LEMMA InitType == ReadersInit => TypeOK
<1> SUFFICES ASSUME ReadersInit PROVE TypeOK
  OBVIOUS
<1>1. CatalogTypeOK
  BY CatalogInitType DEF ReadersInit
<1>2. req \in Requests /\ page = 1 /\ at = "idle" /\ got = 0 /\ owed = {} /\ off = {} /\ total = 0
      /\ known = {} /\ news = {} /\ strangers = {}
  BY DEF ReadersInit
<1>3. PageSize \in Nat
  <2>1. req.size \in UInt
    BY <1>2, RequestsAssumption DEF Request
  <2> QED
    BY <2>1, DefaultAssumption DEF PageSize, UInt
<1> QED
  BY <1>1, <1>2, <1>3 DEF TypeOK, ReadersTypeOK

LEMMA StepType == TypeOK /\ [ReadersNext]_vars => TypeOK'
<1> SUFFICES ASSUME TypeOK, [ReadersNext]_vars PROVE TypeOK'
  OBVIOUS
<1> USE DEF TypeOK, ReadersTypeOK
<1>0. /\ PageNum \in Nat \ {0} /\ PageSize \in 1 .. 2 * MaxInt + 1
      /\ Rows(req) \subseteq Keys /\ MaxInt \in Nat
  BY SizesAndPages, RowsAreKeys, IntAssumption
<1>1. CASE UNCHANGED vars
  <2>1. CatalogTypeOK' = CatalogTypeOK /\ PageSize' = PageSize
    BY <1>1 DEF vars, catalog, walk, CatalogTypeOK, PageSize, Listing
  <2> QED
    BY <1>1, <2>1 DEF vars, catalog, walk, client
<1>2. ASSUME NEW q \in Requests, Ask(q) PROVE TypeOK'
  <2>1. CatalogTypeOK' = CatalogTypeOK
    BY <1>2 DEF Ask, catalog, CatalogTypeOK
  <2>2. q.page \in UInt /\ q.size \in UInt
    BY RequestsAssumption DEF Request
  <2>3. Rows(q) \subseteq Chains \X (TokenIDs \cup {0})
    <3>1. ChainRows(q) \subseteq Chains \X (TokenIDs \cup {0})
      BY DEF ChainRows, CatalogTypeOK
    <3>2. TokenRows(q) \subseteq Chains \X (TokenIDs \cup {0})
      BY DEF TokenRows
    <3> QED
      BY <3>1, <3>2 DEF Rows
  <2>4. PageSize' \in Nat /\ got' = 0
    BY <1>2, <2>2, DefaultAssumption DEF Ask, PageSize, UInt
  <2> QED
    BY <1>2, <2>1, <2>2, <2>3, <2>4, <1>0 DEF Ask, UInt, client
<1>3. CASE CountRows
  <2>1. CatalogTypeOK' = CatalogTypeOK /\ PageSize' = PageSize
    BY <1>3 DEF CountRows, catalog, CatalogTypeOK, PageSize
  <2>2. Cardinality(Rows(req)) \in Nat
    BY <1>0, KeysFinite
  <2> QED
    BY <1>3, <2>1, <2>2 DEF CountRows, client
<1>4. CASE ListRows
  <2>1. CatalogTypeOK' = CatalogTypeOK /\ PageSize' = PageSize
    BY <1>4 DEF ListRows, catalog, CatalogTypeOK, PageSize
  <2>2. Cardinality(Page(Rows(req))) \in 0 .. PageSize
    BY <1>4, PageIsAWindow DEF ListRows
  <2> QED
    BY <1>4, <2>1, <2>2 DEF ListRows, client
<1>5. CASE ReadFails
  <2>1. CatalogTypeOK' = CatalogTypeOK /\ PageSize' = PageSize
    BY <1>5 DEF ReadFails, catalog, CatalogTypeOK, PageSize
  <2> QED
    BY <1>5, <1>0, <2>1 DEF ReadFails, client
<1>6. CASE NextPage \/ Finish
  <2>1. CatalogTypeOK' = CatalogTypeOK /\ PageSize' = PageSize
    BY <1>6 DEF NextPage, Finish, catalog, CatalogTypeOK, PageSize
  <2> QED
    BY <1>6, <1>0, <2>1 DEF NextPage, Finish, client
<1>7. CASE Write
  <2>1. CatalogTypeOK'
    BY <1>7, WriteKeepsRows DEF Write
  <2>2. PageSize' = PageSize
    BY <1>7 DEF Write, PageSize
  <2>3. (known \subseteq Chains /\ news \subseteq Chains /\ strangers \subseteq Chains)'
    BY <1>7 DEF Write, Appear
  <2> QED
    BY <1>7, <2>1, <2>2, <2>3 DEF Write
<1>8. ASSUME NEW c \in Chains, Switch(c) PROVE TypeOK'
  <2>1. CatalogTypeOK'
    BY <1>8, WriteKeepsRows DEF Switch
  <2>2. PageSize' = PageSize
    BY <1>8 DEF Switch, PageSize
  <2>3. (known \subseteq Chains /\ news \subseteq Chains /\ strangers \subseteq Chains)'
    BY <1>8 DEF Switch, Appear
  <2> QED
    BY <1>8, <2>1, <2>2, <2>3 DEF Switch
<1>9. CASE ListClientChains
  <2>1. CatalogTypeOK' = CatalogTypeOK /\ off' = off /\ total' = 0 /\ got' = 0 /\ owed' = {}
    BY <1>9 DEF ListClientChains, catalog, CatalogTypeOK
  <2>2. (CHOOSE q \in Requests : TRUE) \in Requests
    OBVIOUS
  <2>3. req' \in Requests /\ page' \in Nat /\ at' = "client"
    BY <1>9, <2>2 DEF ListClientChains
  <2>4. PageSize' \in Nat
    <3>1. req'.size \in UInt
      BY <2>3, RequestsAssumption DEF Request
    <3> QED
      BY <3>1, DefaultAssumption DEF PageSize, UInt
  <2>6. ClientChains \subseteq Chains
    BY DEF ClientChains, CatalogTypeOK
  <2>7. (known \subseteq Chains /\ news \subseteq Chains /\ strangers \subseteq Chains)'
    BY <1>9, <2>6 DEF ListClientChains
  <2> QED
    BY <2>1, <2>3, <2>4, <2>7
<1>10. ASSUME NEW chain, NEW ids, ListClientTokens(chain, ids) PROVE TypeOK'
  <2>1. CatalogTypeOK' = CatalogTypeOK /\ PageSize' = PageSize
    BY <1>10 DEF ListClientTokens, catalog, walk, CatalogTypeOK, PageSize
  <2>2. \A r \in ClientTokens(chain, ids) : r[1] \in Chains
    BY DEF ClientTokens
  <2> QED
    BY <1>10, <2>1, <2>2 DEF ListClientTokens, walk
<1> QED
  BY <1>1, <1>2, <1>3, <1>4, <1>5, <1>6, <1>7, <1>8, <1>9, <1>10 DEF ReadersNext

(* No page has more rows than were asked for, and every variable keeps its *)
(* type.                                                                   *)
THEOREM TypeCorrect == ReadersSpec => []TypeOK
  BY InitType, StepType, PTL DEF ReadersSpec

-----------------------------------------------------------------------------
(* The operator's switch, and what clients are shown.  Only chains with a  *)
(* row can have been switched, so a chain that is inserted starts enabled. *)

SwitchInv == off \subseteq cRows /\ SwitchIsTheOperators

LEMMA SwitchInit == ReadersInit => SwitchInv
  BY DEF ReadersInit, Init, SwitchInv, SwitchIsTheOperators

LEMMA SwitchStep == SwitchInv /\ [ReadersNext]_vars => SwitchInv'
<1> SUFFICES ASSUME SwitchInv, [ReadersNext]_vars PROVE SwitchInv'
  OBVIOUS
<1> USE DEF SwitchInv, SwitchIsTheOperators
<1>1. CASE Write
  <2>1. ASSUME NEW c \in Chains, ReplaceChain(c) PROVE SwitchInv'
    BY <1>1, <2>1 DEF Write, ReplaceChain
  <2>2. CASE WithdrawChains \/ WithdrawTokens
    BY <1>1, <2>2 DEF Write, WithdrawChains, WithdrawTokens
  <2> QED
    BY <1>1, <2>1, <2>2 DEF Write
<1>2. ASSUME NEW c \in Chains, Switch(c) PROVE SwitchInv'
  BY <1>2 DEF Switch, SwitchChain
<1>3. CASE UNCHANGED <<catalog, off>>
  BY <1>3 DEF catalog
<1>4. CASE \/ \E q \in Requests : Ask(q)
           \/ CountRows \/ ListRows \/ ReadFails \/ NextPage \/ Finish \/ ListClientChains
           \/ \E chain \in Chains \cup {0}, ids \in SUBSET TokenIDs : ListClientTokens(chain, ids)
           \/ UNCHANGED vars
  BY <1>3, <1>4 DEF Ask, CountRows, ListRows, ReadFails, NextPage, Finish, ListClientChains,
                    ListClientTokens, vars
<1> QED
  BY <1>1, <1>2, <1>4 DEF ReadersNext

(* A chain is off exactly when the operator switched it off last.          *)
THEOREM SwitchIsKept == ReadersSpec => []SwitchIsTheOperators
<1>1. SwitchInv => SwitchIsTheOperators
  BY DEF SwitchInv
<1> QED
  BY <1>1, SwitchInit, SwitchStep, PTL DEF ReadersSpec

-----------------------------------------------------------------------------
(* The two lists of a client.  Between them chains are withdrawn, which    *)
(* can only take them from what it is shown, and any that come to be shown *)
(* are news.                                                               *)

ClientInv == StrangersAreNews /\ (at = "client" => ClientChains \subseteq known \cup news)

LEMMA ClientInit == ReadersInit => ClientInv
  BY DEF ReadersInit, ClientInv, StrangersAreNews

LEMMA ClientStep == SwitchInv /\ ClientInv /\ [ReadersNext]_vars => ClientInv'
<1> SUFFICES ASSUME SwitchInv, ClientInv, [ReadersNext]_vars PROVE ClientInv'
  OBVIOUS
<1> USE DEF ClientInv, StrangersAreNews, ClientChains
<1>1. CASE Write
  <2>1. ASSUME NEW c \in Chains, ReplaceChain(c), Appear({c}) PROVE ClientInv'
    <3>1. cRows' = cRows \cup {c} /\ cEnabled' \subseteq cEnabled \cup {c}
          /\ cSupported' \subseteq cSupported \cup {c}
      BY <2>1 DEF ReplaceChain
    <3>2. ClientChains' \subseteq ClientChains \cup {c}
      BY <3>1
    <3> QED
      BY <1>1, <2>1, <3>2 DEF Write, Appear
  <2>2. ASSUME WithdrawChains \/ WithdrawTokens, Appear({}) PROVE ClientInv'
    <3>1. ClientChains' \subseteq ClientChains
      BY <2>2 DEF WithdrawChains, WithdrawTokens
    <3> QED
      BY <1>1, <2>2, <3>1 DEF Write, Appear
  <2> QED
    BY <1>1, <2>1, <2>2 DEF Write
<1>2. ASSUME NEW c \in Chains, Switch(c) PROVE ClientInv'
  <2>1. UNCHANGED <<cRows, cSupported>> /\ cEnabled' \in {cEnabled \cup {c}, cEnabled \ {c}}
    BY <1>2 DEF Switch, SwitchChain
  <2>2. ClientChains' \subseteq ClientChains \cup ({c} \ off')
    BY <1>2, <2>1 DEF Switch, SwitchInv, SwitchIsTheOperators
  <2>3. at' = at /\ Appear({c} \ off')
    BY <1>2 DEF Switch
  <2> QED
    BY <2>2, <2>3 DEF Appear
<1>3. CASE ListClientChains
  BY <1>3 DEF ListClientChains, catalog
<1>4. ASSUME NEW chain, NEW ids, ListClientTokens(chain, ids) PROVE ClientInv'
  <2>1. \A r \in ClientTokens(chain, ids) : r[1] \in ClientChains
    BY DEF ClientTokens, HasChainWith
  <2> QED
    BY <1>4, <2>1 DEF ListClientTokens, catalog, walk
<1>5. CASE \/ \E q \in Requests : Ask(q)
           \/ CountRows \/ ListRows \/ ReadFails \/ NextPage \/ Finish
  BY <1>5 DEF Ask, CountRows, ListRows, ReadFails, NextPage, Finish, client, catalog
<1>6. CASE UNCHANGED vars
  BY <1>6 DEF vars, client, catalog, walk
<1> QED
  BY <1>1, <1>2, <1>3, <1>4, <1>5, <1>6 DEF ReadersNext

(* Clients are shown tokens of chains that they have been shown, or that   *)
(* have come since, for any chains and however the reads and writes mix.   *)
THEOREM ClientsAgree == ReadersSpec => []StrangersAreNews
<1>1. ClientInv => StrangersAreNews
  BY DEF ClientInv
<1> QED
  BY <1>1, SwitchInit, SwitchStep, ClientInit, ClientStep, PTL DEF ReadersSpec

-----------------------------------------------------------------------------
(* Walks.  Before a page is read, the rows that are still owed lie on it   *)
(* or on later ones; after it, on later ones only, and then the page was   *)
(* full.  Writes push rows to later positions, never to earlier ones.      *)

Offset == (PageNum - 1) * PageSize
FromStart == Stable(req) /\ req.page \in {0, 1}

TotalInv ==
    Stable(req) => /\ at \in {"list", "answered"} => total <= Cardinality(Rows(req))
                   /\ TotalIsKept
AheadInv ==
    FromStart /\ at \in {"count", "list"} =>
        /\ Offset <= 2 * MaxInt + 1
        /\ \A r \in owed : Position(r, Rows(req)) >= Offset
PassedInv ==
    FromStart /\ at = "answered" =>
        /\ Offset <= MaxInt /\ PageSize <= MaxInt
        /\ \A r \in owed : Position(r, Rows(req)) >= Offset + PageSize
        /\ owed # {} => got = PageSize
WalkInv ==
    /\ TypeOK
    /\ at # "idle" => owed \subseteq Rows(req)
    /\ TotalInv
    /\ AheadInv
    /\ PassedInv
    /\ NoRowSkipped

LEMMA WalkInit == ReadersInit => WalkInv
<1> SUFFICES ASSUME ReadersInit PROVE WalkInv
  OBVIOUS
<1>1. TypeOK
  BY InitType
<1>2. at = "idle"
  BY DEF ReadersInit
<1> QED
  BY <1>1, <1>2 DEF WalkInv, TotalInv, TotalIsKept, AheadInv, PassedInv, NoRowSkipped

(* Steps of the writers. *)
LEMMA WalkWrite ==
  ASSUME WalkInv, Write \/ \E c \in Chains : Switch(c)
  PROVE  WalkInv'
<1>1. TypeOK /\ TypeOK'
  BY StepType DEF WalkInv, ReadersNext
<1>2. /\ UNCHANGED <<at, req, page, total, got>>
      /\ owed' = owed \cap Rows(req)'
  BY DEF Write, Switch
<1>3. PageNum' = PageNum /\ PageSize' = PageSize /\ Offset' = Offset
      /\ Stable(req)' = Stable(req) /\ FromStart' = FromStart
  BY <1>2 DEF PageNum, PageSize, Offset, Stable, FromStart
<1>4. /\ cRows \subseteq cRows'
      /\ \A c \in Chains : Listed(tAddress[c]) \subseteq Listed(tAddress'[c])
  BY <1>1, WriteKeepsRows DEF TypeOK, Write, Switch
<1>5. Stable(req) => Rows(req) \subseteq Rows(req)'
  BY <1>1, <1>2, <1>4, RowsGrow DEF TypeOK
<1>6. Rows(req) \in SUBSET Keys /\ Rows(req)' \in SUBSET Keys
  <2>1. (CatalogTypeOK => Rows(req) \in SUBSET Keys)'
    BY RowsAreKeys, PTL
  <2>2. Keys' = Keys
    BY DEF Keys
  <2> QED
    BY <1>1, <2>1, <2>2, RowsAreKeys DEF TypeOK
<1> DEFINE R == Rows(req)
           S == Rows(req)'
<1>7. Stable(req) => /\ Cardinality(R) <= Cardinality(S)
                     /\ \A r \in R : Position(r, R) <= Position(r, S)
  BY <1>5, <1>6, KeysFinite, FS_Subset, PositionGrows
<1>8. /\ Cardinality(R) \in Nat /\ Cardinality(S) \in Nat
      /\ \A r \in R : Position(r, R) \in Int
      /\ \A r \in S : Position(r, S) \in Int
  <2> HIDE DEF R, S
  <2>1. Cardinality(R) \in Nat /\ Cardinality(S) \in Nat
    BY <1>6, KeysFinite DEF R, S
  <2>2. /\ \A r \in R : Position(r, R) \in 0 .. Cardinality(R) - 1
        /\ \A r \in S : Position(r, S) \in 0 .. Cardinality(S) - 1
    BY <1>6, PositionType DEF R, S
  <2> QED
    BY <2>1, <2>2
<1>9. Offset \in Nat /\ PageSize \in Nat /\ total \in Nat
  BY <1>1, SizesAndPages DEF TypeOK, ReadersTypeOK, Offset
<1>10. TotalInv'
  <2>1. TotalIsKept' = TotalIsKept
    BY <1>2, <1>3 DEF TotalIsKept
  <2> QED
    BY <1>2, <1>3, <1>7, <1>8, <1>9, <2>1 DEF WalkInv, TotalInv
<1>11. at # "idle" => owed' \subseteq owed /\ owed \subseteq R
  BY <1>2 DEF WalkInv
<1>12. \A r : Position(r, Rows(req))' = Position(r, S)
  BY DEF Position, Before
<1>13. AheadInv'
  BY <1>2, <1>3, <1>7, <1>8, <1>9, <1>11, <1>12 DEF WalkInv, AheadInv, FromStart
<1>14. PassedInv'
  BY <1>2, <1>3, <1>7, <1>8, <1>9, <1>11, <1>12 DEF WalkInv, PassedInv, FromStart
<1>15. NoRowSkipped'
  BY <1>2, <1>3, <1>11 DEF WalkInv, NoRowSkipped
<1> QED
  BY <1>1, <1>2, <1>10, <1>13, <1>14, <1>15 DEF WalkInv

LEMMA SizesPrimed ==
  TypeOK => PageNum \in Nat \ {0} /\ PageSize \in 1 .. 2 * MaxInt + 1 /\ Offset \in Nat
  BY SizesAndPages DEF TypeOK, Offset

(* Steps of the reader. *)
LEMMA WalkAsk ==
  ASSUME WalkInv, NEW q \in Requests, Ask(q)
  PROVE  WalkInv'
<1>1. TypeOK'
  BY StepType DEF WalkInv, ReadersNext
<1>2. at' = "count" /\ req' = q /\ page' = q.page /\ owed' = Rows(q) /\ UNCHANGED catalog
  BY DEF Ask
<1>3. Rows(req)' = Rows(q)
  BY <1>2 DEF Rows, ChainRows, TokenRows, catalog
<1>4. (PageNum \in Nat \ {0} /\ PageSize \in 1 .. 2 * MaxInt + 1 /\ Offset \in Nat)'
  <2>1. (TypeOK => PageNum \in Nat \ {0} /\ PageSize \in 1 .. 2 * MaxInt + 1 /\ Offset \in Nat)'
    BY SizesPrimed, PTL
  <2> QED
    BY <1>1, <2>1
<1>5. FromStart' => Offset' = 0
  <2> SUFFICES ASSUME FromStart' PROVE Offset' = 0
    OBVIOUS
  <2>1. PageNum' = 1
    BY <1>2 DEF FromStart, PageNum
  <2>2. Offset' = (PageNum' - 1) * PageSize' /\ PageSize' \in Nat
    BY <1>4, IntAssumption DEF Offset
  <2>3. \A n \in Nat : (1 - 1) * n = 0
    OBVIOUS
  <2> QED
    BY <2>1, <2>2, <2>3
<1>6. \A r \in Rows(req)' : Position(r, Rows(req))' \in Nat
  <2>1. (Rows(req) \in SUBSET Keys)'
    <3>1. (CatalogTypeOK => Rows(req) \in SUBSET Keys)'
      BY RowsAreKeys, PTL
    <3> QED
      BY <1>1, <3>1 DEF TypeOK
  <2> DEFINE S == Rows(req)'
  <2>2. S \in SUBSET Keys
    BY <2>1 DEF Keys
  <2>3. \A r : Position(r, Rows(req))' = Position(r, S)
    BY DEF Position, Before
  <2> HIDE DEF S
  <2>4. \A r \in S : Position(r, S) \in 0 .. Cardinality(S) - 1
    BY <2>2, PositionType
  <2> QED
    BY <2>3, <2>4 DEF S
<1>7. AheadInv'
  BY <1>2, <1>3, <1>5, <1>6, IntAssumption DEF AheadInv
<1> QED
  BY <1>1, <1>2, <1>3, <1>7 DEF WalkInv, TotalInv, TotalIsKept, PassedInv, NoRowSkipped

(* What a step of the reader's RPC leaves alone. *)
LEMMA SameRequest ==
  ASSUME UNCHANGED <<catalog, req>>
  PROVE  /\ Rows(req)' = Rows(req) /\ PageSize' = PageSize /\ Stable(req)' = Stable(req)
         /\ FromStart' = FromStart
         /\ \A r : Position(r, Rows(req))' = Position(r, Rows(req))
         /\ page' = page => PageNum' = PageNum /\ Offset' = Offset
<1>1. Rows(req)' = Rows(req)
  BY DEF Rows, ChainRows, TokenRows, catalog
<1>2. \A r : Position(r, Rows(req))' = Position(r, Rows(req))
  BY <1>1 DEF Position, Before
<1> QED
  BY <1>1, <1>2 DEF PageSize, Stable, FromStart, PageNum, Offset

LEMMA WalkCount ==
  ASSUME WalkInv, CountRows
  PROVE  WalkInv'
<1>1. TypeOK /\ TypeOK'
  BY StepType DEF WalkInv, ReadersNext
<1>2. /\ at = "count" /\ at' = "list" /\ total' = Cardinality(Rows(req))
      /\ UNCHANGED <<catalog, req, page, got, owed>>
  BY DEF CountRows
<1>3. Cardinality(Rows(req)) \in Nat
  BY <1>1, RowsAreKeys, KeysFinite DEF TypeOK
<1>4. TotalInv'
  BY <1>2, <1>3, SameRequest DEF TotalInv, TotalIsKept
<1>5. AheadInv'
  BY <1>2, SameRequest DEF WalkInv, AheadInv
<1> QED
  BY <1>1, <1>2, <1>4, <1>5, SameRequest DEF WalkInv, PassedInv, NoRowSkipped

LEMMA WalkNext ==
  ASSUME WalkInv, NextPage
  PROVE  WalkInv'
<1>1. TypeOK /\ TypeOK'
  BY StepType DEF WalkInv, ReadersNext
<1>2. /\ at = "answered" /\ at' = "count" /\ page' = PageNum + 1
      /\ UNCHANGED <<catalog, req, owed>>
  BY DEF NextPage
<1>3. PageNum \in Nat \ {0} /\ PageSize \in 1 .. 2 * MaxInt + 1 /\ Offset \in Nat
  BY <1>1, SizesPrimed
<1>4. PageNum' = PageNum + 1
  BY <1>2, <1>3 DEF PageNum
<1>5. PageSize' = PageSize
  BY <1>2, SameRequest
<1>6. Offset' = Offset + PageSize
  <2>1. Offset' = PageNum * PageSize
    BY <1>3, <1>4, <1>5 DEF Offset
  <2>2. PageNum * PageSize = (PageNum - 1) * PageSize + PageSize
    BY <1>3
  <2> QED
    BY <2>1, <2>2 DEF Offset
<1>7. AheadInv'
  <2> SUFFICES ASSUME FromStart'
               PROVE  /\ Offset' <= 2 * MaxInt + 1
                      /\ \A r \in owed' : Position(r, Rows(req))' >= Offset'
    BY <1>2 DEF AheadInv
  <2>1. FromStart
    BY <1>2, SameRequest
  <2>2. /\ Offset <= MaxInt /\ PageSize <= MaxInt
        /\ \A r \in owed : Position(r, Rows(req)) >= Offset + PageSize
    BY <1>2, <2>1 DEF WalkInv, PassedInv
  <2> QED
    BY <1>2, <1>3, <1>6, <2>2, SameRequest, IntAssumption
<1> QED
  BY <1>1, <1>2, <1>7, SameRequest DEF WalkInv, TotalInv, TotalIsKept, PassedInv, NoRowSkipped

LEMMA WalkEnds ==
  ASSUME WalkInv, ReadFails \/ Finish
  PROVE  WalkInv'
<1>1. TypeOK /\ TypeOK'
  BY StepType DEF WalkInv, ReadersNext
<1>2. CASE ReadFails
  BY <1>1, <1>2 DEF ReadFails, WalkInv, TotalInv, TotalIsKept, AheadInv, PassedInv, NoRowSkipped
<1>3. CASE Finish
  <2>1. /\ at = "answered" /\ got < PageSize /\ at' = "done"
        /\ UNCHANGED <<catalog, req, page, owed>>
    BY <1>3 DEF Finish
  <2>2. FromStart => owed = {}
    <3>1. got \in Int /\ PageSize \in Int
      BY <1>1, SizesPrimed DEF TypeOK, ReadersTypeOK
    <3>2. FromStart /\ owed # {} => got = PageSize
      BY <2>1 DEF WalkInv, PassedInv
    <3> QED
      BY <2>1, <3>1, <3>2
  <2>3. NoRowSkipped'
    BY <2>1, <2>2 DEF NoRowSkipped, FromStart, Stable
  <2> QED
    BY <1>1, <2>1, <2>3, SameRequest
    DEF WalkInv, TotalInv, TotalIsKept, AheadInv, PassedInv
<1> QED
  BY <1>2, <1>3

(* The page that is read: the rows that are still owed and not on it come  *)
(* after it, and it has what the total promised for it.                    *)
LEMMA WalkList ==
  ASSUME WalkInv, ListRows
  PROVE  WalkInv'
<1> DEFINE R == Rows(req)
           n == Cardinality(R)
           g == Cardinality(Page(R))
<1>1. TypeOK /\ TypeOK'
  BY StepType DEF WalkInv, ReadersNext
<1>2. /\ at = "list" /\ at' = "answered" /\ ~Refused(PageNum, PageSize)
      /\ got' = g /\ owed' = owed \ Page(R)
      /\ UNCHANGED <<catalog, req, page, total>>
  BY DEF ListRows
<1>3. /\ PageNum \in Nat \ {0} /\ PageSize \in 1 .. 2 * MaxInt + 1 /\ Offset \in Nat
      /\ MaxInt \in Nat
  BY <1>1, SizesPrimed, IntAssumption
<1>4. R \in SUBSET Keys /\ n \in Nat /\ n <= MaxInt
  BY <1>1, RowsAreKeys, KeysFinite DEF TypeOK
<1>5. g \in 0 .. PageSize
  BY <1>1, <1>2, PageIsAWindow
<1>6. ASSUME Offset <= 2 * MaxInt + 1
      PROVE  /\ Offset <= MaxInt /\ PageSize <= MaxInt
             /\ Page(R) = Window(R, Offset, Offset + PageSize)
  BY <1>1, <1>2, <1>3, <1>6, SkipWithinRange, PageIsAWindow DEF Offset
<1>7. ASSUME Offset <= 2 * MaxInt + 1, NEW hi \in Nat, Offset <= hi,
             hi <= n, hi <= Offset + PageSize
      PROVE  g >= hi - Offset
  <2> HIDE DEF R, n
  <2>1. Cardinality(Window(R, Offset, hi)) >= hi - Offset
    BY <1>3, <1>4, <1>7, WindowIsFull DEF n
  <2>2. \A r \in R : Position(r, R) \in 0 .. n - 1
    BY <1>4, PositionType DEF n
  <2>3. Window(R, Offset, hi) \in SUBSET Window(R, Offset, Offset + PageSize)
    BY <1>3, <1>4, <1>7, <2>2 DEF Window
  <2>4. Window(R, Offset, Offset + PageSize) \in SUBSET Keys
    BY <1>4 DEF Window
  <2>5. /\ IsFiniteSet(Page(R)) /\ Window(R, Offset, hi) \in SUBSET Page(R)
        /\ Cardinality(Page(R)) \in Nat
    BY <1>6, <1>7, <2>3, <2>4, KeysFinite
  <2>6. Cardinality(Window(R, Offset, hi)) <= g /\ Cardinality(Window(R, Offset, hi)) \in Nat
    BY <2>5, FS_Subset, FS_CardinalityType
  <2> QED
    BY <1>3, <1>7, <2>1, <2>5, <2>6
<1>8. TotalInv'
  <2> SUFFICES ASSUME Stable(req)' PROVE total' <= Cardinality(Rows(req))' /\ TotalIsKept'
    BY DEF TotalInv
  <2>1. total' = total /\ total \in Nat /\ total <= n
    BY <1>1, <1>2, SameRequest DEF WalkInv, TotalInv, TypeOK, ReadersTypeOK
  <2>2. got' >= (IF total - Offset < PageSize THEN total - Offset ELSE PageSize)
    <3> DEFINE hi == IF total < Offset + PageSize THEN total ELSE Offset + PageSize
    <3> HIDE DEF R, n, g
    <3>1. hi \in Nat /\ hi <= n /\ hi <= Offset + PageSize
      BY <1>3, <1>4, <2>1
    <3>2. CASE hi < Offset
      BY <1>2, <1>3, <1>5, <2>1, <3>2
    <3>3. CASE Offset <= hi
      <4>1. Offset <= 2 * MaxInt + 1
        BY <1>3, <1>4, <3>1, <3>3
      <4>2. g >= hi - Offset
        BY <1>7, <3>1, <3>3, <4>1
      <4> QED
        BY <1>2, <1>3, <1>5, <2>1, <3>1, <4>2
    <3> QED
      BY <1>3, <3>1, <3>2, <3>3
  <2>3. TotalIsKept'
    BY <1>2, <2>1, <2>2, SameRequest DEF TotalIsKept, Offset
  <2> QED
    BY <1>2, <2>1, <2>3, SameRequest
<1>9. PassedInv'
  <2> SUFFICES ASSUME FromStart
               PROVE  /\ Offset <= MaxInt /\ PageSize <= MaxInt
                      /\ \A r \in owed' : Position(r, R) >= Offset + PageSize
                      /\ owed' # {} => got' = PageSize
    BY <1>2, SameRequest DEF PassedInv
  <2>1. Offset <= 2 * MaxInt + 1 /\ \A r \in owed : Position(r, R) >= Offset
    BY <1>2 DEF WalkInv, AheadInv
  <2>2. Offset <= MaxInt /\ PageSize <= MaxInt /\ Page(R) = Window(R, Offset, Offset + PageSize)
    BY <1>6, <2>1
  <2>3. owed \subseteq R
    BY <1>2 DEF WalkInv
  <2> HIDE DEF R, n, g
  <2>4. \A r \in R : Position(r, R) \in 0 .. n - 1
    BY <1>4, PositionType DEF n
  <2>5. \A r \in owed' : Position(r, R) >= Offset + PageSize
    BY <1>2, <1>3, <1>4, <2>1, <2>2, <2>3, <2>4 DEF Window
  <2>6. ASSUME NEW r \in owed' PROVE got' = PageSize
    <3>1. Offset + PageSize <= n
      BY <1>2, <1>3, <1>4, <2>3, <2>4, <2>5
    <3>2. Offset + PageSize \in Nat /\ Offset <= Offset + PageSize
      BY <1>3
    <3>3. g >= (Offset + PageSize) - Offset
      BY <1>7, <2>1, <3>1, <3>2
    <3> QED
      BY <1>2, <1>3, <1>5, <3>3
  <2> QED
    BY <2>2, <2>5, <2>6
<1> QED
  BY <1>1, <1>2, <1>8, <1>9, SameRequest DEF WalkInv, AheadInv, NoRowSkipped

LEMMA WalkClient ==
  ASSUME WalkInv,
         ListClientChains \/ \E chain \in Chains \cup {0}, ids \in SUBSET TokenIDs :
                                ListClientTokens(chain, ids)
  PROVE  WalkInv'
<1>1. TypeOK /\ TypeOK'
  BY StepType DEF WalkInv, ReadersNext
<1>2. CASE ListClientChains
  BY <1>1, <1>2 DEF ListClientChains, WalkInv, TotalInv, TotalIsKept, AheadInv, PassedInv, NoRowSkipped
<1>3. ASSUME NEW chain, NEW ids, ListClientTokens(chain, ids) PROVE WalkInv'
  <2>1. at = "client" /\ UNCHANGED <<catalog, at, req, page, total, got, owed>>
    BY <1>3 DEF ListClientTokens, walk
  <2> QED
    BY <1>1, <2>1, SameRequest DEF WalkInv, TotalInv, TotalIsKept, AheadInv, PassedInv, NoRowSkipped
<1> QED
  BY <1>2, <1>3

LEMMA WalkStep == WalkInv /\ [ReadersNext]_vars => WalkInv'
<1> SUFFICES ASSUME WalkInv, [ReadersNext]_vars PROVE WalkInv'
  OBVIOUS
<1>1. CASE UNCHANGED vars
  <2>1. UNCHANGED <<catalog, req>> /\ UNCHANGED <<at, page, total, got, owed>>
    BY <1>1 DEF vars, walk
  <2>2. TypeOK /\ TypeOK'
    BY <1>1, StepType DEF WalkInv
  <2> QED
    BY <2>1, <2>2, SameRequest
    DEF WalkInv, TotalInv, TotalIsKept, AheadInv, PassedInv, NoRowSkipped
<1> QED
  BY <1>1, WalkAsk, WalkCount, WalkList, WalkNext, WalkEnds, WalkClient, WalkWrite DEF ReadersNext

(* Paging through a list whose filters no write touches shows every row    *)
(* that was there from the beginning.                                      *)
THEOREM NothingSkipped == ReadersSpec => []NoRowSkipped
<1>1. WalkInv => NoRowSkipped
  BY DEF WalkInv
<1> QED
  BY <1>1, WalkInit, WalkStep, PTL DEF ReadersSpec

(* An answer's page has the rows its total promises.                       *)
THEOREM TotalsHold == ReadersSpec => []TotalIsKept
<1>1. WalkInv => TotalIsKept
  BY DEF WalkInv, TotalInv, TotalIsKept
<1> QED
  BY <1>1, WalkInit, WalkStep, PTL DEF ReadersSpec
=============================================================================
