---------------------------- MODULE CatalogProofs ----------------------------
(***************************************************************************)
(* Proofs about the catalog, for any listing, page size and page limit,    *)
(* and any number of changes of the venues' listings and of failures.      *)
(***************************************************************************)
EXTENDS Catalog, FiniteSetTheorems, WellFoundedInduction, TLAPS

-----------------------------------------------------------------------------
(* Finite sets of numbers *)

LEMMA Smallest ==
    ASSUME NEW T \in SUBSET Nat, T # {}
    PROVE  \E x \in T : \A y \in T : x <= y
<1>. DEFINE R == OpToRel(<, Nat)
<1>1. PICK x \in T : \A y \in T : ~ (<<y, x>> \in R)
  <2>1. IsWellFoundedOn(R, Nat)
    BY NatLessThanWellFounded
  <2>. HIDE DEF R
  <2>. QED  BY <2>1, WFMin
<1>2. \A y \in T : ~ (y < x)
  BY <1>1 DEF OpToRel
<1>. QED  BY <1>2

LEMMA MaxLargest ==
    ASSUME NEW n \in Nat, NEW T \in SUBSET (0 .. n), T # {}
    PROVE  Max(T) \in T /\ \A y \in T : y <= Max(T)
<1>. DEFINE U == {n - x : x \in T}
<1>1. PICK u \in U : \A v \in U : u <= v
  <2>0. \A x \in T : n - x \in Nat
    OBVIOUS
  <2>1. U \in SUBSET Nat /\ U # {}
    BY <2>0, Zenon
  <2>. HIDE DEF U
  <2>. QED  BY <2>1, Smallest
<1>2. PICK x \in T : u = n - x
  OBVIOUS
<1>3. \A y \in T : x >= y
  <2>. TAKE y \in T
  <2>1. n - x <= n - y
    BY <1>1, <1>2
  <2>. QED  BY <2>1
<1>4. Max(T) \in T /\ \A y \in T : Max(T) >= y
  BY <1>3 DEF Max
<1>. QED  BY <1>4

-----------------------------------------------------------------------------
(* The parsers *)

\* Of what a venue can list, every parser keeps tradable perpetuals only, and
\* skips none.
LEMMA ParsesTradable ==
    ASSUME NEW p \in DOMAIN Traits, NEW row \in SUBSET Traits[p]
    PROVE  /\ Parse(p, row) = "instrument" => Tradable(row)
           /\ Tradable(row) => Parse(p, row) \in {"instrument", "refused"}
<1>. USE DEF Parse, Decoded, Parsed, Tradable, Traits
<1>1. CASE p = "bybit"
  BY <1>1 DEF bybit_instrument
<1>2. CASE p = "binance"
  BY <1>2 DEF binance_instrument
<1>3. CASE p = "okx"
  BY <1>3 DEF okx_instrument
<1>4. CASE p = "kucoin"
  BY <1>4 DEF kucoin_instrument
<1>5. CASE p = "mexc"
  BY <1>5 DEF mexc_instrument
<1>6. CASE p = "bingx"
  BY <1>6 DEF bingx_instrument
<1>. QED  BY <1>1, <1>2, <1>3, <1>4, <1>5, <1>6

\* The order of decoding, filters and checks, of all parsers and any row: a body
\* is refused for the rows of Fatal and no others.
THEOREM RefusedExactly ==
    ASSUME NEW p \in DOMAIN Traits, NEW row \in SUBSET Traits[p]
    PROVE  Parse(p, row) = "refused" <=> Fatal(p, row)
<1>. USE DEF Parse, Decoded, Parsed, Tradable, Traits, Fatal
<1>1. CASE p = "bybit"
  BY <1>1 DEF bybit_instrument
<1>2. CASE p = "binance"
  BY <1>2 DEF binance_instrument
<1>3. CASE p = "okx"
  BY <1>3 DEF okx_instrument
<1>4. CASE p = "kucoin"
  BY <1>4 DEF kucoin_instrument
<1>5. CASE p = "mexc"
  BY <1>5 DEF mexc_instrument
<1>6. CASE p = "bingx"
  BY <1>6 DEF bingx_instrument
<1>. QED  BY <1>1, <1>2, <1>3, <1>4, <1>5, <1>6

-----------------------------------------------------------------------------
(* The inductive invariant *)

Refresh ==
    [step : {"idle", "page"}, cursor : Nat, requested_cursors : SUBSET Nat, pages : Nat,
     instruments : SUBSET Symbols]
Snapshot ==
    [instruments : SUBSET Symbols, attempted : BOOLEAN, succeeded : BOOLEAN, last_error : BOOLEAN]

TypeOK ==
    /\ sources \in Configurations
    /\ honest \in BOOLEAN
    /\ snapshot \in [Providers -> Snapshot]
    /\ refresh \in [Providers -> Refresh]
    /\ DOMAIN market = Providers /\ \A p \in Providers : DOMAIN market[p] = Symbols
    /\ stable \in [Providers -> SUBSET Symbols]
    /\ seen \in [Providers -> SUBSET Symbols]
    /\ \A p \in Enabled, s \in Symbols : market[p][s] \in Rows(s)

\* A cursor is in requested_cursors only after its page was asked for, and 0,
\* which stands for none, never.
Pagination(r) ==
    /\ r.cursor \notin r.requested_cursors /\ NoCursor \notin r.requested_cursors
    /\ r.step = "page" => r.pages < MaxPages

Recorded(p) == stable[p] \subseteq Live(p) /\ Live(p) \subseteq seen[p]

\* An honest venue's pages so far: all of what has traded since the refresh began
\* up to the cursor, and nothing that has not traded.
Gathered(p, r) ==
    r.step = "page" =>
        /\ \A s \in stable[p] : s <= r.cursor => s \in r.instruments
        /\ r.instruments \subseteq seen[p]

IInv ==
    /\ TypeOK
    /\ \A p \in Providers :
          /\ Pagination(refresh[p])
          /\ snapshot[p].succeeded <=> snapshot[p].instruments # {}
          /\ p \notin Enabled => refresh[p].step = "idle"
          /\ honest => Recorded(p) /\ Gathered(p, refresh[p])

-----------------------------------------------------------------------------
(* A page of an honest venue *)

\* The first rows in symbol order: whatever lies before a row that is sent is
\* sent, and something is when there is something to send.
LEMMA FirstRows ==
    ASSUME NEW n \in Nat, NEW ahead \in SUBSET (1 .. n), NEW size \in Nat \ {0}, NEW sent,
           sent = {s \in ahead : Cardinality({r \in ahead : r < s}) < size}
    PROVE  /\ \A s \in sent, r \in ahead : r <= s => r \in sent
           /\ ahead # {} => sent # {}
<1>. DEFINE before(s) == {r \in ahead : r < s}
<1>0. sent \subseteq ahead /\ \A s \in ahead : s \in Nat
  OBVIOUS
<1>1. IsFiniteSet(ahead)
  <2>1. IsFiniteSet(1 .. n)
    BY FS_Interval
  <2>. QED  BY <2>1, FS_Subset
<1>2. ASSUME NEW s \in sent, NEW r \in ahead, r <= s PROVE r \in sent
  <2>0. \A q \in ahead : q < r => q < s
    BY <1>0, <1>2
  <2>1. before(r) \in SUBSET before(s) /\ before(s) \in SUBSET ahead
    BY <2>0, Zenon
  <2>. HIDE DEF before
  <2>2. IsFiniteSet(before(s))
    BY <1>1, <2>1, FS_Subset
  <2>3. /\ Cardinality(before(r)) <= Cardinality(before(s))
        /\ IsFiniteSet(before(r))
    BY <2>1, <2>2, FS_Subset
  <2>4. Cardinality(before(r)) \in Nat /\ Cardinality(before(s)) \in Nat
    BY <2>2, <2>3, FS_CardinalityType
  <2>5. Cardinality(before(s)) < size
    BY DEF before
  <2>6. Cardinality(before(r)) < size
    BY <2>3, <2>4, <2>5
  <2>. QED  BY <2>6 DEF before
<1>3. ASSUME ahead # {} PROVE sent # {}
  <2>1. PICK s \in ahead : \A r \in ahead : s <= r
    BY <1>0, <1>3, Smallest
  <2>a. \A r \in ahead : ~ (r < s)
    BY <1>0, <2>1
  <2>2. before(s) = {}
    BY <2>a, Zenon
  <2>3. Cardinality(before(s)) < size
    <3>. HIDE DEF before
    <3>. QED  BY <2>2, FS_EmptySet
  <2>. QED  BY <2>3
<1>. QED  BY <1>2, <1>3

LEMMA HonestPageGathers ==
    ASSUME TypeOK, honest, NEW p \in Enabled, Recorded(p), Gathered(p, refresh[p]), refresh[p].step = "page",
           NEW page, page = HonestPage(p), ~ page.refused
    PROVE  /\ page.rows \subseteq Symbols /\ page.rows \subseteq seen[p]
           /\ page.next \in Nat
           /\ \A s \in stable[p] : page.next = NoCursor \/ s <= page.next =>
                 s \in refresh[p].instruments \cup page.rows
<1>. DEFINE ahead == {s \in Symbols : market[p][s] # Absent /\ s > refresh[p].cursor}
            some == {s \in ahead : Cardinality({r \in ahead : r < s}) < PageSize}
            sent == IF p \in Paged THEN some ELSE ahead
            rows == {s \in sent : Parse(p, market[p][s]) = "instrument"}
<1>1. /\ page.rows = rows
      /\ page.next = IF sent = ahead THEN NoCursor ELSE Max(sent)
      /\ \A s \in sent : Parse(p, market[p][s]) # "refused"
  BY DEF HonestPage
<1>2. p \in Providers /\ p \in DOMAIN Traits /\ sources \in Configurations
  BY CatalogAssumption DEF TypeOK, Enabled
<1>3. ASSUME NEW s \in Symbols, market[p][s] # Absent PROVE market[p][s] \in SUBSET Traits[p]
  <2>1. market[p][s] \in sources.rows[s]
    BY <1>3 DEF TypeOK, Rows
  <2>. QED  BY <2>1, <1>2, CatalogAssumption DEF Enabled
<1>4. sent \subseteq ahead /\ ahead \subseteq Symbols
  OBVIOUS
<1>5. rows \subseteq Live(p)
  <2>. SUFFICES ASSUME NEW s \in rows PROVE s \in Live(p)
    OBVIOUS
  <2>1. s \in Symbols /\ market[p][s] \in SUBSET Traits[p] /\ Parse(p, market[p][s]) = "instrument"
    BY <1>3, <1>4
  <2>2. Tradable(market[p][s])
    BY <2>1, <1>2, ParsesTradable
  <2>. QED  BY <2>1, <2>2 DEF Live
<1>6. ASSUME NEW s \in stable[p], s \notin refresh[p].instruments PROVE s \in ahead /\ (s \in sent => s \in rows)
  <2>1. s \in Symbols /\ Tradable(market[p][s])
    BY DEF Recorded, Live
  <2>2. market[p][s] # Absent
    BY <2>1 DEF Tradable, Absent
  <2>3. s > refresh[p].cursor
    <3>1. refresh[p].cursor \in Nat /\ s \in Nat
      BY <1>2, <2>1, CatalogAssumption DEF TypeOK, Refresh, Symbols
    <3>. QED  BY <1>6, <3>1 DEF Gathered
  <2>4. Parse(p, market[p][s]) \in {"instrument", "refused"}
    BY <2>1, <2>2, <1>2, <1>3, ParsesTradable
  <2>. QED  BY <2>1, <2>2, <2>3, <2>4, <1>1
<1>7. CASE sent = ahead
  <2>1. page.next = NoCursor
    BY <1>1, <1>7
  <2>. HIDE DEF ahead, sent, rows
  <2>. QED  BY <1>1, <1>4, <1>5, <1>6, <1>7, <2>1 DEF Recorded, NoCursor, Live
<1>8. CASE sent # ahead
  <2>1. sent = some
    BY <1>8
  <2>2. ahead \in SUBSET (1 .. MaxSymbol) /\ ahead # {}
    BY <1>4, <1>8, <2>1 DEF Symbols
  <2>3. (\A s \in sent, r \in ahead : r <= s => r \in sent) /\ sent # {}
    <3>1. sent = {s \in ahead : Cardinality({r \in ahead : r < s}) < PageSize}
      BY <2>1
    <3>2. MaxSymbol \in Nat /\ PageSize \in Nat \ {0}
      BY CatalogAssumption
    <3>. HIDE DEF ahead, sent
    <3>. QED  BY <3>1, <3>2, <2>2, FirstRows
  <2>4. Max(sent) \in sent
    <3>1. sent \in SUBSET (0 .. MaxSymbol)
      BY <1>4, <2>2
    <3>. HIDE DEF sent
    <3>. QED  BY <3>1, <2>3, MaxLargest, CatalogAssumption
  <2>5. page.next = Max(sent)
    BY <1>1, <1>8
  <2>6. page.next \in sent /\ page.next \in Nat /\ page.next # NoCursor
    <3>1. page.next \in sent
      BY <2>4, <2>5
    <3>2. page.next \in 1 .. MaxSymbol
      BY <3>1, <1>4, <2>2
    <3>. QED  BY <3>1, <3>2, CatalogAssumption DEF NoCursor
  <2>. HIDE DEF ahead, some, sent, rows
  <2>7. ASSUME NEW s \in stable[p], s <= page.next PROVE s \in refresh[p].instruments \cup page.rows
    BY <2>3, <2>6, <2>7, <1>1, <1>6
  <2>. QED  BY <1>1, <1>4, <1>5, <2>6, <2>7 DEF Recorded, Live
<1>. QED  BY <1>7, <1>8

-----------------------------------------------------------------------------
(* refresh_provider preserves the invariant *)

LEMMA AnswerTypes ==
    ASSUME TypeOK, NEW p \in Enabled, NEW page \in Answers(p), ~ page.refused,
           honest => Recorded(p) /\ Gathered(p, refresh[p]), refresh[p].step = "page"
    PROVE  /\ page.rows \subseteq Symbols /\ page.next \in Nat
           /\ honest => /\ page.rows \subseteq seen[p]
                        /\ \A s \in stable[p] : page.next = NoCursor \/ s <= page.next =>
                              s \in refresh[p].instruments \cup page.rows
<1>1. CASE honest
  <2>1. page = HonestPage(p)
    BY <1>1 DEF Answers
  <2>. QED  BY <1>1, <2>1, HonestPageGathers
<1>2. CASE ~ honest
  BY <1>2, CatalogAssumption DEF Answers, NoCursor
<1>. QED  BY <1>1, <1>2

\* Only the refresh and the snapshot of p change, to r and n.
LEMMA OneProvider ==
    ASSUME IInv, NEW p \in Providers, NEW r \in Refresh, NEW n \in Snapshot,
           refresh' = [refresh EXCEPT ![p] = r], snapshot' = [snapshot EXCEPT ![p] = n],
           UNCHANGED <<venue, history>>,
           Pagination(r), n.succeeded <=> n.instruments # {}, p \notin Enabled => r.step = "idle",
           honest => Gathered(p, r)
    PROVE  IInv'
<1>1. TypeOK'
  BY DEF IInv, TypeOK, venue, history, Rows, Enabled
<1>2. ASSUME NEW q \in Providers
      PROVE  /\ refresh'[q] = IF q = p THEN r ELSE refresh[q]
             /\ snapshot'[q] = IF q = p THEN n ELSE snapshot[q]
  BY DEF IInv, TypeOK
<1>3. honest' = honest /\ Enabled' = Enabled /\ stable' = stable /\ seen' = seen /\ market' = market
  BY DEF venue, history, Enabled
<1>4. ASSUME NEW q \in Providers
      PROVE  /\ Pagination(refresh'[q])
             /\ snapshot'[q].succeeded <=> snapshot'[q].instruments # {}
             /\ q \notin Enabled' => refresh'[q].step = "idle"
  BY <1>2, <1>3 DEF IInv
<1>5. ASSUME NEW q \in Providers, honest' PROVE Recorded(q)' /\ Gathered(q, refresh[q])'
  BY <1>2, <1>3, <1>5 DEF IInv, Recorded, Gathered, Live
<1>. QED  BY <1>1, <1>4, <1>5 DEF IInv, Pagination

LEMMA IdleFacts == Idle \in Refresh /\ Pagination(Idle) /\ Idle.step = "idle"
BY DEF Idle, Refresh, Pagination, NoCursor

\* A failure keeps the instruments and what the snapshot says of success.
LEMMA FailPreserves ==
    ASSUME IInv, NEW p \in Providers, Fail(p), UNCHANGED <<venue, history>>
    PROVE  IInv' /\ \A q \in Providers : snapshot'[q].instruments = snapshot[q].instruments
<1>. DEFINE n == [snapshot[p] EXCEPT !.attempted = TRUE, !.last_error = TRUE]
<1>1. n \in Snapshot /\ n.succeeded = snapshot[p].succeeded /\ n.instruments = snapshot[p].instruments
  BY ZenonT(40) DEF IInv, TypeOK, Snapshot
<1>2. snapshot' = [snapshot EXCEPT ![p] = n] /\ refresh' = [refresh EXCEPT ![p] = Idle]
  BY DEF Fail, IInv, TypeOK
<1>3. n.succeeded <=> n.instruments # {}
  BY <1>1 DEF IInv
<1>. HIDE DEF n
<1>4. \A q \in Providers : snapshot'[q].instruments = snapshot[q].instruments
  BY <1>1, <1>2 DEF IInv, TypeOK
<1>5. Gathered(p, Idle)
  BY IdleFacts DEF Gathered
<1>. QED  BY <1>1, <1>2, <1>3, <1>4, <1>5, OneProvider, IdleFacts

LEMMA ReplacePreserves ==
    ASSUME IInv, NEW p \in Providers, NEW I \in SUBSET Symbols, I # {}, Replace(p, I),
           UNCHANGED <<venue, history>>
    PROVE  /\ IInv'
           /\ \A q \in Providers : snapshot'[q].instruments = IF q = p THEN I ELSE snapshot[q].instruments
<1>. DEFINE n == [instruments |-> I, attempted |-> TRUE, succeeded |-> TRUE, last_error |-> FALSE]
<1>1. n \in Snapshot /\ (n.succeeded <=> n.instruments # {}) /\ n.instruments = I
  BY DEF Snapshot
<1>2. snapshot' = [snapshot EXCEPT ![p] = n] /\ refresh' = [refresh EXCEPT ![p] = Idle]
  BY DEF Replace
<1>. HIDE DEF n
<1>3. \A q \in Providers : snapshot'[q].instruments = IF q = p THEN I ELSE snapshot[q].instruments
  BY <1>1, <1>2 DEF IInv, TypeOK
<1>4. Gathered(p, Idle)
  BY IdleFacts DEF Gathered
<1>. QED  BY <1>1, <1>2, <1>3, <1>4, OneProvider, IdleFacts

LEMMA AdvancePreserves ==
    ASSUME IInv, NEW p \in Enabled, p \in Providers, refresh[p].step = "page",
           NEW next \in Nat, NEW I \in SUBSET Symbols,
           next # NoCursor, ~ Repeated(p, next), ~ LastPage(p), AdvanceCursor(p, next, I),
           UNCHANGED <<venue, history>>,
           honest => I \subseteq seen[p] /\ \A s \in stable[p] : s <= next => s \in I
    PROVE  IInv'
<1>. DEFINE asked == refresh[p].requested_cursors \cup ({refresh[p].cursor} \ {NoCursor})
            r == [refresh[p] EXCEPT !.cursor = next, !.requested_cursors = asked,
                                    !.pages = @ + 1, !.instruments = I]
<1>0. refresh[p] \in Refresh
  BY DEF IInv, TypeOK
<1>1. refresh' = [refresh EXCEPT ![p] = r] /\ snapshot' = [snapshot EXCEPT ![p] = snapshot[p]]
  BY DEF AdvanceCursor, IInv, TypeOK
<1>2. asked \in SUBSET Nat /\ NoCursor \notin asked /\ next \notin asked
  BY <1>0 DEF IInv, Pagination, Repeated, Refresh
<1>. HIDE DEF asked
<1>3. r \in Refresh
  <2>. DEFINE r1 == [refresh[p] EXCEPT !.cursor = next]
              r2 == [r1 EXCEPT !.requested_cursors = asked]
              r3 == [r2 EXCEPT !.pages = @ + 1]
  <2>1. r1 \in Refresh
    BY <1>0 DEF Refresh
  <2>2. r2 \in Refresh
    <3>. HIDE DEF r1
    <3>. QED  BY <2>1, <1>2 DEF Refresh
  <2>3. r3 \in Refresh
    <3>. HIDE DEF r2
    <3>. QED  BY <2>2 DEF Refresh
  <2>4. [r3 EXCEPT !.instruments = I] \in Refresh
    <3>. HIDE DEF r3
    <3>. QED  BY <2>3 DEF Refresh
  <2>. QED  BY <2>4
<1>4. r.cursor = next /\ r.requested_cursors = asked /\ r.pages = refresh[p].pages + 1 /\ r.instruments = I
  BY <1>0 DEF Refresh
<1>5. r.pages < MaxPages
  BY <1>0, <1>4, CatalogAssumption DEF Refresh, LastPage
<1>. HIDE DEF r
<1>6. Pagination(r)
  BY <1>2, <1>4, <1>5 DEF Pagination
<1>7. snapshot[p] \in Snapshot /\ (snapshot[p].succeeded <=> snapshot[p].instruments # {})
  BY DEF IInv, TypeOK
<1>8. honest => Gathered(p, r)
  BY <1>4 DEF Gathered
<1>. QED  BY <1>1, <1>3, <1>6, <1>7, <1>8, OneProvider

\* What a step of the code may do to a snapshot, for one venue that answers as
\* documented.
Complete(p) ==
    honest /\ snapshot'[p].instruments # snapshot[p].instruments =>
        /\ stable[p] \subseteq snapshot'[p].instruments
        /\ snapshot'[p].instruments \subseteq seen[p]

LEMMA FetchPreserves ==
    ASSUME IInv, NEW p \in Providers, FetchPage(p)
    PROVE  IInv' /\ \A q \in Providers : Complete(q)
<1>0. refresh[p].step = "page" /\ UNCHANGED <<venue, history>>
  BY DEF FetchPage
<1>1. p \in Enabled /\ refresh[p] \in Refresh
  BY <1>0 DEF IInv, TypeOK
<1>2. PICK page \in Answers(p) :
          LET I == refresh[p].instruments \cup page.rows
          IN  IF refresh[p].cursor \in refresh[p].requested_cursors \/ page.refused
                    \/ Duplicated(p, page)
              THEN Fail(p)
              ELSE IF page.next = NoCursor THEN Fetched(p, I)
              ELSE IF Repeated(p, page.next) \/ LastPage(p) THEN Fail(p)
              ELSE AdvanceCursor(p, page.next, I)
  BY DEF FetchPage
<1>. DEFINE I == refresh[p].instruments \cup page.rows
<1>3. CASE Fail(p)
  BY <1>0, <1>3, FailPreserves DEF Complete
<1>4. CASE ~ Fail(p)
  <2>1. /\ ~ page.refused
        /\ \/ page.next = NoCursor /\ I # {} /\ Replace(p, I)
           \/ /\ page.next # NoCursor /\ ~ Repeated(p, page.next) /\ ~ LastPage(p)
              /\ AdvanceCursor(p, page.next, I)
    BY <1>2, <1>4 DEF Fetched
  <2>2. /\ page.rows \subseteq Symbols /\ page.next \in Nat
        /\ honest => /\ page.rows \subseteq seen[p]
                     /\ \A s \in stable[p] : page.next = NoCursor \/ s <= page.next => s \in I
    BY <2>1, <1>0, <1>1, AnswerTypes DEF IInv
  <2>3. I \in SUBSET Symbols
    BY <1>1, <2>2 DEF Refresh
  <2>4. honest => I \subseteq seen[p]
    BY <1>0, <2>2 DEF IInv, Gathered
  <2>. HIDE DEF I
  <2>5. CASE page.next = NoCursor /\ I # {} /\ Replace(p, I)
    <3>1. /\ IInv'
          /\ \A q \in Providers : snapshot'[q].instruments = IF q = p THEN I ELSE snapshot[q].instruments
      BY <1>0, <2>3, <2>5, ReplacePreserves
    <3>. QED  BY <3>1, <2>2, <2>4, <2>5 DEF Complete
  <2>6. CASE /\ page.next # NoCursor /\ ~ Repeated(p, page.next) /\ ~ LastPage(p)
             /\ AdvanceCursor(p, page.next, I)
    <3>1. IInv'
      BY <1>0, <1>1, <2>2, <2>3, <2>4, <2>6, AdvancePreserves
    <3>2. snapshot' = snapshot
      BY <2>6 DEF AdvanceCursor
    <3>. QED  BY <3>1, <3>2 DEF Complete
  <2>. QED  BY <2>1, <2>5, <2>6
<1>. QED  BY <1>3, <1>4

-----------------------------------------------------------------------------
(* The other steps *)

LEMMA MarketPreserves == ASSUME IInv, MarketChanges PROVE IInv'
<1>1. PICK p \in Enabled, s \in Symbols : \E row \in Rows(s) :
          /\ honest
          /\ market' = [market EXCEPT ![p][s] = row]
          /\ stable' = [stable EXCEPT ![p] = @ \cap Live(p)']
          /\ seen' = [seen EXCEPT ![p] = @ \cup Live(p)']
          /\ UNCHANGED <<sources, task, shutdown, snapshot, refresh, honest, faults>>
  BY DEF MarketChanges
<1>2. PICK row \in Rows(s) : market' = [market EXCEPT ![p][s] = row]
  BY <1>1
<1>3. p \in Providers /\ Enabled' = Enabled /\ honest
  BY <1>1, CatalogAssumption DEF IInv, TypeOK, Enabled
<1>4. Live(p)' \subseteq Symbols
  BY DEF Live
<1>5. TypeOK'
  <2>1. DOMAIN market' = Providers /\ \A q \in Providers : DOMAIN market'[q] = Symbols
    BY <1>2 DEF IInv, TypeOK
  <2>2. \A q \in Enabled, t \in Symbols : market'[q][t] \in Rows(t)
    BY <1>2, <1>3, CatalogAssumption DEF IInv, TypeOK, Enabled
  <2>3. stable' \in [Providers -> SUBSET Symbols] /\ seen' \in [Providers -> SUBSET Symbols]
    BY <1>1, <1>3, <1>4 DEF IInv, TypeOK
  <2>. QED  BY <1>1, <1>3, <2>1, <2>2, <2>3 DEF IInv, TypeOK, Rows
<1>6. ASSUME NEW q \in Providers
      PROVE  Recorded(q)' /\ Gathered(q, refresh[q])' /\ Pagination(refresh[q])'
  <2>0. Recorded(q) /\ Gathered(q, refresh[q]) /\ Pagination(refresh[q]) /\ refresh' = refresh
    BY <1>1, <1>3 DEF IInv
  <2>1. CASE q = p
    <3>1. stable'[q] = stable[q] \cap Live(q)' /\ seen'[q] = seen[q] \cup Live(q)'
      BY <2>1, <1>1, <1>3 DEF IInv, TypeOK
    <3>. QED  BY <2>0, <3>1 DEF Recorded, Gathered, Pagination
  <2>2. CASE q # p
    <3>1. stable'[q] = stable[q] /\ seen'[q] = seen[q] /\ market'[q] = market[q]
      BY <2>2, <1>1, <1>2, <1>3 DEF IInv, TypeOK
    <3>. QED  BY <2>0, <3>1 DEF Recorded, Gathered, Pagination, Live
  <2>. QED  BY <2>1, <2>2
<1>. QED  BY <1>1, <1>3, <1>5, <1>6 DEF IInv

LEMMA SymbolsPositive == \A s \in Symbols : s \in Nat /\ s > 0
BY CatalogAssumption DEF Symbols

LEMMA WakePreserves == ASSUME IInv, WakeUp PROVE IInv'
<1>0. Begun \in Refresh /\ Pagination(Begun) /\ Begun.cursor = 0 /\ Begun.instruments = {}
  BY CatalogAssumption DEF Begun, Idle, Refresh, Pagination, NoCursor
<1>1. /\ refresh' = [p \in Providers |-> IF p \in Enabled THEN Begun ELSE refresh[p]]
      /\ stable' = [p \in Providers |-> Live(p)]
      /\ seen' = [p \in Providers |-> Live(p)]
      /\ UNCHANGED <<snapshot, sources, honest, market>>
  BY DEF WakeUp, venue
<1>2. \A p \in Providers : Live(p)' = Live(p) /\ Live(p) \subseteq Symbols
  BY <1>1 DEF Live
<1>3. TypeOK'
  BY <1>0, <1>1, <1>2 DEF IInv, TypeOK, Rows, Enabled
<1>4. ASSUME NEW p \in Providers PROVE Recorded(p)' /\ (honest => Gathered(p, refresh[p])')
  <2>1. Recorded(p)'
    BY <1>1, <1>2 DEF Recorded
  <2>2. \A s \in stable'[p] : s \in Nat /\ s > 0
    BY <1>1, <1>2, SymbolsPositive
  <2>3. CASE p \in Enabled
    BY <1>0, <1>1, <2>1, <2>2, <2>3 DEF Gathered
  <2>4. CASE p \notin Enabled
    BY <1>1, <2>1, <2>4 DEF IInv, Gathered
  <2>. QED  BY <2>1, <2>3, <2>4
<1>5. ASSUME NEW p \in Providers
      PROVE  Pagination(refresh[p])' /\ (p \notin Enabled => refresh'[p].step = "idle")
  BY <1>0, <1>1 DEF IInv, Pagination
<1>. QED  BY <1>1, <1>3, <1>4, <1>5 DEF IInv, Enabled

LEMMA InitIInv == ASSUME Init PROVE IInv
<1>0. /\ Begun \in Refresh /\ Pagination(Begun) /\ Begun.cursor = 0 /\ Begun.instruments = {}
      /\ Unfetched \in Snapshot /\ Unfetched.succeeded = FALSE /\ Unfetched.instruments = {}
  BY CatalogAssumption DEF Begun, Idle, Refresh, Pagination, NoCursor, Unfetched, Snapshot
<1>1. \A p \in Providers : Live(p) \subseteq Symbols
  BY DEF Live
<1>2. /\ DOMAIN market = Providers /\ \A p \in Providers : DOMAIN market[p] = Symbols
      /\ \A p \in Enabled, s \in Symbols : market[p][s] \in Rows(s)
  <2>1. PICK listed \in [IF honest THEN Enabled ELSE {} -> Listings] :
            market = [p \in Providers |-> IF p \in DOMAIN listed THEN listed[p]
                                          ELSE [s \in Symbols |-> Absent]]
    BY DEF Init
  <2>2. ASSUME NEW p \in Providers, p \in DOMAIN listed
        PROVE  DOMAIN market[p] = Symbols /\ \A s \in Symbols : market[p][s] \in Rows(s)
    <3>1. market[p] \in Listings
      BY <2>1, <2>2
    <3>. QED  BY <3>1 DEF Listings
  <2>3. ASSUME NEW p \in Providers, p \notin DOMAIN listed
        PROVE  DOMAIN market[p] = Symbols /\ \A s \in Symbols : market[p][s] \in Rows(s)
    BY <2>1, <2>3 DEF Rows
  <2>4. Enabled \subseteq Providers
    BY CatalogAssumption DEF Init, Enabled
  <2>. QED  BY <2>1, <2>2, <2>3, <2>4
<1>3. TypeOK
  BY <1>0, <1>1, <1>2, IdleFacts DEF Init, TypeOK
<1>4. ASSUME NEW p \in Providers
      PROVE  /\ Pagination(refresh[p])
             /\ snapshot[p].succeeded <=> snapshot[p].instruments # {}
             /\ p \notin Enabled => refresh[p].step = "idle"
  BY <1>0, IdleFacts DEF Init
<1>5. ASSUME NEW p \in Providers PROVE Recorded(p) /\ Gathered(p, refresh[p])
  <2>1. \A s \in stable[p] : s \in Nat /\ s > 0
    BY <1>1, CatalogAssumption DEF Init, Symbols
  <2>2. Recorded(p)
    BY DEF Init, Recorded
  <2>3. CASE p \in Enabled
    BY <1>0, <2>1, <2>2, <2>3 DEF Init, Gathered
  <2>4. CASE p \notin Enabled
    BY IdleFacts, <2>2, <2>4 DEF Init, Gathered
  <2>. QED  BY <2>3, <2>4
<1>. QED  BY <1>3, <1>4, <1>5 DEF IInv

LEMMA NextPreserves ==
    ASSUME IInv, [Next]_vars
    PROVE  IInv' /\ \A p \in Providers : Complete(p)
<1>1. ASSUME UNCHANGED <<snapshot, refresh, venue, history>>
      PROVE  IInv' /\ \A p \in Providers : Complete(p)
  BY <1>1 DEF venue, history, IInv, TypeOK, Rows, Enabled, Pagination, Recorded, Gathered, Live, Complete
<1>2. CASE UNCHANGED vars \/ Terminated
  BY <1>1, <1>2 DEF Terminated, vars, venue, history
<1>3. CASE MarketChanges
  <2>1. snapshot' = snapshot
    BY <1>3 DEF MarketChanges
  <2>. QED  BY <1>3, <2>1, MarketPreserves DEF Complete
<1>4. ASSUME NEW p \in Providers, FetchPage(p) PROVE IInv' /\ \A q \in Providers : Complete(q)
  BY <1>4, FetchPreserves
<1>5. ASSUME NEW p \in Providers, RequestFails(p) PROVE IInv' /\ \A q \in Providers : Complete(q)
  <2>1. Fail(p) /\ UNCHANGED <<venue, history>>
    BY <1>5 DEF RequestFails
  <2>. QED  BY <2>1, FailPreserves DEF Complete
<1>6. CASE WakeUp
  <2>1. snapshot' = snapshot
    BY <1>6 DEF WakeUp
  <2>. QED  BY <1>6, <2>1, WakePreserves DEF Complete
<1>7. CASE RefreshAllReturns \/ Shutdown \/ Stop
  BY <1>1, <1>7 DEF RefreshAllReturns, Shutdown, Stop
<1>. QED  BY <1>2, <1>3, <1>4, <1>5, <1>6, <1>7 DEF Next

\* The invariant holds in every reachable state of the catalog.
THEOREM Invariance == Spec => []IInv
<1>1. IInv /\ [Next]_vars => IInv'
  BY NextPreserves
<1>. QED  BY <1>1, InitIInv, PTL DEF Spec

-----------------------------------------------------------------------------
(* Theorems *)

\* Whatever pages and cursors a venue answers with, no cursor is asked for twice
\* and no page beyond the limit.
THEOREM CursorsAskedOnce == Spec => []CursorAskedOnce
<1>1. IInv => CursorAskedOnce
  BY DEF IInv, Pagination, CursorAskedOnce
<1>. QED  BY <1>1, Invariance, PTL

\* A provider counts as ready exactly when it has an instrument to subscribe to.
THEOREM ReadinessAdmits == Spec => []ReadyAdmits
<1>1. ASSUME IInv, NEW p \in Providers
      PROVE  (\E s \in Symbols : validate_subscription(p, s)) <=> p \in Enabled /\ snapshot[p].succeeded
  <2>1. snapshot[p].instruments \in SUBSET Symbols
    BY <1>1 DEF IInv, TypeOK, Snapshot
  <2>2. snapshot[p].succeeded <=> snapshot[p].instruments # {}
    BY <1>1 DEF IInv
  <2>. QED  BY <2>1, <2>2 DEF validate_subscription
<1>2. IInv => ReadyAdmits
  BY <1>1 DEF ReadyAdmits
<1>. QED  BY <1>2, Invariance, PTL

\* A snapshot of a venue that answers as documented is replaced by a complete
\* one, however its listing changes between the pages.
THEOREM SnapshotsComplete == Spec => CompleteSnapshot
<1>1. IInv /\ [Next]_vars =>
          [\A p \in Providers : honest /\ snapshot'[p].instruments # snapshot[p].instruments =>
              /\ stable[p] \subseteq snapshot'[p].instruments
              /\ snapshot'[p].instruments \subseteq seen[p]]_vars
  BY NextPreserves DEF Complete
<1>. QED  BY <1>1, Invariance, PTL DEF Spec, CompleteSnapshot
=============================================================================
