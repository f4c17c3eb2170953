------------------------------- MODULE Catalog -------------------------------
(***************************************************************************)
(* The instrument catalog of src/src/catalog.rs and the task of            *)
(* src/src/main.rs that refreshes it: one snapshot per provider, fetched   *)
(* page by page (Bybit) or in one response (the others), and replaced as a *)
(* whole or not at all.                                                    *)
(*                                                                         *)
(* The venue is external.  Its listing may change between two pages of one *)
(* refresh.  An honest venue pages in symbol order, its cursor being the   *)
(* last symbol sent; any other one answers with arbitrary rows and         *)
(* cursors.  Symbols are the numbers 1 .. MaxSymbol; the cursor 0 stands   *)
(* for none.                                                               *)
(*                                                                         *)
(* A row of a listing is the set of what sets it apart from the readable   *)
(* row of a trading perpetual:                                             *)
(*   kind      not a linear perpetual       dated   it has an expiry       *)
(*   status    not trading                  expiry  an unreadable one      *)
(*   currency  quoted in another currency   time    unreadable listing time*)
(*   value     a symbol, an asset or a decimal the parser refuses          *)
(*   shape     a field is missing or has another JSON type than its struct *)
(* The times of Binance and BingX are typed fields: they can only be wrong *)
(* in shape.                                                               *)
(***************************************************************************)
EXTENDS Naturals, FiniteSets, FiniteSetsExt

CONSTANTS
    Providers,
    Configurations,  \* [enabled, rows]: providers, and the rows their venues may list
    Paged,        \* the providers with cursor pagination
    MaxSymbol,
    PageSize,     \* BYBIT_PAGE_LIMIT
    MaxPages,     \* BYBIT_MAX_PAGES
    MaxChanges,   \* bound: changes of the venues' listings
    MaxFaults     \* bound: failed requests

Symbols == 1 .. MaxSymbol

\* What can set a row of each venue's listing apart.
Traits ==
    [bybit |-> {"kind", "status", "value", "time", "expiry", "shape"},
     binance |-> {"kind", "status", "value", "shape"},
     okx |-> {"kind", "status", "value", "time", "expiry", "shape"},
     kucoin |-> {"kind", "status", "currency", "dated", "value", "time", "expiry", "shape"},
     mexc |-> {"kind", "status", "currency", "value", "time", "shape"},
     bingx |-> {"status", "currency", "value", "shape"}]

ASSUME CatalogAssumption ==
    /\ Providers \subseteq DOMAIN Traits
    /\ \A c \in Configurations :
          /\ c.enabled \subseteq Providers
          /\ \A p \in c.enabled, s \in Symbols : c.rows[s] \subseteq SUBSET Traits[p]
    /\ Paged \subseteq Providers
    /\ MaxSymbol \in Nat /\ PageSize \in Nat \ {0} /\ MaxPages \in Nat \ {0}
    /\ MaxChanges \in Nat /\ MaxFaults \in Nat

NoCursor == 0
Absent == {"absent"}

VARIABLES
    sources,    \* CatalogSources and what is behind them; never changes
    task,       \* of main and then the refresher: initial, sleeping, scheduled, stopped
    shutdown,
    snapshot,   \* CatalogState: the published snapshot of each provider
    refresh,    \* the refresh_provider call of each provider
    honest,     \* the venues answer as documented
    market,     \* the venues' listing of each symbol
    stable,     \* history: symbols live since the refresh began
    seen,       \* history: symbols live at some time since the refresh began
    changes, faults

vars == <<sources, task, shutdown, snapshot, refresh, honest, market, stable, seen,
          changes, faults>>
venue == <<sources, honest, market>>
history == <<stable, seen>>
budget == <<changes, faults>>

Enabled == sources.enabled

\* What a venue may list of a symbol, and its whole listings.
Rows(s) == {Absent} \cup sources.rows[s]
Listings == {f \in [Symbols -> UNION {Rows(s) : s \in Symbols}] :
                \A s \in Symbols : f[s] \in Rows(s)}

Tradable(row) == row \cap {"absent", "kind", "status", "currency", "dated"} = {}
Live(p) == {s \in Symbols : Tradable(market[p][s])}

Idle == [step |-> "idle", cursor |-> NoCursor, requested_cursors |-> {}, pages |-> 0,
         instruments |-> {}]
Begun == [Idle EXCEPT !.step = "page"]
Unfetched == [instruments |-> {}, attempted |-> FALSE, succeeded |-> FALSE, last_error |-> FALSE]

Running == {"initial", "scheduled"}

Init ==
    /\ sources \in Configurations
    /\ task = "initial"
    /\ shutdown = FALSE
    /\ snapshot = [p \in Providers |-> Unfetched]
    /\ refresh = [p \in Providers |-> IF p \in Enabled THEN Begun ELSE Idle]
    /\ honest \in BOOLEAN
    \* The listing plays no part when nobody asks or the answers are arbitrary.
    /\ \E listed \in [IF honest THEN Enabled ELSE {} -> Listings] :
          market = [p \in Providers |-> IF p \in DOMAIN listed THEN listed[p]
                                        ELSE [s \in Symbols |-> Absent]]
    /\ stable = [p \in Providers |-> Live(p)]
    /\ seen = [p \in Providers |-> Live(p)]
    /\ changes = 0 /\ faults = 0

-----------------------------------------------------------------------------
(* The parsers: a row is left out, is refused, and with it the whole body,  *)
(* or becomes an instrument.                                                *)

\* serde_json::from_str decodes every row of a body into its struct before the
\* first one is looked at.
Decoded(row) == "shape" \notin row

\* Faulty: the checks come before the filters.
Parsed_ChecksFirst(row, filters, checks) ==
    IF row \cap checks # {} THEN "refused"
    ELSE IF row \cap filters # {} THEN "skipped" ELSE "instrument"

\* What an instrument parser makes of a decoded row.
Parsed(row, filters, checks) ==
    IF row \cap filters # {} THEN "skipped"
    ELSE IF row \cap checks # {} THEN "refused" ELSE "instrument"

bybit_instrument(row) ==
    Parsed(row, {"kind", "status"}, {"value", "time", "expiry"})

\* The delivery date is a sentinel and is not read.
binance_instrument(row) == Parsed(row, {"kind", "status"}, {"value"})

okx_instrument(row) ==
    Parsed(row, {"kind", "status"}, {"value", "time", "expiry"})

\* The expiry is read before the other filters are applied.
kucoin_instrument(row) ==
    IF row \cap {"kind", "status"} = {} /\ "expiry" \in row THEN "refused"
    ELSE Parsed(row, {"kind", "status", "dated", "currency"}, {"value", "time"})

mexc_instrument(row) ==
    Parsed(row, {"kind", "status", "currency"}, {"value", "time"})

\* Every contract is a perpetual.
bingx_instrument(row) == Parsed(row, {"status", "currency"}, {"value"})

Parse(p, row) ==
    IF ~ Decoded(row) THEN "refused"
    ELSE CASE p = "bybit" -> bybit_instrument(row)
           [] p = "binance" -> binance_instrument(row)
           [] p = "okx" -> okx_instrument(row)
           [] p = "kucoin" -> kucoin_instrument(row)
           [] p = "mexc" -> mexc_instrument(row)
           [] p = "bingx" -> bingx_instrument(row)

-----------------------------------------------------------------------------
(* The venue *)

\* A page, as parsed: its instruments and how many rows gave one, if a row was
\* refused, and the cursor of the next page.
HonestPage(p) ==
    LET ahead == {s \in Symbols : market[p][s] # Absent /\ s > refresh[p].cursor}
        sent == IF p \in Paged
                THEN {s \in ahead : Cardinality({r \in ahead : r < s}) < PageSize}
                ELSE ahead
        rows == {s \in sent : Parse(p, market[p][s]) = "instrument"}
    IN  [rows |-> rows, count |-> Cardinality(rows),
         refused |-> \E s \in sent : Parse(p, market[p][s]) = "refused",
         next |-> IF sent = ahead THEN NoCursor ELSE Max(sent)]

Answers(p) ==
    IF honest THEN {HonestPage(p)}
    ELSE {a \in [rows : SUBSET Symbols, count : 0 .. MaxSymbol + 1, refused : BOOLEAN,
                 next : {NoCursor} \cup 1 .. MaxPages] :
             /\ a.count \in Cardinality(a.rows) .. Cardinality(a.rows) + 1
             /\ a.rows = {} => a.count = 0
             /\ a.refused => a.rows = {} /\ a.next = NoCursor
             /\ p \notin Paged => a.next = NoCursor}

MarketChanges ==
    \E p \in Enabled, s \in Symbols : \E row \in Rows(s) :
        /\ honest /\ row # market[p][s]
        /\ changes < MaxChanges
        /\ changes' = changes + 1
        /\ market' = [market EXCEPT ![p][s] = row]
        /\ stable' = [stable EXCEPT ![p] = @ \cap Live(p)']
        /\ seen' = [seen EXCEPT ![p] = @ \cup Live(p)']
        /\ UNCHANGED <<sources, task, shutdown, snapshot, refresh, honest, faults>>

-----------------------------------------------------------------------------
(* refresh_provider *)

\* Faulty: a failed refresh publishes the pages it got.
Fail_KeepsPages(p) ==
    /\ snapshot' = [snapshot EXCEPT ![p].attempted = TRUE, ![p].last_error = TRUE,
                                    ![p].instruments = refresh[p].instruments]
    /\ refresh' = [refresh EXCEPT ![p] = Idle]

\* Any error: the snapshot is retained.
Fail(p) ==
    /\ snapshot' = [snapshot EXCEPT ![p].attempted = TRUE, ![p].last_error = TRUE]
    /\ refresh' = [refresh EXCEPT ![p] = Idle]

Replace(p, I) ==
    /\ snapshot' = [snapshot EXCEPT ![p] =
                       [instruments |-> I, attempted |-> TRUE, succeeded |-> TRUE,
                        last_error |-> FALSE]]
    /\ refresh' = [refresh EXCEPT ![p] = Idle]

\* Faulty: an empty snapshot is accepted.
Fetched_AcceptsEmpty(p, I) == Replace(p, I)

Fetched(p, I) == IF I = {} THEN Fail(p) ELSE Replace(p, I)

\* insert_unique refuses a row of the page.
Duplicated(p, page) ==
    page.count > Cardinality(page.rows) \/ page.rows \cap refresh[p].instruments # {}

\* Faulty: only the cursor just used is compared.
Repeated_LastOnly(p, next) == next = refresh[p].cursor

Repeated(p, next) == next = refresh[p].cursor \/ next \in refresh[p].requested_cursors

LastPage(p) == refresh[p].pages + 1 >= MaxPages

AdvanceCursor(p, next, I) ==
    /\ refresh' = [refresh EXCEPT
                      ![p].cursor = next,
                      ![p].requested_cursors = @ \cup ({refresh[p].cursor} \ {NoCursor}),
                      ![p].pages = @ + 1,
                      ![p].instruments = I]
    /\ UNCHANGED snapshot

\* One turn of the loop of fetch_bybit; the other providers fetch one page.
FetchPage(p) ==
    /\ refresh[p].step = "page"
    /\ \E page \in Answers(p) :
          LET I == refresh[p].instruments \cup page.rows
          IN  IF refresh[p].cursor \in refresh[p].requested_cursors \/ page.refused
                    \/ Duplicated(p, page)
              THEN Fail(p)
              ELSE IF page.next = NoCursor THEN Fetched(p, I)
              ELSE IF Repeated(p, page.next) \/ LastPage(p) THEN Fail(p)
              ELSE AdvanceCursor(p, page.next, I)
    /\ UNCHANGED <<task, shutdown, venue, history, budget>>

\* get_body or the parser fails.
RequestFails(p) ==
    /\ refresh[p].step = "page"
    /\ faults < MaxFaults
    /\ faults' = faults + 1
    /\ Fail(p)
    /\ UNCHANGED <<task, shutdown, venue, history, changes>>

-----------------------------------------------------------------------------
(* refresh_all and spawn_catalog_refresher *)

\* Faulty: a round with a failure is the last one.
RefreshAllReturns_GivesUp ==
    /\ task \in Running
    /\ \A p \in Enabled : refresh[p].step = "idle"
    /\ task' = IF \E p \in Enabled : snapshot[p].last_error THEN "stopped" ELSE "sleeping"
    /\ UNCHANGED <<shutdown, snapshot, refresh, venue, history, budget>>

\* join_all returns when every provider is done.
RefreshAllReturns ==
    /\ task \in Running
    /\ \A p \in Enabled : refresh[p].step = "idle"
    /\ task' = "sleeping"
    /\ UNCHANGED <<shutdown, snapshot, refresh, venue, history, budget>>

WakeUp ==
    /\ task = "sleeping"
    /\ task' = "scheduled"
    /\ refresh' = [p \in Providers |-> IF p \in Enabled THEN Begun ELSE refresh[p]]
    /\ stable' = [p \in Providers |-> Live(p)]
    /\ seen' = [p \in Providers |-> Live(p)]
    /\ UNCHANGED <<shutdown, snapshot, venue, budget>>

\* The signal handler is only polled once main serves, after the initial refresh.
Shutdown ==
    /\ task # "initial"
    /\ ~ shutdown
    /\ shutdown' = TRUE
    /\ UNCHANGED <<task, snapshot, refresh, venue, history, budget>>

catalogs_ready == \A p \in Enabled : snapshot[p].succeeded

Stop ==
    /\ task = "sleeping" /\ shutdown
    /\ task' = "stopped"
    /\ UNCHANGED <<shutdown, snapshot, refresh, venue, history, budget>>

Terminated == task = "stopped" /\ UNCHANGED vars

Next ==
    \/ MarketChanges
    \/ \E p \in Providers : FetchPage(p) \/ RequestFails(p)
    \/ RefreshAllReturns \/ WakeUp \/ Shutdown \/ Stop
    \/ Terminated

\* The HTTP client's timeout ends every request.  Both branches of the
\* refresher's select! are polled fairly.
Fairness ==
    /\ \A p \in Providers : WF_vars(FetchPage(p))
    /\ WF_vars(RefreshAllReturns) /\ WF_vars(WakeUp)
    /\ SF_vars(Stop)

Spec == Init /\ [][Next]_vars

FairSpec == Spec /\ Fairness

validate_subscription(p, s) == p \in Enabled /\ s \in snapshot[p].instruments

-----------------------------------------------------------------------------
(* Properties *)

\* A refresh replaces a snapshot by a complete one although the listing changes
\* between its pages: it has every linear perpetual that traded throughout, and
\* only ones that traded at some time during the refresh.  A refresh
\* that fails half way replaces nothing.
CompleteSnapshot ==
    [][\A p \in Providers : honest /\ snapshot'[p].instruments # snapshot[p].instruments =>
          /\ stable[p] \subseteq snapshot'[p].instruments
          /\ snapshot'[p].instruments \subseteq seen[p]]_vars

\* Once readiness reports the catalogs ready, every enabled provider has an
\* instrument to subscribe to, and keeps one; a disabled one never does.
ReadyAdmits ==
    \A p \in Providers :
        (\E s \in Symbols : validate_subscription(p, s)) <=> p \in Enabled /\ snapshot[p].succeeded

\* Pagination never asks for a cursor twice, so the test at the top of the loop
\* of fetch_bybit never fails, nor for more than BYBIT_MAX_PAGES pages, whatever
\* the venue answers.
CursorAskedOnce ==
    \A p \in Providers : /\ refresh[p].cursor \notin refresh[p].requested_cursors
                         /\ refresh[p].step = "page" => refresh[p].pages < MaxPages

\* The rows a body is refused for: any row that does not decode; of the others a
\* contract for the catalog that cannot be read and, at KuCoin, where the expiry
\* is looked at before the currency, an open perpetual in whatever currency
\* whose expiry cannot be read.
Fatal(p, row) ==
    \/ ~ Decoded(row)
    \/ Tradable(row) /\ row \cap {"value", "time", "expiry"} # {}
    \/ p = "kucoin" /\ row \cap {"kind", "status"} = {} /\ "expiry" \in row

\* Once the venues stay as they are and answer, the catalog is what they trade
\* or, exactly when a venue trades nothing or lists a row its body is refused
\* for, the snapshot is marked with an error, unless the gateway shuts down.  No
\* failure of one provider or one round ends the refreshing, no other row keeps
\* a catalog from being refreshed (a halted or foreign contract with an
\* unreadable value, say), and no catalog grows old unnoticed.
Refreshed ==
    <>[](\/ shutdown \/ ~ honest
         \/ \A p \in Enabled :
               IF Live(p) = {} \/ \E s \in Symbols : Fatal(p, market[p][s])
               THEN snapshot[p].last_error
               ELSE ~ snapshot[p].last_error /\ snapshot[p].instruments = Live(p))
=============================================================================
