---------------------------- MODULE HistoryFetch ----------------------------
(***************************************************************************)
(* HistoryClient::fetch of src/src/history.rs: one-minute candles of a     *)
(* half-open range, collected page by page from a venue and then filtered, *)
(* ordered, deduplicated and cut to the limit.                             *)
(*                                                                         *)
(* Time is counted in ticks; a candle lasts Interval ticks.  The three     *)
(* kinds of paging are backward from the end (Bybit, OKX), forward from    *)
(* the start (Binance) and fixed spans (KuCoin, MEXC, BingX).  The venue   *)
(* is external.  An honest one answers a query with the candles it has     *)
(* then: the value of a candle is the number of its ticks that have        *)
(* passed, so a candle that is still open changes from page to page.  Any  *)
(* other one answers with arbitrary rows.                                  *)
(***************************************************************************)
EXTENDS Naturals, Sequences, FiniteSets

CONSTANTS
    Interval,     \* CANDLE_INTERVAL_MS
    MaxRange,     \* MAX_HISTORY_RANGE_MS
    MaxCandles,   \* MAX_HISTORY_CANDLES
    PageLimit,    \* the page limit of the venue
    MaxPages,     \* MAX_UPSTREAM_PAGES
    Providers,    \* the providers asked
    Requests,     \* [start, end, limit] as the API receives them
    Clocks,       \* the times at which a request may arrive
    Gaps,         \* the sets of candles the venue may have no data for
    Ticks,        \* bound: start times in an arbitrary answer
    MaxRows       \* bound: rows in an arbitrary answer

\* Times are unsigned.  Every page limit is at least OKX's 300, and 40 pages of
\* as many minutes are more than the longest range.
ASSUME HistoryAssumption ==
    /\ Interval \in Nat \ {0} /\ PageLimit \in Nat \ {0}
    /\ MaxRange \in Nat /\ MaxCandles \in Nat /\ MaxPages \in Nat
    /\ MaxRange <= MaxPages * (PageLimit * Interval)
    /\ Providers \subseteq {"bybit", "okx", "binance", "kucoin", "mexc", "bingx"}
    /\ Requests \subseteq [start : Nat, end : Nat, limit : Nat]
    /\ Clocks \subseteq Nat
    /\ Ticks \subseteq Nat /\ IsFiniteSet(Ticks) /\ MaxRows \in Nat

VARIABLES
    provider, request,
    status,         \* new, time, page, ok, rejected, stalled, conflict, failed
    now,            \* the venue's clock
    server_time_ms, \* as read before the first page
    cursor, pages, candles, result,
    honest,         \* the venue answers as documented
    gaps,           \* candles it has no data for
    asked_at        \* history: the clock when the request was accepted

vars == <<provider, request, status, now, server_time_ms, cursor, pages, candles,
          result, honest, gaps, asked_at>>
fixed == <<provider, request, honest, gaps, asked_at>>

Backward == {"bybit", "okx"}
Forward == {"binance"}
Spans == {"kucoin", "mexc", "bingx"}

\* Providers whose server time is asked for before the first page.
Timed == {"binance", "mexc", "bingx"}

Aligned(t) == t % Interval = 0

-----------------------------------------------------------------------------
(* The venue *)

\* A request takes less than a candle: the HTTP client gives up after 15 seconds.
Elapse == now' \in now .. now + Interval - 1

\* The candles that exist at time t.
Available(t) == {m \in 0 .. t : Aligned(m) /\ m \notin gaps}

Row(m, t) == [start |-> m, value |-> IF t >= m + Interval THEN Interval ELSE t - m]

\* Faulty: the query includes the exclusive end.
exclusive_query_end_Inclusive(end) == end

\* The last millisecond before an exclusive end.
exclusive_query_end(end) == end - 1

page_end == IF cursor + PageLimit * Interval < request.end
            THEN cursor + PageLimit * Interval ELSE request.end

\* The start times a query covers.  OKX's two cursors are exclusive, MEXC is
\* given the start of the last candle.
Window ==
    CASE provider = "bybit" -> request.start .. exclusive_query_end(cursor)
      [] provider = "okx" -> {t \in 0 .. cursor : t < cursor /\ t > request.start - 1}
      [] provider = "binance" -> cursor .. exclusive_query_end(request.end)
      [] provider = "mexc" -> cursor .. page_end - Interval
      [] provider \in {"kucoin", "bingx"} -> cursor .. exclusive_query_end(page_end)

\* A page holds the first candles of the window or, backward, the last.
First(M) == {m \in M : Cardinality({n \in M : n < m}) < PageLimit}
Last(M) == {m \in M : Cardinality({n \in M : n > m}) < PageLimit}

HonestRows(t) ==
    {Row(m, t) : m \in IF provider \in Backward THEN Last(Available(t) \cap Window)
                       ELSE First(Available(t) \cap Window)}

\* The answers to a query at time t: a set of rows and how many there were.
Pages(t) ==
    IF honest THEN {[rows |-> HonestRows(t), len |-> Cardinality(HonestRows(t))]}
    ELSE {p \in [rows : {R \in SUBSET [start : Ticks, value : {0, Interval}] : Cardinality(R) <= MaxRows},
                 len : 0 .. MaxRows] :
             Cardinality(p.rows) <= p.len /\ (p.rows = {} => p.len = 0)}

-----------------------------------------------------------------------------
(* Candles *)

\* Faulty: a candle counts as closed once it has opened.
elapsed_finality_Opened(m, t) == IF m <= t THEN "Closed" ELSE "Open"

elapsed_finality(m, t) == IF m + Interval <= t THEN "Closed" ELSE "Open"

build_candle(row, finality) == [start |-> row.start, value |-> row.value, finality |-> finality]

\* Bybit sends its time with the page.
parse_bybit(row, t) == build_candle(row, elapsed_finality(row.start, t))

parse_binance(row) == build_candle(row, elapsed_finality(row.start, server_time_ms))

\* OKX confirms each candle that is complete.
parse_okx(row) == build_candle(row, IF row.value = Interval THEN "Closed" ELSE "Open")

\* KuCoin says nothing.
parse_kucoin(row) == build_candle(row, "Unknown")

parse_mexc(row) == build_candle(row, elapsed_finality(row.start, server_time_ms))

parse_bingx(row) == build_candle(row, elapsed_finality(row.start, server_time_ms))

Candle(row, t) ==
    CASE provider = "bybit" -> parse_bybit(row, t)
      [] provider = "binance" -> parse_binance(row)
      [] provider = "okx" -> parse_okx(row)
      [] provider = "kucoin" -> parse_kucoin(row)
      [] provider = "mexc" -> parse_mexc(row)
      [] provider = "bingx" -> parse_bingx(row)

\* The candles of a page received at time t.
Parsed(rows, t) == {Candle(row, t) : row \in rows}

Starts(C) == {c.start : c \in C}
Oldest(C) == CHOOSE m \in Starts(C) : \A n \in Starts(C) : m <= n
Newest(C) == CHOOSE m \in Starts(C) : \A n \in Starts(C) : n <= m

\* Faulty: rows outside the range are kept.
Retained_All(C) == C

Retained(C) == {c \in C : c.start >= request.start /\ c.start + Interval <= request.end}

Conflicting(C) == \E c, d \in C : c.start = d.start /\ c # d

\* sort_unstable_by_key: the candle with i - 1 earlier ones comes i-th.
Sorted(C) ==
    [i \in 1 .. Cardinality(C) |-> CHOOSE c \in C : Cardinality({d \in C : d.start < c.start}) = i - 1]

Truncated(s) == SubSeq(s, 1, IF Len(s) < request.limit THEN Len(s) ELSE request.limit)

\* Retain the range, refuse conflicting duplicates, order, cut to the limit.
finish_result(C) ==
    /\ candles' = C
    /\ IF Conflicting(Retained(C))
       THEN status' = "conflict" /\ UNCHANGED result
       ELSE /\ status' = "ok"
            /\ result' = Truncated(Sorted(Retained(C)))
    /\ UNCHANGED cursor

-----------------------------------------------------------------------------
(* HistoryRequest::new *)

Valid(r) ==
    /\ r.start # 0 /\ Aligned(r.start) /\ Aligned(r.end)
    /\ r.end > r.start /\ r.end - r.start <= MaxRange
    /\ r.limit \in 1 .. MaxCandles

NewRequest ==
    /\ status = "new"
    /\ status' = IF ~ Valid(request) THEN "rejected"
                 ELSE IF provider \in Timed THEN "time" ELSE "page"
    /\ cursor' = IF provider \in Backward THEN request.end ELSE request.start
    /\ UNCHANGED <<fixed, now, server_time_ms, pages, candles, result>>

\* binance_server_time, mexc_server_time, bingx_server_time
ServerTime ==
    /\ status = "time"
    /\ Elapse
    /\ server_time_ms' = now'
    /\ status' = "page"
    /\ UNCHANGED <<fixed, cursor, pages, candles, result>>

-----------------------------------------------------------------------------
(* The paging loops *)

EndPaging(s) == status' = s /\ UNCHANGED <<cursor, candles, result>>

NextPage(C, next) ==
    /\ candles' = C
    /\ cursor' = next
    /\ UNCHANGED <<status, result>>

\* Faulty: a full page ends the paging.
Short_OffByOne(len) == len <= PageLimit

\* A page that is not full is the last one.
Short(len) == len < PageLimit

\* Faulty: no page counts as a stall.
Stalled_Never(C) == FALSE

\* The page makes no progress.
Stalled(C) ==
    \/ provider \in Backward /\ Oldest(C) >= cursor
    \/ provider \in Forward /\ Newest(C) + Interval <= cursor

\* fetch_bybit, fetch_okx
BackwardPage(C, len) ==
    LET all == candles \cup C
    IN  IF Oldest(C) <= request.start \/ Short(len) THEN finish_result(all)
        ELSE NextPage(all, Oldest(C))

\* fetch_binance
ForwardPage(C, len) ==
    LET all == candles \cup C
        next == Newest(C) + Interval
    IN  IF next >= request.end \/ Short(len) THEN finish_result(all)
        ELSE NextPage(all, next)

\* fetch_kucoin, fetch_mexc, fetch_bingx
SpanPage(C) ==
    IF page_end >= request.end THEN finish_result(candles \cup C)
    ELSE NextPage(candles \cup C, page_end)

PageArrives(page, t) ==
    LET C == Parsed(page.rows, t)
    IN  IF \E m \in Starts(C) : ~ Aligned(m) THEN EndPaging("failed")  \* build_candle
        ELSE \/ provider \in Spans /\ SpanPage(C)
             \/ provider \notin Spans /\ C = {} /\ finish_result(candles)
             \/ provider \notin Spans /\ C # {} /\ Stalled(C) /\ EndPaging("stalled")
             \/ provider \in Backward /\ C # {} /\ ~ Stalled(C) /\ BackwardPage(C, page.len)
             \/ provider \in Forward /\ C # {} /\ ~ Stalled(C) /\ ForwardPage(C, page.len)

\* count_page
BudgetSpent == pages >= MaxPages

FetchPage ==
    /\ status = "page"
    /\ ~ BudgetSpent
    /\ pages' = pages + 1
    /\ Elapse
    /\ \E page \in Pages(now') : PageArrives(page, now')
    /\ UNCHANGED <<fixed, server_time_ms>>

OutOfPages ==
    /\ status = "page"
    /\ BudgetSpent
    /\ EndPaging("stalled")
    /\ UNCHANGED <<fixed, now, server_time_ms, pages>>

\* Transport failure, an HTTP error, a provider error or a malformed body.
RequestFails ==
    /\ ~ honest
    /\ \/ status = "time" /\ UNCHANGED pages
       \/ status = "page" /\ ~ BudgetSpent /\ pages' = pages + 1
    /\ EndPaging("failed")
    /\ UNCHANGED <<fixed, now, server_time_ms>>

Finished == status \notin {"new", "time", "page"}

Terminated == Finished /\ UNCHANGED vars

Init ==
    /\ provider \in Providers
    /\ request \in Requests
    /\ status = "new"
    /\ honest \in BOOLEAN
    /\ IF honest THEN now \in Clocks /\ gaps \in Gaps
       ELSE now = 0 /\ gaps = {}  \* arbitrary answers depend on neither
    /\ server_time_ms = 0
    /\ cursor = 0
    /\ pages = 0
    /\ candles = {}
    /\ result = <<>>
    /\ asked_at = now

Next == NewRequest \/ ServerTime \/ FetchPage \/ OutOfPages \/ RequestFails \/ Terminated

Spec == Init /\ [][Next]_vars

-----------------------------------------------------------------------------
(* Properties *)

Succeeded == status = "ok"

\* Whatever rows the venue sends, a result is strictly ascending, lies within
\* the requested range and is no longer than the limit.
ResultWellFormed ==
    Succeeded =>
        /\ Len(result) <= request.limit
        /\ \A i \in DOMAIN result :
              /\ result[i].start >= request.start
              /\ result[i].start + Interval <= request.end
              /\ i > 1 => result[i - 1].start < result[i].start

\* A page that does not end the paging moves the cursor towards its goal, so no
\* sequence of answers makes the loop ask for the same page twice, and none for
\* more than MAX_UPSTREAM_PAGES pages.
PagingProgresses ==
    [][/\ status = "page" /\ status' = "page" =>
             IF provider \in Backward THEN cursor' < cursor ELSE cursor' > cursor
       /\ pages' <= MaxPages]_vars

\* A valid request to a venue that answers as documented succeeds: the page
\* budget suffices, no page is taken for a stall, and candles that change while
\* the pages are fetched never look like conflicting duplicates.
HonestVenueSucceeds == honest /\ Finished => status \in {"ok", "rejected"}

\* The result starts with the earliest candles the venue had in the range when
\* the request arrived, up to the limit: none is skipped between two pages.
EarliestReturned ==
    honest /\ Succeeded =>
        LET known == {m \in Available(asked_at) :
                         m >= request.start /\ m + Interval <= request.end}
            place(m) == Cardinality({n \in known : n < m}) + 1
        IN  \A m \in known : place(m) <= request.limit =>
                place(m) <= Len(result) /\ result[place(m)].start = m

\* A candle reported as closed carries its final value, although the server
\* time is read in another request than the candles.
ClosedIsFinal ==
    honest /\ Succeeded =>
        \A i \in DOMAIN result : result[i].finality = "Closed" => result[i].value = Interval
=============================================================================
