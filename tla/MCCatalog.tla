------------------------------ MODULE MCCatalog ------------------------------
(* Bybit, which pages, and OKX, which does not, side by side with simple   *)
(* listings; and each provider alone with every kind of row for a symbol.  *)
EXTENDS Catalog

MCProviders == {"bybit", "binance", "okx", "kucoin", "mexc", "bingx"}

\* An expiry is readable or not.
RowsOf(p) == {row \in SUBSET Traits[p] :
                 Cardinality(row) <= 2 /\ ~ {"dated", "expiry"} \subseteq row}

MCConfigurations ==
    {[enabled |-> {"bybit", "okx"}, rows |-> [s \in Symbols |-> {{}, {"status", "value"}}]]}
        \cup {[enabled |-> {p}, rows |-> [s \in Symbols |-> IF s = 1 THEN RowsOf(p) ELSE {{}}]] :
                 p \in MCProviders}
=============================================================================
