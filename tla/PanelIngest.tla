---------------------------- MODULE PanelIngest ----------------------------
(***************************************************************************)
(* `controller seed` (controller/src/panel.rs): the panel file is upserted *)
(* in chunks, one statement each, the config file row by row.  Nothing     *)
(* spans the statements: a load that fails leaves what it has written, and *)
(* other loads and forecast runs work on the tables meanwhile.             *)
(***************************************************************************)
EXTENDS Startup, Integers, Sequences, FiniteSets, FiniteSetsExt

CONSTANTS Loaders,     \* processes that run `controller seed`
          PanelFile,   \* the rows of the CSV: [sku, ds, y, stock], in order
          ConfigFile,  \* the rows of the config CSV: [sku, params], in order
          BadRows,     \* where the file may have a date that does not parse, 0: nowhere
          CHUNK,       \* rows per INSERT
          StalePanel,  \* what an earlier load has left: [<<sku, ds>> -> row]
          StaleConfig, \* and [sku -> params]
          Policies,    \* policy parameters, as a file has them or a table
          Absent       \* no such row

ASSUME IngestAssumption ==
    /\ Loaders \subseteq Procs
    /\ CHUNK \in Nat \ {0}
    /\ BadRows \subseteq Nat

Keys == DOMAIN StalePanel
Skus == DOMAIN StaleConfig
Rows == [y : Int, stock : Int]

Key(row)   == <<row.sku, row.ds>>
Value(row) == [y |-> row.y, stock |-> row.stock]

ASSUME TableAssumption ==
    /\ Keys \subseteq Skus \X Nat
    /\ StalePanel \in [Keys -> Rows]
    /\ StaleConfig \in [Skus -> Policies]
    /\ Absent \notin Rows \cup Policies

\* The files name a SKU's month, and a SKU's policy, once.
ASSUME FileAssumption ==
    /\ PanelFile \in Seq([sku : Skus, ds : Nat, y : Int, stock : Int])
    /\ \A i \in DOMAIN PanelFile : Key(PanelFile[i]) \in Keys
    /\ \A i, j \in DOMAIN PanelFile : Key(PanelFile[i]) = Key(PanelFile[j]) => i = j
    /\ ConfigFile \in Seq([sku : Skus, params : Policies]) /\ ConfigFile # << >>
    /\ \A i, j \in DOMAIN ConfigFile : ConfigFile[i].sku = ConfigFile[j].sku => i = j

VARIABLES panel,   \* sales_panel by (sku, ds)
          config,  \* sku_config by sku
          at,      \* rows of its file a loader is done with
          badRow,  \* position of a row whose date does not parse, 0 for none
          warned,  \* SKUs whose config row failed last, which is only logged
          base,    \* the panel before any load
          loaded   \* some seed has run to its end

ingestVars == <<panel, config, at, badRow, warned, base, loaded>>

InitIngest ==
    /\ \E found \in BOOLEAN :
        /\ database = found /\ schema = found
        /\ panel = [k \in Keys |-> IF found THEN StalePanel[k] ELSE Absent]
        /\ config = [s \in Skus |-> IF found THEN StaleConfig[s] ELSE Absent]
    /\ base = panel
    /\ badRow \in BadRows
    /\ pc = [p \in Procs |-> "down"]
    /\ crashes = 0
    /\ at = [p \in Loaders |-> 0]
    /\ warned = {}
    /\ loaded = FALSE

-----------------------------------------------------------------------------
(* seed_panel                                                              *)

\* INSERT ... ON CONFLICT (sku, ds) DO UPDATE of the file's rows at `rows`.
Written(rows, k) == {i \in rows : Key(PanelFile[i]) = k}
KeepsOldRows(table, rows) ==
    [k \in DOMAIN table |->
        IF Written(rows, k) # {} /\ table[k] = Absent
        THEN Value(PanelFile[Max(Written(rows, k))]) ELSE table[k]]
Upsert(table, rows) ==
    [k \in DOMAIN table |->
        IF Written(rows, k) # {} THEN Value(PanelFile[Max(Written(rows, k))])
        ELSE table[k]]

\* The rows read into the buffers after the first n, up to a full chunk or
\* the end of the file.
SkipsARow(n) == n + 2 .. Min({n + CHUNK, Len(PanelFile)})
Batch(n) == n + 1 .. Min({n + CHUNK, Len(PanelFile)})

\* A date that does not parse ends the load while it reads; a key that
\* occurs twice in one statement makes the statement fail.
BatchFails(n) ==
    \/ badRow \in Batch(n)
    \/ \E i, j \in Batch(n) : i # j /\ Key(PanelFile[i]) = Key(PanelFile[j])

FlushPanel(p) ==
    /\ pc[p] = "panel"
    /\ IF BatchFails(at[p])
       THEN /\ GoTo(p, "down")
            /\ at' = [at EXCEPT ![p] = 0]
            /\ UNCHANGED panel
       ELSE LET n == Min({at[p] + CHUNK, Len(PanelFile)})
            IN /\ panel' = Upsert(panel, Batch(at[p]))
               /\ GoTo(p, IF n = Len(PanelFile) THEN "config" ELSE "panel")
               /\ at' = [at EXCEPT ![p] = IF n = Len(PanelFile) THEN 0 ELSE n]
    /\ UNCHANGED <<database, schema, crashes, config, badRow, warned, base, loaded>>

-----------------------------------------------------------------------------
(* seed_config                                                             *)

\* t_check and h_cover are read as floats, given here in quarters of a month,
\* and cast to INT columns: to the nearest integer, halves to the even one.
AsInt(quarters) ==
    LET whole == quarters \div 4  rest == quarters % 4
    IN IF rest > 2 \/ (rest = 2 /\ whole % 2 = 1) THEN whole + 1 ELSE whole

Stored(params) == [params EXCEPT !.t_check = AsInt(@), !.h_cover = AsInt(@)]

\* One row; a row that fails is logged and the load goes on.
UpsertConfig(p) ==
    /\ pc[p] = "config"
    /\ LET n == at[p] + 1
           row == ConfigFile[n]
           last == n = Len(ConfigFile)
       IN /\ \/ /\ config' = [config EXCEPT ![row.sku] = Stored(row.params)]
                /\ warned' = warned \ {row.sku}
             \/ /\ warned' = warned \cup {row.sku}
                /\ UNCHANGED config
          /\ at' = [at EXCEPT ![p] = IF last THEN 0 ELSE n]
          /\ GoTo(p, IF last THEN "done" ELSE "config")
          /\ loaded' = (loaded \/ last)
    /\ UNCHANGED <<database, schema, crashes, panel, badRow, base>>

-----------------------------------------------------------------------------
KillLoader(p) ==
    /\ Crash(p)
    /\ at' = [at EXCEPT ![p] = 0]
    /\ UNCHANGED <<panel, config, badRow, warned, base, loaded>>

Loader(p) ==
    \/ (Start(p) \/ CheckExists(p) \/ CreateDatabase(p) \/ RunMigrations(p, "panel"))
         /\ UNCHANGED ingestVars
    \/ FlushPanel(p)
    \/ UpsertConfig(p)

=============================================================================
