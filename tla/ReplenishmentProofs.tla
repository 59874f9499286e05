------------------------ MODULE ReplenishmentProofs ------------------------
(***************************************************************************)
(* Loads of the panel, for any file, chunk size and number of loaders: the *)
(* panel is always the old one overwritten by a prefix of the file, a      *)
(* reload changes nothing once a load is through, a run started after that *)
(* reads the whole file; and the order is right for every recommendation.  *)
(***************************************************************************)
EXTENDS Replenishment, OrderPolicyProofs

N == Len(PanelFile)

-----------------------------------------------------------------------------
(* The file, and what writing some of its rows does to a table.            *)

LEMMA FileType ==
    /\ N \in Nat
    /\ DOMAIN PanelFile = 1 .. N
    /\ \A i, j \in 1 .. N : Key(PanelFile[i]) = Key(PanelFile[j]) => i = j
BY FileAssumption DEF N, Key

LEMMA MaxOfOne == \A i \in Int : Max({i}) = i
BY DEF Max

\* A key is written by at most one row.
LEMMA WrittenByOne ==
    ASSUME NEW rows \in SUBSET (1 .. N), NEW k,
           NEW i \in rows, Key(PanelFile[i]) = k
    PROVE  Written(rows, k) # {} /\ Max(Written(rows, k)) = i
<1>1. Written(rows, k) = {i}
  BY FileType DEF Written
<1> QED BY <1>1, MaxOfOne, FileType

LEMMA OverlaidAt ==
    ASSUME NEW n \in 0 .. N, NEW k \in Keys
    PROVE  /\ (\A i \in 1 .. n : Key(PanelFile[i]) # k) => Overlaid(n)[k] = base[k]
           /\ \A i \in 1 .. n : Key(PanelFile[i]) = k =>
                 Overlaid(n)[k] = Value(PanelFile[i])
<1>1. 1 .. n \subseteq 1 .. N BY FileType
<1>2. ASSUME \A i \in 1 .. n : Key(PanelFile[i]) # k
      PROVE  Overlaid(n)[k] = base[k]
  <2>1. Written(1 .. n, k) = {} BY <1>2 DEF Written
  <2> QED BY <2>1 DEF Overlaid
<1>3. ASSUME NEW i \in 1 .. n, Key(PanelFile[i]) = k
      PROVE  Overlaid(n)[k] = Value(PanelFile[i])
  <2>1. Written(1 .. n, k) # {} /\ Max(Written(1 .. n, k)) = i
    BY <1>1, <1>3, WrittenByOne
  <2> QED BY <2>1 DEF Overlaid
<1> QED BY <1>2, <1>3

\* A chunk that starts inside the prefix makes it the longer of the two.
LEMMA UpsertExtends ==
    ASSUME NEW n \in 0 .. N, NEW a \in 0 .. n, NEW m \in a .. N,
           NEW far \in {n, m}, n <= far, m <= far
    PROVE  Upsert(Overlaid(n), a + 1 .. m) = Overlaid(far)
<1> DEFINE rows == a + 1 .. m
<1>1. /\ far \in 0 .. N
      /\ rows \in SUBSET (1 .. N) /\ rows \in SUBSET (1 .. far)
      /\ \A i \in 1 .. far : i \in 1 .. n \/ i \in rows
      /\ 1 .. n \subseteq 1 .. far
  BY FileType
<1> HIDE DEF rows
<1>2. DOMAIN Overlaid(n) = Keys /\ DOMAIN Overlaid(far) = Keys BY DEF Overlaid
<1>3. ASSUME NEW k \in Keys
      PROVE  (IF Written(rows, k) # {}
              THEN Value(PanelFile[Max(Written(rows, k))])
              ELSE Overlaid(n)[k]) = Overlaid(far)[k]
  <2>1. CASE \E i \in rows : Key(PanelFile[i]) = k
    <3>1. PICK i \in rows : Key(PanelFile[i]) = k BY <2>1
    <3>2. Written(rows, k) # {} /\ Max(Written(rows, k)) = i
      BY <3>1, <1>1, WrittenByOne
    <3>3. Overlaid(far)[k] = Value(PanelFile[i])
      BY <3>1, <1>1, OverlaidAt
    <3> QED BY <3>2, <3>3
  <2>2. CASE \A i \in rows : Key(PanelFile[i]) # k
    <3>1. Written(rows, k) = {} BY <2>2 DEF Written
    <3>2. Overlaid(n)[k] = Overlaid(far)[k]
      <4>1. CASE \E i \in 1 .. n : Key(PanelFile[i]) = k
        <5>1. PICK i \in 1 .. n : Key(PanelFile[i]) = k BY <4>1
        <5>2. i \in 1 .. far BY <5>1, <1>1
        <5> QED BY <5>1, <5>2, <1>1, OverlaidAt
      <4>2. CASE \A i \in 1 .. n : Key(PanelFile[i]) # k
        <5>1. \A i \in 1 .. far : Key(PanelFile[i]) # k BY <1>1, <4>2, <2>2
        <5> QED BY <5>1, <4>2, <1>1, OverlaidAt
      <4> QED BY <4>1, <4>2
    <3> QED BY <3>1, <3>2
  <2> QED BY <2>1, <2>2
<1>4. Upsert(Overlaid(n), rows)
        = [k \in Keys |-> Overlaid(far)[k]]
  BY <1>2, <1>3 DEF Upsert
<1>5. Overlaid(far) = [k \in Keys |-> Overlaid(far)[k]]
  BY <1>2 DEF Overlaid
<1> QED BY <1>4, <1>5 DEF rows

LEMMA NextMultiple ==
    ASSUME NEW c \in Nat \ {0}, NEW x \in Nat, x % c = 0
    PROVE  (x + c) % c = 0
<1>1. x \div c \in Int /\ x = (x \div c) * c
  BY SMT
<1>2. ((x \div c) + 1) * c = x + c
  BY <1>1, SMT
<1> QED BY <1>1, <1>2, MultipleHasNoRest, (x \div c) + 1 \in Int

\* The chunk a load writes next: the panel is extended or left alone, and
\* the load stays inside what has been written.
Cuts == {i \in 0 .. N : i % CHUNK = 0 \/ i = N}

LEMMA NextChunk ==
    ASSUME NEW n \in Cuts, NEW a \in 0 .. n, a % CHUNK = 0
    PROVE  LET m == Min({a + CHUNK, N}) IN
           /\ Batch(a) = a + 1 .. m
           /\ m \in Cuts
           /\ m # N => m % CHUNK = 0
           /\ \E far \in Cuts : /\ n <= far /\ m <= far
                               /\ Upsert(Overlaid(n), Batch(a)) = Overlaid(far)
<1> DEFINE m == Min({a + CHUNK, N})
           far == IF m > n THEN m ELSE n
<1>1. n \in 0 .. N /\ a \in Nat /\ N \in Nat /\ CHUNK \in Nat \ {0}
  BY FileType, IngestAssumption DEF Cuts
<1>2. m = (IF a + CHUNK <= N THEN a + CHUNK ELSE N)
  BY <1>1, MinOfTwo
<1>3. (a + CHUNK) % CHUNK = 0
  BY <1>1, NextMultiple
<1>4. Batch(a) = a + 1 .. m
  BY DEF Batch, N
<1> HIDE DEF m
<1>5. m \in a .. N /\ m \in Cuts /\ (m # N => m % CHUNK = 0)
  BY <1>1, <1>2, <1>3 DEF Cuts
<1>6. far \in {n, m} /\ n <= far /\ m <= far /\ far \in Cuts
  BY <1>1, <1>5
<1> HIDE DEF far
<1>7. Upsert(Overlaid(n), a + 1 .. m) = Overlaid(far)
  BY <1>1, <1>5, <1>6, UpsertExtends
<1> QED BY <1>4, <1>5, <1>6, <1>7 DEF m

-----------------------------------------------------------------------------
(* The inductive invariant of the loads.                                   *)

LoaderPC == {"panel", "config"}
RunnerPC == {"enqueue", "load_panel_rows", "load_params", "forecast"}

LoaderInv ==
    /\ pc \in [Procs -> Starting \cup LoaderPC \cup RunnerPC \cup {"done"}]
    /\ pc[Runner] \notin LoaderPC
    /\ at \in [Loaders -> Nat]
    /\ loaded \in BOOLEAN
    /\ \A p \in Loaders :
         /\ pc[p] \notin LoaderPC => at[p] = 0
         /\ pc[p] = "panel" => at[p] % CHUNK = 0 /\ at[p] <= N
         /\ pc[p] = "config" => at[p] < Len(ConfigFile)

\* What is written reaches as far as any load has come, and to the end once
\* one has come to its second file.
Reaches(n) ==
    /\ \A p \in Loaders :
         /\ pc[p] = "panel" => at[p] <= n
         /\ pc[p] = "config" => n = N
    /\ loaded => n = N
PanelInv == \E n \in Cuts : panel = Overlaid(n) /\ Reaches(n)

RowDone(i) == ConfigFile[i].sku \in warned
              \/ config[ConfigFile[i].sku] = Stored(ConfigFile[i].params)

ConfigInv ==
    /\ config \in [Skus -> Policies \cup {Absent}]
    /\ \A i \in 1 .. Len(ConfigFile) :
         (loaded \/ \E p \in Loaders : pc[p] = "config" /\ i <= at[p]) => RowDone(i)

LoadInv == LoaderInv /\ PanelInv /\ ConfigInv

LEMMA ConfigFileType ==
    /\ Len(ConfigFile) \in Nat \ {0}
    /\ DOMAIN ConfigFile = 1 .. Len(ConfigFile)
    /\ \A i \in 1 .. Len(ConfigFile) :
         ConfigFile[i].sku \in Skus /\ Stored(ConfigFile[i].params) \in Policies
<1>1. ConfigFile \in Seq([sku : Skus, params : Policies]) /\ ConfigFile # << >>
  BY FileAssumption
<1>2. Len(ConfigFile) \in Nat /\ DOMAIN ConfigFile = 1 .. Len(ConfigFile)
  BY <1>1
<1>3. Len(ConfigFile) # 0
  BY <1>1
<1>4. ASSUME NEW i \in 1 .. Len(ConfigFile)
      PROVE  ConfigFile[i].sku \in Skus /\ Stored(ConfigFile[i].params) \in Policies
  <2> DEFINE Row == [sku : Skus, params : Policies]
  <2>0. ConfigFile \in Seq(Row)
    BY <1>1
  <2> HIDE DEF Row
  <2>1. ConfigFile[i] \in Row
    BY <2>0, <1>2
  <2> USE DEF Row
  <2> QED BY <2>1, PolicyAssumption
<1> QED BY <1>2, <1>3, <1>4

LEMMA InitLoads == Init => LoadInv
<1> SUFFICES ASSUME Init PROVE LoadInv
  OBVIOUS
<1> USE DEF Init, InitIngest
<1>1. LoaderInv
  BY FileType, ConfigFileType, RunnerAssumption, IngestAssumption
     DEF LoaderInv, LoaderPC, RunnerPC, Starting
<1>2. PanelInv
  <2>1. 0 \in Cuts
    BY FileType, IngestAssumption DEF Cuts
  <2>2. \A k \in Keys : Written(1 .. 0, k) = {}
    BY DEF Written
  <2>3. panel = [k \in Keys |-> base[k]]
    OBVIOUS
  <2>4. panel = Overlaid(0)
    BY <2>2, <2>3 DEF Overlaid
  <2>5. Reaches(0)
    BY IngestAssumption DEF Reaches
  <2> QED BY <2>1, <2>4, <2>5 DEF PanelInv
<1>3. ConfigInv
  BY TableAssumption, IngestAssumption DEF ConfigInv
<1> QED BY <1>1, <1>2, <1>3 DEF LoadInv

\* A step that writes no table, and leaves a loader's place in its file alone
\* or sends it back to the start.
LEMMA OtherSteps ==
    ASSUME LoadInv, UNCHANGED <<panel, config, base, warned, loaded>>,
           NEW p \in Procs, NEW step,
           GoTo(p, step),
           \/ /\ p \in Loaders /\ at' = [at EXCEPT ![p] = 0]
              /\ step = "down"
           \/ /\ p \in Loaders /\ UNCHANGED at /\ pc[p] \in Starting
              /\ step \in Starting \cup {"panel"}
           \/ /\ p = Runner /\ UNCHANGED at
              /\ step \in Starting \cup RunnerPC \cup {"done"}
    PROVE  LoadInv'
<1> USE DEF LoadInv
<1>1. \A q \in Procs : q # p => pc'[q] = pc[q]
  BY DEF LoaderInv, GoTo
<1>2. pc'[p] = step
  BY DEF LoaderInv, GoTo
<1>3. at' \in [Loaders -> Nat] /\ \A q \in Loaders : q # p => at'[q] = at[q]
  BY DEF LoaderInv
<1>4. p \in Loaders => at'[p] = 0
  BY RunnerAssumption DEF LoaderInv, Starting, LoaderPC
<1>5. step \in Starting \cup LoaderPC \cup RunnerPC \cup {"done"} /\ step # "config"
  BY DEF Starting, LoaderPC, RunnerPC
<1>6. Runner \in Procs /\ Runner \notin Loaders /\ Loaders \subseteq Procs
  BY RunnerAssumption, IngestAssumption
<1>7. LoaderInv'
  <2>1. pc' \in [Procs -> Starting \cup LoaderPC \cup RunnerPC \cup {"done"}]
    BY <1>5 DEF LoaderInv, GoTo
  <2>2. pc'[Runner] \notin LoaderPC
    BY <1>1, <1>2, <1>6 DEF LoaderInv, LoaderPC, Starting, RunnerPC
  <2>3. ASSUME NEW q \in Loaders
        PROVE  /\ pc'[q] \notin LoaderPC => at'[q] = 0
               /\ pc'[q] = "panel" => at'[q] % CHUNK = 0 /\ at'[q] <= N
               /\ pc'[q] = "config" => at'[q] < Len(ConfigFile)
    <3>1. CASE q = p
      BY <3>1, <1>2, <1>4, <1>5, FileType, IngestAssumption
    <3>2. CASE q # p
      BY <3>2, <1>1, <1>3, <1>6 DEF LoaderInv
    <3> QED BY <3>1, <3>2
  <2> QED BY <2>1, <2>2, <2>3, <1>3 DEF LoaderInv
<1>8. PanelInv'
  <2>1. PICK n \in Cuts : panel = Overlaid(n) /\ Reaches(n)
    BY DEF PanelInv
  <2>2. Reaches(n)'
    BY <2>1, <1>1, <1>2, <1>3, <1>4, <1>5, <1>6, FileType
       DEF Reaches, Cuts
  <2>3. panel' = Overlaid(n)'
    BY <2>1 DEF Overlaid
  <2> QED BY <2>1, <2>2, <2>3 DEF PanelInv
<1>9. ConfigInv'
  <2>1. \A i : RowDone(i) => RowDone(i)'
    BY DEF RowDone
  <2>2. \A q \in Loaders, i \in 1 .. Len(ConfigFile) :
           pc'[q] = "config" /\ i <= at'[q] => pc[q] = "config" /\ i <= at[q]
    BY <1>1, <1>2, <1>3, <1>5, <1>6
  <2> QED BY <2>1, <2>2 DEF ConfigInv
<1> QED BY <1>7, <1>8, <1>9

LEMMA FlushStep ==
    ASSUME LoadInv, NEW p \in Loaders, FlushPanel(p)
    PROVE  LoadInv'
<1> USE DEF LoadInv
<1>1. pc[p] = "panel" /\ p \in Procs /\ UNCHANGED <<config, base, warned, loaded>>
  BY IngestAssumption DEF FlushPanel
<1>2. CASE BatchFails(at[p])
  <2>1. GoTo(p, "down") /\ at' = [at EXCEPT ![p] = 0] /\ UNCHANGED panel
    BY <1>2 DEF FlushPanel
  <2> QED BY <1>1, <2>1, OtherSteps
<1>3. CASE ~BatchFails(at[p])
  <2> DEFINE m == Min({at[p] + CHUNK, N})
  <2>1. PICK n \in Cuts : panel = Overlaid(n) /\ Reaches(n)
    BY DEF PanelInv
  <2>2. at[p] \in 0 .. n /\ at[p] % CHUNK = 0
    <3>1. at[p] \in Nat /\ at[p] % CHUNK = 0
      BY <1>1 DEF LoaderInv
    <3>2. at[p] <= n
      BY <1>1, <2>1 DEF Reaches
    <3> QED BY <3>1, <3>2, FileType DEF Cuts
  <2>3. /\ panel' = Upsert(panel, Batch(at[p]))
        /\ GoTo(p, IF m = N THEN "config" ELSE "panel")
        /\ at' = [at EXCEPT ![p] = IF m = N THEN 0 ELSE m]
    BY <1>3 DEF FlushPanel, N
  <2>4. m \in Cuts /\ (m # N => m % CHUNK = 0)
    BY <2>2, NextChunk
  <2>5. PICK far \in Cuts : /\ n <= far /\ m <= far
                           /\ Upsert(Overlaid(n), Batch(at[p])) = Overlaid(far)
    BY <2>2, NextChunk
  <2> HIDE DEF m
  <2>6. n \in 0 .. N /\ far \in 0 .. N /\ m \in 0 .. N /\ N \in Nat
    BY <2>4, FileType DEF Cuts
  <2>7. /\ \A q \in Procs : q # p => pc'[q] = pc[q]
        /\ pc'[p] = IF m = N THEN "config" ELSE "panel"
        /\ \A q \in Loaders : q # p => at'[q] = at[q]
        /\ at'[p] = (IF m = N THEN 0 ELSE m)
        /\ at' \in [Loaders -> Nat]
    BY <1>1, <2>3, <2>6 DEF LoaderInv, GoTo
  <2>8. Loaders \subseteq Procs /\ Runner \in Procs \ Loaders
    BY RunnerAssumption, IngestAssumption
  <2>9. LoaderInv'
    <3>1. pc' \in [Procs -> Starting \cup LoaderPC \cup RunnerPC \cup {"done"}]
      BY <2>3 DEF LoaderInv, GoTo, LoaderPC
    <3>2. pc'[Runner] \notin LoaderPC
      BY <2>7, <2>8 DEF LoaderInv
    <3>3. ASSUME NEW q \in Loaders
          PROVE  /\ pc'[q] \notin LoaderPC => at'[q] = 0
                 /\ pc'[q] = "panel" => at'[q] % CHUNK = 0 /\ at'[q] <= N
                 /\ pc'[q] = "config" => at'[q] < Len(ConfigFile)
      <4>1. CASE q = p
        BY <4>1, <2>4, <2>6, <2>7, ConfigFileType DEF LoaderPC
      <4>2. CASE q # p
        BY <4>2, <2>7, <2>8 DEF LoaderInv
      <4> QED BY <4>1, <4>2
    <3> QED BY <3>1, <3>2, <3>3, <2>7, <1>1 DEF LoaderInv
  <2>10. PanelInv'
    <3>1. panel' = Overlaid(far)'
      BY <1>1, <2>1, <2>3, <2>5 DEF Overlaid
    <3>2. Reaches(far)'
      <4>1. ASSUME NEW q \in Loaders
            PROVE  /\ pc'[q] = "panel" => at'[q] <= far
                   /\ pc'[q] = "config" => far = N
        <5>1. CASE q = p
          BY <5>1, <2>5, <2>6, <2>7
        <5>2. CASE q # p
          <6>1. pc'[q] = pc[q] /\ at'[q] = at[q] /\ at[q] \in Nat
            BY <5>2, <2>7, <2>8 DEF LoaderInv
          <6>2. (pc[q] = "panel" => at[q] <= n) /\ (pc[q] = "config" => n = N)
            BY <2>1 DEF Reaches
          <6> QED BY <6>1, <6>2, <2>5, <2>6
        <5> QED BY <5>1, <5>2
      <4>2. loaded' => far = N
        BY <1>1, <2>1, <2>5, <2>6 DEF Reaches
      <4> QED BY <4>1, <4>2 DEF Reaches
    <3> QED BY <2>5, <3>1, <3>2 DEF PanelInv
  <2>11. ConfigInv'
    <3>1. \A i : RowDone(i) => RowDone(i)'
      BY <1>1 DEF RowDone
    <3>2. \A q \in Loaders, i \in 1 .. Len(ConfigFile) :
             pc'[q] = "config" /\ i <= at'[q] => pc[q] = "config" /\ i <= at[q]
      BY <2>7, <2>8
    <3> QED BY <1>1, <3>1, <3>2 DEF ConfigInv
  <2> QED BY <2>9, <2>10, <2>11
<1> QED BY <1>2, <1>3

LEMMA ConfigStep ==
    ASSUME LoadInv, NEW p \in Loaders, UpsertConfig(p)
    PROVE  LoadInv'
<1> USE DEF LoadInv
<1>0. at[p] \in Nat
  BY DEF LoaderInv
<1>. PICK n \in Nat : n = at[p] + 1
  BY <1>0
<1> DEFINE row == ConfigFile[n]
           last == n = Len(ConfigFile)
<1>1. /\ n = at[p] + 1 /\ n - 1 = at[p]
      /\ pc[p] = "config" /\ UNCHANGED <<panel, base>>
      /\ \/ /\ config' = [config EXCEPT ![row.sku] = Stored(row.params)]
            /\ warned' = warned \ {row.sku}
         \/ warned' = warned \cup {row.sku} /\ config' = config
      /\ at' = [at EXCEPT ![p] = IF last THEN 0 ELSE n]
      /\ GoTo(p, IF last THEN "done" ELSE "config")
      /\ loaded' = (loaded \/ last)
  BY <1>0 DEF UpsertConfig
<1>2. n \in 1 .. Len(ConfigFile) /\ Len(ConfigFile) \in Nat
  BY <1>1, ConfigFileType DEF LoaderInv
<1>3. row.sku \in Skus /\ Stored(row.params) \in Policies
  BY <1>2, ConfigFileType
<1>4. Loaders \subseteq Procs /\ Runner \in Procs \ Loaders
  BY RunnerAssumption, IngestAssumption
<1>5. /\ \A q \in Procs : q # p => pc'[q] = pc[q]
      /\ pc'[p] = IF last THEN "done" ELSE "config"
      /\ \A q \in Loaders : q # p => at'[q] = at[q]
      /\ at'[p] = (IF last THEN 0 ELSE n)
      /\ at' \in [Loaders -> Nat]
  BY <1>1, <1>2, <1>4 DEF LoaderInv, GoTo
<1>6. \A i \in 1 .. Len(ConfigFile) : i # n => ConfigFile[i].sku # row.sku
  BY <1>2, FileAssumption, ConfigFileType
<1>7. RowDone(n)'
  BY <1>1, <1>3 DEF RowDone, ConfigInv
<1>8. ASSUME NEW i \in 1 .. Len(ConfigFile), i # n, RowDone(i)
      PROVE  RowDone(i)'
  BY <1>1, <1>3, <1>6, <1>8, ConfigFileType DEF RowDone, ConfigInv
<1>9. LoaderInv'
  <2>1. pc' \in [Procs -> Starting \cup LoaderPC \cup RunnerPC \cup {"done"}]
    BY <1>1 DEF LoaderInv, GoTo, LoaderPC
  <2>2. pc'[Runner] \notin LoaderPC
    BY <1>4, <1>5 DEF LoaderInv
  <2>3. loaded' \in BOOLEAN
    BY <1>1 DEF LoaderInv
  <2>4. ASSUME NEW q \in Loaders
        PROVE  /\ pc'[q] \notin LoaderPC => at'[q] = 0
               /\ pc'[q] = "panel" => at'[q] % CHUNK = 0 /\ at'[q] <= N
               /\ pc'[q] = "config" => at'[q] < Len(ConfigFile)
    <3>1. CASE q = p
      BY <3>1, <1>2, <1>5 DEF LoaderPC
    <3>2. CASE q # p
      BY <3>2, <1>4, <1>5 DEF LoaderInv
    <3> QED BY <3>1, <3>2
  <2> QED BY <2>1, <2>2, <2>3, <2>4, <1>5 DEF LoaderInv
<1>10. PanelInv'
  <2>1. PICK c \in Cuts : panel = Overlaid(c) /\ Reaches(c)
    BY DEF PanelInv
  <2>2. c = N
    BY <1>1, <2>1 DEF Reaches
  <2>3. panel' = Overlaid(c)'
    BY <1>1, <2>1 DEF Overlaid
  <2>4. ASSUME NEW q \in Loaders, pc'[q] = "panel"
        PROVE  at'[q] <= c
    <3>1. q # p BY <2>4, <1>5
    <3>2. pc[q] = "panel" /\ at'[q] = at[q] BY <2>4, <3>1, <1>4, <1>5
    <3> QED BY <3>2, <2>1 DEF Reaches
  <2>5. Reaches(c)'
    BY <2>2, <2>4 DEF Reaches
  <2> QED BY <2>1, <2>3, <2>5 DEF PanelInv
<1>11. ConfigInv'
  <2>1. config' \in [Skus -> Policies \cup {Absent}]
    BY <1>1, <1>3 DEF ConfigInv
  <2>2. ASSUME NEW i \in 1 .. Len(ConfigFile),
               loaded' \/ \E q \in Loaders : pc'[q] = "config" /\ i <= at'[q]
        PROVE  RowDone(i)'
    <3>1. CASE i = n BY <3>1, <1>7
    <3>2. CASE i # n
      <4>1. CASE loaded
        BY <4>1, <3>2, <1>8 DEF ConfigInv
      <4>2. CASE last
        <5>1. i <= at[p] BY <4>2, <3>2, <1>1, <1>2
        <5> QED BY <5>1, <3>2, <1>1, <1>8 DEF ConfigInv
      <4>3. CASE ~loaded /\ ~last
        <5>1. PICK q \in Loaders : pc'[q] = "config" /\ i <= at'[q]
          BY <2>2, <4>3, <1>1
        <5>2. pc[q] = "config" /\ i <= at[q]
          <6>1. CASE q = p BY <6>1, <5>1, <4>3, <3>2, <1>1, <1>2, <1>5
          <6>2. CASE q # p BY <6>2, <5>1, <1>4, <1>5
          <6> QED BY <6>1, <6>2
        <5> QED BY <5>2, <3>2, <1>8 DEF ConfigInv
      <4> QED BY <4>1, <4>2, <4>3
    <3> QED BY <3>1, <3>2
  <2> QED BY <2>1, <2>2 DEF ConfigInv
<1> QED BY <1>9, <1>10, <1>11

\* Startup steps of any process: only the process moves.
LEMMA StartupStep ==
    ASSUME NEW p \in Procs, NEW ready,
           Start(p) \/ CheckExists(p) \/ CreateDatabase(p) \/ RunMigrations(p, ready)
    PROVE  /\ pc[p] \in Starting
           /\ \E step \in Starting \cup {ready} : GoTo(p, step)
BY DEF Start, CheckExists, CreateDatabase, RunMigrations, Starting, GoTo

LEMMA RunnerStep ==
    ASSUME Run
    PROVE  /\ UNCHANGED ingestVars
           /\ \E step \in Starting \cup RunnerPC \cup {"done"} : GoTo(Runner, step)
<1>0. Runner \in Procs BY RunnerAssumption
<1>1. CASE \/ Start(Runner) \/ CheckExists(Runner) \/ CreateDatabase(Runner)
           \/ RunMigrations(Runner, "enqueue")
  <2>1. UNCHANGED ingestVars
    BY <1>0, <1>1 DEF Run, Start, CheckExists, CreateDatabase, RunMigrations,
       CreateRun, load_panel_rows, load_params, run_forecast
  <2>2. \E step \in Starting \cup {"enqueue"} : GoTo(Runner, step)
    BY <1>0, <1>1, StartupStep
  <2> QED BY <2>1, <2>2 DEF RunnerPC
<1>2. CASE CreateRun
  BY <1>2 DEF CreateRun, RunnerPC
<1>3. CASE load_panel_rows
  BY <1>3 DEF load_panel_rows, RunnerPC
<1>4. CASE load_params
  BY <1>4 DEF load_params, RunnerPC
<1>5. CASE run_forecast
  BY <1>5 DEF run_forecast, RunnerPC
<1> QED BY <1>1, <1>2, <1>3, <1>4, <1>5 DEF Run

LEMMA LoadStep ==
    ASSUME LoadInv, NEW p \in Loaders, Loader(p)
    PROVE  LoadInv'
<1>0. p \in Procs BY IngestAssumption
<1>1. CASE FlushPanel(p)
  BY <1>1, FlushStep
<1>2. CASE UpsertConfig(p)
  BY <1>2, ConfigStep
<1>3. CASE /\ \/ Start(p) \/ CheckExists(p) \/ CreateDatabase(p)
              \/ RunMigrations(p, "panel")
           /\ UNCHANGED ingestVars
  <2>1. pc[p] \in Starting /\ \E step \in Starting \cup {"panel"} : GoTo(p, step)
    BY <1>0, <1>3, StartupStep
  <2> QED BY <1>0, <1>3, <2>1, OtherSteps DEF ingestVars
<1> QED BY <1>1, <1>2, <1>3 DEF Loader

LEMMA StutterKeepsLoads ==
    ASSUME LoadInv, UNCHANGED <<pc, ingestVars>> PROVE LoadInv'
BY DEF LoadInv, LoaderInv, PanelInv, ConfigInv, Reaches, RowDone, Overlaid, ingestVars

LEMMA NextLoads == LoadInv /\ [Next]_vars => LoadInv'
<1> SUFFICES ASSUME LoadInv, [Next]_vars PROVE LoadInv'
  OBVIOUS
<1>0. Runner \in Procs /\ Loaders \subseteq Procs
  BY RunnerAssumption, IngestAssumption
<1>1. CASE Run
  BY <1>0, <1>1, RunnerStep, OtherSteps DEF ingestVars
<1>2. CASE \E p \in Loaders : Load(p)
  BY <1>2, LoadStep DEF Load
<1>3. CASE KillRunner
  <2>1. GoTo(Runner, "down") /\ UNCHANGED ingestVars
    BY <1>3 DEF KillRunner, Crash
  <2> QED BY <1>0, <2>1, OtherSteps DEF ingestVars, Starting
<1>4. CASE \E p \in Loaders : KillLoader(p)
  <2>1. PICK p \in Loaders : KillLoader(p) BY <1>4
  <2>2. /\ GoTo(p, "down") /\ at' = [at EXCEPT ![p] = 0]
        /\ UNCHANGED <<panel, config, base, warned, loaded>>
    BY <2>1 DEF KillLoader, Crash
  <2> QED BY <1>0, <2>2, OtherSteps
<1>5. CASE UNCHANGED vars
  BY <1>5, StutterKeepsLoads DEF vars, startupVars
<1> QED BY <1>1, <1>2, <1>3, <1>4, <1>5 DEF Next, Kill

\* The invariant of the loads: each loader's place in the file lies inside the
\* prefix the panel holds, and the config rows behind it are stored or logged.
THEOREM LoadsAreSafe == Spec => []LoadInv
<1>1. Init => LoadInv BY InitLoads
<1>2. LoadInv /\ [Next]_vars => LoadInv' BY NextLoads
<1> QED BY <1>1, <1>2, PTL DEF Spec

\* However many loads run, fail, are killed and overlap, the panel is the
\* old one overwritten by whole chunks from the start of the file.
THEOREM PanelIsAlwaysAPrefix == Spec => []PanelIsAPrefix
<1>1. LoadInv => PanelIsAPrefix
  BY DEF LoadInv, PanelInv, PanelIsAPrefix, Cuts, N
<1> QED BY <1>1, LoadsAreSafe, PTL

\* Once a load is through, the tables are the files (but for the config rows
\* whose failure was logged last), and stay so under any number of reloads.
THEOREM ReseedNeverChangesAnything == Spec => []ReseedChangesNothing
<1>1. LoadInv => ReseedChangesNothing
  <2> SUFFICES ASSUME LoadInv, loaded
               PROVE  /\ panel = Overlaid(N)
                      /\ \A i \in 1 .. Len(ConfigFile) : RowDone(i)
    BY ConfigFileType DEF ReseedChangesNothing, RowDone, N
  <2>1. panel = Overlaid(N)
    BY DEF LoadInv, PanelInv, Reaches
  <2>2. \A i \in 1 .. Len(ConfigFile) : RowDone(i)
    BY DEF LoadInv, ConfigInv
  <2> QED BY <2>1, <2>2
<1> QED BY <1>1, LoadsAreSafe, PTL

-----------------------------------------------------------------------------
(* What a run reads, and what it recommends.                               *)

\* Months before a given one have a last one.
LEMMA LastMonth ==
    ASSUME NEW b \in Nat, NEW S, S \subseteq 0 .. b, S # {}
    PROVE  Max(S) \in S
<1> DEFINE T == {y \in Nat : b - y \in S}
<1>1. \A z \in S : z \in Int /\ b - z \in Nat /\ b - (b - z) = z
  OBVIOUS
<1>2. \A z \in S : b - z \in T
  BY <1>1
<1>3. T \subseteq Nat /\ T # {}
  BY <1>2
<1>4. \A y \in T : b - y \in S
  OBVIOUS
<1> HIDE DEF T
<1>5. PICK y \in T : \A z \in T : y <= z
  BY <1>3, LeastNat
<1>6. b - y \in S /\ \A z \in S : b - y >= z
  BY <1>1, <1>2, <1>3, <1>4, <1>5
<1> QED BY <1>6 DEF Max

LEMMA FileRow ==
    ASSUME NEW i \in 1 .. N
    PROVE  /\ PanelFile[i].sku \in Skus
           /\ Key(PanelFile[i]) \in Keys
           /\ Value(PanelFile[i]) \in Rows
<1> DEFINE Row == [sku : Skus, ds : Nat, y : Int, stock : Int]
<1>1. PanelFile \in Seq(Row)
  BY FileAssumption
<1> HIDE DEF Row
<1>2. PanelFile[i] \in Row
  BY <1>1, FileType
<1>3. Key(PanelFile[i]) \in Keys
  BY FileAssumption, FileType
<1> QED BY <1>2, <1>3 DEF Row, Value, Rows

Table == [Keys -> Rows \cup {Absent}]

LEMMA OverlaidType ==
    ASSUME base \in Table, NEW n \in 0 .. N
    PROVE  Overlaid(n) \in Table
<1>1. ASSUME NEW k \in Keys
      PROVE  Overlaid(n)[k] \in Rows \cup {Absent}
  <2>1. CASE \A i \in 1 .. n : Key(PanelFile[i]) # k
    BY <2>1, OverlaidAt DEF Table
  <2>2. CASE \E i \in 1 .. n : Key(PanelFile[i]) = k
    <3>1. PICK i \in 1 .. n : Key(PanelFile[i]) = k BY <2>2
    <3>2. i \in 1 .. N BY FileType
    <3> QED BY <3>1, <3>2, OverlaidAt, FileRow
  <2> QED BY <2>1, <2>2
<1> QED BY <1>1 DEF Overlaid, Table

Reading == {"load_panel_rows", "load_params", "forecast"}

\* The file's rows are among the rows read, as the file has them.
SawTheFile(rows, sku) ==
    \A k \in Keys : k[1] = sku =>
        /\ k[2] \in DOMAIN rows <=> Overlaid(N)[k] # Absent
        /\ k[2] \in DOMAIN rows => rows[k[2]] = Overlaid(N)[k]

JobInv ==
    /\ job = [sku |-> job.sku, jobs |-> job.jobs, hash |-> job.hash,
              rows |-> job.rows, params |-> job.params, afterSeed |-> job.afterSeed]
    /\ job.jobs \subseteq Skus /\ job.hash \subseteq Keys
    /\ pc[Runner] \in Reading => job.sku \in Skus
    /\ job.afterSeed =>
         /\ loaded
         /\ \A i \in 1 .. N : /\ PanelFile[i].sku \in job.jobs
                              /\ Key(PanelFile[i]) \in job.hash
    /\ pc[Runner] \in {"load_params", "forecast"} =>
         /\ DOMAIN job.rows \subseteq Nat
         /\ \A ds \in DOMAIN job.rows : job.rows[ds] \in Rows
         /\ job.afterSeed => SawTheFile(job.rows, job.sku)
    /\ pc[Runner] = "forecast" => job.params \in Policies

RecInv ==
    rec # None =>
        /\ rec.mode \in {"dead_sku", "cold", "warm_with_refit"}
        /\ rec.cum_demand_q \in Int /\ rec.order_qty_rounded \in Int
        /\ OrderCoversDemand /\ WhatIfAgrees /\ NoOrderWithoutRisk

DataInv ==
    /\ database \in BOOLEAN /\ schema \in BOOLEAN
    /\ base \in Table
    /\ badRow \in BadRows
    /\ warned \subseteq Skus

RunInv == DataInv /\ JobInv /\ RecInv

LEMMA InitRuns == Init => RunInv
<1> SUFFICES ASSUME Init PROVE RunInv
  OBVIOUS
<1> USE DEF Init, InitIngest
<1>1. DataInv
  BY TableAssumption DEF DataInv, Table
<1>2. JobInv
  BY RunnerAssumption DEF JobInv, NoJob, Reading
<1>3. RecInv
  BY DEF RecInv
<1> QED BY <1>1, <1>2, <1>3 DEF RunInv

LEMMA DataStep ==
    ASSUME LoadInv, DataInv, [Next]_vars
    PROVE  DataInv'
<1> USE DEF DataInv
<1>1. ASSUME NEW p \in Loaders, FlushPanel(p) PROVE DataInv'
  BY <1>1 DEF FlushPanel
<1>2. ASSUME NEW p \in Loaders, UpsertConfig(p) PROVE DataInv'
  <2>1. at[p] + 1 \in 1 .. Len(ConfigFile)
    BY <1>2, ConfigFileType DEF UpsertConfig, LoadInv, LoaderInv
  <2>2. ConfigFile[at[p] + 1].sku \in Skus
    BY <2>1, ConfigFileType
  <2> QED BY <1>2, <2>2 DEF UpsertConfig
<1>3. ASSUME NEW p, NEW ready, UNCHANGED ingestVars,
             Start(p) \/ CheckExists(p) \/ CreateDatabase(p) \/ RunMigrations(p, ready)
      PROVE  DataInv'
  BY <1>3 DEF Start, CheckExists, CreateDatabase, RunMigrations, ingestVars
<1>4. CASE CreateRun \/ load_panel_rows \/ load_params \/ run_forecast
  BY <1>4 DEF CreateRun, load_panel_rows, load_params, run_forecast, ingestVars
<1>5. CASE Kill
  BY <1>5 DEF Kill, KillRunner, KillLoader, Crash, ingestVars
<1>6. CASE UNCHANGED vars
  BY <1>6 DEF vars, startupVars, ingestVars
<1>7. CASE Run
  BY <1>3, <1>4, <1>7 DEF Run
<1>8. CASE \E p \in Loaders : Load(p)
  BY <1>1, <1>2, <1>3, <1>8 DEF Load, Loader
<1> QED BY <1>5, <1>6, <1>7, <1>8 DEF Next

\* A recommendation that is computed from numbers is right.
LEMMA RecommendationStep ==
    ASSUME NEW mode \in {"dead_sku", "cold", "warm_with_refit"}, NEW factor, NEW p6, NEW triggered,
           NEW stock \in Int, NEW cumQ \in Int, NEW params \in Policies,
           cumQ > stock /\ p6 = 0 => params.h_cover > 6 \/ factor > Unit,
           rec' = Recommendation(mode, factor, stock, params, cumQ, p6, triggered)
    PROVE  RecInv'
<1> DEFINE q == cumQ - stock
           r == round_moq_lot(q, params.moq, params.lot_size)
<1>1. params.moq \in Int /\ params.lot_size \in Int /\ q \in Int
  BY PolicyAssumption
<1>2. /\ rec'.mode = mode /\ rec'.cum_demand_q = cumQ /\ rec'.order_qty_rounded = r
      /\ rec'.starting_stock = stock /\ rec'.moq = params.moq
      /\ rec'.lot_size = params.lot_size
  BY DEF Recommendation
<1>3. /\ r \in Int /\ r >= 0 /\ r >= q /\ r % Step(params.lot_size) = 0
      /\ r > 0 => /\ q > 0 /\ r >= params.moq
                  /\ \/ r - Step(params.lot_size) < q
                     \/ r - Step(params.lot_size) < params.moq
  BY <1>1, RoundingIsRight
<1>4. OrderCoversDemand'
  BY <1>2, <1>3 DEF OrderCoversDemand, Step
<1>5. WhatIfAgrees'
  <2>1. NonNeg(q) \in Int /\ NonNeg(NonNeg(q)) = NonNeg(q)
    BY <1>1 DEF NonNeg
  <2>2. roundMoqLot(NonNeg(q), params.moq, params.lot_size)
          = round_moq_lot(NonNeg(q), params.moq, params.lot_size)
    BY <1>1, <2>1, ReplicaAgrees
  <2>3. round_moq_lot(NonNeg(q), params.moq, params.lot_size) = r
    BY <2>1 DEF round_moq_lot
  <2> QED BY <1>2, <2>2, <2>3 DEF WhatIfAgrees, recomputeOrderQty
<1>6. NoOrderWithoutRisk'
  <2>1. rec'.p6 = p6 /\ rec'.h_cover = params.h_cover /\ rec'.factor = factor
    BY DEF Recommendation
  <2>2. r > 0 => cumQ > stock
    BY <1>1, <1>3
  <2> QED BY <1>2, <2>1, <2>2 DEF NoOrderWithoutRisk
<1> QED BY <1>2, <1>3, <1>4, <1>5, <1>6 DEF RecInv

\* What the dead-SKU answer and the assumption on simulations say to the policy.
LEMMA SimulationType ==
    ASSUME NEW sims \in Demands
    PROVE  /\ Horizon(sims) \in Nat \ {0} /\ sims \in Sims(Horizon(sims), Draws(sims))
           /\ IsFiniteSet(Draws(sims)) /\ Draws(sims) # {}
BY DemandAssumption DEF Sims

LEMMA StockType ==
    ASSUME NEW rows, DOMAIN rows \subseteq Nat,
           \A ds \in DOMAIN rows : rows[ds] \in Rows,
           NEW override \in Int \cup {NoStock}
    PROVE  infer_starting_stock(StockBefore(rows), override) \in Int
<1> DEFINE past == {ds \in DOMAIN rows : ds < TestStart}
<1>1. StockBefore(rows) \in Int \cup {NoStock}
  <2>1. CASE past = {}
    BY <2>1 DEF StockBefore
  <2>2. CASE past # {}
    <3>1. past \subseteq 0 .. TestStart /\ TestStart \in Nat
      BY RunnerAssumption
    <3>2. Max(past) \in past
      BY <2>2, <3>1, LastMonth
    <3>3. rows[Max(past)].stock \in Int
      BY <3>2 DEF Rows
    <3> QED BY <2>2, <3>3 DEF StockBefore
  <2> QED BY <2>1, <2>2
<1> QED BY <1>1 DEF infer_starting_stock, NonNeg

LEMMA ForecastStep ==
    ASSUME RunInv, run_forecast
    PROVE  RecInv'
<1>1. /\ DOMAIN job.rows \subseteq Nat
      /\ \A ds \in DOMAIN job.rows : job.rows[ds] \in Rows
      /\ job.params \in Policies
  BY DEF run_forecast, RunInv, JobInv
<1>2. CASE rec' = ZeroForecast(job.params)
  <2>1. rec' = Recommendation("dead_sku", Unit, 0, job.params, 0, 0, FALSE)
    BY <1>2 DEF ZeroForecast
  <2>2. 0 \in Int /\ ~(0 > 0) /\ "dead_sku" \in {"dead_sku", "cold", "warm_with_refit"}
    OBVIOUS
  <2> QED BY <1>1, <2>1, <2>2, RecommendationStep
<1>3. ASSUME NEW mode \in {"cold", "warm_with_refit"}, NEW sims \in Demands, NEW factor \in Factors,
             rec' = Forecast(mode, sims, factor, job.rows, job.params)
      PROVE  RecInv'
  <2> DEFINE stock == infer_starting_stock(StockBefore(job.rows), job.params.override)
             cumQ == cum_demand_quantile(Scaled(sims, factor), job.params.h_cover,
                                         job.params.q_target)
             p6 == stockout_probability(stock, sims, 6)
             triggered == ExpectedWithin(stock, sims, job.params.t_check)
  <2>1. job.params.override \in Int \cup {NoStock}
    BY <1>1, PolicyAssumption
  <2>2. stock \in Int
    BY <1>1, <2>1, StockType
  <2> DEFINE H == Horizon(sims)
             D == Draws(sims)
  <2>3. /\ H \in Nat \ {0} /\ IsFiniteSet(D) /\ D # {} /\ sims \in Sims(H, D)
        /\ factor \in Nat /\ job.params.h_cover \in Int /\ job.params.q_target \in 0 .. Unit
    BY <1>1, SimulationType, DemandAssumption, PolicyAssumption
  <2>a. cumQ \in Int
    <3> HIDE DEF H, D
    <3>1. Scaled(sims, factor) \in Sims(H, D)
      BY <2>3, ScaledType
    <3> QED BY <2>3, <3>1, DemandQuantileIsQuantity
  <2>b. cumQ > stock /\ p6 = 0 => job.params.h_cover > 6 \/ factor > Unit
    <3> SUFFICES ASSUME p6 = 0, job.params.h_cover <= 6, factor <= Unit
                 PROVE  cumQ < stock
      BY <2>2, <2>3, <2>a, UnitAssumption
    <3> HIDE DEF H, D, stock
    <3>1. 6 \in Nat \ {0}
      OBVIOUS
    <3> QED BY <2>2, <2>3, <3>1, NoRiskNoNeed
  <2>4. rec' = Recommendation(mode, factor, stock, job.params, cumQ, p6, triggered)
    BY <1>3 DEF Forecast
  <2> HIDE DEF stock, cumQ, p6, triggered
  <2> QED BY <1>1, <2>2, <2>a, <2>b, <2>4, RecommendationStep
<1> QED BY <1>2, <1>3, DemandAssumption DEF run_forecast

\* A step that leaves the job alone, or has the runner start over.
LEMMA JobUnmoved ==
    ASSUME LoadInv, RunInv, UNCHANGED <<job, base>>, loaded => loaded',
           pc'[Runner] = pc[Runner] \/ pc'[Runner] \notin Reading
    PROVE  JobInv'
BY DEF RunInv, JobInv, Reading, SawTheFile, Overlaid

LEMMA EnqueueStep ==
    ASSUME LoadInv, RunInv, CreateRun
    PROVE  JobInv'
<1>1. CASE SkusOf(Present) = {}
  <2>1. UNCHANGED <<job, base, loaded>> /\ GoTo(Runner, "done")
    BY <1>1 DEF CreateRun, ingestVars
  <2>2. pc'[Runner] \notin Reading
    BY <2>1, RunnerAssumption DEF LoadInv, LoaderInv, GoTo, Reading
  <2> QED BY <2>1, <2>2, JobUnmoved
<1>2. CASE SkusOf(Present) # {}
  <2>1. PICK sku \in SkusOf(Present) :
          /\ job' = [NoJob EXCEPT !.sku = sku, !.jobs = SkusOf(Present),
                                  !.hash = Present, !.afterSeed = loaded]
          /\ GoTo(Runner, "load_panel_rows")
    BY <1>2 DEF CreateRun
  <2>2. /\ job' = [sku |-> sku, jobs |-> SkusOf(Present), hash |-> Present,
                   rows |-> << >>, params |-> None, afterSeed |-> loaded]
        /\ UNCHANGED <<base, loaded>>
        /\ pc'[Runner] = "load_panel_rows"
    BY <2>1, RunnerAssumption DEF NoJob, CreateRun, ingestVars, LoadInv, LoaderInv, GoTo
  <2>3. Present \subseteq Keys /\ SkusOf(Present) \subseteq Skus
    BY TableAssumption DEF Present, SkusOf
  <2>4. ASSUME loaded, NEW i \in 1 .. N
        PROVE  PanelFile[i].sku \in SkusOf(Present) /\ Key(PanelFile[i]) \in Present
    <3>1. panel = Overlaid(N)
      BY <2>4 DEF LoadInv, PanelInv, Reaches
    <3>2. Overlaid(N)[Key(PanelFile[i])] = Value(PanelFile[i])
      BY FileRow, FileType, OverlaidAt
    <3>3. Key(PanelFile[i]) \in Present
      BY <3>1, <3>2, FileRow, TableAssumption DEF Present
    <3> QED BY <3>3 DEF SkusOf, Key
  <2> QED BY <2>1, <2>2, <2>3, <2>4 DEF JobInv, Reading
<1> QED BY <1>1, <1>2

LEMMA ReadPanelStep ==
    ASSUME LoadInv, RunInv, load_panel_rows
    PROVE  JobInv'
<1> DEFINE rows == RowsOf(job.sku)
<1>1. /\ job' = [sku |-> job.sku, jobs |-> job.jobs, hash |-> job.hash,
                 rows |-> rows, params |-> job.params, afterSeed |-> job.afterSeed]
      /\ UNCHANGED <<base, loaded>>
      /\ pc[Runner] = "load_panel_rows" /\ pc'[Runner] = "load_params"
  BY RunnerAssumption
     DEF load_panel_rows, ingestVars, LoadInv, LoaderInv, GoTo, RunInv, JobInv
<1>2. panel \in Table
  BY OverlaidType DEF LoadInv, PanelInv, Cuts, RunInv, DataInv
<1>3. DOMAIN rows = {k[2] : k \in {x \in Present : x[1] = job.sku}}
  BY DEF RowsOf
<1>4. \A k \in Keys : k = <<k[1], k[2]>> /\ k[2] \in Nat
  BY TableAssumption
<1>5. ASSUME NEW k \in Keys, k[1] = job.sku
      PROVE  /\ k[2] \in DOMAIN rows <=> panel[k] # Absent
             /\ k[2] \in DOMAIN rows => rows[k[2]] = panel[k]
  BY <1>3, <1>4, <1>5 DEF RowsOf, Present
<1>6. ASSUME NEW ds \in DOMAIN rows
      PROVE  ds \in Nat /\ rows[ds] \in Rows
  <2>1. PICK k \in Present : k[1] = job.sku /\ ds = k[2]
    BY <1>3
  <2>2. k \in Keys /\ panel[k] # Absent
    BY DEF Present
  <2> QED BY <2>1, <2>2, <1>2, <1>4, <1>5 DEF Table
<1>7. job.afterSeed => SawTheFile(rows, job.sku)
  <2>1. loaded => panel = Overlaid(N)
    BY DEF LoadInv, PanelInv, Reaches
  <2> QED BY <2>1, <1>5 DEF SawTheFile, RunInv, JobInv
<1>8. SawTheFile(rows, job.sku) => SawTheFile(job.rows, job.sku)'
  BY <1>1 DEF SawTheFile, Overlaid
<1> HIDE DEF rows
<1> QED BY <1>1, <1>6, <1>7, <1>8 DEF JobInv, RunInv, Reading

LEMMA ReadParamsStep ==
    ASSUME LoadInv, RunInv, load_params
    PROVE  JobInv'
<1>1. /\ UNCHANGED <<base, loaded>> /\ pc[Runner] = "load_params"
      /\ job.sku \in Skus
  BY DEF load_params, ingestVars, RunInv, JobInv, Reading
<1>2. CASE config[job.sku] = Absent
  <2>1. UNCHANGED job /\ pc'[Runner] = "done"
    BY <1>2, RunnerAssumption DEF load_params, LoadInv, LoaderInv, GoTo
  <2> QED BY <1>1, <2>1, JobUnmoved DEF Reading
<1>3. CASE config[job.sku] # Absent
  <2>1. /\ job' = [sku |-> job.sku, jobs |-> job.jobs, hash |-> job.hash,
                   rows |-> job.rows, params |-> config[job.sku],
                   afterSeed |-> job.afterSeed]
        /\ pc'[Runner] = "forecast"
    BY <1>3, RunnerAssumption
       DEF load_params, LoadInv, LoaderInv, GoTo, RunInv, JobInv
  <2>2. config[job.sku] \in Policies
    BY <1>1, <1>3 DEF LoadInv, ConfigInv
  <2>3. SawTheFile(job.rows, job.sku) => SawTheFile(job.rows, job.sku)'
    BY <1>1, <2>1 DEF SawTheFile, Overlaid
  <2> QED BY <1>1, <2>1, <2>2, <2>3 DEF JobInv, RunInv, Reading
<1> QED BY <1>2, <1>3

\* Loaders, and processes that start, touch neither the job nor the order.
LEMMA BesideTheRun ==
    ASSUME LoadInv, UNCHANGED base, loaded => loaded', UNCHANGED <<job, rec>>, RunInv,
           pc'[Runner] = pc[Runner] \/ pc'[Runner] \notin Reading
    PROVE  JobInv' /\ RecInv'
<1>1. JobInv' BY JobUnmoved
<1>2. RecInv' BY DEF RunInv, RecInv, OrderCoversDemand, WhatIfAgrees, NoOrderWithoutRisk
<1> QED BY <1>1, <1>2

LEMMA NextRuns == LoadInv /\ RunInv /\ [Next]_vars => RunInv'
<1> SUFFICES ASSUME LoadInv, RunInv, [Next]_vars PROVE RunInv'
  OBVIOUS
<1>0. Runner \in Procs \ Loaders /\ Loaders \subseteq Procs /\ DOMAIN pc = Procs
  BY RunnerAssumption, IngestAssumption DEF LoadInv, LoaderInv
<1>1. DataInv'
  BY DataStep DEF RunInv
<1>2. \A q, step : q \in Loaders /\ GoTo(q, step) => pc'[Runner] = pc[Runner]
  BY <1>0 DEF GoTo
<1>3. CASE Run
  <2>1. UNCHANGED <<base, loaded>>
    BY <1>3, RunnerStep DEF ingestVars
  <2>2. CASE CreateRun \/ load_panel_rows \/ load_params
    <3>1. JobInv'
      BY <2>2, EnqueueStep, ReadPanelStep, ReadParamsStep
    <3>2. UNCHANGED rec
      BY <2>2 DEF CreateRun, load_panel_rows, load_params
    <3>3. RecInv'
      BY <3>2 DEF RunInv, RecInv, OrderCoversDemand, WhatIfAgrees, NoOrderWithoutRisk
    <3> QED BY <1>1, <3>1, <3>3 DEF RunInv
  <2>3. CASE run_forecast
    <3>1. UNCHANGED job /\ GoTo(Runner, "done")
      BY <2>3 DEF run_forecast
    <3>2. pc'[Runner] \notin Reading
      BY <3>1, <1>0 DEF GoTo, Reading
    <3>3. JobInv'
      BY <2>1, <3>1, <3>2, JobUnmoved
    <3> QED BY <1>1, <2>3, <3>3, ForecastStep DEF RunInv
  <2>4. CASE /\ \/ Start(Runner) \/ CheckExists(Runner) \/ CreateDatabase(Runner)
                \/ RunMigrations(Runner, "enqueue")
             /\ UNCHANGED <<ingestVars, job, rec>>
    <3>1. PICK step \in Starting \cup {"enqueue"} : GoTo(Runner, step)
      BY <2>4, <1>0, StartupStep
    <3>2. pc'[Runner] \notin Reading
      BY <3>1, <1>0 DEF GoTo, Reading, Starting
    <3> QED BY <2>1, <2>4, <3>2, <1>1, BesideTheRun DEF RunInv
  <2>5. \/ CreateRun \/ load_panel_rows \/ load_params
        \/ run_forecast
        \/ /\ \/ Start(Runner) \/ CheckExists(Runner) \/ CreateDatabase(Runner)
              \/ RunMigrations(Runner, "enqueue")
           /\ UNCHANGED <<ingestVars, job, rec>>
    BY <1>3, Zenon DEF Run
  <2> QED BY <2>2, <2>3, <2>4, <2>5
<1>4. CASE \E p \in Loaders : Load(p)
  <2>1. PICK p \in Loaders : Load(p) BY <1>4
  <2>2. UNCHANGED base /\ (loaded => loaded') /\ UNCHANGED <<job, rec>>
    <3>1. FlushPanel(p) => UNCHANGED <<base, loaded>>
      BY DEF FlushPanel
    <3>2. UpsertConfig(p) => UNCHANGED base /\ (loaded => loaded')
      BY Zenon DEF UpsertConfig
    <3>3. UNCHANGED ingestVars => UNCHANGED <<base, loaded>>
      BY DEF ingestVars
    <3> QED BY <2>1, <3>1, <3>2, <3>3 DEF Load, Loader
  <2>3. \E step : GoTo(p, step)
    <3>1. CASE FlushPanel(p) BY <3>1 DEF FlushPanel
    <3>2. CASE UpsertConfig(p) BY <3>2 DEF UpsertConfig
    <3>3. CASE \/ Start(p) \/ CheckExists(p) \/ CreateDatabase(p)
               \/ RunMigrations(p, "panel")
      BY <3>3, <1>0, StartupStep
    <3> QED BY <2>1, <3>1, <3>2, <3>3 DEF Load, Loader
  <2>4. pc'[Runner] = pc[Runner]
    BY <2>3, <1>2
  <2> QED BY <1>1, <2>2, <2>4, BesideTheRun DEF RunInv
<1>5. CASE KillRunner
  <2>1. job' = NoJob /\ GoTo(Runner, "down") /\ UNCHANGED rec
    BY <1>5 DEF KillRunner, Crash
  <2>2. pc'[Runner] = "down"
    BY <2>1, <1>0 DEF GoTo
  <2>3. JobInv'
    BY <2>1, <2>2 DEF JobInv, NoJob, Reading
  <2>4. RecInv'
    BY <2>1 DEF RunInv, RecInv, OrderCoversDemand, WhatIfAgrees, NoOrderWithoutRisk
  <2> QED BY <1>1, <2>3, <2>4 DEF RunInv
<1>6. CASE \E p \in Loaders : KillLoader(p) /\ UNCHANGED <<job, rec>>
  <2>1. PICK p \in Loaders : KillLoader(p) /\ UNCHANGED <<job, rec>> BY <1>6
  <2>2. UNCHANGED <<base, loaded>> /\ GoTo(p, "down")
    BY <2>1 DEF KillLoader, Crash
  <2>3. pc'[Runner] = pc[Runner]
    BY <2>2, <1>2
  <2> QED BY <1>1, <2>1, <2>2, <2>3, BesideTheRun DEF RunInv
<1>7. CASE UNCHANGED vars
  <2>1. UNCHANGED <<base, loaded, pc, job, rec>>
    BY <1>7 DEF vars, startupVars, ingestVars
  <2> QED BY <1>1, <2>1, BesideTheRun DEF RunInv
<1> QED BY <1>3, <1>4, <1>5, <1>6, <1>7 DEF Next, Kill

\* The invariant of the runner beside the loads: what it has read stays what a
\* completed load wrote, and what it recommends is right for what it has read.
THEOREM RunsAreSafe == Spec => [](LoadInv /\ RunInv)
<1>1. Init => LoadInv /\ RunInv BY InitLoads, InitRuns
<1>2. LoadInv /\ RunInv /\ [Next]_vars => (LoadInv /\ RunInv)'
  BY NextLoads, NextRuns
<1> QED BY <1>1, <1>2, PTL DEF Spec

\* Every variable has its type: rows and policies are never half written,
\* a loader never leaves its files, a job's SKUs are SKUs.
THEOREM ReplenishmentTypes == Spec => []TypeOK
<1>1. LoadInv /\ RunInv => TypeOK
  <2> SUFFICES ASSUME LoadInv, RunInv PROVE TypeOK
    OBVIOUS
  <2>1. \A k \in Keys : panel[k] \in Rows \cup {Absent}
    BY OverlaidType DEF LoadInv, PanelInv, Cuts, RunInv, DataInv, Table
  <2>2. \A p \in Loaders : at[p] \in 0 .. N + Len(ConfigFile)
    BY FileType, ConfigFileType DEF LoadInv, LoaderInv, LoaderPC
  <2>3. at \in [Loaders -> 0 .. N + Len(ConfigFile)]
    BY <2>2 DEF LoadInv, LoaderInv
  <2> QED
    BY <2>1, <2>3
       DEF TypeOK, LoadInv, LoaderInv, LoaderPC, RunnerPC, RunInv, DataInv, JobInv, RecInv, N
<1> QED BY <1>1, RunsAreSafe, PTL

\* A run that starts after a completed load enqueues every SKU of the file
\* and reads all its rows, whatever loads run, fail or are killed beside it.
THEOREM RunsReadTheWholeFile == Spec => []RunAfterASeedSeesTheFile
<1>1. RunInv => RunAfterASeedSeesTheFile
  <2> SUFFICES ASSUME RunInv, job.afterSeed PROVE RunAfterASeedSeesTheFile
    BY DEF RunAfterASeedSeesTheFile
  <2>1. \A i \in 1 .. N : PanelFile[i].sku \in job.jobs /\ Key(PanelFile[i]) \in job.hash
    BY DEF RunInv, JobInv
  <2>2. pc[Runner] \in {"load_params", "forecast"} => SawTheFile(job.rows, job.sku)
    BY DEF RunInv, JobInv
  <2> QED BY <2>1, <2>2, FileType DEF RunAfterASeedSeesTheFile, SawTheFile, N
<1> QED BY <1>1, RunsAreSafe, PTL

\* Every stored order covers what the stock leaves open, in whole lots, not
\* below the MOQ and no lot larger than needed.
THEOREM OrdersAreRight == Spec => []OrderCoversDemand
<1>1. RunInv => OrderCoversDemand
  BY DEF RunInv, RecInv, OrderCoversDemand
<1> QED BY <1>1, RunsAreSafe, PTL

\* The dashboard's what-if, on the stored numbers, gives the stored order.
THEOREM WhatIfAlwaysAgrees == Spec => []WhatIfAgrees
<1>1. RunInv => WhatIfAgrees
  BY DEF RunInv, RecInv, WhatIfAgrees
<1> QED BY <1>1, RunsAreSafe, PTL

\* A plan of at most six months orders nothing when no simulation runs out of
\* stock within six, unless bias correction scaled the demand up.
THEOREM NoOrderWithoutRiskHolds == Spec => []NoOrderWithoutRisk
<1>1. RunInv => NoOrderWithoutRisk
  BY DEF RunInv, RecInv, NoOrderWithoutRisk
<1> QED BY <1>1, RunsAreSafe, PTL

\* From the same simulations and rows, a longer cover, a higher target or a
\* larger bias factor never orders less, so raising a safety setting of a SKU
\* cannot shrink its order, though the quantile is taken of the simulations
\* after they are scaled and of sums cut at the horizon.
THEOREM MoreSafetyNeverOrdersLess ==
    ASSUME NEW sims \in Demands, NEW f \in Factors, NEW g \in Factors, f <= g,
           NEW rows, DOMAIN rows \subseteq Nat, \A ds \in DOMAIN rows : rows[ds] \in Rows,
           NEW lax \in Policies, NEW strict \in Policies,
           lax.h_cover <= strict.h_cover, lax.q_target <= strict.q_target,
           lax.override = strict.override, lax.moq = strict.moq,
           lax.lot_size = strict.lot_size
    PROVE  Forecast("cold", sims, f, rows, lax).order_qty_rounded
             <= Forecast("cold", sims, g, rows, strict).order_qty_rounded
<1> DEFINE H == Horizon(sims)
           D == Draws(sims)
           less == Scaled(sims, f)
           more == Scaled(sims, g)
           stock == infer_starting_stock(StockBefore(rows), lax.override)
           p == cum_demand_quantile(less, lax.h_cover, lax.q_target)
           q == cum_demand_quantile(more, strict.h_cover, strict.q_target)
<1>1. /\ lax.override \in Int \cup {NoStock} /\ lax.moq \in Int /\ lax.lot_size \in Int
      /\ lax.h_cover \in Int /\ strict.h_cover \in Int
      /\ lax.q_target \in 0 .. Unit /\ strict.q_target \in 0 .. Unit
  BY PolicyAssumption
<1>2. stock \in Int
  BY <1>1, StockType
<1>3. /\ H \in Nat \ {0} /\ IsFiniteSet(D) /\ D # {} /\ sims \in Sims(H, D)
      /\ f \in Nat /\ g \in Nat
  BY SimulationType, DemandAssumption
<1>4. /\ Forecast("cold", sims, f, rows, lax).order_qty_rounded
            = round_moq_lot(p - stock, lax.moq, lax.lot_size)
      /\ Forecast("cold", sims, g, rows, strict).order_qty_rounded
            = round_moq_lot(q - stock, lax.moq, lax.lot_size)
  BY DEF Forecast, Recommendation
<1> HIDE DEF H, D, stock
<1>5. less \in Sims(H, D) /\ more \in Sims(H, D)
  BY <1>3, ScaledType
<1>6. \A i \in 1 .. H, b \in D : NonNeg(less[i][b]) <= NonNeg(more[i][b])
  BY <1>3, ScaledIsMonotone
<1> HIDE DEF less, more
<1>7. p \in Int /\ q \in Int
  BY <1>1, <1>3, <1>5, DemandQuantileIsQuantity
<1>8. p <= q
  BY <1>1, <1>3, <1>5, <1>6, DemandQuantileIsMonotone
<1> HIDE DEF p, q
<1>9. p - stock \in Int /\ q - stock \in Int /\ p - stock <= q - stock
  BY <1>2, <1>7, <1>8
<1> QED BY <1>1, <1>4, <1>9, RoundingIsMonotone
=============================================================================
