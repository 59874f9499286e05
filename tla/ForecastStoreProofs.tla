------------------------- MODULE ForecastStoreProofs -------------------------
(***************************************************************************)
(* Theorems about ForecastStore, for any number of runs and attempts: what *)
(* is stored under a run supports its winner, a cached spec is usable, a   *)
(* blob exists before it is pointed to, a pin resolves, the latest run     *)
(* never moves back.  StoreInv follows each attempt from the first read to *)
(* its commit; what it has read stays true because rows are only added and *)
(* replaced, and what it will write is its own because the attempts of a   *)
(* run follow one another.                                                 *)
(***************************************************************************)
EXTENDS ForecastStore, TLAPS

LEMMA Constants ==
    /\ None \notin Runs /\ None \notin Attempts
    /\ Intermittent \notin Dense /\ Zero \notin Combos /\ Intermittent \in Combos
    /\ NoOutcome \in Outcome /\ Spec0 \in CachedSpec
    /\ Dense \subseteq Combos
    /\ \A w \in Dense : w.exog \in Exogs /\ w.phase \in Phases
    /\ Zero.phase = "PRE" /\ Intermittent.phase = "PRE" /\ "PRE" \in Phases
    /\ Attempts \subseteq Nat \ {0} /\ Runs \subseteq Nat \ {0}
BY RunsAssumption, AttemptsAssumption
   DEF None, Intermittent, Dense, Zero, Combos, NoOutcome, Outcome, Spec0, CachedSpec, Exogs, Phases

-----------------------------------------------------------------------------
(* Calls, field by field.  A call is a record of seven fields that are     *)
(* updated one or several at a time; Made lists them all, and Idle is the  *)
(* one at rest.  Below, PICK k : k = c makes a constant of the new call,   *)
(* so that what is said of it is the same before and after the step.       *)

Idle(r, p) == [NoCall EXCEPT !.run = r, !.pc = p]

\* A call that has been given a run and a place holds nothing else.
LEMMA IdleFields ==
    ASSUME NEW r \in Runs \cup {None}, NEW p \in Pc
    PROVE  /\ Idle(r, p) \in Call
           /\ Idle(r, p).pc = p /\ Idle(r, p).run = r /\ Idle(r, p).spec = Spec0
           /\ Idle(r, p).mode = "none"
           /\ Idle(r, p).out = NoOutcome /\ Idle(r, p).at = 0
BY Constants DEF Idle, NoCall, Call

WithModels(s, S) == [s EXCEPT !.models = S]
WithResid(s, S)  == [s EXCEPT !.resid = S]

Made(p, r, s, m, o, n) ==
    [pc |-> p, run |-> r, spec |-> s, mode |-> m, out |-> o, at |-> n]

LEMMA MadeFields ==
    ASSUME NEW p, NEW r, NEW s, NEW m, NEW o, NEW n
    PROVE  /\ Made(p, r, s, m, o, n).pc = p
           /\ Made(p, r, s, m, o, n).run = r
           /\ Made(p, r, s, m, o, n).spec = s
           /\ Made(p, r, s, m, o, n).mode = m
           /\ Made(p, r, s, m, o, n).out = o
           /\ Made(p, r, s, m, o, n).at = n
BY DEF Made

LEMMA MadeIsCall ==
    ASSUME NEW p \in Pc, NEW r \in Runs \cup {None}, NEW s \in CachedSpec,
           NEW m \in {"none", "warm", "cold"}, NEW o \in Outcome, NEW n \in Nat
    PROVE  Made(p, r, s, m, o, n) \in Call
BY DEF Made, Call

LEMMA CallIsMade ==
    ASSUME NEW c \in Call
    PROVE  c = Made(c.pc, c.run, c.spec, c.mode, c.out, c.at)
BY DEF Call, Made

LEMMA CallFields ==
    ASSUME NEW c \in Call
    PROVE  /\ c.pc \in Pc /\ c.run \in Runs \cup {None} /\ c.spec \in CachedSpec
           /\ c.mode \in {"none", "warm", "cold"}
           /\ c.out \in Outcome /\ c.at \in Nat
BY DEF Call

\* Updates of one field and of several.
LEMMA MadePc ==
    ASSUME NEW c \in Call, NEW p
    PROVE  [c EXCEPT !.pc = p] = Made(p, c.run, c.spec, c.mode, c.out, c.at)
BY DEF Call, Made

LEMMA MadeSpec ==
    ASSUME NEW c \in Call, NEW p, NEW s
    PROVE  [c EXCEPT !.pc = p, !.spec = s]
             = Made(p, c.run, s, c.mode, c.out, c.at)
<1> DEFINE d == [c EXCEPT !.pc = p]
<1>1. d = Made(p, c.run, c.spec, c.mode, c.out, c.at)
  BY MadePc
<1>2. [c EXCEPT !.pc = p, !.spec = s] = [d EXCEPT !.spec = s]
  BY Zenon
<1> HIDE DEF d
<1>3. [d EXCEPT !.spec = s] = Made(p, c.run, s, c.mode, c.out, c.at)
  BY <1>1 DEF Made
<1> QED BY <1>2, <1>3

LEMMA MadeAt ==
    ASSUME NEW c \in Call, NEW p, NEW n
    PROVE  [c EXCEPT !.pc = p, !.at = n]
             = Made(p, c.run, c.spec, c.mode, c.out, n)
<1> DEFINE d == [c EXCEPT !.pc = p]
<1>1. d = Made(p, c.run, c.spec, c.mode, c.out, c.at)
  BY MadePc
<1>2. [c EXCEPT !.pc = p, !.at = n] = [d EXCEPT !.at = n]
  BY Zenon
<1> HIDE DEF d
<1>3. [d EXCEPT !.at = n] = Made(p, c.run, c.spec, c.mode, c.out, n)
  BY <1>1 DEF Made
<1> QED BY <1>2, <1>3

LEMMA MadeOut ==
    ASSUME NEW c \in Call, NEW p, NEW m, NEW o
    PROVE  [c EXCEPT !.pc = p, !.mode = m, !.out = o]
             = Made(p, c.run, c.spec, m, o, c.at)
<1> DEFINE d == [c EXCEPT !.pc = p]
           e == [d EXCEPT !.mode = m]
<1>1. d = Made(p, c.run, c.spec, c.mode, c.out, c.at)
  BY MadePc
<1>2. [c EXCEPT !.pc = p, !.mode = m, !.out = o] = [e EXCEPT !.out = o]
  BY Zenon
<1> HIDE DEF d
<1>3. e = Made(p, c.run, c.spec, m, c.out, c.at)
  BY <1>1 DEF Made
<1> HIDE DEF e
<1>4. [e EXCEPT !.out = o] = Made(p, c.run, c.spec, m, o, c.at)
  BY <1>3 DEF Made
<1> QED BY <1>2, <1>4

-----------------------------------------------------------------------------
(* What each action makes of its call.                                     *)

Update(a, c) == call' = [call EXCEPT ![a] = c]

LEMMA GotoMakes ==
    ASSUME NEW a \in Attempts, call \in [Attempts -> Call], NEW p, Goto(a, p)
    PROVE  LET c == call[a]
           IN Update(a, Made(p, c.run, c.spec, c.mode, c.out, c.at))
BY MadePc DEF Goto, Update

LEMMA EndMakes ==
    ASSUME NEW a, NEW p, End(a, p)
    PROVE  Update(a, Idle(call[a].run, p))
BY DEF End, Idle, Update

LEMMA LoadMakes ==
    ASSUME NEW a \in Attempts, call \in [Attempts -> Call], Load(a), Active # None
    PROVE  LET c == call[a]
               s == [Spec0 EXCEPT !.run = Active, !.winner = skuRun[Active].winner]
           IN Update(a, Made("models", c.run, s, c.mode, c.out, c.at))
<1> DEFINE s == [Spec0 EXCEPT !.run = Active, !.winner = skuRun[Active].winner]
<1>1. call' = [call EXCEPT ![a].pc = "models", ![a].spec = s]
  BY DEF Load
<1> HIDE DEF s
<1>2. [call EXCEPT ![a].pc = "models", ![a].spec = s]
        = [call EXCEPT ![a] = [call[a] EXCEPT !.pc = "models", !.spec = s]]
  BY Zenon
<1> QED BY <1>1, <1>2, MadeSpec DEF Update, s

LEMMA SpecModelsMakes ==
    ASSUME NEW a \in Attempts, call \in [Attempts -> Call], NEW p, NEW S,
           call' = [call EXCEPT ![a].pc = p, ![a].spec.models = S]
    PROVE  LET c == call[a]
           IN Update(a, Made(p, c.run, WithModels(c.spec, S), c.mode, c.out, c.at))
<1>1. [call EXCEPT ![a].pc = p, ![a].spec.models = S]
        = [call EXCEPT ![a] = [call[a] EXCEPT !.pc = p, !.spec.models = S]]
  OBVIOUS
<1>2. [call[a] EXCEPT !.pc = p, !.spec.models = S]
        = [call[a] EXCEPT !.pc = p, !.spec = [call[a].spec EXCEPT !.models = S]]
  OBVIOUS
<1> DEFINE c == call[a]  s == WithModels(c.spec, S)
<1>3. c \in Call OBVIOUS
<1>4. [c EXCEPT !.pc = p, !.spec = s] = Made(p, c.run, s, c.mode, c.out, c.at)
  <2> HIDE DEF c, s
  <2> QED BY <1>3, MadeSpec
<1> QED BY <1>1, <1>2, <1>4 DEF Update, WithModels

LEMMA SpecResidMakes ==
    ASSUME NEW a \in Attempts, call \in [Attempts -> Call], NEW p, NEW S,
           call' = [call EXCEPT ![a].pc = p, ![a].spec.resid = S]
    PROVE  LET c == call[a]
           IN Update(a, Made(p, c.run, WithResid(c.spec, S), c.mode, c.out, c.at))
<1>1. [call EXCEPT ![a].pc = p, ![a].spec.resid = S]
        = [call EXCEPT ![a] = [call[a] EXCEPT !.pc = p, !.spec.resid = S]]
  OBVIOUS
<1>2. [call[a] EXCEPT !.pc = p, !.spec.resid = S]
        = [call[a] EXCEPT !.pc = p, !.spec = [call[a].spec EXCEPT !.resid = S]]
  OBVIOUS
<1> DEFINE c == call[a]  s == WithResid(c.spec, S)
<1>3. c \in Call OBVIOUS
<1>4. [c EXCEPT !.pc = p, !.spec = s] = Made(p, c.run, s, c.mode, c.out, c.at)
  <2> HIDE DEF c, s
  <2> QED BY <1>3, MadeSpec
<1> QED BY <1>1, <1>2, <1>4 DEF Update, WithResid

LEMMA AtMakes ==
    ASSUME NEW a \in Attempts, call \in [Attempts -> Call], NEW p, NEW n,
           call' = [call EXCEPT ![a].pc = p, ![a].at = n]
    PROVE  LET c == call[a]
           IN Update(a, Made(p, c.run, c.spec, c.mode, c.out, n))
<1>1. [call EXCEPT ![a].pc = p, ![a].at = n]
        = [call EXCEPT ![a] = [call[a] EXCEPT !.pc = p, !.at = n]]
  BY Zenon
<1> DEFINE c == call[a]
<1>2. c \in Call OBVIOUS
<1>3. [c EXCEPT !.pc = p, !.at = n] = Made(p, c.run, c.spec, c.mode, c.out, n)
  <2> HIDE DEF c
  <2> QED BY <1>2, MadeAt
<1> QED BY <1>1, <1>3 DEF Update

LEMMA OutMakes ==
    ASSUME NEW a \in Attempts, call \in [Attempts -> Call], NEW p, NEW m, NEW o,
           call' = [call EXCEPT ![a].pc = p, ![a].mode = m, ![a].out = o]
    PROVE  LET c == call[a]
           IN Update(a, Made(p, c.run, c.spec, m, o, c.at))
<1>1. [call EXCEPT ![a].pc = p, ![a].mode = m, ![a].out = o]
        = [call EXCEPT ![a] = [call[a] EXCEPT !.pc = p, !.mode = m, !.out = o]]
  BY Zenon
<1> DEFINE c == call[a]
<1>2. c \in Call OBVIOUS
<1>3. [c EXCEPT !.pc = p, !.mode = m, !.out = o] = Made(p, c.run, c.spec, m, o, c.at)
  <2> HIDE DEF c
  <2> QED BY <1>2, MadeOut
<1> QED BY <1>1, <1>3 DEF Update
-----------------------------------------------------------------------------
(* The invariant.                                                          *)

\* What a worker has still to save: nothing, or the slots left of a request.
Lefts == {<<>>, <<"PRE">>, <<"REFIT">>, <<"PRE", "REFIT">>}
Pending(l) == {l[i] : i \in DOMAIN l}

Sent == {"waiting", "persist", "tx"}

\* A call has a run once it has begun; a forecast that is saved is the one
\* under its run; a transaction is younger than what it will replace.
Placed(a, c) ==
    /\ c.run = None <=> c.pc = "none"
    /\ c.pc \in {"saved", "done"} => skuRun[c.run].by = a
    /\ c.pc = "tx" => skuRun[c.run].at < c.at
    /\ c.at <= now

\* What has been read of the cached run so far supports its winner.
Reads(c) ==
    LET w == c.spec.winner
    IN /\ c.pc \in {"models", "rest", "drift", "warm"} =>
            /\ c.spec.run \in Runs
            /\ w \in Dense => /\ models[c.spec.run][w.phase] # None
                             /\ resid[c.spec.run][w.exog] # None
       /\ c.pc \in {"rest", "drift", "warm"} => (w \in Dense => w.phase \in c.spec.models)
       /\ c.pc \in {"drift", "warm"} => (w \in Dense => w.exog \in c.spec.resid)

\* A result supports its winner.
Backed(o) ==
    /\ o.winner # Zero => o.winner \in o.combos
    /\ o.winner \in Dense => o.winner.phase \in o.slots /\ o.winner.exog \in o.resid
Results(c) ==
    /\ c.pc \notin Sent => c.mode = "none"
    /\ c.pc = "waiting" => c.out = NoOutcome \/ Backed(c.out)
    /\ c.pc \in {"persist", "tx"} => Backed(c.out)

\* The blobs of a result are saved or will be, by its own attempt as long as
\* nothing was given up on in its run.
Saves(a, c, l) ==
    /\ c.pc \notin {"waiting", "erred"} => l = <<>>
    /\ c.pc \in Sent =>
         \A p \in c.out.slots : p \in Pending(l) \/ blob[c.run][p] # None
    /\ c.run \notin abandoned =>
         /\ c.pc = "erred" => l = <<>>
         /\ c.pc \in Sent => \A p \in c.out.slots : p \in Pending(l) \/ blob[c.run][p] = a

CallOK(a, c, l) ==
    c \in Call /\ l \in Lefts /\ Placed(a, c) /\ Reads(c) /\ Results(c) /\ Saves(a, c, l)

\* The attempts of a run follow one another, the next after an error.
Serial ==
    \A a, b \in Attempts :
        a # b /\ call[a].run = call[b].run /\ call[a].run # None =>
            call[a].pc = "erred" \/ call[b].pc = "erred"

RowsSupport(r) ==
    LET w == skuRun[r].winner
    IN /\ trajectory[r] = skuRun[r].by
       /\ w # Zero => combos[r][w] # None
       /\ w \in Dense => models[r][w.phase] = skuRun[r].by /\ resid[r][w.exog] # None
       /\ skuRun[r].by = None => w = Zero

CleanRun(r) ==
    /\ HasRow(r) => \E a \in Attempts : call[a].run = r /\ call[a].pc \in {"saved", "done"}
    /\ \A k \in Combos : combos[r][k] \in {None, skuRun[r].by}
    /\ \A p \in Phases : models[r][p] # None =>
           models[r][p] = skuRun[r].by /\ blob[r][p] = skuRun[r].by

RunOK(r) ==
    /\ RowsSupport(r)
    /\ skuRun[r].at <= now
    /\ \A p \in Phases : models[r][p] # None => blob[r][p] # None
    /\ r \notin abandoned => CleanRun(r)
    /\ status[r] = "completed" =>
         \E a \in Attempts : call[a].run = r /\ call[a].pc = "done"

PinOK == (pin # None => HasRow(pin)) /\ (pinning # None => HasRow(pinning))

\* Among the runs that have a row one is the latest.
IsLatest(r) ==
    /\ r \in Runs /\ HasRow(r)
    /\ \A q \in Runs : HasRow(q) => \/ skuRun[q].at < skuRun[r].at
                                    \/ skuRun[q].at = skuRun[r].at /\ q <= r
HasLatest == (\E r \in Runs : HasRow(r)) => \E r \in Runs : IsLatest(r)

CallsOK == \A a \in Attempts : CallOK(a, call[a], left[a])
RunsOK  == \A r \in Runs : RunOK(r)

StoreInv == TypeOK /\ CallsOK /\ RunsOK /\ Serial /\ PinOK /\ HasLatest

-----------------------------------------------------------------------------
(* Facts about the parts of the invariant.                                 *)

LEMMA LeftsFacts ==
    /\ Lefts \subseteq Seq(Phases) /\ <<>> \in Lefts /\ Pending(<<>>) = {}
    /\ <<"PRE", "REFIT">> \in Lefts /\ Pending(<<"PRE", "REFIT">>) = Phases
    /\ \A p \in Phases : <<p>> \in Lefts /\ Pending(<<p>>) = {p} /\ <<p>> # <<>>
    /\ \A l \in Lefts : l # <<>> =>
         /\ Head(l) \in Phases /\ Tail(l) \in Lefts
         /\ \A p \in Pending(l) : p = Head(l) \/ p \in Pending(Tail(l))
<1>1. Pending(<<>>) = {}
  BY DEF Pending
<1>2. Pending(<<"PRE", "REFIT">>) = Phases
  BY DEF Pending, Phases
<1>3. \A p \in Phases : Pending(<<p>>) = {p} /\ <<p>> # <<>>
  BY DEF Pending
<1>4. \A p \in Phases : <<p>> \in Lefts
  BY DEF Lefts, Phases
<1>5. ASSUME NEW l \in Lefts, l # <<>>
      PROVE  /\ Head(l) \in Phases /\ Tail(l) \in Lefts
             /\ \A p \in Pending(l) : p = Head(l) \/ p \in Pending(Tail(l))
  <2>1. CASE l = <<"PRE">>
    BY <2>1, <1>1, <1>3 DEF Lefts, Phases
  <2>2. CASE l = <<"REFIT">>
    BY <2>2, <1>1, <1>3 DEF Lefts, Phases
  <2>3. CASE l = <<"PRE", "REFIT">>
    <3>1. Head(l) = "PRE" /\ Tail(l) = <<"REFIT">>
      BY <2>3
    <3> QED BY <2>3, <3>1, <1>2, <1>3 DEF Lefts, Phases
  <2> QED BY <1>5, <2>1, <2>2, <2>3 DEF Lefts
<1>6. Lefts \subseteq Seq(Phases)
  BY DEF Lefts, Phases
<1> QED BY <1>1, <1>2, <1>3, <1>4, <1>5, <1>6 DEF Lefts

\* A row is there for good: Latest and Active find one if there is any.
LEMMA LatestIsThere ==
    ASSUME TypeOK, HasLatest
    PROVE  /\ Latest # None => IsLatest(Latest)
           /\ Latest = None => \A r \in Runs : ~ HasRow(r)
<1> DEFINE P(r) == /\ r = None <=> \A q \in Runs : ~ HasRow(q)
                   /\ r # None =>
                       /\ HasRow(r)
                       /\ \A q \in Runs :
                              HasRow(q) => \/ skuRun[q].at < skuRun[r].at
                                           \/ skuRun[q].at = skuRun[r].at /\ q <= r
<1>1. \E r \in Runs \cup {None} : P(r)
  <2>1. CASE \E r \in Runs : HasRow(r)
    BY <2>1, Constants DEF HasLatest, IsLatest
  <2>2. CASE \A r \in Runs : ~ HasRow(r)
    BY <2>2
  <2> QED BY <2>1, <2>2
<1>2. Latest = CHOOSE r \in Runs \cup {None} : P(r)
  BY Zenon DEF Latest
<1> HIDE DEF P
<1>3. Latest \in Runs \cup {None} /\ P(Latest)
  BY <1>1, <1>2, Zenon
<1> QED BY <1>3 DEF P, IsLatest

LEMMA ActiveHasRow ==
    ASSUME StoreInv
    PROVE  Active # None => Active \in Runs /\ HasRow(Active)
<1>1. Latest # None => Latest \in Runs /\ HasRow(Latest)
  BY LatestIsThere DEF StoreInv, IsLatest
<1> QED BY <1>1 DEF StoreInv, TypeOK, PinOK, Active

LEMMA CallType ==
    ASSUME StoreInv, NEW a \in Attempts
    PROVE  /\ call \in [Attempts -> Call] /\ call[a] \in Call
           /\ CallOK(a, call[a], left[a]) /\ left[a] \in Lefts
BY DEF StoreInv, TypeOK, CallsOK, CallOK

-----------------------------------------------------------------------------
(* A step of a call that touches no row.                                   *)

\* The other calls are as before.
LEMMA CallsAfter ==
    ASSUME StoreInv, NEW a \in Attempts, NEW c \in Call, NEW l \in Lefts,
           Update(a, c), left' = [left EXCEPT ![a] = l],
           UNCHANGED <<rows, blob>>, now' \in Nat, now <= now',
           abandoned \subseteq abandoned', CallOK(a, c, l)'
    PROVE  CallsOK'
<1>0. /\ call'[a] = c /\ left'[a] = l
      /\ \A b \in Attempts \ {a} : call'[b] = call[b] /\ left'[b] = left[b]
  BY DEF Update, StoreInv, TypeOK
<1>1. ASSUME NEW b \in Attempts, b # a
      PROVE  CallOK(b, call[b], left[b])'
  <2>1. call'[b] = call[b] /\ left'[b] = left[b]
    BY <1>0, <1>1
  <2>2. CallOK(b, call[b], left[b])
    BY DEF StoreInv, CallsOK
  <2> DEFINE d == call[b]  m == left[b]
  <2>3. d \in Call /\ m \in Lefts
    BY <2>2 DEF CallOK
  <2>4. /\ Placed(b, d) /\ Reads(d) /\ Results(d) /\ Saves(b, d, m)
    BY <2>2 DEF CallOK
  <2>5. d.at \in Nat /\ now \in Nat
    BY <2>3, CallFields DEF StoreInv, TypeOK
  <2>6. Placed(b, call[b])'
    BY <2>1, <2>4, <2>5 DEF Placed, rows
  <2>7. Reads(call[b])'
    BY <2>1, <2>4 DEF Reads, rows, Buildable
  <2>8. Results(call[b])'
    BY <2>1, <2>4 DEF Results
  <2>9. Saves(b, call[b], left[b])'
    BY <2>1, <2>4 DEF Saves
  <2> QED BY <2>1, <2>3, <2>6, <2>7, <2>8, <2>9 DEF CallOK
<1>2. CallOK(a, call[a], left[a])'
  BY <1>0 DEF CallOK
<1> QED BY <1>1, <1>2 DEF CallsOK

\* A live call moves on, or ends in an error.
LEMMA CallStep ==
    ASSUME StoreInv, NEW a \in Attempts, NEW c \in Call, NEW l \in Lefts,
           call[a].pc \in Live, Update(a, c), left' = [left EXCEPT ![a] = l],
           c.run = call[a].run, c.pc \in Live \cup {"erred"},
           UNCHANGED <<plan, status, rows, blob, pin, pinning>>,
           now' \in Nat, now <= now',
           abandoned' \in SUBSET Runs, abandoned \subseteq abandoned',
           CallOK(a, c, l)'
    PROVE  StoreInv'
<1>1. /\ call'[a] = c /\ left'[a] = l
      /\ \A b \in Attempts \ {a} : call'[b] = call[b] /\ left'[b] = left[b]
  BY DEF Update, StoreInv, TypeOK
<1>2. TypeOK'
  <2>1. call' \in [Attempts -> Call] /\ left' \in [Attempts -> Seq(Phases)]
    BY LeftsFacts DEF Update, StoreInv, TypeOK
  <2> QED BY <2>1 DEF StoreInv, TypeOK, rows
<1>3. CallsOK'
  BY CallsAfter
<1>4. RunsOK'
  <2>1. ASSUME NEW r \in Runs PROVE RunOK(r)'
    <3>1. RunOK(r)
      BY DEF StoreInv, RunsOK
    <3>2. \A b \in Attempts : call[b].pc \in {"saved", "done"} => call'[b] = call[b]
      BY <1>1 DEF Live
    <3>3. RowsSupport(r)'
      BY <3>1 DEF RunOK, RowsSupport, rows
    <3>4. (r \notin abandoned => CleanRun(r))'
      BY <3>1, <3>2 DEF RunOK, CleanRun, rows, HasRow
    <3>5. skuRun[r].at \in Nat /\ now \in Nat
      BY DEF StoreInv, TypeOK
    <3> QED BY <3>1, <3>2, <3>3, <3>4, <3>5 DEF RunOK, rows
  <2> QED BY <2>1 DEF RunsOK
<1>5. Serial'
  BY <1>1 DEF StoreInv, Serial, Live
<1>6. PinOK' /\ HasLatest'
  BY DEF StoreInv, PinOK, HasLatest, IsLatest, HasRow, rows
<1> QED BY <1>2, <1>3, <1>4, <1>5, <1>6 DEF StoreInv

\* The same when nothing but the call changes.
LEMMA PlainStep ==
    ASSUME StoreInv, NEW a \in Attempts, NEW c \in Call,
           call[a].pc \in Live, Update(a, c),
           c.run = call[a].run, c.pc \in Live \cup {"erred"},
           UNCHANGED <<plan, status, left, rows, blob, pin, pinning, now, abandoned>>,
           Placed(a, c), Reads(c), Results(c), Saves(a, c, left[a])
    PROVE  StoreInv'
<1>1. left' = [left EXCEPT ![a] = left[a]] /\ left[a] \in Lefts
  <2>1. left \in [Attempts -> Seq(Phases)] /\ left[a] \in Lefts
    BY CallType DEF StoreInv, TypeOK
  <2> QED BY <2>1
<1> DEFINE l == left[a]
<1>2. CallOK(a, c, l)
  BY <1>1 DEF CallOK
<1>3. PICK k : k = l
  OBVIOUS
<1>4. CallOK(a, c, k)
  BY <1>2, <1>3
<1>5. CallOK(a, c, k)'
  BY <1>4 DEF CallOK, Placed, Reads, Results, Saves, rows, Buildable
<1>6. now' \in Nat /\ now <= now' /\ abandoned' \in SUBSET Runs /\ abandoned \subseteq abandoned'
  BY DEF StoreInv, TypeOK
<1> QED BY <1>1, <1>3, <1>5, <1>6, CallStep

LEMMA LiveFacts ==
    ASSUME NEW p \in Live
    PROVE  p \in Pc /\ p # "none" /\ p \notin {"saved", "done", "erred"}
BY DEF Live

\* Before the request is sent nothing is known of blobs.
LEMMA EarlyStep ==
    ASSUME StoreInv, NEW a \in Attempts, NEW p \in Live \ Sent, NEW s \in CachedSpec,
           call[a].pc \in Live \ Sent,
           LET c == call[a] IN Update(a, Made(p, c.run, s, c.mode, c.out, c.at)),
           UNCHANGED <<plan, status, left, rows, blob, pin, pinning, now, abandoned>>,
           LET c == call[a] IN Reads(Made(p, c.run, s, c.mode, c.out, c.at))
    PROVE  StoreInv'
<1> DEFINE d == call[a]
           c == Made(p, d.run, s, d.mode, d.out, d.at)
<1>1. d \in Call /\ CallOK(a, d, left[a])
  BY CallType
<1>2. /\ d.pc \in Pc /\ d.run \in Runs \cup {None}
      /\ d.mode \in {"none", "warm", "cold"} /\ d.out \in Outcome /\ d.at \in Nat
  BY <1>1, CallFields
<1>3. c \in Call
  BY <1>2, MadeIsCall, LiveFacts
<1>4. c.pc = p /\ c.run = d.run /\ c.mode = d.mode /\ c.out = d.out /\ c.at = d.at
  BY MadeFields
<1>5. Update(a, c) /\ Reads(c)
  OBVIOUS
<1>6. d.pc \in Live /\ d.pc \notin Sent
  OBVIOUS
<1>7. Placed(a, d) /\ Results(d) /\ Saves(a, d, left[a])
  BY <1>1 DEF CallOK
<1> HIDE DEF c, d
<1>8. Placed(a, c)
  BY <1>4, <1>6, <1>7, LiveFacts DEF Placed, Sent
<1>9. Results(c)
  BY <1>4, <1>6, <1>7 DEF Results, Sent
<1>10. Saves(a, c, left[a])
  <2>1. left[a] = <<>>
    BY <1>6, <1>7, LiveFacts DEF Saves, Sent
  <2> QED BY <1>4, <2>1, LiveFacts DEF Saves, Sent
<1>11. call[a].pc \in Live /\ c.run = call[a].run /\ c.pc \in Live \cup {"erred"}
  BY <1>4, <1>6 DEF d
<1> QED BY <1>3, <1>5, <1>8, <1>9, <1>10, <1>11, PlainStep

LEMMA ReadsNothing ==
    ASSUME NEW c, c.pc \notin {"load", "models", "rest", "drift", "warm"}
    PROVE  Reads(c)
BY DEF Reads

LEMMA StepLoad == ASSUME StoreInv, NEW a \in Attempts, Load(a) PROVE StoreInv'
<1> DEFINE d == call[a]
<1>1. call \in [Attempts -> Call] /\ d \in Call /\ d.pc = "load"
  BY CallType DEF Load
<1>2. d.spec \in CachedSpec /\ d.pc \in Live \ Sent
  BY <1>1, CallFields DEF Live, Pc, Sent
<1>3. UNCHANGED <<plan, status, left, rows, blob, pin, pinning, now, abandoned>>
  BY DEF Load
<1>4. CASE Active = None
  <2>1. Update(a, Made("cold", d.run, d.spec, d.mode, d.out, d.at))
    BY <1>1, <1>4, GotoMakes DEF Load
  <2>2. Reads(Made("cold", d.run, d.spec, d.mode, d.out, d.at))
    BY MadeFields, ReadsNothing
  <2>3. "cold" \in Live \ Sent
    BY DEF Live, Pc, Sent
  <2> QED BY <1>2, <1>3, <2>1, <2>2, <2>3, EarlyStep
<1>5. CASE Active # None
  <2> DEFINE s == [Spec0 EXCEPT !.run = Active, !.winner = skuRun[Active].winner]
             c == Made("models", d.run, s, d.mode, d.out, d.at)
  <2>1. Active \in Runs /\ HasRow(Active)
    BY <1>5, ActiveHasRow
  <2>2. skuRun[Active].winner \in Combos \cup {Zero}
    BY <2>1 DEF StoreInv, TypeOK
  <2>3. s \in CachedSpec /\ s.run = Active /\ s.winner = skuRun[Active].winner
    BY <2>1, <2>2 DEF Spec0, CachedSpec
  <2>4. Update(a, c)
    BY <1>1, <1>5, LoadMakes
  <2>5. RowsSupport(Active)
    BY <2>1 DEF StoreInv, RunsOK, RunOK
  <2>6. c.pc = "models" /\ c.spec = s
    BY MadeFields
  <2>7. Reads(c)
    <3> HIDE DEF c, s
    <3> QED BY <2>1, <2>3, <2>5, <2>6 DEF Reads, RowsSupport, HasRow
  <2>8. "models" \in Live \ Sent
    BY DEF Live, Pc, Sent
  <2> HIDE DEF s
  <2> QED BY <1>2, <1>3, <2>3, <2>4, <2>7, <2>8, EarlyStep
<1> QED BY <1>4, <1>5

LEMMA SpecFields ==
    ASSUME NEW s \in CachedSpec, NEW S
    PROVE  /\ LET t == WithModels(s, S)
              IN /\ t.run = s.run /\ t.winner = s.winner
                 /\ t.models = S /\ t.resid = s.resid
                 /\ S \in SUBSET Phases => t \in CachedSpec
           /\ LET t == WithResid(s, S)
              IN /\ t.run = s.run /\ t.winner = s.winner
                 /\ t.models = s.models /\ t.resid = S
                 /\ S \in SUBSET Exogs => t \in CachedSpec
BY DEF CachedSpec, WithModels, WithResid

\* What an attempt has read so far, field by field.
LEMMA HasRead ==
    ASSUME StoreInv, NEW a \in Attempts
    PROVE  /\ call \in [Attempts -> Call] /\ call[a].spec \in CachedSpec
           /\ Reads(call[a])
           /\ call[a].spec.winner \in Combos \cup {Zero}
BY CallType, CallFields DEF CallOK, CachedSpec

LEMMA StepReadModels == ASSUME StoreInv, NEW a \in Attempts, ReadModels(a) PROVE StoreInv'
<1> DEFINE d == call[a]
           S == {p \in Phases : models[d.spec.run][p] # None}
           s == WithModels(d.spec, S)
           c == Made("rest", d.run, s, d.mode, d.out, d.at)
<1>1. /\ d.pc = "models" /\ d.pc \in Live \ Sent /\ "rest" \in Live \ Sent
      /\ UNCHANGED <<plan, status, left, rows, blob, pin, pinning, now, abandoned>>
  BY DEF ReadModels, Live, Pc, Sent
<1>2. call \in [Attempts -> Call] /\ d.spec \in CachedSpec /\ Reads(d)
  BY HasRead
<1>3. call' = [call EXCEPT ![a].pc = "rest", ![a].spec.models = S]
  BY DEF ReadModels
<1>4. Update(a, c)
  <2> HIDE DEF S
  <2> QED BY <1>2, <1>3, SpecModelsMakes
<1>5. s \in CachedSpec /\ s.run = d.spec.run /\ s.winner = d.spec.winner /\ s.models = S
  <2>1. S \in SUBSET Phases OBVIOUS
  <2> HIDE DEF S
  <2> QED BY <1>2, <2>1, SpecFields
<1>6. c.pc = "rest" /\ c.spec = s
  BY MadeFields
<1>7. Reads(c)
  <2>1. \A w \in Dense : w.phase \in Phases
    BY Constants
  <2> HIDE DEF c, s
  <2> QED BY <1>1, <1>2, <1>5, <1>6, <2>1 DEF Reads
<1> HIDE DEF s
<1> QED BY <1>1, <1>2, <1>4, <1>5, <1>7, EarlyStep

LEMMA StepReadRest == ASSUME StoreInv, NEW a \in Attempts, ReadRest(a) PROVE StoreInv'
<1> DEFINE d == call[a]
           S == {e \in Exogs : resid[d.spec.run][e] # None}
           s == WithResid(d.spec, S)
           p == IF plan[RunOf(a)].gate = "check" THEN "drift" ELSE "warm"
           c == Made(p, d.run, s, d.mode, d.out, d.at)
<1>1. /\ d.pc = "rest" /\ d.pc \in Live \ Sent /\ p \in Live \ Sent
      /\ p \in {"drift", "warm"}
      /\ UNCHANGED <<plan, status, left, rows, blob, pin, pinning, now, abandoned>>
  BY DEF ReadRest, Live, Pc, Sent
<1>2. call \in [Attempts -> Call] /\ d.spec \in CachedSpec /\ Reads(d)
  BY HasRead
<1>3. call' = [call EXCEPT ![a].pc = p, ![a].spec.resid = S]
  BY DEF ReadRest
<1>4. Update(a, c)
  <2> HIDE DEF S, p
  <2> QED BY <1>2, <1>3, SpecResidMakes
<1>5. /\ s \in CachedSpec /\ s.run = d.spec.run /\ s.winner = d.spec.winner
      /\ s.models = d.spec.models /\ s.resid = S
  <2>1. S \in SUBSET Exogs OBVIOUS
  <2> HIDE DEF S
  <2> QED BY <1>2, <2>1, SpecFields
<1>6. c.pc = p /\ c.spec = s
  BY MadeFields
<1>7. Reads(c)
  <2>1. \A w \in Dense : w.exog \in Exogs
    BY Constants
  <2> HIDE DEF c, s, p
  <2> QED BY <1>1, <1>2, <1>5, <1>6, <2>1 DEF Reads
<1> HIDE DEF s, p
<1> QED BY <1>1, <1>2, <1>4, <1>5, <1>7, EarlyStep

LEMMA StepDriftAnswers == ASSUME StoreInv, NEW a \in Attempts, DriftAnswers(a) PROVE StoreInv'
<1> DEFINE d == call[a]
<1>1. PICK drifted \in BOOLEAN : Goto(a, IF drifted THEN "cold" ELSE "warm")
  BY DEF DriftAnswers
<1> DEFINE p == IF drifted THEN "cold" ELSE "warm"
           c == Made(p, d.run, d.spec, d.mode, d.out, d.at)
<1>2. /\ d.pc = "drift" /\ d.pc \in Live \ Sent /\ p \in Live \ Sent /\ p \in {"cold", "warm"}
      /\ UNCHANGED <<plan, status, left, rows, blob, pin, pinning, now, abandoned>>
  BY DEF DriftAnswers, Live, Pc, Sent
<1>3. call \in [Attempts -> Call] /\ d.spec \in CachedSpec /\ Reads(d)
  BY HasRead
<1>4. Update(a, c)
  <2> HIDE DEF p
  <2> QED BY <1>1, <1>3, GotoMakes DEF p
<1>5. c.pc = p /\ c.spec = d.spec
  BY MadeFields
<1>6. Reads(c)
  <2> HIDE DEF c, p
  <2> QED BY <1>2, <1>3, <1>5 DEF Reads
<1> HIDE DEF p
<1> QED BY <1>2, <1>3, <1>4, <1>6, EarlyStep

LEMMA StepDriftFails == ASSUME StoreInv, NEW a \in Attempts, DriftFails(a) PROVE StoreInv'
<1> DEFINE d == call[a]
           c == Made("warm", d.run, d.spec, d.mode, d.out, d.at)
<1>1. /\ d.pc = "drift" /\ d.pc \in Live \ Sent /\ "warm" \in Live \ Sent
      /\ UNCHANGED <<plan, status, left, rows, blob, pin, pinning, now, abandoned>>
  BY DEF DriftFails, Live, Pc, Sent
<1>2. /\ call \in [Attempts -> Call] /\ d.spec \in CachedSpec
      /\ Reads(d)
  BY HasRead
<1>3. Update(a, c)
  BY <1>2, GotoMakes DEF DriftFails
<1>4. c.pc = "warm" /\ c.spec = d.spec
  BY MadeFields
<1>5. Reads(c)
  <2> HIDE DEF c
  <2> QED BY <1>1, <1>2, <1>4 DEF Reads
<1> QED BY <1>1, <1>2, <1>3, <1>5, EarlyStep

-----------------------------------------------------------------------------
(* Requests and their results.                                             *)

\* Every cold result supports its winner, and saves both slots or none.
LEMMA ColdOutcomeFacts ==
    ASSUME NEW o \in ColdOutcomes
    PROVE  o \in Outcome /\ Backed(o) /\ (o.slots = {} \/ o.slots = Phases)
<1>1. CASE o = DeadOutcome
  <2>1. o.winner = Zero /\ o.combos = {} /\ o.slots = {} /\ o.resid = {}
    BY <1>1 DEF DeadOutcome
  <2>2. o \in Outcome
    BY <1>1 DEF DeadOutcome, Outcome
  <2>3. Zero \notin Dense
    BY Constants
  <2> QED BY <2>1, <2>2, <2>3 DEF Backed
<1>2. CASE o # DeadOutcome
  <2>1. PICK phases \in {{"PRE"}, Phases}, sparse \in BOOLEAN :
            o \in FittedOutcomes(phases, sparse)
    BY <1>2 DEF ColdOutcomes
  <2>2. PICK w \in Combos : o = FittedOutcome(Exogs, phases, sparse, w) /\ o.winner \in o.combos
    BY <2>1 DEF FittedOutcomes
  <2>3. /\ o.winner = w /\ o.slots = Phases /\ o.resid = Exogs
        /\ o.combos = [exog : Exogs, phase : phases] \cup (IF sparse THEN {Intermittent} ELSE {})
    BY <2>2 DEF FittedOutcome
  <2>4. o.combos \in SUBSET Combos
    BY <2>3 DEF Combos, Dense, Phases
  <2>5. o \in Outcome
    BY <2>2, <2>3, <2>4 DEF FittedOutcome, Outcome
  <2>6. Backed(o)
    BY <2>2, <2>3, Constants DEF Backed
  <2> QED BY <2>3, <2>5, <2>6
<1> QED BY <1>1, <1>2

\* A warm result supports its winner, if there is one.
LEMMA WarmOutcomeFacts ==
    ASSUME NEW s \in CachedSpec, s.winner \in Dense => s.winner.exog \in s.resid
    PROVE  /\ WarmOutcome(s) \in Outcome
           /\ Buildable(s) => /\ Backed(WarmOutcome(s)) /\ WarmOutcome(s) # NoOutcome
                              /\ WarmOutcome(s).slots = {s.winner.phase}
           /\ ~ Buildable(s) => WarmOutcome(s) = NoOutcome
<1>1. CASE Buildable(s)
  <2> DEFINE w == s.winner
             o == [winner |-> w, combos |-> {w}, slots |-> {w.phase}, resid |-> s.resid]
  <2>1. w \in Dense /\ w \in Combos /\ w.phase \in Phases /\ w.exog \in s.resid
    BY <1>1, Constants DEF Buildable
  <2>2. WarmOutcome(s) = o
    BY <1>1 DEF WarmOutcome
  <2>3. s.resid \in SUBSET Exogs
    BY DEF CachedSpec
  <2>4. o \in Outcome
    BY <2>1, <2>3 DEF Outcome
  <2>5. /\ o.winner = w /\ o.combos = {w} /\ o.slots = {w.phase} /\ o.resid = s.resid
    OBVIOUS
  <2>6. o # NoOutcome
    <3>1. NoOutcome.combos = {}
      BY DEF NoOutcome
    <3> HIDE DEF o
    <3> QED BY <2>5, <3>1
  <2>7. Backed(o)
    <3> HIDE DEF o
    <3> QED BY <2>1, <2>5 DEF Backed
  <2> QED BY <1>1, <2>2, <2>4, <2>5, <2>6, <2>7
<1>2. CASE ~ Buildable(s)
  BY <1>2, Constants DEF WarmOutcome
<1> QED BY <1>1, <1>2

\* A request is sent with the slots its worker is to save.
LEMMA SendStep ==
    ASSUME StoreInv, NEW a \in Attempts, NEW m \in {"warm", "cold"}, NEW o \in Outcome,
           NEW l \in Lefts,
           call[a].pc \in Live \ Sent,
           call' = [call EXCEPT ![a].pc = "waiting", ![a].mode = m, ![a].out = o],
           left' = [left EXCEPT ![a] = l],
           UNCHANGED <<plan, status, rows, blob, pin, pinning, now, abandoned>>,
           o = NoOutcome \/ Backed(o),
           o.slots \subseteq Pending(l)
    PROVE  StoreInv'
<1> DEFINE d == call[a]
           c == Made("waiting", d.run, d.spec, m, o, d.at)
<1>1. call \in [Attempts -> Call] /\ d \in Call /\ CallOK(a, d, left[a])
  BY CallType
<1>2. /\ d.pc \in Pc /\ d.run \in Runs \cup {None} /\ d.spec \in CachedSpec
      /\ d.at \in Nat
  BY <1>1, CallFields
<1>3. c \in Call
  BY <1>2, MadeIsCall DEF Pc
<1>4. /\ c.pc = "waiting" /\ c.run = d.run
      /\ c.mode = m /\ c.out = o /\ c.at = d.at
  BY MadeFields
<1>5. Update(a, c)
  BY <1>1, OutMakes
<1>6. Placed(a, d)
  BY <1>1 DEF CallOK
<1>7. PICK k : k = c
  OBVIOUS
<1> HIDE DEF c
<1>8. k \in Call /\ Update(a, k) /\ k.pc = "waiting" /\ k.run = d.run
      /\ k.mode = m /\ k.out = o /\ k.at = d.at
  BY <1>3, <1>4, <1>5, <1>7
<1>9. Placed(a, k)'
  <2>1. Placed(a, k)
    BY <1>6, <1>8, LiveFacts DEF Placed
  <2> QED BY <2>1 DEF Placed, rows
<1>10. Reads(k)'
  BY <1>8 DEF Reads
<1>11. Results(k)'
  BY <1>8 DEF Results, Sent
<1>12. Saves(a, k, l)'
  BY <1>8 DEF Saves, Sent
<1>13. CallOK(a, k, l)'
  BY <1>8, <1>9, <1>10, <1>11, <1>12 DEF CallOK
<1>14. now' \in Nat /\ now <= now' /\ abandoned' \in SUBSET Runs /\ abandoned \subseteq abandoned'
  BY DEF StoreInv, TypeOK
<1>15. k.pc \in Live \cup {"erred"}
  BY <1>8 DEF Live, Pc
<1> QED BY <1>8, <1>13, <1>14, <1>15, CallStep

LEMMA StepSendCold == ASSUME StoreInv, NEW a \in Attempts, SendCold(a) PROVE StoreInv'
<1>1. PICK o \in Outcomes :
        /\ call' = [call EXCEPT ![a].pc = "waiting", ![a].mode = "cold", ![a].out = o]
        /\ left' = [left EXCEPT ![a] = IF o.slots = {} THEN <<>> ELSE <<"PRE", "REFIT">>]
  BY DEF SendCold
<1> DEFINE l == IF o.slots = {} THEN <<>> ELSE <<"PRE", "REFIT">>
<1>2. o \in Outcome /\ Backed(o) /\ (o.slots = {} \/ o.slots = Phases)
  BY OutcomesAssumption, ColdOutcomeFacts
<1>3. l \in Lefts /\ o.slots \subseteq Pending(l)
  BY <1>2, LeftsFacts
<1>4. call[a].pc \in Live \ Sent
      /\ UNCHANGED <<plan, status, rows, blob, pin, pinning, now, abandoned>>
  BY DEF SendCold, Live, Pc, Sent
<1>5. left' = [left EXCEPT ![a] = l]
  BY <1>1
<1> HIDE DEF l
<1> QED BY <1>1, <1>2, <1>3, <1>4, <1>5, SendStep

LEMMA StepSendWarm == ASSUME StoreInv, NEW a \in Attempts, SendWarm(a) PROVE StoreInv'
<1> DEFINE d == call[a]
           o == WarmOutcome(d.spec)
           l == IF d.spec.winner = Intermittent THEN <<>> ELSE <<d.spec.winner.phase>>
<1>1. /\ call' = [call EXCEPT ![a].pc = "waiting", ![a].mode = "warm", ![a].out = o]
      /\ left' = [left EXCEPT ![a] = l]
      /\ d.pc = "warm"
      /\ UNCHANGED <<plan, status, rows, blob, pin, pinning, now, abandoned>>
  BY DEF SendWarm
<1>2. d.spec \in CachedSpec /\ Reads(d) /\ d.spec.winner \in Combos \cup {Zero}
  BY HasRead
<1>3. d.spec.winner \in Dense => d.spec.winner.exog \in d.spec.resid
  BY <1>1, <1>2 DEF Reads
<1>4. /\ o \in Outcome
      /\ Buildable(d.spec) => /\ Backed(o) /\ o # NoOutcome
                              /\ o.slots = {d.spec.winner.phase}
      /\ ~ Buildable(d.spec) => o = NoOutcome
  BY <1>2, <1>3, WarmOutcomeFacts
<1>5. d.spec.winner.phase \in Phases
  BY <1>2, Constants DEF Combos
<1>6. l \in Lefts
  BY <1>5, LeftsFacts
<1>7. o.slots \subseteq Pending(l)
  <2>1. CASE Buildable(d.spec)
    <3>1. d.spec.winner # Intermittent
      BY <2>1, Constants DEF Buildable
    <3> HIDE DEF o
    <3> QED BY <2>1, <3>1, <1>4, <1>5, LeftsFacts
  <2>2. CASE ~ Buildable(d.spec)
    BY <2>2, <1>4 DEF NoOutcome
  <2> QED BY <2>1, <2>2
<1>8. d.pc \in Live \ Sent
  BY <1>1 DEF Live, Pc, Sent
<1> HIDE DEF o, l
<1> QED BY <1>1, <1>3, <1>4, <1>6, <1>7, <1>8, SendStep

\* A call ends in an error; its worker has nothing left to save, or was given up on.
LEMMA EndStep ==
    ASSUME StoreInv, NEW a \in Attempts, NEW l \in Lefts,
           call[a].pc \in Live, End(a, "erred"), left' = [left EXCEPT ![a] = l],
           abandoned' \in SUBSET Runs, abandoned \subseteq abandoned',
           l = <<>> \/ call[a].run \in abandoned',
           UNCHANGED <<plan, status, rows, blob, pin, pinning, now>>
    PROVE  StoreInv'
<1> DEFINE d == call[a]
           c == Idle(d.run, "erred")
<1>1. call \in [Attempts -> Call] /\ d \in Call /\ CallOK(a, d, left[a])
  BY CallType
<1>2. d.run \in Runs \cup {None} /\ "erred" \in Pc
  BY <1>1, CallFields DEF Pc
<1>3. c \in Call /\ c.pc = "erred" /\ c.run = d.run /\ c.mode = "none" /\ c.at = 0
  BY <1>2, IdleFields
<1>4. d.run # None
  BY <1>1, LiveFacts DEF CallOK, Placed
<1>5. Update(a, c)
  BY EndMakes
<1>6. PICK k : k = c
  OBVIOUS
<1> HIDE DEF c
<1>7. /\ k \in Call /\ k.pc = "erred" /\ k.run = d.run /\ k.mode = "none" /\ k.at = 0
      /\ Update(a, k)
  BY <1>3, <1>5, <1>6
<1>8. now \in Nat /\ now' = now /\ now <= now' /\ k.pc \in Live \cup {"erred"}
  BY <1>7 DEF StoreInv, TypeOK
<1>9. Placed(a, k)'
  BY <1>4, <1>7, <1>8 DEF Placed
<1>10. Reads(k)' /\ Results(k)'
  BY <1>7 DEF Reads, Results
<1>11. Saves(a, k, l)'
  BY <1>7 DEF Saves, Sent
<1>12. CallOK(a, k, l)'
  BY <1>7, <1>9, <1>10, <1>11 DEF CallOK
<1> QED BY <1>7, <1>8, <1>12, CallStep

LEMMA LeftSame ==
    ASSUME StoreInv, NEW a \in Attempts
    PROVE  left[a] \in Lefts /\ left = [left EXCEPT ![a] = left[a]]
BY CallType DEF StoreInv, TypeOK

\* A live call is of a run.
LEMMA LiveRun ==
    ASSUME StoreInv, NEW a \in Attempts, call[a].pc \in Pc \ {"none"}
    PROVE  call[a].run \in Runs
BY CallType, CallFields DEF CallOK, Placed

LEMMA StepErrs == ASSUME StoreInv, NEW a \in Attempts, Errs(a) PROVE StoreInv'
<1>1. call[a].pc \in Live /\ call[a].pc \notin {"waiting", "erred"} /\ End(a, "erred")
  BY DEF Errs, Live
<1>2. left[a] = <<>>
  BY <1>1, CallType DEF CallOK, Saves
<1>3. UNCHANGED <<plan, status, left, rows, blob, pin, pinning, now, abandoned>>
  BY DEF Errs
<1>4. abandoned \in SUBSET Runs
  BY DEF StoreInv, TypeOK
<1> QED BY <1>1, <1>2, <1>3, <1>4, LeftSame, EndStep

LEMMA StepWorkerFails == ASSUME StoreInv, NEW a \in Attempts, WorkerFails(a) PROVE StoreInv'
<1>1. call[a].pc \in Live /\ End(a, "erred") /\ left' = [left EXCEPT ![a] = <<>>]
      /\ UNCHANGED <<plan, status, rows, blob, pin, pinning, now, abandoned>>
  BY DEF WorkerFails, Live, Pc
<1>2. abandoned \in SUBSET Runs
  BY DEF StoreInv, TypeOK
<1> QED BY <1>1, <1>2, LeftsFacts, EndStep

LEMMA StepGiveUp == ASSUME StoreInv, NEW a \in Attempts, GiveUp(a) PROVE StoreInv'
<1>1. call[a].pc \in Live /\ call[a].pc \in Pc \ {"none"} /\ End(a, "erred")
      /\ UNCHANGED <<plan, status, left, rows, blob, pin, pinning, now>>
  BY DEF GiveUp, Live, Pc
<1>2. call[a].run \in Runs
  BY <1>1, LiveRun
<1>3. abandoned' \in SUBSET Runs /\ abandoned \subseteq abandoned' /\ call[a].run \in abandoned'
  BY <1>2 DEF GiveUp, RunOf, StoreInv, TypeOK
<1> QED BY <1>1, <1>3, LeftSame, EndStep

LEMMA StepAnswer == ASSUME StoreInv, NEW a \in Attempts, Answer(a) PROVE StoreInv'
<1> DEFINE d == call[a]
           c == Made("persist", d.run, d.spec, d.mode, d.out, d.at)
<1>1. call \in [Attempts -> Call] /\ d \in Call /\ CallOK(a, d, left[a])
  BY CallType
<1>2. /\ d.pc = "waiting" /\ left[a] = <<>> /\ d.out # NoOutcome
      /\ UNCHANGED <<plan, status, left, rows, blob, pin, pinning, now, abandoned>>
  BY DEF Answer
<1>3. /\ d.run \in Runs \cup {None} /\ d.spec \in CachedSpec
      /\ d.mode \in {"none", "warm", "cold"} /\ d.out \in Outcome /\ d.at \in Nat
  BY <1>1, CallFields
<1>4. c \in Call
  <2>1. "persist" \in Pc BY DEF Pc
  <2> QED BY <1>3, <2>1, MadeIsCall
<1>5. /\ c.pc = "persist" /\ c.run = d.run /\ c.mode = d.mode
      /\ c.out = d.out /\ c.at = d.at
  BY MadeFields
<1>6. Update(a, c)
  BY <1>1, GotoMakes DEF Answer
<1>7. Placed(a, d) /\ Results(d) /\ Saves(a, d, left[a])
  BY <1>1 DEF CallOK
<1> HIDE DEF c
<1>8. Placed(a, c)
  BY <1>2, <1>5, <1>7 DEF Placed
<1>9. Reads(c)
  BY <1>5 DEF Reads
<1>10. Results(c)
  BY <1>2, <1>5, <1>7 DEF Results, Sent
<1>11. Saves(a, c, left[a])
  BY <1>2, <1>5, <1>7 DEF Saves, Sent
<1>12. d.pc \in Live /\ c.pc \in Live \cup {"erred"}
  BY <1>2, <1>5 DEF Live, Pc
<1> QED BY <1>2, <1>4, <1>5, <1>6, <1>8, <1>9, <1>10, <1>11, <1>12, PlainStep

LEMMA StepBeginTx == ASSUME StoreInv, NEW a \in Attempts, BeginTx(a) PROVE StoreInv'
<1> DEFINE d == call[a]
           c == Made("tx", d.run, d.spec, d.mode, d.out, now + 1)
<1>1. call \in [Attempts -> Call] /\ d \in Call /\ CallOK(a, d, left[a])
  BY CallType
<1>2. /\ d.pc = "persist" /\ now' = now + 1
      /\ UNCHANGED <<plan, status, left, rows, blob, pin, pinning, abandoned>>
      /\ call' = [call EXCEPT ![a].pc = "tx", ![a].at = now + 1]
  BY DEF BeginTx
<1>3. /\ d.run \in Runs \cup {None} /\ d.spec \in CachedSpec
      /\ d.mode \in {"none", "warm", "cold"} /\ d.out \in Outcome
  BY <1>1, CallFields
<1>4. now \in Nat /\ now + 1 \in Nat /\ abandoned \in SUBSET Runs
  BY DEF StoreInv, TypeOK
<1>5. c \in Call
  <2>1. "tx" \in Pc BY DEF Pc
  <2> QED BY <1>3, <1>4, <2>1, MadeIsCall
<1>6. /\ c.pc = "tx" /\ c.run = d.run /\ c.mode = d.mode
      /\ c.out = d.out /\ c.at = now + 1
  BY MadeFields
<1>7. Update(a, c)
  BY <1>1, <1>2, AtMakes
<1>8. Placed(a, d) /\ Results(d) /\ Saves(a, d, left[a])
  BY <1>1 DEF CallOK
<1>9. d.run \in Runs
  BY <1>2, LiveRun DEF Pc
<1>10. skuRun[d.run].at <= now /\ skuRun[d.run].at \in Nat
  BY <1>9 DEF StoreInv, RunsOK, RunOK, TypeOK
<1>11. PICK k, l : k = c /\ l = left[a]
  OBVIOUS
<1> HIDE DEF c
<1>12. /\ k \in Call /\ k.pc = "tx" /\ k.run = d.run /\ k.mode = d.mode
       /\ k.out = d.out /\ k.at = now + 1 /\ Update(a, k)
       /\ l \in Lefts /\ left' = [left EXCEPT ![a] = l] /\ Saves(a, d, l)
  BY <1>2, <1>5, <1>6, <1>7, <1>8, <1>11, LeftSame
<1>13. Placed(a, k)'
  <2>1. k.run # None /\ k.at = now'
    BY <1>2, <1>9, <1>12, Constants
  <2>2. skuRun'[k.run].at < k.at
    BY <1>2, <1>4, <1>10, <1>12 DEF rows
  <2>3. now' \in Nat
    BY <1>2, <1>4
  <2> QED BY <1>12, <2>1, <2>2, <2>3 DEF Placed
<1>14. Reads(k)'
  BY <1>12 DEF Reads
<1>15. Results(k)'
  BY <1>2, <1>8, <1>12 DEF Results, Sent
<1>16. Saves(a, k, l)'
  BY <1>2, <1>12 DEF Saves, Sent
<1>17. CallOK(a, k, l)'
  BY <1>12, <1>13, <1>14, <1>15, <1>16 DEF CallOK
<1>18. d.pc \in Live /\ k.pc \in Live \cup {"erred"}
  BY <1>2, <1>12 DEF Live, Pc
<1>19. now' \in Nat /\ now <= now' /\ abandoned' = abandoned
  BY <1>2, <1>4
<1> QED BY <1>2, <1>4, <1>12, <1>17, <1>18, <1>19, CallStep

-----------------------------------------------------------------------------
(* Steps of workers, runs and pins.                                        *)

\* While a live call is of a run nothing is saved under it by a plain attempt.
LEMMA NothingSavedYet ==
    ASSUME StoreInv, NEW a \in Attempts, call[a].pc \in Live,
           NEW r \in Runs, call[a].run = r, r \notin abandoned
    PROVE  ~ HasRow(r) /\ \A p \in Phases : models[r][p] = None
<1>1. call[a].pc \notin {"saved", "done", "erred"} /\ call[a].run # None
  BY LiveFacts, Constants
<1>2. CleanRun(r)
  BY DEF StoreInv, RunsOK, RunOK
<1>3. ~ HasRow(r)
  <2> SUFFICES ASSUME HasRow(r) PROVE FALSE
    OBVIOUS
  <2>1. PICK b \in Attempts : call[b].run = r /\ call[b].pc \in {"saved", "done"}
    BY <1>2 DEF CleanRun
  <2> QED BY <1>1, <2>1 DEF StoreInv, Serial
<1>4. skuRun[r].by = None
  BY <1>3 DEF HasRow
<1> QED BY <1>2, <1>3, <1>4 DEF CleanRun

\* The other live calls of a run that has one are in other runs.
LEMMA AloneInRun ==
    ASSUME StoreInv, NEW a \in Attempts, call[a].pc \in Live,
           NEW b \in Attempts, b # a, call[b].pc \in Pc \ {"none", "erred"}
    PROVE  call[b].run # call[a].run
<1>1. call[a].pc \notin {"saved", "done", "erred"} /\ call[a].run # None
  BY LiveFacts, CallType DEF CallOK, Placed
<1> QED BY <1>1 DEF StoreInv, Serial

LEMMA StepSaveBlob == ASSUME StoreInv, NEW a \in Attempts, SaveBlob(a) PROVE StoreInv'
<1> DEFINE r == call[a].run
           p == Head(left[a])
<1>1. left[a] # <<>> /\ left[a] \in Lefts /\ CallOK(a, call[a], left[a]) /\ call[a] \in Call
  BY CallType DEF SaveBlob
<1>2. p \in Phases /\ Tail(left[a]) \in Lefts
      /\ \A q \in Pending(left[a]) : q = p \/ q \in Pending(Tail(left[a]))
  BY <1>1, LeftsFacts
<1>3. call[a].pc \in {"waiting", "erred"}
  BY <1>1 DEF CallOK, Saves
<1>4. r \in Runs /\ (call[a].pc = "erred" => r \in abandoned)
  <2>1. call[a].pc \in Pc \ {"none"}
    BY <1>3 DEF Pc
  <2> QED BY <1>1, <2>1, LiveRun DEF CallOK, Saves
<1>5. /\ blob' = [blob EXCEPT ![r][p] = a]
      /\ left' = [left EXCEPT ![a] = Tail(left[a])]
      /\ UNCHANGED <<plan, status, call, rows, pin, pinning, now, abandoned>>
  BY DEF SaveBlob, RunOf
<1>6. /\ blob' \in [Runs -> [Phases -> By]] /\ blob'[r][p] = a
      /\ \A q \in Runs, s \in Phases : q # r \/ s # p => blob'[q][s] = blob[q][s]
  BY <1>2, <1>4, <1>5 DEF StoreInv, TypeOK, By
<1>7. /\ left'[a] = Tail(left[a])
      /\ \A b \in Attempts \ {a} : left'[b] = left[b]
      /\ left' \in [Attempts -> Seq(Phases)]
  BY <1>2, <1>5, LeftsFacts DEF StoreInv, TypeOK
<1>8. a # None
  BY Constants
<1> HIDE DEF r, p
<1>9. TypeOK'
  BY <1>5, <1>6, <1>7 DEF StoreInv, TypeOK, rows
<1>10. ASSUME NEW b \in Attempts PROVE CallOK(b, call[b], left[b])'
  <2>1. CallOK(b, call[b], left[b])
    BY DEF StoreInv, CallsOK
  <2>2. PICK d, l, m : d = call[b] /\ l = left[b] /\ m = left'[b]
    OBVIOUS
  <2>3. d = call'[b] /\ d \in Call /\ Placed(b, d) /\ Reads(d) /\ Results(d) /\ Saves(b, d, l)
    BY <1>5, <2>1, <2>2 DEF CallOK
  <2>4. m \in Lefts
    BY <1>2, <1>7, <2>1, <2>2 DEF CallOK
  <2>5. Placed(b, d)' /\ Reads(d)' /\ Results(d)'
    BY <1>5, <2>3 DEF Placed, Reads, Results, rows, Buildable
  <2>6. d.pc \in Pc /\ d.out.slots \subseteq Phases /\ d.run \in Runs \cup {None}
    BY <2>3, CallFields DEF Outcome
  <2>7. Saves(b, d, m)'
    <3>1. CASE b = a
      <4>1. m = Tail(left[a]) /\ l = left[a] /\ d.run = r /\ d.pc \in {"waiting", "erred"}
        BY <1>3, <1>7, <2>2, <3>1 DEF r
      <4>2. d.pc = "erred" => d.run \in abandoned'
        BY <1>4, <1>5, <2>2, <3>1 DEF r
      <4>3. \A s \in d.out.slots : s \in Pending(m) \/ s = p \/ s \notin Pending(l)
        BY <1>2, <4>1
      <4> QED BY <1>4, <1>5, <1>6, <1>8, <2>3, <2>6, <3>1, <4>1, <4>2, <4>3 DEF Saves, Sent
    <3>2. CASE b # a /\ d.run # r
      <4>1. m = l
        BY <1>7, <2>2, <3>2
      <4>2. d.pc \in Sent => d.run \in Runs
        BY <2>2, LiveRun DEF Sent, Pc
      <4>3. d.pc \in Sent => \A s \in d.out.slots : blob'[d.run][s] = blob[d.run][s]
        BY <1>6, <2>6, <3>2, <4>2
      <4> QED BY <1>5, <2>3, <4>1, <4>3 DEF Saves
    <3>3. CASE b # a /\ d.run = r
      <4>1. m = l
        BY <1>7, <2>2, <3>3
      <4>2. CASE r \in abandoned
        BY <1>4, <1>5, <1>6, <1>8, <2>3, <2>6, <3>3, <4>1, <4>2 DEF Saves
      <4>3. CASE r \notin abandoned
        <5>1. call[a].pc \in Live
          BY <1>3, <1>4, <4>3 DEF Live, Pc
        <5>2. d.pc \in {"none", "erred"}
          BY <2>2, <2>6, <3>3, <5>1, AloneInRun DEF r
        <5> QED BY <1>5, <2>3, <4>1, <5>2 DEF Saves, Sent
      <4> QED BY <4>2, <4>3
    <3> QED BY <3>1, <3>2, <3>3
  <2> QED BY <2>2, <2>3, <2>4, <2>5, <2>7 DEF CallOK
<1>11. ASSUME NEW q \in Runs PROVE RunOK(q)'
  <2>1. RunOK(q)
    BY DEF StoreInv, RunsOK
  <2>2. RowsSupport(q)'
    BY <1>5, <2>1 DEF RunOK, RowsSupport, rows
  <2>3. \A s \in Phases : blob[q][s] # None => blob'[q][s] # None
    BY <1>6, <1>8
  <2>4. (q \notin abandoned => CleanRun(q))'
    <3>1. CASE q # r
      BY <1>5, <1>6, <2>1, <3>1 DEF RunOK, CleanRun, HasRow, rows
    <3>2. CASE q = r
      <4> SUFFICES ASSUME q \notin abandoned PROVE CleanRun(q)'
        BY <1>5
      <4>1. call[a].pc \in Live
        BY <1>3, <1>4, <3>2 DEF Live, Pc
      <4>2. ~ HasRow(q) /\ \A s \in Phases : models[q][s] = None
        BY <3>2, <4>1, NothingSavedYet DEF r
      <4>3. CleanRun(q)
        BY <2>1 DEF RunOK
      <4> QED BY <1>5, <4>2, <4>3 DEF CleanRun, HasRow, rows
    <3> QED BY <3>1, <3>2
  <2> QED BY <1>5, <2>1, <2>2, <2>3, <2>4 DEF RunOK, rows
<1>12. Serial' /\ PinOK' /\ HasLatest'
  BY <1>5 DEF StoreInv, Serial, PinOK, HasLatest, IsLatest, HasRow, rows
<1> QED BY <1>9, <1>10, <1>11, <1>12 DEF StoreInv, CallsOK, RunsOK

\* The queue, or the CLI, begins a call; or the CLI ends it.
LEMMA StepBegin ==
    ASSUME StoreInv, NEW a \in Attempts, NEW r \in Runs, Begin(a, r)
    PROVE  StoreInv'
<1> DEFINE d == call[a]
           p == IF plan[r].gate = "cold" THEN "cold" ELSE "load"
           c == Idle(r, p)
<1>1. /\ d.pc = "none" /\ Update(a, c)
      /\ UNCHANGED <<plan, status, left, rows, blob, pin, pinning, now, abandoned>>
      /\ \A b \in Attempts : call[b].run = r => call[b].pc = "erred"
  BY DEF Begin, Idle, Update, Tries
<1>2. call \in [Attempts -> Call] /\ CallOK(a, d, left[a])
  BY CallType
<1>3. p \in Pc /\ p \in {"cold", "load"}
  BY DEF Pc
<1>4. /\ c \in Call /\ c.pc = p /\ c.run = r /\ c.mode = "none" /\ c.at = 0
  <2> HIDE DEF p
  <2> QED BY <1>3, IdleFields
<1>5. left[a] = <<>> /\ left[a] \in Lefts /\ left = [left EXCEPT ![a] = left[a]]
  BY <1>1, <1>2, LeftSame DEF CallOK, Saves
<1>6. PICK k, l : k = c /\ l = left[a]
  OBVIOUS
<1> HIDE DEF c, p
<1>7. /\ k \in Call /\ k.pc \in {"cold", "load"} /\ k.run = r /\ k.mode = "none" /\ k.at = 0
      /\ Update(a, k) /\ l = <<>> /\ l \in Lefts
      /\ left' = [left EXCEPT ![a] = l]
  BY <1>1, <1>3, <1>4, <1>5, <1>6
<1>8. now \in Nat /\ now' = now /\ now' \in Nat /\ now <= now' /\ abandoned' = abandoned
  BY <1>1 DEF StoreInv, TypeOK
<1>9. Placed(a, k)' /\ Reads(k)' /\ Results(k)' /\ Saves(a, k, l)'
  <2>1. Placed(a, k)'
    BY <1>7, <1>8, Constants DEF Placed
  <2> QED BY <1>7, <2>1 DEF Reads, Results, Saves, Sent
<1>10. CallOK(a, k, l)'
  BY <1>7, <1>9 DEF CallOK
<1>11. CallsOK'
  BY <1>1, <1>7, <1>8, <1>10, CallsAfter
<1>12. call'[a] = k /\ (\A b \in Attempts \ {a} : call'[b] = call[b])
       /\ call' \in [Attempts -> Call]
  BY <1>2, <1>7 DEF Update
<1>13. TypeOK'
  BY <1>1, <1>12 DEF StoreInv, TypeOK, rows
<1>14. ASSUME NEW q \in Runs PROVE RunOK(q)'
  <2>1. RunOK(q)
    BY DEF StoreInv, RunsOK
  <2>2. \A b \in Attempts : call[b].pc \in {"saved", "done"} => call'[b] = call[b]
    BY <1>1, <1>12
  <2>3. RowsSupport(q)'
    BY <1>1, <2>1 DEF RunOK, RowsSupport, rows
  <2>4. (q \notin abandoned => CleanRun(q))'
    BY <1>1, <2>1, <2>2 DEF RunOK, CleanRun, HasRow, rows
  <2> QED BY <1>1, <2>1, <2>2, <2>3, <2>4 DEF RunOK, rows
<1>15. Serial'
  BY <1>1, <1>7, <1>12 DEF StoreInv, Serial
<1>16. PinOK' /\ HasLatest'
  BY <1>1 DEF StoreInv, PinOK, HasLatest, IsLatest, HasRow, rows
<1> QED BY <1>11, <1>13, <1>14, <1>15, <1>16 DEF StoreInv, RunsOK

LEMMA StepCompleteRun == ASSUME StoreInv, NEW a \in Attempts, CompleteRun(a) PROVE StoreInv'
<1> DEFINE d == call[a]
           c == Idle(d.run, "done")
<1>1. /\ d.pc = "saved" /\ d.run \in Runs
      /\ UNCHANGED <<plan, left, rows, blob, pin, pinning, now, abandoned>>
      /\ status' = [status EXCEPT ![d.run] = "completed"]
  BY LiveRun DEF CompleteRun, RunOf, Pc
<1>2. call \in [Attempts -> Call] /\ CallOK(a, d, left[a])
  BY CallType
<1>3. Update(a, c)
  BY EndMakes DEF CompleteRun
<1>4. /\ c \in Call /\ c.pc = "done" /\ c.run = d.run /\ c.mode = "none" /\ c.at = 0
  <2>1. "done" \in Pc /\ d.run \in Runs \cup {None}
    BY <1>1 DEF Pc
  <2> QED BY <2>1, IdleFields
<1>5. left[a] = <<>> /\ left[a] \in Lefts /\ left = [left EXCEPT ![a] = left[a]]
  BY <1>1, <1>2, LeftSame DEF CallOK, Saves
<1>6. PICK k, l : k = c /\ l = left[a]
  OBVIOUS
<1> HIDE DEF c
<1>7. /\ k \in Call /\ k.pc = "done" /\ k.run = d.run /\ k.mode = "none" /\ k.at = 0
      /\ Update(a, k) /\ l = <<>> /\ l \in Lefts
      /\ left' = [left EXCEPT ![a] = l]
  BY <1>1, <1>3, <1>4, <1>5, <1>6
<1>8. now \in Nat /\ now' = now /\ now' \in Nat /\ now <= now' /\ abandoned' = abandoned
  BY <1>1 DEF StoreInv, TypeOK
<1>9. Placed(a, k)' /\ Reads(k)' /\ Results(k)' /\ Saves(a, k, l)'
  <2>1. skuRun[d.run].by = a
    BY <1>1, <1>2 DEF CallOK, Placed
  <2>2. Placed(a, k)'
    BY <1>1, <1>7, <1>8, <2>1, Constants DEF Placed, rows
  <2> QED BY <1>7, <2>2 DEF Reads, Results, Saves, Sent
<1>10. CallOK(a, k, l)'
  BY <1>7, <1>9 DEF CallOK
<1>11. CallsOK'
  BY <1>1, <1>7, <1>8, <1>10, CallsAfter
<1>12. call'[a] = k /\ (\A b \in Attempts \ {a} : call'[b] = call[b])
       /\ call' \in [Attempts -> Call]
  BY <1>2, <1>7 DEF Update
<1>13. TypeOK'
  BY <1>1, <1>12 DEF StoreInv, TypeOK, rows
<1>14. ASSUME NEW q \in Runs PROVE RunOK(q)'
  <2>1. RunOK(q)
    BY DEF StoreInv, RunsOK
  <2>2. \A b \in Attempts : /\ call'[b].run = call[b].run
                            /\ call[b].pc \in {"saved", "done"} => call'[b].pc \in {"saved", "done"}
                            /\ call[b].pc = "done" => call'[b].pc = "done"
    BY <1>1, <1>7, <1>12
  <2>3. RowsSupport(q)'
    BY <1>1, <2>1 DEF RunOK, RowsSupport, rows
  <2>4. (q \notin abandoned => CleanRun(q))'
    BY <1>1, <2>1, <2>2 DEF RunOK, CleanRun, HasRow, rows
  <2>5. status'[q] = "completed" => \E b \in Attempts : call'[b].run = q /\ call'[b].pc = "done"
    <3>1. CASE q = d.run
      BY <1>7, <1>12, <3>1
    <3>2. CASE q # d.run
      <4>1. status'[q] = status[q]
        BY <1>1, <3>2 DEF StoreInv, TypeOK
      <4> QED BY <2>1, <2>2, <4>1 DEF RunOK
    <3> QED BY <3>1, <3>2
  <2> QED BY <1>1, <2>1, <2>3, <2>4, <2>5 DEF RunOK, rows
<1>15. Serial'
  BY <1>1, <1>7, <1>12 DEF StoreInv, Serial
<1>16. PinOK' /\ HasLatest'
  BY <1>1 DEF StoreInv, PinOK, HasLatest, IsLatest, HasRow, rows
<1> QED BY <1>11, <1>13, <1>14, <1>15, <1>16 DEF StoreInv, RunsOK

\* What happens to runs and pins touches no call and no row.
LEMMA OutsideStep ==
    ASSUME StoreInv, TypeOK', PinOK',
           UNCHANGED <<call, left, rows, blob, now, abandoned>>,
           \A r \in Runs : status'[r] = "completed" => status[r] = "completed"
    PROVE  StoreInv'
<1>1. CallsOK'
  BY DEF StoreInv, CallsOK, CallOK, Placed, Reads, Results, Saves, rows, Buildable
<1>2. ASSUME NEW r \in Runs PROVE RunOK(r)'
  <2>1. RunOK(r)
    BY DEF StoreInv, RunsOK
  <2> QED BY <2>1 DEF RunOK, RowsSupport, CleanRun, HasRow, rows
<1>3. Serial' /\ HasLatest'
  BY DEF StoreInv, Serial, HasLatest, IsLatest, HasRow, rows
<1> QED BY <1>1, <1>2, <1>3 DEF StoreInv, RunsOK

LEMMA StepCreateRun == ASSUME StoreInv, NEW r \in Runs, CreateRun(r) PROVE StoreInv'
<1>1. /\ plan' \in [Runs -> AllPlans \cup {NoPlan}]
      /\ status' = [status EXCEPT ![r] = "running"]
      /\ UNCHANGED <<call, left, rows, blob, pin, pinning, now, abandoned>>
  BY PlansAssumption DEF CreateRun, StoreInv, TypeOK
<1>2. TypeOK'
  BY <1>1 DEF StoreInv, TypeOK, rows
<1>3. PinOK'
  BY <1>1 DEF StoreInv, PinOK, HasRow, rows
<1>4. \A q \in Runs : status'[q] = "completed" => status[q] = "completed"
  BY <1>1 DEF StoreInv, TypeOK
<1> QED BY <1>1, <1>2, <1>3, <1>4, OutsideStep

LEMMA StepPinning == ASSUME StoreInv, Pinning PROVE StoreInv'
<1>1. UNCHANGED <<plan, status, call, left, rows, blob, now, abandoned>>
  BY DEF Pinning, CheckPin, SetPin, DeletePin
<1>2. /\ pin' \in {pin, pinning, None}
      /\ pinning' = pinning \/ pinning' = None \/ (pinning' \in Runs /\ HasRow(pinning'))
  BY DEF Pinning, CheckPin, SetPin, DeletePin
<1>3. TypeOK'
  BY <1>1, <1>2 DEF StoreInv, TypeOK, rows
<1>4. PinOK'
  BY <1>1, <1>2 DEF StoreInv, PinOK, HasRow, rows
<1> QED BY <1>1, <1>3, <1>4, OutsideStep

-----------------------------------------------------------------------------
(* The transaction.                                                        *)

\* What it does to the tables: the rows of its run, and no other.
Persisted(a, r, o) ==
    /\ skuRun'[r] = [by |-> a, winner |-> o.winner, at |-> call[a].at]
    /\ \A k \in Combos : combos'[r][k] = IF k \in o.combos /\ combos[r][k] = None
                                         THEN a ELSE combos[r][k]
    /\ \A p \in Phases : models'[r][p] = IF p \in o.slots THEN a ELSE models[r][p]
    /\ \A e \in Exogs : resid'[r][e] = IF e \in o.resid THEN a ELSE resid[r][e]
    /\ trajectory'[r] = a
    /\ \A q \in Runs \ {r} :
         /\ skuRun'[q] = skuRun[q] /\ combos'[q] = combos[q] /\ models'[q] = models[q]
         /\ resid'[q] = resid[q] /\ trajectory'[q] = trajectory[q]

RowsType ==
    /\ skuRun \in [Runs -> [by : By, winner : Combos \cup {Zero}, at : Nat]]
    /\ combos \in [Runs -> [Combos -> By]]
    /\ models \in [Runs -> [Phases -> By]]
    /\ resid \in [Runs -> [Exogs -> By]]
    /\ trajectory \in [Runs -> By]

LEMMA PersistFacts ==
    ASSUME StoreInv, NEW a \in Attempts, call[a].run \in Runs, PersistResult(a)
    PROVE  Persisted(a, call[a].run, call[a].out) /\ RowsType'
<1> DEFINE r == call[a].run
           o == call[a].out
           row == [by |-> a, winner |-> o.winner, at |-> call[a].at]
           cs == Inserted(combos[r], o.combos, a)
           ms == Upserted(models[r], o.slots, a)
           rs == Upserted(resid[r], o.resid, a)
<1>1. /\ skuRun' = [skuRun EXCEPT ![r] = row]
      /\ combos' = [combos EXCEPT ![r] = cs]
      /\ models' = [models EXCEPT ![r] = ms]
      /\ resid' = [resid EXCEPT ![r] = rs]
      /\ trajectory' = [trajectory EXCEPT ![r] = a]
  BY DEF PersistResult, RunOf
<1>2. RowsType /\ r \in Runs /\ a \in By
  BY DEF StoreInv, TypeOK, RowsType, By
<1>3. row \in [by : By, winner : Combos \cup {Zero}, at : Nat]
  <2>1. o.winner \in Combos \cup {Zero} /\ call[a].at \in Nat
    BY CallType, CallFields DEF Outcome
  <2> QED BY <1>2, <2>1
<1>4. /\ cs \in [Combos -> By]
      /\ \A k \in Combos : cs[k] = IF k \in o.combos /\ combos[r][k] = None
                                   THEN a ELSE combos[r][k]
  BY <1>2 DEF Inserted, RowsType
<1>5. /\ ms \in [Phases -> By]
      /\ \A p \in Phases : ms[p] = IF p \in o.slots THEN a ELSE models[r][p]
  BY <1>2 DEF Upserted, RowsType
<1>6. /\ rs \in [Exogs -> By]
      /\ \A e \in Exogs : rs[e] = IF e \in o.resid THEN a ELSE resid[r][e]
  BY <1>2 DEF Upserted, RowsType
<1>7. /\ skuRun'[r] = row /\ combos'[r] = cs /\ models'[r] = ms
      /\ resid'[r] = rs /\ trajectory'[r] = a
  <2> HIDE DEF row, cs, ms, rs, r
  <2> QED BY <1>1, <1>2 DEF RowsType
<1>8. RowsType'
  <2> HIDE DEF row, cs, ms, rs, r
  <2> QED BY <1>1, <1>2, <1>3, <1>4, <1>5, <1>6 DEF RowsType
<1>9. \A q \in Runs \ {r} :
        /\ skuRun'[q] = skuRun[q] /\ combos'[q] = combos[q] /\ models'[q] = models[q]
        /\ resid'[q] = resid[q] /\ trajectory'[q] = trajectory[q]
  <2> HIDE DEF row, cs, ms, rs, r
  <2> QED BY <1>1, <1>2 DEF RowsType
<1>10. Persisted(a, r, o)
  <2> HIDE DEF cs, ms, rs
  <2> QED BY <1>4, <1>5, <1>6, <1>7, <1>9 DEF Persisted
<1> QED BY <1>8, <1>10

\* What has been read of any run stays so: rows are added or replaced.
LEMMA RowsStay ==
    ASSUME StoreInv, NEW a \in Attempts, NEW r \in Runs, NEW o, Persisted(a, r, o),
           NEW q \in Runs
    PROVE  /\ HasRow(q) => HasRow(q)'
           /\ \A k \in Combos : combos[q][k] # None => combos'[q][k] # None
           /\ \A p \in Phases : models[q][p] # None => models'[q][p] # None
           /\ \A e \in Exogs : resid[q][e] # None => resid'[q][e] # None
BY Constants DEF Persisted, HasRow

\* The newest of the transactions of a run is the newest row of the run, and
\* either it or the old latest is the latest.
LEMMA PersistKeepsLatest ==
    ASSUME StoreInv, NEW a \in Attempts, NEW r \in Runs, NEW o, Persisted(a, r, o),
           RowsType', skuRun[r].at < call[a].at
    PROVE  HasLatest'
<1>1. /\ skuRun'[r].by = a /\ skuRun'[r].at = call[a].at /\ a # None
      /\ \A q \in Runs \ {r} : skuRun'[q] = skuRun[q]
  BY Constants DEF Persisted
<1>2. /\ \A q \in Runs : skuRun[q].at \in Nat /\ skuRun'[q].at \in Nat /\ q \in Nat
  BY Constants DEF StoreInv, TypeOK, RowsType
<1>3. CASE \A q \in Runs \ {r} : ~ HasRow(q)
  <2>1. IsLatest(r)'
    BY <1>1, <1>2, <1>3 DEF IsLatest, HasRow
  <2> QED BY <2>1 DEF HasLatest
<1>4. CASE \E q \in Runs : HasRow(q)
  <2>1. PICK m \in Runs : IsLatest(m)
    BY <1>4 DEF StoreInv, HasLatest
  <2>2. CASE m = r \/ skuRun[m].at < call[a].at \/ (skuRun[m].at = call[a].at /\ m <= r)
    <3>1. IsLatest(r)'
      <4>1. ASSUME NEW q \in Runs, q # r, HasRow(q)'
            PROVE  skuRun[q].at < call[a].at \/ (skuRun[q].at = call[a].at /\ q <= r)
        <5>1. HasRow(q)
          BY <1>1, <4>1 DEF HasRow
        <5>2. skuRun[q].at < skuRun[m].at \/ (skuRun[q].at = skuRun[m].at /\ q <= m)
          BY <2>1, <5>1 DEF IsLatest
        <5>3. call[a].at \in Nat
          BY <1>1, <1>2
        <5> QED BY <1>2, <2>2, <5>2, <5>3
      <4> QED BY <1>1, <1>2, <4>1 DEF IsLatest, HasRow
    <3> QED BY <3>1 DEF HasLatest
  <2>3. CASE m # r /\ (call[a].at < skuRun[m].at \/ (call[a].at = skuRun[m].at /\ r <= m))
    <3>1. IsLatest(m)'
      BY <1>1, <1>2, <2>1, <2>3 DEF IsLatest, HasRow
    <3> QED BY <3>1 DEF HasLatest
  <2>4. call[a].at \in Nat /\ skuRun[m].at \in Nat /\ m \in Nat /\ r \in Nat
    BY <1>1, <1>2
  <2> QED BY <2>2, <2>3, <2>4
<1> QED BY <1>3, <1>4

LEMMA PersistStep ==
    ASSUME StoreInv, NEW a \in Attempts, call[a].pc = "tx", PersistResult(a),
           NEW p \in {"saved", "erred"}, End(a, p),
           abandoned' \in SUBSET Runs, abandoned \subseteq abandoned',
           p = "erred" => call[a].run \in abandoned',
           UNCHANGED <<plan, status, left, blob, pin, pinning, now>>
    PROVE  StoreInv'
<1> DEFINE d == call[a]
           c == Idle(d.run, p)
<1>1. call \in [Attempts -> Call] /\ CallOK(a, d, left[a]) /\ d \in Call
  BY CallType
<1>2. d.run \in Runs /\ d.pc \in Live
  BY LiveRun DEF Pc, Live
<1>3. PICK r, o : r = d.run /\ o = d.out
  OBVIOUS
<1>4. /\ r \in Runs /\ o \in Outcome /\ d.at \in Nat
      /\ Persisted(a, r, o) /\ RowsType' /\ a # None
  BY <1>1, <1>2, <1>3, CallFields, PersistFacts, Constants
<1>5. Update(a, c)
  BY EndMakes
<1>6. /\ c \in Call /\ c.pc = p /\ c.run = r /\ c.mode = "none" /\ c.at = 0
  <2>1. p \in Pc /\ r \in Runs \cup {None}
    BY <1>4 DEF Pc
  <2> QED BY <1>3, <2>1, IdleFields
<1>7. PICK k : k = c
  OBVIOUS
<1> HIDE DEF c
<1>8. /\ k \in Call /\ k.pc = p /\ k.run = r /\ k.mode = "none" /\ k.at = 0
      /\ Update(a, k)
  BY <1>5, <1>6, <1>7
<1>9. /\ call'[a] = k /\ \A b \in Attempts \ {a} : call'[b] = call[b]
      /\ call' \in [Attempts -> Call]
  BY <1>1, <1>8 DEF Update
<1>10. /\ left[a] = <<>> /\ Backed(o) /\ skuRun[r].at < d.at /\ d.at <= now
       /\ \A s \in o.slots : blob[r][s] # None
       /\ r \notin abandoned => \A s \in o.slots : blob[r][s] = a
  BY <1>1, <1>3, LeftsFacts DEF CallOK, Saves, Placed, Results, Sent
<1>11. \A b \in Attempts \ {a} : call[b].run = r => call[b].pc \in {"none", "erred"}
  BY <1>1, <1>2, <1>3, AloneInRun, CallFields
<1>12. TypeOK'
  BY <1>4, <1>9 DEF StoreInv, TypeOK, RowsType
<1>13. /\ skuRun'[r].by = a /\ skuRun'[r].winner = o.winner /\ skuRun'[r].at = d.at
       /\ \A q \in Runs \ {r} : skuRun'[q] = skuRun[q]
  BY <1>4 DEF Persisted
<1>14. ASSUME NEW b \in Attempts PROVE CallOK(b, call[b], left[b])'
  <2>1. CASE b = a
    <3>1. Placed(a, k)'
      <4>1. r # None /\ now \in Nat /\ now' = now
        BY <1>4, Constants DEF StoreInv, TypeOK
      <4> QED BY <1>4, <1>8, <1>13, <4>1 DEF Placed
    <3>2. Reads(k)' /\ Results(k)'
      BY <1>8 DEF Reads, Results, Sent
    <3>3. PICK l : l = left[a]
      OBVIOUS
    <3>4. l = <<>> /\ l \in Lefts /\ l = left'[a]
      BY <1>10, <3>3, LeftsFacts
    <3>5. Saves(a, k, l)'
      BY <1>8, <3>4 DEF Saves, Sent
    <3>6. CallOK(a, k, l)'
      BY <1>8, <3>1, <3>2, <3>4, <3>5 DEF CallOK
    <3> QED BY <1>9, <2>1, <3>4, <3>6 DEF CallOK
  <2>2. CASE b # a
    <3>1. PICK e, l : e = call[b] /\ l = left[b]
      OBVIOUS
    <3>2. /\ CallOK(b, e, l) /\ e = call'[b] /\ l = left'[b] /\ e \in Call
      BY <1>9, <2>2, <3>1, CallType
    <3>3. /\ Placed(b, e) /\ Reads(e) /\ Results(e) /\ Saves(b, e, l)
      BY <3>2 DEF CallOK
    <3>4. Placed(b, e)'
      <4>1. e.pc \in {"saved", "done", "tx"} => e.run \in Runs \ {r}
        BY <1>11, <2>2, <3>1, LiveRun DEF Pc
      <4> QED BY <1>13, <3>3, <4>1 DEF Placed
    <3>5. Reads(e)'
      <4>1. \A w \in Dense : w.phase \in Phases /\ w.exog \in Exogs
        BY Constants
      <4>2. PICK s : s = e.spec
        OBVIOUS
      <4>3. s.run \in Runs =>
              /\ \A f \in Phases : models[s.run][f] # None => models'[s.run][f] # None
              /\ \A f \in Exogs : resid[s.run][f] # None => resid'[s.run][f] # None
        BY <1>4, RowsStay
      <4> QED BY <3>3, <4>1, <4>2, <4>3 DEF Reads, Buildable
    <3>6. Results(e)' /\ Saves(b, e, l)'
      BY <3>3 DEF Results, Saves
    <3>7. CallOK(b, e, l)'
      BY <3>2, <3>4, <3>5, <3>6 DEF CallOK
    <3> QED BY <3>2, <3>7 DEF CallOK
  <2> QED BY <2>1, <2>2
<1>15. ASSUME NEW q \in Runs, q # r PROVE RunOK(q)'
  <2>1. RunOK(q)
    BY DEF StoreInv, RunsOK
  <2>2. /\ skuRun'[q] = skuRun[q] /\ combos'[q] = combos[q] /\ models'[q] = models[q]
        /\ resid'[q] = resid[q] /\ trajectory'[q] = trajectory[q]
    BY <1>4, <1>15 DEF Persisted
  <2>3. \A b \in Attempts : call[b].run = q => call'[b] = call[b]
    BY <1>3, <1>9, <1>15
  <2>4. RowsSupport(q)'
    BY <2>1, <2>2 DEF RunOK, RowsSupport
  <2>5. (q \notin abandoned => CleanRun(q))'
    BY <2>1, <2>2, <2>3 DEF RunOK, CleanRun, HasRow
  <2> QED BY <2>1, <2>2, <2>3, <2>4, <2>5 DEF RunOK
<1>16. RunOK(r)'
  <2>1. RunOK(r)
    BY <1>4 DEF StoreInv, RunsOK
  <2>2. RowsSupport(r)'
    <3>1. trajectory'[r] = a
      BY <1>4 DEF Persisted
    <3>2. o.winner # Zero => combos'[r][o.winner] # None
      BY <1>4, <1>10, Constants DEF Persisted, Backed, Outcome
    <3>3. o.winner \in Dense => /\ models'[r][o.winner.phase] = a
                                /\ resid'[r][o.winner.exog] # None
      BY <1>4, <1>10, Constants DEF Persisted, Backed
    <3> QED BY <1>4, <1>13, <3>1, <3>2, <3>3 DEF RowsSupport
  <2>3. \A s \in Phases : models'[r][s] # None => blob[r][s] # None
    BY <1>4, <1>10, <2>1 DEF Persisted, RunOK
  <2>4. (r \notin abandoned => CleanRun(r))'
    <3> SUFFICES ASSUME r \notin abandoned' PROVE CleanRun(r)'
      OBVIOUS
    <3>1. r \notin abandoned /\ p = "saved"
      BY <1>3
    <3>2. ~ HasRow(r) /\ (\A s \in Phases : models[r][s] = None)
      BY <1>2, <1>3, <1>4, <3>1, NothingSavedYet
    <3>3. \A j \in Combos : combos[r][j] = None
      BY <2>1, <3>1, <3>2 DEF RunOK, CleanRun, HasRow
    <3>4. \A j \in Combos : combos'[r][j] \in {None, a}
      BY <1>4, <3>3 DEF Persisted
    <3>5. \A s \in Phases : models'[r][s] # None => models'[r][s] = a /\ blob[r][s] = a
      BY <1>4, <1>10, <3>1, <3>2 DEF Persisted
    <3>6. call'[a].run = r /\ call'[a].pc = "saved"
      BY <1>8, <1>9, <3>1
    <3> QED BY <1>13, <3>4, <3>5, <3>6 DEF CleanRun, HasRow
  <2>5. status'[r] = "completed" =>
          \E b \in Attempts : call'[b].run = r /\ call'[b].pc = "done"
    BY <1>2, <1>9, <2>1, LiveFacts DEF RunOK
  <2>6. skuRun'[r].at <= now'
    BY <1>10, <1>13
  <2> QED BY <2>2, <2>3, <2>4, <2>5, <2>6 DEF RunOK
<1>17. Serial'
  BY <1>3, <1>8, <1>9, <1>11, Constants DEF StoreInv, Serial
<1>18. PinOK'
  <2>1. \A q \in Runs : HasRow(q) => HasRow(q)'
    BY <1>4, RowsStay
  <2> QED BY <2>1 DEF StoreInv, TypeOK, PinOK
<1>19. HasLatest'
  BY <1>4, <1>10, PersistKeepsLatest
<1>20. CallsOK' /\ RunsOK'
  BY <1>14, <1>15, <1>16 DEF CallsOK, RunsOK
<1> QED BY <1>12, <1>17, <1>18, <1>19, <1>20 DEF StoreInv

LEMMA StepCommit == ASSUME StoreInv, NEW a \in Attempts, Commit(a) PROVE StoreInv'
<1>1. abandoned \in SUBSET Runs
  BY DEF StoreInv, TypeOK
<1> QED BY <1>1, PersistStep DEF Commit

LEMMA StepCommitLost == ASSUME StoreInv, NEW a \in Attempts, CommitLost(a) PROVE StoreInv'
<1>1. call[a].run \in Runs
  BY LiveRun DEF CommitLost, Pc
<1>2. abandoned' \in SUBSET Runs /\ abandoned \subseteq abandoned' /\ call[a].run \in abandoned'
  BY <1>1 DEF CommitLost, RunOf, StoreInv, TypeOK
<1> QED BY <1>2, PersistStep DEF CommitLost

-----------------------------------------------------------------------------
(* The theorems.                                                           *)

LEMMA InvInit == ASSUME Init PROVE StoreInv
<1>1. /\ NoCall \in Call /\ NoCall.pc = "none" /\ NoCall.run = None /\ NoCall.mode = "none"
      /\ NoCall.at = 0
  BY Constants DEF NoCall, Call, Pc
<1>2. TypeOK
  BY <1>1 DEF Init, TypeOK, By
<1>3. ASSUME NEW a \in Attempts PROVE CallOK(a, call[a], left[a])
  <2>1. call[a] = NoCall /\ left[a] = <<>> /\ now = 0
    BY DEF Init
  <2>2. PICK c, l : c = NoCall /\ l = <<>>
    OBVIOUS
  <2>3. Placed(a, c) /\ Reads(c) /\ Results(c) /\ Saves(a, c, l)
    BY <1>1, <2>1, <2>2 DEF Placed, Reads, Results, Saves, Sent
  <2> QED BY <1>1, <2>1, <2>2, <2>3, LeftsFacts DEF CallOK
<1>4. ASSUME NEW r \in Runs PROVE RunOK(r) /\ ~ HasRow(r)
  <2>1. /\ skuRun[r].by = None /\ skuRun[r].winner = Zero /\ skuRun[r].at = 0 /\ now = 0
        /\ status[r] = "absent" /\ trajectory[r] = None
        /\ \A k \in Combos : combos[r][k] = None
        /\ \A p \in Phases : models[r][p] = None
    BY DEF Init
  <2>2. Zero \notin Dense
    BY Constants
  <2> QED BY <2>1, <2>2 DEF RunOK, RowsSupport, CleanRun, HasRow
<1>5. Serial /\ PinOK
  BY <1>1 DEF Init, Serial, PinOK
<1>6. HasLatest
  BY <1>4 DEF HasLatest
<1> QED BY <1>2, <1>3, <1>4, <1>5, <1>6 DEF StoreInv, CallsOK, RunsOK

LEMMA InvStep == ASSUME StoreInv, [Next]_vars PROVE StoreInv'
<1>1. ASSUME NEW r \in Runs, CreateRun(r) PROVE StoreInv'
  BY <1>1, StepCreateRun
<1>2. ASSUME NEW r \in Runs, NEW a \in Attempts, Begin(a, r) PROVE StoreInv'
  BY <1>2, StepBegin
<1>3. ASSUME NEW a \in Attempts, Reading(a) PROVE StoreInv'
  BY <1>3, StepLoad, StepReadModels, StepReadRest DEF Reading
<1>4. ASSUME NEW a \in Attempts, Deciding(a) PROVE StoreInv'
  BY <1>4, StepDriftAnswers, StepDriftFails, StepSendCold, StepSendWarm DEF Deciding
<1>5. ASSUME NEW a \in Attempts, Working(a) PROVE StoreInv'
  BY <1>5, StepSaveBlob, StepAnswer, StepWorkerFails, StepGiveUp, StepErrs DEF Working
<1>6. ASSUME NEW a \in Attempts, Persisting(a) PROVE StoreInv'
  BY <1>6, StepBeginTx, StepCommit, StepCommitLost, StepCompleteRun DEF Persisting
<1>7. CASE Pinning
  BY <1>7, StepPinning
<1>8. CASE UNCHANGED vars
  <2>1. UNCHANGED <<call, left, rows, blob, now, abandoned>> /\ status' = status
    BY <1>8 DEF vars
  <2>2. TypeOK' /\ PinOK'
    BY <1>8 DEF StoreInv, TypeOK, PinOK, HasRow, vars, rows
  <2> QED BY <2>1, <2>2, OutsideStep
<1> QED BY <1>1, <1>2, <1>3, <1>4, <1>5, <1>6, <1>7, <1>8 DEF Next

\* Whatever the attempts, the workers and the operator do, in any order.
THEOREM StoreInvHolds == Spec => []StoreInv
<1>1. Init => StoreInv
  BY InvInit
<1>2. StoreInv /\ [Next]_vars => StoreInv'
  BY InvStep
<1> QED BY <1>1, <1>2, PTL DEF Spec

\* The tables, calls and pins keep their types.
THEOREM TypeCorrect == Spec => []TypeOK
<1>1. StoreInv => TypeOK
  BY DEF StoreInv
<1> QED BY <1>1, StoreInvHolds, PTL

\* The rows persist_result leaves under a run support the winner it names.
THEOREM WinnerIsBackedHolds == Spec => []WinnerIsBacked
<1>1. StoreInv => WinnerIsBacked
  BY DEF StoreInv, RunsOK, RunOK, RowsSupport, WinnerIsBacked
<1> QED BY <1>1, StoreInvHolds, PTL

\* What load_latest reads in four statements has the model and the residuals of
\* the winner it names, whoever persists in between.
THEOREM SpecIsUsableHolds == Spec => []SpecIsUsable
<1>1. StoreInv => SpecIsUsable
  BY DEF StoreInv, CallsOK, CallOK, Reads, SpecIsUsable
<1> QED BY <1>1, StoreInvHolds, PTL

\* Retries after plain errors leave the rows and blobs of one attempt.
THEOREM CleanRunIsOfOneAttemptHolds == Spec => []CleanRunIsOfOneAttempt
<1>1. StoreInv => CleanRunIsOfOneAttempt
  BY DEF StoreInv, RunsOK, RunOK, CleanRun, CleanRunIsOfOneAttempt
<1> QED BY <1>1, StoreInvHolds, PTL

\* A models row never points to a joblib file that was not yet written.
THEOREM BlobsExistHolds == Spec => []BlobsExist
<1>1. StoreInv => BlobsExist
  BY DEF StoreInv, RunsOK, RunOK, BlobsExist
<1> QED BY <1>1, StoreInvHolds, PTL

\* What has been read of a run in which nothing was given up on is what is there.
Snapshot(c) ==
    LET s == c.spec
    IN s.run \in Runs =>
         /\ HasRow(s.run)
         /\ s.run \notin abandoned =>
              /\ s.winner = skuRun[s.run].winner
              /\ c.pc # "models" => s.models = {p \in Phases : models[s.run][p] # None}
              /\ c.pc \notin {"models", "rest"} =>
                   s.resid = {e \in Exogs : resid[s.run][e] # None}
Snapshots == \A a \in Attempts : Snapshot(call[a])

\* A call changes and the rows stay.
LEMMA SnapshotStep ==
    ASSUME StoreInv, Snapshots, NEW a \in Attempts, NEW c, Update(a, c), Snapshot(c),
           UNCHANGED rows, abandoned \subseteq abandoned'
    PROVE  Snapshots'
<1>1. PICK k : k = c
  OBVIOUS
<1>2. ASSUME NEW b \in Attempts PROVE Snapshot(call[b])'
  <2>1. PICK d : d = IF b = a THEN k ELSE call[b]
    OBVIOUS
  <2>2. call'[b] = d
    BY <1>1, <2>1, CallType DEF Update
  <2>3. Snapshot(d)
    BY <1>1, <2>1 DEF Snapshots
  <2>4. Snapshot(d)'
    BY <2>3 DEF Snapshot, HasRow, rows
  <2> QED BY <2>2, <2>4
<1> QED BY <1>2 DEF Snapshots

\* A call that keeps its spec keeps what it knows of it.
LEMMA KeepsSnapshot ==
    ASSUME Snapshots, NEW a \in Attempts, NEW c, c.spec = call[a].spec,
           call[a].pc \notin {"models", "rest"}
    PROVE  Snapshot(c)
BY DEF Snapshots, Snapshot

\* A call that has begun or ended has read nothing.
LEMMA IdleSnapshot ==
    ASSUME NEW r \in Runs \cup {None}, NEW p \in Pc
    PROVE  Snapshot(Idle(r, p))
<1>1. Idle(r, p).spec = Spec0 /\ Spec0.run = None
  BY IdleFields DEF Spec0
<1> QED BY <1>1, Constants DEF Snapshot

LEMMA SnapshotEnds ==
    ASSUME StoreInv, Snapshots, NEW a \in Attempts, NEW p \in Pc, End(a, p),
           UNCHANGED rows, abandoned \subseteq abandoned'
    PROVE  Snapshots'
<1>1. call[a].run \in Runs \cup {None}
  BY CallType, CallFields
<1> QED BY <1>1, EndMakes, IdleSnapshot, SnapshotStep

LEMMA SnapshotReading ==
    ASSUME StoreInv, Snapshots, NEW a \in Attempts, Reading(a)
    PROVE  Snapshots'
<1> DEFINE d == call[a]
<1>1. /\ call \in [Attempts -> Call] /\ d \in Call /\ d.spec \in CachedSpec
      /\ Snapshot(d)
  BY CallType, CallFields DEF Snapshots
<1>2. UNCHANGED rows /\ abandoned \subseteq abandoned'
  BY DEF Reading, Load, ReadModels, ReadRest
<1>3. CASE Load(a) /\ Active = None
  <2> DEFINE c == Made("cold", d.run, d.spec, d.mode, d.out, d.at)
  <2>1. Update(a, c) /\ d.pc = "load"
    BY <1>1, <1>3, GotoMakes DEF Load
  <2>2. c.spec = d.spec
    BY MadeFields
  <2> HIDE DEF c
  <2> QED BY <1>2, <2>1, <2>2, KeepsSnapshot, SnapshotStep
<1>4. CASE Load(a) /\ Active # None
  <2> DEFINE s == [Spec0 EXCEPT !.run = Active, !.winner = skuRun[Active].winner]
             c == Made("models", d.run, s, d.mode, d.out, d.at)
  <2>1. Active \in Runs /\ HasRow(Active)
    BY <1>4, ActiveHasRow
  <2>2. s.run = Active /\ s.winner = skuRun[Active].winner
    BY DEF Spec0
  <2>3. Update(a, c)
    BY <1>1, <1>4, LoadMakes
  <2>4. c.pc = "models" /\ c.spec = s
    BY MadeFields
  <2> HIDE DEF c, s
  <2>5. Snapshot(c)
    BY <2>1, <2>2, <2>4 DEF Snapshot
  <2> QED BY <1>2, <2>3, <2>5, SnapshotStep
<1>5. CASE ReadModels(a)
  <2> DEFINE S == {p \in Phases : models[d.spec.run][p] # None}
             s == WithModels(d.spec, S)
             c == Made("rest", d.run, s, d.mode, d.out, d.at)
  <2>1. Update(a, c)
    <3>1. call' = [call EXCEPT ![a].pc = "rest", ![a].spec.models = S]
      BY <1>5 DEF ReadModels
    <3> HIDE DEF S
    <3> QED BY <1>1, <3>1, SpecModelsMakes
  <2>2. s.run = d.spec.run /\ s.winner = d.spec.winner /\ s.models = S
    <3> HIDE DEF S
    <3> QED BY <1>1, SpecFields
  <2>3. c.pc = "rest" /\ c.spec = s
    BY MadeFields
  <2> HIDE DEF c, s
  <2>4. Snapshot(c)
    BY <1>1, <2>2, <2>3 DEF Snapshot
  <2> QED BY <1>2, <2>1, <2>4, SnapshotStep
<1>6. CASE ReadRest(a)
  <2> DEFINE S == {e \in Exogs : resid[d.spec.run][e] # None}
             s == WithResid(d.spec, S)
             p == IF plan[RunOf(a)].gate = "check" THEN "drift" ELSE "warm"
             c == Made(p, d.run, s, d.mode, d.out, d.at)
  <2>1. Update(a, c)
    <3>1. call' = [call EXCEPT ![a].pc = p, ![a].spec.resid = S]
      BY <1>6 DEF ReadRest
    <3> HIDE DEF S, p
    <3> QED BY <1>1, <3>1, SpecResidMakes
  <2>2. /\ s.run = d.spec.run /\ s.winner = d.spec.winner
        /\ s.models = d.spec.models /\ s.resid = S
    <3> HIDE DEF S
    <3> QED BY <1>1, SpecFields
  <2>3. c.spec = s /\ d.pc = "rest"
    BY <1>6, MadeFields DEF ReadRest
  <2> HIDE DEF c, s
  <2>4. Snapshot(c)
    BY <1>1, <2>2, <2>3 DEF Snapshot
  <2> QED BY <1>2, <2>1, <2>4, SnapshotStep
<1> QED BY <1>3, <1>4, <1>5, <1>6 DEF Reading

\* From the gate to the transaction an attempt goes by the spec it has read.
LEMMA SnapshotOnItsWay ==
    ASSUME StoreInv, Snapshots, NEW a \in Attempts,
           Deciding(a) \/ Answer(a) \/ BeginTx(a)
    PROVE  Snapshots'
<1> DEFINE d == call[a]
<1>1. call \in [Attempts -> Call] /\ d \in Call
  BY CallType
<1>2. d.pc \notin {"models", "rest"} /\ UNCHANGED rows /\ abandoned \subseteq abandoned'
  BY DEF Deciding, DriftAnswers, DriftFails, SendCold, SendWarm, Answer, BeginTx, rows
<1>3. PICK c : Update(a, c) /\ c.spec = d.spec
  <2>1. ASSUME NEW p, Goto(a, p) PROVE \E c : Update(a, c) /\ c.spec = d.spec
    BY <1>1, <2>1, GotoMakes, MadeFields
  <2>2. ASSUME NEW m, NEW o,
               call' = [call EXCEPT ![a].pc = "waiting", ![a].mode = m, ![a].out = o]
        PROVE  \E c : Update(a, c) /\ c.spec = d.spec
    <3> DEFINE e == Made("waiting", d.run, d.spec, m, o, d.at)
    <3>1. Update(a, e)
      BY <1>1, <2>2, OutMakes
    <3>2. e.spec = d.spec
      BY MadeFields
    <3> HIDE DEF e
    <3> QED BY <3>1, <3>2
  <2>3. ASSUME BeginTx(a) PROVE \E c : Update(a, c) /\ c.spec = d.spec
    <3>1. call' = [call EXCEPT ![a].pc = "tx", ![a].at = now + 1]
      BY <2>3 DEF BeginTx
    <3> DEFINE n == now + 1
               e == Made("tx", d.run, d.spec, d.mode, d.out, n)
    <3>2. Update(a, e)
      <4>1. call' = [call EXCEPT ![a].pc = "tx", ![a].at = n]
        BY <3>1
      <4> HIDE DEF n
      <4> QED BY <1>1, <4>1, AtMakes
    <3>3. e.spec = d.spec
      BY MadeFields
    <3> HIDE DEF e
    <3> QED BY <3>2, <3>3
  <2>4. CASE DriftAnswers(a)
    BY <2>1, <2>4 DEF DriftAnswers
  <2>5. CASE DriftFails(a) \/ Answer(a)
    BY <2>1, <2>5 DEF DriftFails, Answer
  <2>6. CASE SendCold(a)
    BY <2>2, <2>6 DEF SendCold
  <2>7. CASE SendWarm(a)
    BY <2>2, <2>7 DEF SendWarm
  <2> QED BY <2>3, <2>4, <2>5, <2>6, <2>7 DEF Deciding
<1> QED BY <1>2, <1>3, KeepsSnapshot, SnapshotStep

\* A run that was read has a row, and a run that has one is stored again only
\* when one of its attempts was given up on.
LEMMA SnapshotPersists ==
    ASSUME StoreInv, Snapshots, NEW a \in Attempts, Commit(a) \/ CommitLost(a)
    PROVE  Snapshots'
<1> DEFINE r == call[a].run
           o == call[a].out
<1>1. call[a].pc = "tx" /\ PersistResult(a) /\ abandoned \subseteq abandoned'
      /\ (Commit(a) \/ r \in abandoned')
  BY DEF Commit, CommitLost, RunOf
<1>2. call[a].pc \in Live /\ r \in Runs
  BY <1>1, LiveRun DEF Live, Pc
<1>3. Persisted(a, r, o)
  BY <1>1, <1>2, PersistFacts
<1>4. HasRow(r) => r \in abandoned'
  BY <1>1, <1>2, NothingSavedYet
<1>5. PICK p \in Pc : End(a, p)
  BY DEF Commit, CommitLost, Pc
<1>6. PICK k : k = Idle(r, p)
  OBVIOUS
<1>7. Update(a, k) /\ k.spec.run \notin Runs
  <2>1. k.spec = Spec0
    BY <1>2, <1>6, IdleFields
  <2>2. Spec0.run = None
    BY DEF Spec0
  <2> QED BY <1>5, <1>6, <2>1, <2>2, EndMakes, Constants
<1> HIDE DEF r, o
<1>8. ASSUME NEW b \in Attempts PROVE Snapshot(call[b])'
  <2>1. CASE b = a
    <3>1. call'[b] = k
      BY <1>7, <2>1, CallType DEF Update
    <3> QED BY <1>7, <3>1 DEF Snapshot
  <2>2. CASE b # a
    <3>1. PICK d : d = call[b]
      OBVIOUS
    <3>2. call'[b] = d /\ Snapshot(d)
      BY <1>7, <2>2, <3>1, CallType DEF Update, Snapshots
    <3>3. PICK s : s = d.spec
      OBVIOUS
    <3>4. s.run \in Runs => HasRow(s.run)'
      BY <1>2, <1>3, <3>2, <3>3, RowsStay DEF Snapshot
    <3>5. s.run \in Runs /\ s.run \notin abandoned' => s.run # r
      BY <1>4, <3>2, <3>3 DEF Snapshot
    <3>6. s.run \in Runs /\ s.run # r =>
            /\ skuRun'[s.run] = skuRun[s.run] /\ models'[s.run] = models[s.run]
            /\ resid'[s.run] = resid[s.run]
      BY <1>3 DEF Persisted
    <3>7. Snapshot(d)'
      BY <1>1, <3>2, <3>3, <3>4, <3>5, <3>6 DEF Snapshot
    <3> QED BY <3>2, <3>7
  <2> QED BY <2>1, <2>2
<1> QED BY <1>8 DEF Snapshots

LEMMA SnapshotsInit == ASSUME Init PROVE Snapshots
<1>1. \A a \in Attempts : call[a].spec.run = None
  BY DEF Init, NoCall, Spec0
<1> QED BY <1>1, Constants DEF Snapshots, Snapshot

LEMMA SnapshotsNext == ASSUME StoreInv, Snapshots, [Next]_vars PROVE Snapshots'
<1>1. CASE UNCHANGED <<call, rows, abandoned>>
  BY <1>1 DEF Snapshots, Snapshot, HasRow, rows
<1>2. ASSUME NEW r \in Runs, NEW a \in Attempts, Begin(a, r) PROVE Snapshots'
  <2> DEFINE p == IF plan[r].gate = "cold" THEN "cold" ELSE "load"
  <2>1. Update(a, Idle(r, p)) /\ UNCHANGED rows /\ abandoned \subseteq abandoned'
    BY <1>2 DEF Begin, Idle, Update
  <2>2. p \in Pc
    BY DEF Pc
  <2> HIDE DEF p
  <2> QED BY <2>1, <2>2, IdleSnapshot, SnapshotStep
<1>3. ASSUME NEW a \in Attempts, Errs(a) \/ WorkerFails(a) \/ GiveUp(a) \/ CompleteRun(a)
      PROVE  Snapshots'
  <2>1. PICK p \in Pc : End(a, p)
    BY <1>3 DEF Errs, WorkerFails, GiveUp, CompleteRun, Pc
  <2>2. UNCHANGED rows /\ abandoned \subseteq abandoned'
    BY <1>3 DEF Errs, WorkerFails, GiveUp, CompleteRun, rows
  <2> QED BY <2>1, <2>2, SnapshotEnds
<1>4. ASSUME NEW a \in Attempts, Working(a) PROVE Snapshots'
  <2>1. CASE SaveBlob(a)
    BY <1>1, <2>1 DEF SaveBlob
  <2> QED BY <1>3, <1>4, <2>1, SnapshotOnItsWay DEF Working
<1>5. ASSUME NEW a \in Attempts, Persisting(a) PROVE Snapshots'
  BY <1>3, <1>5, SnapshotOnItsWay, SnapshotPersists DEF Persisting
<1>6. CASE (\E r \in Runs : CreateRun(r)) \/ Pinning \/ UNCHANGED vars
  BY <1>1, <1>6 DEF CreateRun, Pinning, CheckPin, SetPin, DeletePin, vars
<1> QED BY <1>2, <1>4, <1>5, <1>6, SnapshotReading, SnapshotOnItsWay DEF Next

\* The spec read in four statements is what one run has stored, and stays so, unless
\* an attempt of that run was given up on.
THEOREM SpecIsASnapshotHolds == Spec => []SpecIsASnapshot
<1>1. Init => Snapshots
  BY SnapshotsInit
<1>2. StoreInv /\ Snapshots /\ [Next]_vars => Snapshots'
  BY SnapshotsNext
<1>3. Snapshots => SpecIsASnapshot
  BY DEF Snapshots, Snapshot, SpecIsASnapshot
<1> QED BY <1>1, <1>2, <1>3, StoreInvHolds, PTL DEF Spec

\* What set_sku_pin found completed stays readable through the pin.
THEOREM PinResolvesHolds == Spec => []PinResolves
<1>1. StoreInv => PinResolves
  BY DEF StoreInv, PinOK, Active, PinResolves
<1> QED BY <1>1, StoreInvHolds, PTL

\* A run single-sku completed has the forecast of the attempt it made.
THEOREM CompletedRunHasForecastHolds == Spec => []CompletedRunHasForecast
<1>1. ASSUME StoreInv PROVE CompletedRunHasForecast
  <2> SUFFICES ASSUME NEW r \in Runs, status[r] = "completed"
               PROVE  /\ HasRow(r)
                      /\ \E a \in Tries(r) : call[a].pc = "done" /\ skuRun[r].by = a
    BY DEF CompletedRunHasForecast
  <2>1. PICK a \in Attempts : call[a].run = r /\ call[a].pc = "done"
    BY <1>1 DEF StoreInv, RunsOK, RunOK
  <2>2. skuRun[r].by = a
    BY <1>1, <2>1, CallType DEF CallOK, Placed
  <2> QED BY <2>1, <2>2, Constants DEF HasRow, Tries
<1> QED BY <1>1, StoreInvHolds, PTL

\* The row of a run is only ever replaced by one of a younger transaction.
LEMMA RowsGetYounger ==
    ASSUME StoreInv, [Next]_vars, NEW r \in Runs, HasRow(r)
    PROVE  HasRow(r)' /\ skuRun[r].at <= skuRun'[r].at
<1>1. skuRun[r].at \in Nat
  BY DEF StoreInv, TypeOK
<1>2. CASE UNCHANGED skuRun
  BY <1>1, <1>2 DEF HasRow
<1>3. ASSUME NEW a \in Attempts, PersistResult(a), call[a].pc = "tx"
      PROVE  HasRow(r)' /\ skuRun[r].at <= skuRun'[r].at
  <2>1. call[a].run \in Runs
    BY <1>3, LiveRun DEF Pc
  <2>2. PICK q, o : q \in Runs /\ q = call[a].run /\ Persisted(a, q, o)
    BY <1>3, <2>1, PersistFacts
  <2>3. HasRow(r)'
    BY <2>2, RowsStay
  <2>4. CASE r = q
    <3>1. skuRun[r].at < call[a].at /\ skuRun'[r].at = call[a].at
      BY <1>3, <2>2, <2>4, CallType DEF CallOK, Placed, Persisted
    <3>2. call[a].at \in Nat
      BY CallType, CallFields
    <3> QED BY <1>1, <2>3, <3>1, <3>2
  <2>5. CASE r # q
    BY <1>1, <2>2, <2>3, <2>5 DEF Persisted
  <2> QED BY <2>4, <2>5
<1>4. UNCHANGED skuRun \/ \E a \in Attempts : Commit(a) \/ CommitLost(a)
  BY DEF Next, vars, rows, CreateRun, Begin, Reading, Load, ReadModels, ReadRest,
         Deciding, DriftAnswers, DriftFails, SendCold, SendWarm, Working, SaveBlob, Answer,
         WorkerFails, GiveUp, Errs, Persisting, BeginTx, CompleteRun,
         Pinning, CheckPin, SetPin, DeletePin
<1> QED BY <1>2, <1>3, <1>4 DEF Commit, CommitLost

LatestFound ==
    TypeOK /\ HasLatest => /\ Latest # None => IsLatest(Latest)
                           /\ Latest = None => \A q \in Runs : ~ HasRow(q)

\* LatestIsThere, of the state after a step.
LEMMA LatestIsThereAfter == LatestFound'
<1>1. LatestFound
  BY LatestIsThere DEF LatestFound
<1> QED BY <1>1, PTL

\* The latest run never moves back in time, in whatever order transactions commit.
THEOREM LatestIsMonotoneHolds == Spec => LatestIsMonotone
<1>1. ASSUME StoreInv, StoreInv', [Next]_vars, Latest # None
      PROVE  skuRun'[Latest'].at >= skuRun[Latest].at
  <2>1. IsLatest(Latest)
    BY <1>1, LatestIsThere DEF StoreInv
  <2>2. PICK r \in Runs : r = Latest /\ HasRow(r)
    BY <2>1 DEF IsLatest
  <2>3. HasRow(r)' /\ skuRun[r].at <= skuRun'[r].at
    BY <1>1, <2>2, RowsGetYounger
  <2>4. (Latest # None => IsLatest(Latest))' /\ (Latest = None => \A q \in Runs : ~ HasRow(q))'
    BY <1>1, LatestIsThereAfter DEF StoreInv, LatestFound
  <2>5. PICK m \in Runs : m = Latest' /\ HasRow(m)'
          /\ (skuRun'[r].at < skuRun'[m].at \/ skuRun'[r].at = skuRun'[m].at)
    BY <2>3, <2>4 DEF IsLatest
  <2>6. skuRun[r].at \in Nat /\ skuRun'[r].at \in Nat /\ skuRun'[m].at \in Nat
    BY <1>1 DEF StoreInv, TypeOK
  <2> QED BY <2>2, <2>3, <2>5, <2>6
<1>2. StoreInv /\ StoreInv' /\ [Next]_vars
        => [skuRun' # skuRun /\ Latest # None
              => skuRun'[Latest'].at >= skuRun[Latest].at]_vars
  BY <1>1
<1> QED BY <1>2, StoreInvHolds, PTL DEF Spec, LatestIsMonotone
=============================================================================
