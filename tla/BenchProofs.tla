----------------------------- MODULE BenchProofs -----------------------------
(***************************************************************************)
(* The safety properties of Bench, proved for every number of requests,    *)
(* engines, variants, ticks and repeats, and whatever the runs take.       *)
(***************************************************************************)
EXTENDS Bench, FiniteSetTheorems, TLAPS

HandlerTyped == handler \in [Requests -> {"new", "running", "refused", "answered"}]

\* The slot and the handlers together: nobody holds it, or the one that runs.
SlotInv ==
  /\ HandlerTyped
  /\ ~Unlimited => \/ slot = 0 /\ Running = {}
                   \/ slot = 1 /\ \E q \in Requests : Running = {q}

LEMMA SlotInvInit == Init => SlotInv
BY DEF Init, SlotInv, HandlerTyped, Running

LEMMA SlotInvNext == SlotInv /\ [Next]_vars => SlotInv'
<1> SUFFICES ASSUME SlotInv, [Next]_vars PROVE SlotInv'
  OBVIOUS
<1>1. ASSUME NEW q \in Requests, Admit(q) PROVE SlotInv'
  <2>1. HandlerTyped' /\ Running' = Running \cup {q}
    BY <1>1 DEF Admit, SlotInv, HandlerTyped, Running
  <2>2. ~Unlimited => slot' = 1 /\ Running' = {q}
    BY <1>1, <2>1 DEF Admit, SlotInv, Vacant
  <2> QED
    BY <2>1, <2>2 DEF SlotInv
<1>2. ASSUME NEW q \in Requests, Answer(q) PROVE SlotInv'
  <2>1. HandlerTyped' /\ q \in Running /\ Running' = Running \ {q}
    BY <1>2 DEF Answer, SlotInv, HandlerTyped, Running
  <2>2. ~Unlimited => slot' = 0 /\ Running' = {}
    BY <1>2, <2>1 DEF Answer, SlotInv, Freed
  <2> QED
    BY <2>1, <2>2 DEF SlotInv
<1>3. ASSUME NEW q \in Requests, Refuse(q) PROVE SlotInv'
  <2>1. HandlerTyped' /\ Running' = Running /\ slot' = slot
    BY <1>3 DEF Refuse, SlotInv, HandlerTyped, Running
  <2> QED
    BY <2>1 DEF SlotInv
<1>4. CASE UNCHANGED <<slot, handler>>
  BY <1>4 DEF SlotInv, HandlerTyped, Running
<1> QED
  BY <1>1, <1>2, <1>3, <1>4 DEF Next, TimeOut, HangUp, Handler, RunTick, RunReturns,
     AddRow, AddError, vars

\* Two benches never share the cores, and the slot is held by a bench that
\* runs and by nothing else, whichever requests overlap and however their
\* contexts end (server.go 33-36, 334-340).
THEOREM BenchesTakeTurns == Spec => []OneBenchAtATime
<1>1. SlotInv => OneBenchAtATime
  <2> SUFFICES ASSUME SlotInv, ~Unlimited PROVE Cardinality(Running) <= 1 /\ slot = Cardinality(Running)
    BY DEF OneBenchAtATime
  <2>1. CASE slot = 0 /\ Running = {}
    BY <2>1, FS_EmptySet
  <2>2. CASE slot = 1 /\ \E q \in Requests : Running = {q}
    <3>1. PICK q \in Requests : Running = {q}
      BY <2>2
    <3>2. Cardinality(Running) = 1
      BY <3>1, FS_Singleton
    <3> QED
      BY <2>2, <3>2
  <2> QED
    BY <2>1, <2>2 DEF SlotInv
<1> QED
  BY <1>1, SlotInvInit, SlotInvNext, PTL DEF Spec

(***************************************************************************)
(* The table of a bench.                                                   *)
(***************************************************************************)
Checksums == [variant : Variants, ticks : Nat, by : Known \cup {None}]
RowType == [engine : DOMAIN VariantOf, ticks : Nat, wall : Nat, over : Nat, mismatched : BOOLEAN]

JobTyped ==
  /\ engines \in [Requests -> Seq(DOMAIN VariantOf)]
  /\ ctx \in [Requests -> {"live", "timedOut", "gone"}]
  /\ row \in [Requests -> Nat \ {0}]
  /\ i \in [Requests -> Nat] /\ tick \in [Requests -> Nat]
  /\ best \in [Requests -> [ticks : Nat, wall : WallTimes \cup {None},
                            checksum : Checksums \cup {None}]]
  /\ refChecksum \in [Requests -> [Variants -> Checksums \cup {None}]]
  /\ baseline \in [Requests -> [Variants -> Nat]]
  /\ rows \in [Requests -> Seq(RowType)]

\* What is kept between the repeats is a run of the engine that repeats, and a
\* whole one as long as the context lives; a new engine starts from nothing.
BestIsOfThisEngine(q) ==
  /\ i[q] = 0 => best[q] = NoRun
  /\ i[q] > 0 =>
       /\ row[q] <= Len(engines[q]) /\ Current(q) \in Known
       /\ best[q].wall \in WallTimes
       /\ best[q].checksum = Checksum(Current(q), best[q].ticks)
       /\ ctx[q] = "live" => best[q].ticks = Ticks

\* The rows of q that count for variant v.
RowsOf(q, v) == {n \in Rows(q) : VariantOf[rows[q][n].engine] = v}
Sum(r) == Checksum(r.engine, r.ticks)

\* refChecksum of v is that of the first row m of v, and every row of v was
\* compared with it.
Led(q, v, m) ==
  /\ m \in RowsOf(q, v)
  /\ refChecksum[q][v] = Sum(rows[q][m])
  /\ \A n \in RowsOf(q, v) :
       m <= n /\ rows[q][n].mismatched = (Sum(rows[q][n]) # refChecksum[q][v])

Unled(q, v) == refChecksum[q][v] = None /\ RowsOf(q, v) = {}

TableSound(q) == \A v \in Variants : Unled(q, v) \/ \E m \in RowsOf(q, v) : Led(q, v, m)

\* baseline of v is the wall time of the first row m of v that took any, and every
\* row of v that took any was measured against it; the others show no speedup.
Timed(q, v) == {n \in RowsOf(q, v) : rows[q][n].wall > 0}

Paced(q, v, m) ==
  /\ m \in Timed(q, v)
  /\ baseline[q][v] = rows[q][m].wall
  /\ \A n \in Timed(q, v) : m <= n /\ rows[q][n].over = baseline[q][v]

Unpaced(q, v) == baseline[q][v] = 0 /\ Timed(q, v) = {}

SpeedSound(q) ==
  /\ \A v \in Variants : Unpaced(q, v) \/ \E m \in Timed(q, v) : Paced(q, v, m)
  /\ \A n \in Rows(q) : rows[q][n].wall = 0 => rows[q][n].over = 0

RowsWhole(q) == \A n \in Rows(q) : ctx[q] = "live" => rows[q][n].ticks = Ticks

TableInv ==
  /\ JobTyped
  /\ \A q \in Requests : BestIsOfThisEngine(q) /\ TableSound(q) /\ SpeedSound(q) /\ RowsWhole(q)

LEMMA ChecksumType ==
  ASSUME NEW e \in Known, NEW n \in Nat
  PROVE  /\ Checksum(e, n) \in Checksums /\ Checksum(e, n) # None
         /\ VariantOf[e] \in Variants /\ e \in DOMAIN VariantOf
<1>1. e \in DOMAIN VariantOf /\ VariantOf[e] \in Variants
  BY BenchAssumption DEF Variants
<1>2. Checksum(e, n) \in Checksums
  BY <1>1 DEF Checksum, Checksums
<1>3. None \notin Checksums
  BY BenchAssumption DEF Checksums, Variants
<1> QED
  BY <1>1, <1>2, <1>3

LEMMA TableInvInit == Init => TableInv
<1> SUFFICES ASSUME Init PROVE TableInv
  OBVIOUS
<1>1. engines \in [Requests -> Seq(DOMAIN VariantOf)]
  BY BenchAssumption DEF Init
<1>2. NoRun \in [ticks : Nat, wall : WallTimes \cup {None}, checksum : Checksums \cup {None}]
  BY DEF NoRun
<1>3. JobTyped
  BY <1>1, <1>2 DEF Init, JobTyped
<1>4. ASSUME NEW q \in Requests PROVE Rows(q) = {}
  BY DEF Init, Rows
<1>5. ASSUME NEW q \in Requests
      PROVE  BestIsOfThisEngine(q) /\ TableSound(q) /\ SpeedSound(q) /\ RowsWhole(q)
  <2>1. \A v \in Variants : RowsOf(q, v) = {}
    BY <1>4, <1>5 DEF RowsOf
  <2>2. TableSound(q)
    BY <2>1, <1>5 DEF TableSound, Unled, Init
  <2>3. BestIsOfThisEngine(q)
    BY <1>5 DEF BestIsOfThisEngine, Init
  <2>4. SpeedSound(q)
    BY <2>1, <1>4, <1>5 DEF SpeedSound, Unpaced, Timed, Init
  <2> QED
    BY <2>2, <2>3, <2>4, <1>4, <1>5 DEF RowsWhole
<1> QED
  BY <1>3, <1>5 DEF TableInv

\* What one request does leaves the others' tables alone, and a table nobody
\* touches stays sound when its context ends.
LEMMA TableKept ==
  ASSUME NEW q \in Requests, row'[q] = row[q], i'[q] = i[q], best'[q] = best[q],
         refChecksum'[q] = refChecksum[q], baseline'[q] = baseline[q], rows'[q] = rows[q],
         UNCHANGED engines, ctx'[q] = "live" => ctx[q] = "live",
         BestIsOfThisEngine(q), TableSound(q), SpeedSound(q), RowsWhole(q)
  PROVE  BestIsOfThisEngine(q)' /\ TableSound(q)' /\ SpeedSound(q)' /\ RowsWhole(q)'
<1>1. Rows(q)' = Rows(q)
  BY DEF Rows
<1>2. \A v \in Variants : RowsOf(q, v)' = RowsOf(q, v)
  BY <1>1 DEF RowsOf
<1>3. RowsWhole(q)'
  BY <1>1 DEF RowsWhole
<1>4. BestIsOfThisEngine(q)'
  BY DEF BestIsOfThisEngine, Current
<1>5. TableSound(q)'
  BY <1>2 DEF TableSound, Led, Unled
<1>6. SpeedSound(q)'
  BY <1>1, <1>2 DEF SpeedSound, Paced, Unpaced, Timed
<1> QED
  BY <1>3, <1>4, <1>5, <1>6

LEMMA TableRunReturns ==
  ASSUME TableInv, NEW q \in Requests, NEW w \in WallTimes, RunReturns(q, w)
  PROVE  TableInv'
<1> DEFINE new == [ticks |-> tick[q], wall |-> w, checksum |-> Checksum(Current(q), tick[q])]
<1>1. JobTyped
  BY DEF TableInv
<1>2. /\ row[q] \in Nat \ {0} /\ row[q] <= Len(engines[q]) /\ Current(q) \in Known
      /\ i[q] \in Nat /\ tick[q] \in Nat /\ i'[q] = i[q] + 1
      /\ ctx[q] = "live" => tick[q] = Ticks
  BY <1>1 DEF RunReturns, InRun, JobTyped
<1>3. new \in [ticks : Nat, wall : WallTimes \cup {None}, checksum : Checksums \cup {None}]
  BY <1>2, ChecksumType
<1>4. best' = [best EXCEPT ![q] = IF Faster(w, @) THEN new ELSE @]
  BY DEF RunReturns
<1> HIDE DEF new
<1>5. JobTyped'
  BY <1>1, <1>2, <1>3, <1>4 DEF RunReturns, JobTyped
<1>6. BestIsOfThisEngine(q)'
  <2>1. best'[q] = IF Faster(w, best[q]) THEN new ELSE best[q]
    BY <1>1, <1>4 DEF JobTyped
  <2>2. Current(q)' = Current(q) /\ engines' = engines /\ row' = row /\ ctx' = ctx
    BY DEF RunReturns, Current
  <2>3. CASE best'[q] = new
    BY <1>2, <2>2, <2>3 DEF BestIsOfThisEngine, new
  <2>4. CASE best'[q] = best[q] /\ ~Faster(w, best[q])
    <3>1. i[q] # 0
      BY <2>4 DEF TableInv, BestIsOfThisEngine, Faster, NoRun
    <3> QED
      BY <1>2, <2>2, <2>4, <3>1 DEF TableInv, BestIsOfThisEngine
  <2> QED
    BY <2>1, <2>3, <2>4
<1>7. TableSound(q)' /\ SpeedSound(q)' /\ RowsWhole(q)'
  <2>1. /\ refChecksum' = refChecksum /\ baseline' = baseline /\ rows' = rows /\ ctx' = ctx
    BY DEF RunReturns
  <2>2. Rows(q)' = Rows(q) /\ \A v \in Variants : RowsOf(q, v)' = RowsOf(q, v)
    BY <2>1 DEF Rows, RowsOf
  <2>3. TableSound(q)' /\ RowsWhole(q)'
    BY <2>1, <2>2 DEF TableInv, TableSound, Led, Unled, RowsWhole
  <2>4. SpeedSound(q)'
    BY <2>1, <2>2 DEF TableInv, SpeedSound, Paced, Unpaced, Timed
  <2> QED
    BY <2>3, <2>4
<1>8. ASSUME NEW p \in Requests, p # q
      PROVE  BestIsOfThisEngine(p)' /\ TableSound(p)' /\ SpeedSound(p)' /\ RowsWhole(p)'
  <2>1. /\ row'[p] = row[p] /\ i'[p] = i[p] /\ best'[p] = best[p] /\ UNCHANGED <<engines, ctx>>
        /\ refChecksum' = refChecksum /\ baseline' = baseline /\ rows' = rows
    BY <1>1, <1>8 DEF RunReturns, JobTyped
  <2> QED
    BY <2>1, <1>8, TableKept DEF TableInv
<1> QED
  BY <1>5, <1>6, <1>7, <1>8 DEF TableInv

\* A row that is appended: the others keep their places.
LEMMA RowAppended ==
  ASSUME JobTyped, NEW q \in Requests, NEW r \in RowType, rows'[q] = Append(rows[q], r)
  PROVE  /\ Len(rows[q]) \in Nat /\ DOMAIN rows[q] = 1 .. Len(rows[q])
         /\ \A n \in DOMAIN rows[q] : rows'[q][n] = rows[q][n]
         /\ rows'[q][Len(rows[q]) + 1] = r
         /\ Rows(q)' = Rows(q) \cup (IF r.engine \in Known THEN {Len(rows[q]) + 1} ELSE {})
         /\ \A n \in Rows(q) : n \in Nat /\ n <= Len(rows[q])
<1>1. rows[q] \in Seq(RowType)
  BY DEF JobTyped
<1>2. /\ Len(rows[q]) \in Nat /\ DOMAIN rows[q] = 1 .. Len(rows[q])
      /\ Len(rows'[q]) = Len(rows[q]) + 1 /\ DOMAIN rows'[q] = 1 .. Len(rows[q]) + 1
      /\ \A n \in DOMAIN rows[q] : rows'[q][n] = rows[q][n]
      /\ rows'[q][Len(rows[q]) + 1] = r
  BY <1>1
<1>3. DOMAIN rows'[q] = DOMAIN rows[q] \cup {Len(rows[q]) + 1}
  BY <1>2
<1>4. Rows(q)' = Rows(q) \cup (IF r.engine \in Known THEN {Len(rows[q]) + 1} ELSE {})
  BY <1>2, <1>3 DEF Rows
<1> QED
  BY <1>2, <1>4 DEF Rows

LEMMA TableAddRow ==
  ASSUME TableInv, NEW q \in Requests, AddRow(q)
  PROVE  TableInv'
<1>1. JobTyped /\ BestIsOfThisEngine(q) /\ TableSound(q) /\ SpeedSound(q) /\ RowsWhole(q)
  BY DEF TableInv
<1>2. /\ Current(q) \in Known /\ i[q] \in Nat /\ i[q] > 0
      /\ VariantOf[Current(q)] \in Variants /\ Len(rows[q]) \in Nat
  BY <1>1, BenchAssumption DEF AddRow, Repeats, JobTyped, Variants
<1> PICK e \in Known, u \in Variants, l \in Nat \ {0} :
      e = Current(q) /\ u = VariantOf[e] /\ l = Len(rows[q]) + 1
  BY <1>2
<1> DEFINE ref == IF refChecksum[q][u] = None THEN best[q].checksum ELSE refChecksum[q][u]
           bas == Baseline(q, u)
           over == Over(q, u)
           r == [engine |-> e, ticks |-> best[q].ticks, wall |-> best[q].wall,
                 over |-> over, mismatched |-> best[q].checksum # ref]
<1>3. /\ best[q].wall \in WallTimes /\ best[q].wall \in Nat
      /\ best[q].ticks \in Nat /\ best[q].checksum = Checksum(e, best[q].ticks)
      /\ ctx[q] = "live" => best[q].ticks = Ticks
  BY <1>1, <1>2, BenchAssumption DEF BestIsOfThisEngine, JobTyped
<1>4. /\ best[q].checksum \in Checksums /\ best[q].checksum # None
      /\ u \in Variants /\ e \in DOMAIN VariantOf
  BY <1>2, <1>3, ChecksumType
<1>5. /\ refChecksum' = [refChecksum EXCEPT ![q][u] = ref]
      /\ baseline' = [baseline EXCEPT ![q][u] = bas]
      /\ rows' = [rows EXCEPT ![q] = Append(@, r)]
      /\ row' = [row EXCEPT ![q] = @ + 1] /\ i' = [i EXCEPT ![q] = 0]
      /\ best' = [best EXCEPT ![q] = NoRun]
      /\ UNCHANGED <<engines, ctx, tick>>
  BY DEF AddRow, Group
<1>6. ref \in Checksums \cup {None} /\ bas \in Nat /\ over \in Nat /\ r \in RowType
  BY <1>1, <1>3, <1>4 DEF JobTyped, RowType, Baseline, Over
<1>7. /\ Sum(r) = best[q].checksum /\ r.engine = e /\ r.wall = best[q].wall
      /\ r.ticks = best[q].ticks /\ r.over = over /\ r.mismatched = (best[q].checksum # ref)
  BY <1>3 DEF Sum
<1> HIDE DEF ref, bas, over, r
<1>8. JobTyped'
  <2>1. rows[q] \in Seq(RowType) /\ Append(rows[q], r) \in Seq(RowType)
    BY <1>1, <1>6 DEF JobTyped
  <2>2. NoRun \in [ticks : Nat, wall : WallTimes \cup {None}, checksum : Checksums \cup {None}]
    BY DEF NoRun
  <2>3. refChecksum' \in [Requests -> [Variants -> Checksums \cup {None}]]
    BY <1>1, <1>4, <1>5, <1>6 DEF JobTyped
  <2>4. baseline' \in [Requests -> [Variants -> Nat]]
    BY <1>1, <1>4, <1>5, <1>6 DEF JobTyped
  <2>5. /\ rows' \in [Requests -> Seq(RowType)]
        /\ row' \in [Requests -> Nat \ {0}] /\ i' \in [Requests -> Nat]
    BY <1>1, <1>5, <2>1 DEF JobTyped
  <2>6. best' \in [Requests -> [ticks : Nat, wall : WallTimes \cup {None},
                                checksum : Checksums \cup {None}]]
    BY <1>1, <1>5, <2>2 DEF JobTyped
  <2> QED
    BY <1>1, <1>5, <2>3, <2>4, <2>5, <2>6 DEF JobTyped
<1>9. /\ rows'[q] = Append(rows[q], r)
      /\ refChecksum'[q] = [refChecksum[q] EXCEPT ![u] = ref]
      /\ baseline'[q] = [baseline[q] EXCEPT ![u] = bas]
      /\ i'[q] = 0 /\ best'[q] = NoRun /\ ctx'[q] = ctx[q]
  BY <1>1, <1>5 DEF JobTyped
<1>10. /\ Len(rows[q]) \in Nat /\ DOMAIN rows[q] = 1 .. Len(rows[q])
       /\ \A n \in DOMAIN rows[q] : rows'[q][n] = rows[q][n]
       /\ rows'[q][l] = r
       /\ Rows(q)' = Rows(q) \cup {l}
       /\ \A n \in Rows(q) : n \in Nat /\ n < l /\ n \in DOMAIN rows[q]
  BY <1>1, <1>2, <1>6, <1>7, <1>9, RowAppended DEF Rows
<1>11. /\ RowsOf(q, u)' = RowsOf(q, u) \cup {l}
       /\ \A v \in Variants \ {u} : RowsOf(q, v)' = RowsOf(q, v)
  BY <1>7, <1>10 DEF RowsOf
<1>12. BestIsOfThisEngine(q)'
  BY <1>9 DEF BestIsOfThisEngine
<1>13. RowsWhole(q)'
  BY <1>1, <1>3, <1>7, <1>9, <1>10 DEF RowsWhole
<1>14. ASSUME NEW v \in Variants, v # u
       PROVE  /\ Unled(q, v)' \/ \E m \in RowsOf(q, v)' : Led(q, v, m)'
              /\ Unpaced(q, v)' \/ \E m \in Timed(q, v)' : Paced(q, v, m)'
  <2>1. /\ refChecksum'[q][v] = refChecksum[q][v] /\ baseline'[q][v] = baseline[q][v]
        /\ RowsOf(q, v)' = RowsOf(q, v)
        /\ \A n \in RowsOf(q, v) : rows'[q][n] = rows[q][n]
    BY <1>1, <1>9, <1>10, <1>11, <1>14 DEF JobTyped, RowsOf
  <2>2. Timed(q, v)' = Timed(q, v) /\ \A n \in Timed(q, v) : n \in RowsOf(q, v)
    BY <2>1 DEF Timed
  <2>3. Unled(q, v)' \/ \E m \in RowsOf(q, v)' : Led(q, v, m)'
    BY <1>1, <1>14, <2>1 DEF TableSound, Unled, Led
  <2>4. Unpaced(q, v)' \/ \E m \in Timed(q, v)' : Paced(q, v, m)'
    BY <1>1, <1>14, <2>1, <2>2 DEF SpeedSound, Unpaced, Paced
  <2> QED
    BY <2>3, <2>4
<1>15. \E m \in RowsOf(q, u)' : Led(q, u, m)'
  <2>1. refChecksum'[q][u] = ref
    BY <1>1, <1>4, <1>9 DEF JobTyped
  <2>2. CASE Unled(q, u)
    <3>1. ref = best[q].checksum
      BY <2>2 DEF Unled, ref
    <3>2. RowsOf(q, u)' = {l}
      BY <2>2, <1>11 DEF Unled
    <3>3. l <= l
      BY <1>10
    <3>4. r.mismatched = (Sum(r) # ref)
      BY <1>7, Zenon
    <3>5. Led(q, u, l)'
      BY <2>1, <3>1, <3>2, <3>3, <3>4, <1>7, <1>10 DEF Led
    <3> QED
      BY <3>2, <3>5
  <2>3. CASE \E m \in RowsOf(q, u) : Led(q, u, m)
    <3>1. PICK m \in RowsOf(q, u) : Led(q, u, m)
      BY <2>3
    <3>2. /\ m \in Rows(q) /\ m \in Nat /\ m < l /\ rows'[q][m] = rows[q][m]
      BY <3>1, <1>10 DEF RowsOf
    <3>3. refChecksum[q][u] # None
      <4>1. rows[q][m].engine \in Known /\ rows[q][m].ticks \in Nat
        <5>1. rows[q] \in Seq(RowType) /\ m \in 1 .. Len(rows[q]) /\ rows[q][m].engine \in Known
          BY <3>2, <1>1, <1>10 DEF Rows, JobTyped
        <5>2. rows[q][m] \in RowType
          BY <5>1
        <5> QED
          BY <5>1, <5>2 DEF RowType
      <4> QED
        BY <3>1, <4>1, ChecksumType DEF Led, Sum
    <3>4. ref = refChecksum[q][u]
      BY <3>3 DEF ref
    <3>5. ASSUME NEW n \in RowsOf(q, u)'
          PROVE  m <= n /\ rows'[q][n].mismatched = (Sum(rows'[q][n]) # ref)
      <4>1. CASE n = l
        BY <4>1, <3>2, <1>7, <1>10
      <4>2. CASE n \in RowsOf(q, u)
        <5>1. rows'[q][n] = rows[q][n]
          BY <4>2, <1>10 DEF RowsOf
        <5> QED
          BY <4>2, <5>1, <3>1, <3>4 DEF Led
      <4> QED
        BY <3>5, <4>1, <4>2, <1>11
    <3>6. Led(q, u, m)'
      BY <2>1, <3>1, <3>2, <3>4, <3>5, <1>11 DEF Led
    <3> QED
      BY <3>1, <3>6, <1>11
  <2> QED
    BY <2>2, <2>3, <1>1, <1>4 DEF TableSound
<1>16. TableSound(q)'
  BY <1>14, <1>15 DEF TableSound
\* A row that took no time leaves the baseline as it was; one that did is measured
\* against it, or sets it.
<1>17. Unpaced(q, u)' \/ \E m \in Timed(q, u)' : Paced(q, u, m)'
  <2>1. baseline'[q][u] = bas
    BY <1>1, <1>4, <1>9 DEF JobTyped
  <2>2. /\ baseline[q][u] \in Nat /\ baseline[q][u] = 0 => bas = best[q].wall
        /\ baseline[q][u] # 0 => bas = baseline[q][u]
        /\ best[q].wall > 0 => over = bas
    BY <1>1, <1>3, <1>4 DEF JobTyped, bas, over, Baseline, Over
  <2>3. /\ Timed(q, u)' = Timed(q, u) \cup (IF best[q].wall > 0 THEN {l} ELSE {})
        /\ \A n \in Timed(q, u) : n \in Nat /\ n < l /\ rows'[q][n] = rows[q][n]
    BY <1>7, <1>10, <1>11 DEF Timed, RowsOf
  <2>4. CASE Unpaced(q, u) /\ best[q].wall > 0
    <3>1. Timed(q, u)' = {l} /\ bas = best[q].wall /\ over = bas
      BY <2>2, <2>3, <2>4 DEF Unpaced
    <3>2. l <= l
      BY <1>10
    <3>3. Paced(q, u, l)'
      BY <2>1, <3>1, <3>2, <1>7, <1>10 DEF Paced
    <3> QED
      BY <3>1, <3>3
  <2>5. CASE Unpaced(q, u) /\ ~(best[q].wall > 0)
    BY <2>1, <2>2, <2>3, <2>5, <1>3 DEF Unpaced
  <2>6. CASE \E m \in Timed(q, u) : Paced(q, u, m)
    <3>1. PICK m \in Timed(q, u) : Paced(q, u, m)
      BY <2>6
    <3>2. baseline[q][u] # 0
      BY <3>1 DEF Paced, Timed
    <3>3. ASSUME NEW n \in Timed(q, u)' PROVE m <= n /\ rows'[q][n].over = bas
      <4>1. CASE n = l /\ best[q].wall > 0
        BY <4>1, <2>2, <2>3, <3>1, <1>7, <1>10
      <4>2. CASE n \in Timed(q, u)
        BY <4>2, <2>2, <2>3, <3>1, <3>2 DEF Paced
      <4> QED
        BY <3>3, <4>1, <4>2, <2>3
    <3>4. m \in Timed(q, u)' /\ bas = rows'[q][m].wall
      BY <2>2, <2>3, <3>1, <3>2 DEF Paced
    <3> QED
      BY <2>1, <3>3, <3>4 DEF Paced
  <2> QED
    BY <2>4, <2>5, <2>6, <1>1, <1>4 DEF SpeedSound
<1>18. SpeedSound(q)'
  <2>1. ASSUME NEW n \in Rows(q)', rows'[q][n].wall = 0 PROVE rows'[q][n].over = 0
    <3>1. CASE n = l
      BY <2>1, <3>1, <1>3, <1>7, <1>10 DEF over, Over
    <3>2. CASE n \in Rows(q)
      BY <2>1, <3>2, <1>1, <1>10 DEF SpeedSound
    <3> QED
      BY <2>1, <3>1, <3>2, <1>10
  <2> QED
    BY <2>1, <1>14, <1>17 DEF SpeedSound
<1>19. ASSUME NEW p \in Requests, p # q
       PROVE  BestIsOfThisEngine(p)' /\ TableSound(p)' /\ SpeedSound(p)' /\ RowsWhole(p)'
  <2>1. /\ row'[p] = row[p] /\ i'[p] = i[p] /\ best'[p] = best[p] /\ UNCHANGED <<engines, ctx>>
        /\ refChecksum'[p] = refChecksum[p] /\ baseline'[p] = baseline[p] /\ rows'[p] = rows[p]
    BY <1>1, <1>5, <1>19 DEF JobTyped
  <2> QED
    BY <2>1, <1>19, TableKept DEF TableInv
<1> QED
  BY <1>8, <1>12, <1>13, <1>16, <1>18, <1>19 DEF TableInv

LEMMA TableAddError ==
  ASSUME TableInv, NEW q \in Requests, AddError(q)
  PROVE  TableInv'
<1> DEFINE r == [engine |-> Current(q), ticks |-> 0, wall |-> 0, over |-> 0, mismatched |-> FALSE]
<1>1. JobTyped /\ BestIsOfThisEngine(q) /\ TableSound(q) /\ SpeedSound(q) /\ RowsWhole(q)
  BY DEF TableInv
<1>2. Current(q) \in DOMAIN VariantOf
  BY <1>1 DEF AddError, JobTyped, Current
<1>3. r \in RowType
  BY <1>2 DEF RowType
<1>4. rows' = [rows EXCEPT ![q] = Append(@, r)] /\ r.engine \notin Known
  BY DEF AddError
<1>5. rows[q] \in Seq(RowType) /\ Append(rows[q], r) \in Seq(RowType) /\ rows'[q] = Append(rows[q], r)
  BY <1>1, <1>3, <1>4 DEF JobTyped
<1> HIDE DEF r
<1>6. JobTyped'
  BY <1>1, <1>4, <1>5 DEF AddError, JobTyped
<1>7. Rows(q)' = Rows(q) /\ \A n \in Rows(q) : rows'[q][n] = rows[q][n]
  BY <1>1, <1>3, <1>4, <1>5, RowAppended DEF Rows
<1>8. \A v \in Variants : RowsOf(q, v)' = RowsOf(q, v)
  BY <1>7 DEF RowsOf
<1>9. RowsWhole(q)'
  BY <1>1, <1>7 DEF RowsWhole, AddError
<1>10. TableSound(q)'
  <2>1. refChecksum' = refChecksum /\ baseline' = baseline
    BY DEF AddError
  <2>2. \A v \in Variants : \A n \in RowsOf(q, v) : rows'[q][n] = rows[q][n]
    BY <1>7 DEF RowsOf
  <2> QED
    BY <1>1, <1>8, <2>1, <2>2 DEF TableSound, Led, Unled
<1>11. SpeedSound(q)'
  <2>1. baseline' = baseline
    BY DEF AddError
  <2>2. /\ \A v \in Variants : Timed(q, v)' = Timed(q, v)
        /\ \A v \in Variants : \A n \in Timed(q, v) : rows'[q][n] = rows[q][n]
    BY <1>7, <1>8 DEF Timed, RowsOf
  <2> QED
    BY <1>1, <1>7, <2>1, <2>2 DEF SpeedSound, Paced, Unpaced
<1>12. BestIsOfThisEngine(q)'
  <2>1. i[q] \in Nat /\ ~(i[q] > 0)
    BY <1>1 DEF BestIsOfThisEngine, AddError, JobTyped
  <2> QED
    BY <1>1, <2>1 DEF BestIsOfThisEngine, AddError
<1>13. ASSUME NEW p \in Requests, p # q
       PROVE  BestIsOfThisEngine(p)' /\ TableSound(p)' /\ SpeedSound(p)' /\ RowsWhole(p)'
  <2>1. /\ row'[p] = row[p] /\ i'[p] = i[p] /\ best'[p] = best[p] /\ UNCHANGED <<engines, ctx>>
        /\ refChecksum'[p] = refChecksum[p] /\ baseline'[p] = baseline[p] /\ rows'[p] = rows[p]
    BY <1>1, <1>13 DEF JobTyped, AddError
  <2> QED
    BY <2>1, <1>13, TableKept DEF TableInv
<1> QED
  BY <1>6, <1>9, <1>10, <1>11, <1>12, <1>13 DEF TableInv

LEMMA TableInvNext == TableInv /\ [Next]_vars => TableInv'
<1> SUFFICES ASSUME TableInv, [Next]_vars PROVE TableInv'
  OBVIOUS
\* Steps that leave every table alone: the context may end, a tick may pass.
<1>1. ASSUME UNCHANGED <<engines, row, i, best, refChecksum, baseline, rows>>,
             tick' \in [Requests -> Nat], ctx' \in [Requests -> {"live", "timedOut", "gone"}],
             \A q \in Requests : ctx'[q] = "live" => ctx[q] = "live"
      PROVE  TableInv'
  <2>1. JobTyped'
    BY <1>1 DEF TableInv, JobTyped
  <2>2. ASSUME NEW q \in Requests
        PROVE  BestIsOfThisEngine(q)' /\ TableSound(q)' /\ SpeedSound(q)' /\ RowsWhole(q)'
    BY <1>1, <2>2, TableKept DEF TableInv
  <2> QED
    BY <2>1, <2>2 DEF TableInv
<1>2. ASSUME UNCHANGED <<engines, ctx, job>> PROVE TableInv'
  <2>1. tick' \in [Requests -> Nat] /\ ctx' \in [Requests -> {"live", "timedOut", "gone"}]
    BY <1>2 DEF TableInv, JobTyped, job
  <2> QED
    BY <1>1, <1>2, <2>1 DEF job
<1>3. ASSUME NEW q \in Requests, TimeOut(q) \/ HangUp(q) PROVE TableInv'
  <2>1. /\ UNCHANGED <<engines, row, i, tick, best, refChecksum, baseline, rows>>
        /\ ctx' \in [Requests -> {"live", "timedOut", "gone"}]
        /\ \A p \in Requests : ctx'[p] = "live" => ctx[p] = "live"
    BY <1>3 DEF TimeOut, HangUp, job, TableInv, JobTyped
  <2> QED
    BY <1>1, <2>1 DEF TableInv, JobTyped
<1>4. ASSUME NEW q \in Requests, RunTick(q) PROVE TableInv'
  <2>1. /\ UNCHANGED <<engines, ctx, row, i, best, refChecksum, baseline, rows>>
        /\ tick' \in [Requests -> Nat]
    BY <1>4 DEF RunTick, TableInv, JobTyped
  <2> QED
    BY <1>1, <2>1 DEF TableInv, JobTyped
<1> QED
  BY <1>2, <1>3, <1>4, TableRunReturns, TableAddRow, TableAddError
     DEF Next, Handler, Admit, Refuse, Answer, vars

\* The reference of a row is the row that leads its variant.
LEMMA ReferenceLeads ==
  ASSUME TableInv, NEW q \in Requests, NEW n \in Rows(q)
  PROVE  LET v == VariantOf[rows[q][n].engine] m == Reference(q, n) IN
         v \in Variants /\ n \in RowsOf(q, v) /\ m \in Rows(q) /\ Led(q, v, m)
<1> DEFINE v == VariantOf[rows[q][n].engine]
<1>1. /\ rows[q] \in Seq(RowType) /\ DOMAIN rows[q] = 1 .. Len(rows[q]) /\ Len(rows[q]) \in Nat
      /\ n \in 1 .. Len(rows[q]) /\ rows[q][n].engine \in Known
  BY DEF TableInv, JobTyped, Rows
<1>2. v \in Variants /\ n \in RowsOf(q, v)
  BY <1>1, ChecksumType DEF RowsOf
<1>3. PICK m \in RowsOf(q, v) : Led(q, v, m)
  BY <1>2 DEF TableInv, TableSound, Unled
<1>4. m \in Rows(q) /\ m \in 1 .. n /\ m \in Peers(q, n)
  BY <1>1, <1>2, <1>3 DEF Led, RowsOf, Rows, Peers
<1>5. \A k \in Peers(q, n) : k \in RowsOf(q, v) /\ k \in Int /\ m <= k
  BY <1>1, <1>3 DEF Peers, RowsOf, Rows, Led
<1>6. Reference(q, n) = m
  <2>1. \A k \in Peers(q, n) : (\A j \in Peers(q, n) : k <= j) => k = m
    BY <1>1, <1>4, <1>5
  <2> QED
    BY <1>4, <1>5, <2>1 DEF Reference, First
<1> QED
  BY <1>2, <1>3, <1>4, <1>6

\* A row that flags a mismatch and a row that hides one are both impossible in
\* a bench that ran to its end: exactly the broken engines are told apart from
\* a sound reference (server.go 362-367, 411-413).
THEOREM BenchFlagsTheBroken == Spec => []BrokenAreFlagged
<1>1. TableInv => BrokenAreFlagged
  <2> SUFFICES ASSUME TableInv, NEW q \in Requests, ctx[q] = "live", Ticks > 0,
                      NEW n \in Rows(q), rows[q][Reference(q, n)].engine \notin Broken
               PROVE  rows[q][n].mismatched <=> rows[q][n].engine \in Broken
    BY DEF BrokenAreFlagged
  <2> DEFINE m == Reference(q, n)
             v == VariantOf[rows[q][n].engine]
  <2>1. n \in RowsOf(q, v) /\ m \in Rows(q) /\ Led(q, v, m)
    BY ReferenceLeads
  <2>2. /\ rows[q][m].ticks = Ticks /\ rows[q][n].ticks = Ticks
        /\ VariantOf[rows[q][m].engine] = v /\ rows[q][n].engine \in Known
    BY <2>1 DEF TableInv, RowsWhole, Led, RowsOf, Rows
  <2>3. Sum(rows[q][m]) = [variant |-> v, ticks |-> Ticks, by |-> None]
    BY <2>2 DEF Sum, Checksum
  <2>4. Sum(rows[q][n]) = [variant |-> v, ticks |-> Ticks,
                           by |-> IF rows[q][n].engine \in Broken THEN rows[q][n].engine ELSE None]
    BY <2>2 DEF Sum, Checksum
  <2>5. rows[q][n].engine # None
    BY <2>2, BenchAssumption
  <2>6. (Sum(rows[q][n]) # Sum(rows[q][m])) <=> rows[q][n].engine \in Broken
    BY <2>3, <2>4, <2>5
  <2>7. rows[q][n].mismatched = (Sum(rows[q][n]) # Sum(rows[q][m]))
    BY <2>1 DEF Led
  <2> QED
    BY <2>6, <2>7, Zenon
<1> QED
  BY <1>1, TableInvInit, TableInvNext, PTL DEF Spec

\* The row a speedup is over is the one that paces the variant.
LEMMA PaceLeads ==
  ASSUME TableInv, NEW q \in Requests, NEW n \in Rows(q), rows[q][n].wall # 0
  PROVE  LET v == VariantOf[rows[q][n].engine] m == First(TimedPeers(q, n)) IN
         n \in Timed(q, v) /\ Paced(q, v, m)
<1> DEFINE v == VariantOf[rows[q][n].engine]
<1>1. /\ rows[q] \in Seq(RowType) /\ DOMAIN rows[q] = 1 .. Len(rows[q]) /\ Len(rows[q]) \in Nat
      /\ n \in 1 .. Len(rows[q]) /\ rows[q][n].engine \in Known
  BY DEF TableInv, JobTyped, Rows
<1>2. rows[q][n].wall \in Nat
  <2>1. rows[q][n] \in RowType
    BY <1>1
  <2> QED
    BY <2>1 DEF RowType
<1>3. v \in Variants /\ n \in Timed(q, v)
  <2>1. v \in Variants
    BY <1>1, BenchAssumption DEF Variants
  <2>2. n \in RowsOf(q, v)
    BY <2>1 DEF RowsOf
  <2> QED
    BY <2>1, <2>2, <1>2 DEF Timed
<1>4. PICK m \in Timed(q, v) : Paced(q, v, m)
  BY <1>3 DEF TableInv, SpeedSound, Unpaced
<1>5. m \in 1 .. n /\ m \in TimedPeers(q, n)
  BY <1>1, <1>3, <1>4 DEF Paced, Timed, RowsOf, Rows, Peers, TimedPeers
<1>6. \A k \in TimedPeers(q, n) : k \in Timed(q, v) /\ k \in Int /\ m <= k
  BY <1>1, <1>4 DEF TimedPeers, Peers, Timed, RowsOf, Rows, Paced
<1>7. First(TimedPeers(q, n)) = m
  <2>1. \A k \in TimedPeers(q, n) : (\A j \in TimedPeers(q, n) : k <= j) => k = m
    BY <1>1, <1>5, <1>6
  <2> QED
    BY <1>5, <1>6, <2>1 DEF First
<1> QED
  BY <1>3, <1>4, <1>7

\* A speedup compares an engine with the first of its own simulation that took any
\* time, in every table, cut short or not, and whatever the clock says, 0 included:
\* what took no time is compared with nothing and is nobody's baseline (server.go
\* 362-367, 419-424).
THEOREM BenchComparesWithinVariants == Spec => []SpeedupWithinVariant
<1>1. TableInv => SpeedupWithinVariant
  <2> SUFFICES ASSUME TableInv, NEW q \in Requests, NEW n \in Rows(q)
               PROVE  rows[q][n].over = IF rows[q][n].wall = 0 THEN 0
                                        ELSE rows[q][First(TimedPeers(q, n))].wall
    BY DEF SpeedupWithinVariant
  <2>1. CASE rows[q][n].wall = 0
    BY <2>1 DEF TableInv, SpeedSound
  <2>2. CASE rows[q][n].wall # 0
    BY <2>2, PaceLeads DEF Paced
  <2> QED
    BY <2>1, <2>2
<1> QED
  BY <1>1, TableInvInit, TableInvNext, PTL DEF Spec
=============================================================================
