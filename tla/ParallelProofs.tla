---------------------------- MODULE ParallelProofs ----------------------------
(***************************************************************************)
(* The engines over slices: flatgrid, and parallel and nogc with their     *)
(* pool.  Proved for every grid, every number of ants and every number of  *)
(* workers: the pool needs no lock, no address leaves a slice, and every   *)
(* step is a step of naive or one naive does not see.                      *)
(*                                                                         *)
(* FlatCore is what the slices keep in all three engines.  For the pool,   *)
(* Decided and Filled tell which ants and which rows are done from where   *)
(* the workers are: what is done holds what naive computes at once, what   *)
(* is not holds what it held when the phase began.                         *)
(***************************************************************************)
EXTENDS Parallel, GridProofs, FiniteSetTheorems

\* A share has a beginning and an end, and the next share starts no earlier.
LEMMA Shares ==
  ASSUME n \in Nat \ {0}, NEW total \in Nat, NEW j \in Nat, NEW k \in Nat, j < k
  PROVE  /\ Lo(j, total) \in Nat /\ Hi(j, total) \in Nat
         /\ Lo(j, total) <= Hi(j, total) /\ Hi(j, total) <= Lo(k, total)
<1>1. total * j \in Nat /\ total * (j + 1) \in Nat /\ total * k \in Nat
  OBVIOUS
<1>2. total * j <= total * (j + 1)
  OBVIOUS
<1>3. total * (j + 1) <= total * k
  OBVIOUS
<1>4. \A a, b \in Nat : a <= b => a \div n \in Nat /\ a \div n <= b \div n
  BY DivMonotone
<1> QED
  BY <1>1, <1>2, <1>3, <1>4 DEF Lo, Hi

LEMMA BusyIsFinite == n \in Nat => IsFiniteSet(Busy) /\ Cardinality(Busy) \in Nat
<1> SUFFICES ASSUME n \in Nat PROVE IsFiniteSet(Busy) /\ Cardinality(Busy) \in Nat
  OBVIOUS
<1>1. IsFiniteSet(0 .. n - 1)
  BY FS_Interval
<1> QED
  BY <1>1, FS_Subset, FS_CardinalityType DEF Busy, Workers

LEMMA TotalType == \A ph : Total(ph) \in Nat
BY ConfigAssumption DEF Total

LEMMA TypeInit == PooledInit => TypeOK
<1> SUFFICES ASSUME PooledInit PROVE TypeOK
  OBVIOUS
<1>1. /\ n \in 1 .. Height /\ handed = 0 /\ wg = 0 /\ closed = FALSE /\ phase = "loop"
      /\ work = [k \in Workers |-> "idle"] /\ at = [k \in Workers |-> 0]
      /\ grid = [k \in Workers |-> "food"]
  <2>1. PICK p \in Procs : n = PoolSize(p)
    BY DEF PooledInit, NewPool
  <2>2. n \in 1 .. Height
    BY <2>1, ConfigAssumption, ProcsAssumption DEF PoolSize
  <2> QED
    BY <2>2 DEF PooledInit, NewFlatWorld, NewPool
<1>2. Busy = {}
  BY <1>1 DEF Busy
<1>3. handed \in 0 .. n
  BY <1>1, ConfigAssumption
<1>4. /\ work \in [Workers -> {"idle", "sense", "decay", "exited"}]
      /\ grid \in [Workers -> {"food", "home"}] /\ at \in [Workers -> Nat]
  BY <1>1
<1>5. closed \in BOOLEAN
  BY <1>1
<1> QED
  BY <1>1, <1>2, <1>3, <1>4, <1>5 DEF TypeOK, PoolTypeOK

\* A phase begins with every worker at its receive and counted.
LEMMA SubmitKeeps ==
  ASSUME TypeOK, phase \notin {"sense", "decay"}, phase' \in {"sense", "decay"}, Submit,
         UNCHANGED n
  PROVE  TypeOK'
<1>1. Busy = {}
  BY DEF TypeOK, PoolTypeOK, Busy
<1>2. /\ n \in 1 .. Height /\ n' = n /\ wg' = n /\ handed' = 0
      /\ UNCHANGED <<work, at, grid, closed>> /\ Workers' = Workers
  BY DEF Submit, TypeOK, PoolTypeOK, Workers
<1>3. Busy' = {} /\ n \in Nat
  BY <1>1, <1>2, ConfigAssumption DEF Busy
<1>4. wg' = Cardinality(Busy') + (n' - handed')
  BY <1>2, <1>3, FS_EmptySet
<1> QED
  BY <1>2, <1>3, <1>4 DEF TypeOK, PoolTypeOK

LEMMA HandKeeps ==
  ASSUME TypeOK, PooledHand
  PROVE  TypeOK'
<1> DEFINE h == handed
<1>1. /\ phase \in {"sense", "decay"} /\ phase' = phase /\ n' = n /\ wg' = wg /\ closed' = closed
      /\ h \in Workers /\ work[h] = "idle" /\ handed' = h + 1 /\ Workers' = Workers
      /\ work' = [work EXCEPT ![h] = phase] /\ at' = [at EXCEPT ![h] = Lo(h, Total(phase))]
      /\ grid' = [grid EXCEPT ![h] = "food"] /\ n \in Nat \ {0} /\ h \in Nat /\ h < n
  BY ConfigAssumption DEF PooledHand, HandOver, TypeOK, PoolTypeOK, Workers, vars
<1>2. /\ work' \in [Workers -> {"idle", "sense", "decay", "exited"}]
      /\ Busy' = Busy \cup {h} /\ h \notin Busy
  BY <1>1 DEF Busy, TypeOK, PoolTypeOK
<1>3. Cardinality(Busy') = Cardinality(Busy) + 1
  BY <1>1, <1>2, BusyIsFinite, FS_AddElement
<1>4. wg' = Cardinality(Busy') + (n' - handed')
  BY <1>1, <1>3, BusyIsFinite DEF TypeOK, PoolTypeOK
<1>5. /\ Lo(h, Total(phase)) \in Nat /\ Hi(h, Total(phase)) \in Nat
      /\ Lo(h, Total(phase)) <= Hi(h, Total(phase))
  BY <1>1, Shares, TotalType
<1>6. at' \in [Workers -> Nat] /\ grid' \in [Workers -> {"food", "home"}]
  BY <1>1, <1>5 DEF TypeOK, PoolTypeOK
<1>7. ASSUME NEW k \in Busy'
      PROVE  /\ work'[k] = phase /\ k < handed'
             /\ at'[k] \in Lo(k, Total(phase)) .. Hi(k, Total(phase))
  <2>1. CASE k = h
    BY <1>1, <1>5, <2>1 DEF TypeOK, PoolTypeOK
  <2>2. CASE k # h
    <3>1. k \in Busy /\ k \in Nat
      BY <1>1, <1>2, <2>2 DEF Busy, Workers
    <3> QED
      BY <1>1, <2>2, <3>1 DEF TypeOK, PoolTypeOK
  <2> QED
    BY <2>1, <2>2
<1> HIDE DEF h
<1> QED
  BY <1>1, <1>2, <1>4, <1>6, <1>7 DEF TypeOK, PoolTypeOK, Lo, Hi, Workers

LEMMA WorkerKeeps ==
  ASSUME TypeOK, NEW k \in Nat, PooledWorker(k)
  PROVE  TypeOK'
<1>1. /\ k \in Workers /\ n \in Nat \ {0} /\ wg \in Int /\ handed \in 0 .. n
      /\ IsFiniteSet(Busy) /\ Cardinality(Busy) \in Nat
  <2>1. n \in Nat \ {0}
    BY ConfigAssumption DEF TypeOK, PoolTypeOK
  <2>2. IsFiniteSet(Busy) /\ Cardinality(Busy) \in Nat
    BY <2>1, BusyIsFinite
  <2> QED
    BY <2>1, <2>2 DEF PooledWorker, TypeOK, PoolTypeOK
<1>2. UNCHANGED <<phase, n, handed, closed>> /\ Workers' = Workers
  BY DEF PooledWorker, PooledSenseAnt, PooledDecayRow, Advance, Idles, NextGrid, Done, Exit,
         vars, Workers
<1>3. CASE PooledSenseAnt(k) \/ PooledDecayRow(k)
  <2>1. /\ at' = [at EXCEPT ![k] = at[k] + 1] /\ UNCHANGED <<wg, work, grid>>
        /\ k \in Busy /\ at[k] < Hi(k, Total(phase))
    BY <1>1, <1>3 DEF PooledSenseAnt, PooledDecayRow, Advance, Senses, Decays, Busy, Total,
                      TypeOK, PoolTypeOK
  <2>2. /\ at[k] \in Nat /\ Lo(k, Total(phase)) \in Nat /\ Hi(k, Total(phase)) \in Nat
        /\ at[k] >= Lo(k, Total(phase))
    <3>1. k < k + 1 /\ k + 1 \in Nat
      OBVIOUS
    <3>2. Lo(k, Total(phase)) \in Nat /\ Hi(k, Total(phase)) \in Nat
      BY <1>1, <3>1, TotalType, Shares
    <3> QED
      BY <1>1, <2>1, <3>2 DEF TypeOK, PoolTypeOK
  <2>3. Busy' = Busy /\ at' \in [Workers -> Nat]
    BY <1>1, <1>2, <2>1, <2>2 DEF Busy, TypeOK, PoolTypeOK
  <2>4. \A j \in Busy : at'[j] \in Lo(j, Total(phase)) .. Hi(j, Total(phase))
    BY <1>1, <2>1, <2>2 DEF TypeOK, PoolTypeOK, Busy
  <2> QED
    BY <1>2, <2>1, <2>3, <2>4 DEF TypeOK, PoolTypeOK, Lo, Hi
<1>4. CASE NextGrid(k)
  <2>1. /\ at' = [at EXCEPT ![k] = Lo(k, Height)] /\ grid' = [grid EXCEPT ![k] = "home"]
        /\ UNCHANGED <<wg, work>> /\ k \in Busy /\ phase = "decay"
    BY <1>1, <1>4 DEF NextGrid, Busy, TypeOK, PoolTypeOK
  <2>2. Lo(k, Height) \in Nat /\ Hi(k, Height) \in Nat /\ Lo(k, Height) <= Hi(k, Height)
    <3>1. k < k + 1 /\ k + 1 \in Nat /\ Height \in Nat
      BY ConfigAssumption
    <3> QED
      BY <1>1, <3>1, Shares
  <2>3. Busy' = Busy /\ at' \in [Workers -> Nat] /\ grid' \in [Workers -> {"food", "home"}]
    BY <1>1, <1>2, <2>1, <2>2 DEF Busy, TypeOK, PoolTypeOK
  <2>4. \A j \in Busy : at'[j] \in Lo(j, Total(phase)) .. Hi(j, Total(phase))
    BY <1>1, <2>1, <2>2 DEF TypeOK, PoolTypeOK, Busy, Total
  <2> QED
    BY <1>2, <2>1, <2>3, <2>4 DEF TypeOK, PoolTypeOK, Lo, Hi
<1>5. CASE Done(k)
  <2>1. /\ at' = [at EXCEPT ![k] = 0] /\ work' = [work EXCEPT ![k] = "idle"]
        /\ wg' = wg - 1 /\ grid' = grid /\ k \in Busy
    BY <1>1, <1>5 DEF Done, Busy, TypeOK, PoolTypeOK
  <2>2. Busy' = Busy \ {k}
    BY <1>1, <1>2, <2>1 DEF Busy, TypeOK, PoolTypeOK
  <2>3. Cardinality(Busy') = Cardinality(Busy) - 1
    BY <1>1, <2>1, <2>2, FS_RemoveElement
  <2>4. phase \in {"sense", "decay"}
    BY <2>1 DEF TypeOK, PoolTypeOK, Busy
  <2>5. wg' = Cardinality(Busy') + (n - handed)
    BY <1>1, <2>1, <2>3, <2>4 DEF TypeOK, PoolTypeOK
  <2>6. /\ at' \in [Workers -> Nat]
        /\ work' \in [Workers -> {"idle", "sense", "decay", "exited"}]
    BY <1>1, <2>1 DEF TypeOK, PoolTypeOK
  <2>7. \A j \in Busy' : /\ work'[j] = phase /\ j < handed
                         /\ at'[j] \in Lo(j, Total(phase)) .. Hi(j, Total(phase))
    BY <1>1, <2>1, <2>2 DEF TypeOK, PoolTypeOK, Busy
  <2> QED
    BY <1>2, <2>1, <2>4, <2>5, <2>6, <2>7 DEF TypeOK, PoolTypeOK, Lo, Hi
<1>6. CASE Exit(k)
  <2>1. work' = [work EXCEPT ![k] = "exited"] /\ UNCHANGED <<wg, at, grid>> /\ k \notin Busy
    BY <1>6 DEF Exit, Busy
  <2>2. /\ Busy' = Busy
        /\ work' \in [Workers -> {"idle", "sense", "decay", "exited"}]
    BY <1>1, <1>2, <2>1 DEF Busy, TypeOK, PoolTypeOK
  <2>3. \A j \in Busy : work'[j] = work[j]
    BY <1>1, <2>1 DEF TypeOK, PoolTypeOK
  <2> QED
    BY <1>2, <2>1, <2>2, <2>3 DEF TypeOK, PoolTypeOK, Lo, Hi
<1> QED
  BY <1>3, <1>4, <1>5, <1>6 DEF PooledWorker, Idles

LEMMA TypeNext == TypeOK /\ [PooledNext]_pooledVars => TypeOK'
<1> SUFFICES ASSUME TypeOK, [PooledNext]_pooledVars PROVE TypeOK'
  OBVIOUS
<1>1. CASE PooledLoopHead
  <2>1. CASE phase' = "sense"
    BY <1>1, <2>1, SubmitKeeps DEF PooledLoopHead, LoopHead
  <2>2. CASE phase' = "final"
    <3>1. phase = "loop" /\ UNCHANGED <<n, handed, wg, work, at, grid, closed>>
      BY <1>1, <2>2 DEF PooledLoopHead, LoopHead, pool
    <3> QED
      BY <2>2, <3>1 DEF TypeOK, PoolTypeOK, Busy, Workers, Lo, Hi
  <2> QED
    BY <1>1, <2>1, <2>2 DEF PooledLoopHead, LoopHead
<1>2. CASE PooledHand
  BY <1>2, HandKeeps
<1>3. CASE PooledWait
  <2>1. /\ phase \in {"sense", "decay"} /\ phase' \in {"commit", "swap"} /\ handed = n /\ wg = 0
        /\ UNCHANGED <<n, handed, wg, work, at, grid, closed>>
    BY <1>3 DEF PooledWait, Released, pool
  <2>2. n \in Nat /\ wg = Cardinality(Busy) + (n - handed)
    BY <2>1, ConfigAssumption DEF TypeOK, PoolTypeOK
  <2>3. Cardinality(Busy) = 0 /\ IsFiniteSet(Busy)
    BY <2>1, <2>2, BusyIsFinite
  <2>4. Busy = {}
    BY <2>3, FS_EmptySet
  <2>5. Busy' = {} /\ Workers' = Workers
    BY <2>1, <2>4 DEF Busy, Workers
  <2> QED
    BY <2>1, <2>5 DEF TypeOK, PoolTypeOK
<1>4. CASE PooledStartDecay
  BY <1>4, SubmitKeeps DEF PooledStartDecay
<1>5. CASE PooledCommit \/ PooledCancel \/ UNCHANGED pooledVars
  <2>1. UNCHANGED <<phase, n, handed, wg, work, at, grid, closed>>
    BY <1>5 DEF PooledCommit, Commit, PooledCancel, Cancel, pooledVars, vars, pool
  <2> QED
    BY <2>1 DEF TypeOK, PoolTypeOK, Busy, Workers, Lo, Hi
<1>6. CASE PooledSwap \/ PooledObserve \/ PooledFinish
  <2>1. /\ phase \in {"swap", "observe", "final"} /\ phase' \in {"observe", "loop", "returned"}
        /\ UNCHANGED <<n, handed, wg, work, at, grid>> /\ closed' \in BOOLEAN
    BY <1>6 DEF PooledSwap, PooledObserve, Observe, PooledFinish, Finish, Stop, Stopped,
                pool, TypeOK, PoolTypeOK
  <2>2. Busy = {} /\ wg = 0
    BY <2>1 DEF TypeOK, PoolTypeOK, Busy
  <2>3. Busy' = {} /\ Workers' = Workers
    BY <2>1, <2>2 DEF Busy, Workers
  <2> QED
    BY <2>1, <2>2, <2>3 DEF TypeOK, PoolTypeOK
<1>7. ASSUME NEW k \in 0 .. Height - 1, PooledWorker(k) PROVE TypeOK'
  <2>1. k \in Nat
    BY ConfigAssumption
  <2> QED
    BY <1>7, <2>1, WorkerKeeps
<1> QED
  BY <1>1, <1>2, <1>3, <1>4, <1>5, <1>6, <1>7 DEF PooledNext, PooledCaller

\* The WaitGroup counts the workers that are busy or still to be handed the
\* phase, and a worker stays inside its own share (pool.go).
THEOREM PooledTypeOK == PooledSpec => []TypeOK
BY TypeInit, TypeNext, PTL DEF PooledSpec

-----------------------------------------------------------------------------
\* No two workers are ever at the same ant or the same row.
LEMMA OwnShares ==
  ASSUME TypeOK, NEW j \in Busy, NEW k \in Busy, j # k,
         at[j] < Hi(j, Total(phase)), at[k] < Hi(k, Total(phase))
  PROVE  at[j] # at[k] /\ at[j] \in Nat /\ at[k] \in Nat
<1>1. n \in Nat \ {0} /\ Busy \subseteq Nat
  BY ConfigAssumption DEF TypeOK, PoolTypeOK, Busy, Workers
<1>2. ASSUME NEW a \in Busy, NEW b \in Busy, a < b,
             at[a] < Hi(a, Total(phase)), at[b] < Hi(b, Total(phase))
      PROVE  at[a] < at[b]
  <2>1. Hi(a, Total(phase)) <= Lo(b, Total(phase)) /\ Hi(a, Total(phase)) \in Nat
    BY <1>1, <1>2, Shares, TotalType
  <2>2. Lo(b, Total(phase)) \in Nat
    <3>1. b \in Nat /\ b + 1 \in Nat /\ b < b + 1
      BY <1>1
    <3> QED
      BY <1>1, <3>1, Shares, TotalType
  <2>3. at[a] \in Nat /\ at[b] \in Nat /\ at[b] \in Lo(b, Total(phase)) .. Hi(b, Total(phase))
    BY DEF TypeOK, PoolTypeOK, Busy
  <2> QED
    BY <1>2, <2>1, <2>2, <2>3
<1>3. at[j] \in Nat /\ at[k] \in Nat /\ j \in Nat /\ k \in Nat
  BY <1>1 DEF TypeOK, PoolTypeOK, Busy
<1>4. j < k \/ k < j
  BY <1>3
<1> QED
  BY <1>2, <1>3, <1>4

\* Two rows share no address.
LEMMA BandsApart ==
  ASSUME NEW y \in Nat, NEW z \in Nat, y # z
  PROVE  BandOf(y) \cap BandOf(z) = {}
<1>1. Width \in Nat
  BY ConfigAssumption
<1>2. ASSUME NEW a \in Nat, NEW b \in Nat, a < b PROVE BandOf(a) \cap BandOf(b) = {}
  <2>1. a * Width \in Nat /\ b * Width \in Nat /\ (a + 1) * Width = a * Width + Width
    BY <1>1
  <2>2. (a + 1) * Width <= b * Width
    BY <1>1, <1>2
  <2> QED
    BY <1>1, <2>1, <2>2 DEF BandOf
<1>3. y < z \/ z < y
  OBVIOUS
<1> QED
  BY <1>2, <1>3

\* "Safe without a single lock" (parallel.go 10-16): whatever the interleaving,
\* the size of the grid and the number of workers, nobody is about to touch an
\* element somebody else is about to write.
THEOREM PooledNoDataRace == PooledSpec => []NoDataRace
<1>1. TypeOK => NoDataRace
  <2> SUFFICES ASSUME TypeOK PROVE NoDataRace
    OBVIOUS
  <2>1. ASSUME NEW k \in Workers
        PROVE  /\ Senses(k) => k \in Busy /\ phase = "sense" /\ at[k] < Hi(k, Total(phase))
               /\ Decays(k) => k \in Busy /\ phase = "decay" /\ at[k] < Hi(k, Total(phase))
    BY DEF Senses, Decays, Busy, TypeOK, PoolTypeOK, Total
  <2>2. ASSUME NEW j \in Workers, NEW k \in Workers, j # k
        PROVE  WorkerWrites(j) \cap (WorkerReads(k) \cup WorkerWrites(k)) = {}
    <3>1. CASE Senses(j) /\ Senses(k)
      <4>1. at[j] # at[k]
        BY <2>1, <2>2, <3>1, OwnShares
      <4> QED
        BY <3>1, <4>1 DEF WorkerWrites, WorkerReads
    <3>2. CASE Decays(j) /\ Decays(k)
      <4>1. ~Senses(j) /\ ~Senses(k)
        BY <2>1, <3>2
      <4>2. BandOf(at[j]) \cap BandOf(at[k]) = {}
        BY <2>1, <2>2, <3>2, OwnShares, BandsApart
      <4>3. \A p \in WorkerWrites(j) : p[1] \in {"nextFood", "nextHome"} /\ p[2] \in BandOf(at[j])
        BY <3>2, <4>1 DEF WorkerWrites
      <4>4. \A p \in WorkerWrites(k) : p[2] \in BandOf(at[k])
        BY <3>2, <4>1 DEF WorkerWrites
      <4>5. \A p \in WorkerReads(k) : p[1] \in {"pheroFood", "depFood", "pheroHome", "depHome"}
        BY <3>2, <4>1 DEF WorkerReads
      <4> QED
        BY <4>2, <4>3, <4>4, <4>5
    <3>3. CASE Senses(j) /\ ~Senses(k)
      <4>1. ~Decays(k)
        BY <2>1, <3>3
      <4> QED
        BY <3>3, <4>1 DEF WorkerWrites, WorkerReads
    <3>4. CASE Decays(j) /\ ~Decays(k)
      <4>1. ~Senses(k)
        BY <2>1, <3>4
      <4> QED
        BY <3>4, <4>1 DEF WorkerWrites, WorkerReads
    <3>5. CASE ~Senses(j) /\ ~Decays(j)
      BY <3>5 DEF WorkerWrites
    <3> QED
      BY <3>1, <3>2, <3>3, <3>4, <3>5
  <2>3. ASSUME NEW k \in Workers
        PROVE  /\ CallerWrites \cap (WorkerReads(k) \cup WorkerWrites(k)) = {}
               /\ CallerReads \cap WorkerWrites(k) = {}
    <3>1. CASE Senses(k) \/ Decays(k)
      <4>1. phase \in {"sense", "decay"}
        BY <2>1, <3>1
      <4> QED
        BY <4>1 DEF CallerReads, CallerWrites
    <3>2. CASE ~Senses(k) /\ ~Decays(k)
      BY <3>2 DEF WorkerReads, WorkerWrites
    <3> QED
      BY <3>1, <3>2
  <2> QED
    BY <2>2, <2>3 DEF NoDataRace
<1> QED
  BY <1>1, PooledTypeOK, PTL

-----------------------------------------------------------------------------
(***************************************************************************)
(* Slices and maps.                                                        *)
(***************************************************************************)
\* An address is the row times the width plus the column, and both can be read back.
LEMMA Address ==
  ASSUME NEW c \in Cells
  PROVE  Idx(c) \in Index /\ Idx(c) % Width = c[1] /\ Idx(c) \div Width = c[2]
<1> DEFINE W == Width
           x == c[1]
           y == c[2]
<1>1. /\ W \in Nat \ {0} /\ Height \in Nat \ {0} /\ x \in 0 .. W - 1 /\ y \in 0 .. Height - 1
  BY ConfigAssumption DEF Cells
<1>2. Idx(c) = y * W + x
  BY DEF Idx
<1> HIDE DEF W, x, y
<1>3. y * W \in Nat /\ y * W + W = (y + 1) * W /\ (y + 1) * W <= Height * W /\ W * Height = Height * W
  BY <1>1
<1>4. Idx(c) \in 0 .. W * Height - 1
  BY <1>1, <1>2, <1>3
<1> DEFINE q == (y * W + x) \div W
           r == (y * W + x) % W
<1>5. q \in Int /\ r \in 0 .. W - 1 /\ y * W + x = W * q + r
  BY <1>1, <1>3
<1> HIDE DEF q, r
<1>6. q = y
  <2>1. CASE q <= y - 1
    <3>1. W * q <= W * (y - 1) /\ W * (y - 1) = y * W - W
      BY <1>1, <1>5, <2>1
    <3> QED BY <1>1, <1>3, <1>5, <3>1
  <2>2. CASE q >= y + 1
    <3>1. W * q >= W * (y + 1) /\ W * (y + 1) = y * W + W
      BY <1>1, <1>5, <2>2
    <3> QED BY <1>1, <1>3, <1>5, <3>1
  <2> QED BY <1>1, <1>5, <2>1, <2>2
<1>7. r = x
  <2>1. W * q = y * W
    BY <1>1, <1>6
  <2> QED BY <1>1, <1>3, <1>5, <2>1
<1> QED
  BY <1>2, <1>4, <1>6, <1>7 DEF q, r, W, x, y, Index

\* Every address is the address of one cell.
LEMMA CellOf ==
  ASSUME NEW i \in Index
  PROVE  <<i % Width, i \div Width>> \in Cells /\ Idx(<<i % Width, i \div Width>>) = i
<1> DEFINE W == Width
           q == i \div W
           r == i % W
<1>1. W \in Nat \ {0} /\ Height \in Nat \ {0} /\ i \in Nat /\ i < W * Height
  BY ConfigAssumption DEF Index
<1> HIDE DEF W
<1>2. q \in Int /\ r \in 0 .. W - 1 /\ i = W * q + r
  BY <1>1
<1> HIDE DEF q, r
<1>3. q >= 0
  <2>1. CASE q <= -1
    <3>1. W * q <= -W
      BY <1>1, <1>2, <2>1
    <3> QED BY <1>1, <1>2, <3>1
  <2> QED BY <1>2, <2>1
<1>4. q < Height
  <2>1. CASE q >= Height
    <3>1. W * q >= W * Height /\ W * Height \in Nat
      BY <1>1, <1>2, <2>1
    <3> QED BY <1>1, <1>2, <3>1
  <2> QED BY <1>1, <1>2, <2>1
<1>5. q * W + r = i
  BY <1>1, <1>2
<1> QED
  BY <1>1, <1>2, <1>3, <1>4, <1>5 DEF q, r, W, Cells, Idx

\* A slice read cell by cell.
LEMMA ByCellOf ==
  ASSUME NEW S, NEW f \in [Index -> S]
  PROVE  ByCell(f) \in [Cells -> S] /\ \A c \in Cells : ByCell(f)[c] = f[Idx(c)]
BY Address DEF ByCell

-----------------------------------------------------------------------------
(***************************************************************************)
(* Phase A: the two chooseMove.                                            *)
(***************************************************************************)
\* newWorld's walls: a slice that answers for a cell what the map answers.
WallSlice ==
  [i \in Index |-> \E c \in Cells : Idx(c) = i /\ \E m \in DOMAIN Walls : Covers(Walls[m], c)]

\* With the bounds checked first, the slice of walls closes the cells the map closes.
LEMMA SameOpen ==
  ASSUME walls = WallSlice, NEW x \in Int, NEW y \in Int
  PROVE  Open(<<x, y>>) <=> Passable(<<x, y>>)
<1> DEFINE c == <<x, y>>
<1>1. InBounds(c) <=> c \in Cells
  BY ConfigAssumption DEF InBounds, Cells
<1>2. ASSUME c \in Cells
      PROVE  walls[Idx(c)] <=> c \in WallCells
  <2>1. Idx(c) \in Index
    BY <1>2, Address
  <2>2. \A e \in Cells : Idx(e) = Idx(c) => e = c
    <3> SUFFICES ASSUME NEW e \in Cells, Idx(e) = Idx(c) PROVE e = c
      OBVIOUS
    <3>1. e[1] = c[1] /\ e[2] = c[2]
      BY <1>2, Address
    <3> QED
      BY <3>1 DEF Cells
  <2>3. walls[Idx(c)] <=> \E e \in Cells : Idx(e) = Idx(c) /\ \E m \in DOMAIN Walls : Covers(Walls[m], e)
    BY <2>1, Zenon DEF WallSlice
  <2> HIDE DEF c
  <2>4. walls[Idx(c)] <=> \E m \in DOMAIN Walls : Covers(Walls[m], c)
    BY <1>2, <2>2, <2>3, Zenon
  <2> QED
    BY <1>2, <2>4, Zenon DEF WallCells
<1> HIDE DEF c
<1> QED
  BY <1>1, <1>2, Zenon DEF Open, Passable, c

\* A step ahead goes where it goes on the maps.
LEMMA SameStep ==
  ASSUME walls = WallSlice, NEW a \in AntType, NEW d \in Dirs
  PROVE  /\ Open(Ahead(a.pos, d)) <=> Passable(Ahead(a.pos, d))
         /\ FlatStep(a, d) = Step(a, d)
<1>1. a.pos \in Cells
  BY DEF AntType
<1>2. Ahead(a.pos, d)[1] \in Int /\ Ahead(a.pos, d)[2] \in Int
  BY <1>1, AheadIsNextTo
<1>3. Ahead(a.pos, d) = <<Ahead(a.pos, d)[1], Ahead(a.pos, d)[2]>>
  BY DEF Ahead
<1>4. Open(Ahead(a.pos, d)) <=> Passable(Ahead(a.pos, d))
  BY <1>2, <1>3, SameOpen
<1> QED
  BY <1>4 DEF FlatStep, Step

\* Among the same candidates with the same scores both loops keep the same one.
LEMMA SameBest ==
  ASSUME NEW a \in AntType, Candidates(a) # {},
         pheroFood \in [Index -> Nat], pheroHome \in [Index -> Nat]
  PROVE  FlatBest(a, Candidates(a)) =
           Best(a, IF a.hasFood THEN ByCell(pheroHome) ELSE ByCell(pheroFood))
<1> DEFINE trail == IF a.hasFood THEN ByCell(pheroHome) ELSE ByCell(pheroFood)
           open == Candidates(a)
           P(j) == \A k \in open : FlatScore(a, j) > FlatScore(a, k)
                                   \/ (FlatScore(a, j) = FlatScore(a, k) /\ j <= k)
           Q(j) == \A k \in open : Better(a, trail, j, k)
<1>1. \A k \in open : FlatScore(a, k) = Score(a, trail, Ahead(a.pos, Cone(Heading(a))[k]))
  <2> SUFFICES ASSUME NEW k \in open
               PROVE  FlatScore(a, k) = Score(a, trail, Ahead(a.pos, Cone(Heading(a))[k]))
    OBVIOUS
  <2>1. Cand(a, k) = Ahead(a.pos, Cone(Heading(a))[k]) /\ Cand(a, k) \in Cells
    BY DEF Cand, Heading, Candidates, Passable
  <2>2. /\ ByCell(pheroFood)[Cand(a, k)] = pheroFood[Idx(Cand(a, k))]
        /\ ByCell(pheroHome)[Cand(a, k)] = pheroHome[Idx(Cand(a, k))]
    BY <2>1, ByCellOf
  <2>3. trail[Cand(a, k)] = (IF a.hasFood THEN pheroHome ELSE pheroFood)[Idx(Cand(a, k))]
    BY <2>2
  <2> HIDE DEF trail
  <2> QED
    BY <2>1, <2>3 DEF FlatScore, Score
<1>2. \A j \in open : P(j) <=> Q(j)
  BY <1>1 DEF Better
<1> HIDE DEF P, Q, open
<1>3. (CHOOSE j \in open : P(j)) = (CHOOSE j \in open : Q(j))
  <2>1. \A j : (j \in open /\ P(j)) <=> (j \in open /\ Q(j))
    BY <1>2
  <2> QED
    BY <2>1, Zenon
<1> QED
  BY <1>3, Zenon DEF FlatBest, Best, P, Q, open

\* chooseMove over slices decides what chooseMove over maps decides.
LEMMA SameMove ==
  ASSUME walls = WallSlice, NEW i \in Ants, ants[i] \in AntType,
         pheroFood \in [Index -> Nat], pheroHome \in [Index -> Nat],
         Intn(stream[i][drawn[i] + 1], 3) \in 0 .. 2
  PROVE  FlatMove(i) = ChooseMove(ants[i], Intn(stream[i][drawn[i]], RandomDen),
                                  Intn(stream[i][drawn[i] + 1], 3),
                                  ByCell(pheroFood), ByCell(pheroHome))
<1> DEFINE a == ants[i]
           roll == Intn(stream[i][drawn[i]], RandomDen)
           pick == Intn(stream[i][drawn[i] + 1], 3)
           open == {k \in 1 .. 3 : Open(Cand(a, k))}
           trail == IF a.hasFood THEN ByCell(pheroHome) ELSE ByCell(pheroFood)
<1>1. a \in AntType /\ a.dir \in Dirs /\ Heading(a) = a.dir
  BY DEF AntType, Heading
<1>2. pick \in 0 .. 2
  OBVIOUS
<1>3. FlatMove(i) = IF roll < RandomNum THEN FlatStep(a, Cone(a.dir)[pick + 1])
                    ELSE IF open = {} THEN Stay(a, a.dir)
                    ELSE FlatStep(a, Cone(a.dir)[FlatBest(a, open)])
  BY DEF FlatMove
<1>4. ChooseMove(a, roll, pick, ByCell(pheroFood), ByCell(pheroHome))
        = IF roll < RandomNum THEN Step(a, Cone(a.dir)[pick + 1])
          ELSE IF Candidates(a) = {} THEN Stay(a, a.dir)
          ELSE Step(a, Cone(a.dir)[Best(a, trail)])
  BY <1>1 DEF ChooseMove
<1> HIDE DEF a, roll, pick, trail, open
<1>5. pick + 1 \in 1 .. 3
  BY <1>2
<1>6. FlatStep(a, Cone(a.dir)[pick + 1]) = Step(a, Cone(a.dir)[pick + 1])
  BY <1>1, <1>5, ConeType, SameStep
<1>7. open = Candidates(a)
  <2>1. \A k \in 1 .. 3 : Open(Cand(a, k)) <=> Passable(Ahead(a.pos, Cone(Heading(a))[k]))
    BY <1>1, ConeType, SameStep DEF Cand
  <2> QED
    BY <2>1 DEF open, Candidates
<1>8. ASSUME Candidates(a) # {}
      PROVE  FlatStep(a, Cone(a.dir)[FlatBest(a, open)]) = Step(a, Cone(a.dir)[Best(a, trail)])
  <2>1. FlatBest(a, open) = Best(a, trail)
    BY <1>1, <1>7, <1>8, SameBest DEF trail
  <2>2. trail \in [Cells -> Nat]
    <3>1. ByCell(pheroHome) \in [Cells -> Nat] /\ ByCell(pheroFood) \in [Cells -> Nat]
      BY ByCellOf
    <3> QED BY <3>1 DEF trail
  <2>3. Best(a, trail) \in 1 .. 3
    BY <1>1, <1>8, <2>2, BestIsCandidate DEF Candidates
  <2> QED
    BY <1>1, <2>1, <2>3, ConeType, SameStep
<1>9. FlatMove(i) = ChooseMove(a, roll, pick, ByCell(pheroFood), ByCell(pheroHome))
  BY <1>3, <1>4, <1>6, <1>7, <1>8
<1> QED
  BY <1>9 DEF a, roll, pick

-----------------------------------------------------------------------------
(***************************************************************************)
(* Phase C.                                                                *)
(***************************************************************************)
\* Phase C over slices spreads what phase C over maps spreads.
LEMMA SameSpread ==
  ASSUME NEW S, NEW cur \in [Index -> S], NEW dep \in [Index -> S], NEW c \in Cells
  PROVE  Spread(cur, dep, c[1], c[2]) = Decayed(ByCell(cur), ByCell(dep), c)
<1>1. c = <<c[1], c[2]>> /\ c[1] \in Int /\ c[2] \in Int
  BY DEF Cells
<1>2. /\ Ahead(c, 0) = <<c[1], c[2] - 1>> /\ Ahead(c, 4) = <<c[1], c[2] + 1>>
      /\ Ahead(c, 6) = <<c[1] - 1, c[2]>> /\ Ahead(c, 2) = <<c[1] + 1, c[2]>>
  BY <1>1 DEF Ahead, DirDX, DirDY, Dirs
<1>3. \A x, y \in Int : LevelAt(cur, dep, <<x, y>>) = Level(ByCell(cur), ByCell(dep), <<x, y>>)
  <2> SUFFICES ASSUME NEW x \in Int, NEW y \in Int
               PROVE  LevelAt(cur, dep, <<x, y>>) = Level(ByCell(cur), ByCell(dep), <<x, y>>)
    OBVIOUS
  <2>1. InBounds(<<x, y>>) <=> <<x, y>> \in Cells
    BY ConfigAssumption DEF InBounds, Cells
  <2>2. <<x, y>> \in Cells => /\ ByCell(cur)[<<x, y>>] = cur[Idx(<<x, y>>)]
                              /\ ByCell(dep)[<<x, y>>] = dep[Idx(<<x, y>>)]
    BY ByCellOf
  <2> QED
    BY <2>1, <2>2 DEF LevelAt, Level
<1>4. /\ LevelAt(cur, dep, <<c[1], c[2]>>) = Level(ByCell(cur), ByCell(dep), c)
      /\ LevelAt(cur, dep, <<c[1], c[2] - 1>>) = Level(ByCell(cur), ByCell(dep), Ahead(c, 0))
      /\ LevelAt(cur, dep, <<c[1], c[2] + 1>>) = Level(ByCell(cur), ByCell(dep), Ahead(c, 4))
      /\ LevelAt(cur, dep, <<c[1] - 1, c[2]>>) = Level(ByCell(cur), ByCell(dep), Ahead(c, 6))
      /\ LevelAt(cur, dep, <<c[1] + 1, c[2]>>) = Level(ByCell(cur), ByCell(dep), Ahead(c, 2))
  BY <1>1, <1>2, <1>3
<1> QED
  BY <1>4 DEF Spread, Decayed

\* Into cleared slices, decayGrid writes the decayed level of every cell.
LEMMA SameWritten ==
  ASSUME NEW cur \in [Index -> Nat], NEW dep \in [Index -> Nat]
  PROVE  /\ ByCell(FlatWritten(cur, dep, ZeroSlice))
              = [c \in Cells |-> Decayed(ByCell(cur), ByCell(dep), c)]
         /\ FlatWritten(cur, dep, ZeroSlice) \in [Index -> 0 .. MaxLevel]
<1>1. ASSUME NEW c \in Cells
      PROVE  FlatWritten(cur, dep, ZeroSlice)[Idx(c)] = Decayed(ByCell(cur), ByCell(dep), c)
  <2>1. /\ Idx(c) \in Index /\ Idx(c) % Width = c[1] /\ Idx(c) \div Width = c[2]
        /\ ZeroSlice[Idx(c)] = 0
    BY Address DEF ZeroSlice
  <2>2. Spread(cur, dep, c[1], c[2]) = Decayed(ByCell(cur), ByCell(dep), c)
    BY SameSpread
  <2> QED
    BY <2>1, <2>2 DEF FlatWritten
<1>2. ByCell(cur) \in [Cells -> Nat] /\ ByCell(dep) \in [Cells -> Nat]
  BY ByCellOf
<1>3. \A c \in Cells : Decayed(ByCell(cur), ByCell(dep), c) \in 0 .. MaxLevel
  BY <1>2, DecayedType
<1>4. FlatWritten(cur, dep, ZeroSlice) = [i \in Index |-> FlatWritten(cur, dep, ZeroSlice)[i]]
  BY DEF FlatWritten
<1>5. \A i \in Index : FlatWritten(cur, dep, ZeroSlice)[i] \in 0 .. MaxLevel
  BY <1>1, <1>3, CellOf
<1> QED
  BY <1>1, <1>4, <1>5 DEF ByCell

-----------------------------------------------------------------------------
(***************************************************************************)
(* Naive's operators are Grid's.                                           *)
(***************************************************************************)
\* Naive reads the same configuration.
LEMMA SameGrid ==
  /\ Naive!Cells = Cells /\ Naive!Ants = Ants /\ Naive!Dirs = Dirs /\ Naive!Positions = Positions
  /\ Naive!WallCells = WallCells /\ Naive!FoodTotal = FoodTotal
  /\ \A c : Naive!FoodAt(c) = FoodAt(c)
  /\ \A x, m : Naive!Intn(x, m) = Intn(x, m)
  /\ \A d : Naive!Opposite(d) = Opposite(d)
  /\ \A a, b : Naive!AddSat(a, b) = AddSat(a, b)
<1>1. /\ Naive!Cells = Cells /\ Naive!Ants = Ants /\ Naive!Dirs = Dirs /\ Naive!Positions = Positions
  BY Zenon DEF Naive!Cells, Cells, Naive!Ants, Ants, Naive!Dirs, Dirs, Naive!Positions,
     Positions
<1>2. Naive!WallCells = WallCells
  BY <1>1, Zenon DEF Naive!WallCells, WallCells, Naive!Covers, Covers
<1>3. Naive!FoodTotal = FoodTotal
  BY Zenon DEF Naive!FoodTotal, FoodTotal, Naive!MapThenSumSet, MapThenSumSet,
     Naive!MapThenFoldSet, MapThenFoldSet
<1>4. \A c : Naive!FoodAt(c) = FoodAt(c)
  BY Zenon DEF Naive!FoodAt, FoodAt, Naive!MapThenSumSet, MapThenSumSet, Naive!MapThenFoldSet,
     MapThenFoldSet
<1>5. /\ \A x, m : Naive!Intn(x, m) = Intn(x, m)
      /\ \A d : Naive!Opposite(d) = Opposite(d)
      /\ \A a, b : Naive!AddSat(a, b) = AddSat(a, b)
  BY Zenon DEF Naive!Intn, Intn, Naive!Opposite, Opposite, Naive!AddSat, AddSat
<1> QED
  BY <1>1, <1>2, <1>3, <1>4, <1>5

\* And moves and decays by the same rules.
LEMMA SameRules ==
  /\ \A c, d : Naive!Ahead(c, d) = Ahead(c, d)
  /\ \A c : Naive!Passable(c) <=> Passable(c)
  /\ \A cur, dep, c : Naive!Decayed(cur, dep, c) = Decayed(cur, dep, c)
  /\ \A a, roll, pick, pf, ph : Naive!ChooseMove(a, roll, pick, pf, ph) = ChooseMove(a, roll, pick, pf, ph)
<1>1. \A c, d : Naive!Ahead(c, d) = Ahead(c, d)
  BY Zenon DEF Naive!Ahead, Ahead, Naive!DirDX, DirDX, Naive!DirDY, DirDY, Naive!Dirs, Dirs
<1>2. \A c : Naive!Passable(c) <=> Passable(c)
  BY SameGrid, Zenon DEF Naive!Passable, Passable
<1>3. \A cur, dep, c : Naive!Decayed(cur, dep, c) = Decayed(cur, dep, c)
  <2>1. \A cur, dep, c : Naive!Level(cur, dep, c) = Level(cur, dep, c)
    BY SameGrid DEF Naive!Level, Level
  <2>2. \A v, m, d : Naive!Share(v, m, d) = Share(v, m, d)
    BY Zenon DEF Naive!Share, Share
  <2> QED
    BY <1>1, <2>1, <2>2, SMT DEF Naive!Decayed, Decayed
<1>4. ASSUME NEW a, NEW roll, NEW pick, NEW pf, NEW ph
      PROVE  Naive!ChooseMove(a, roll, pick, pf, ph) = ChooseMove(a, roll, pick, pf, ph)
  <2>1. /\ \A d : Naive!Cone(d) = Cone(d)
        /\ Naive!Heading(a) = Heading(a)
        /\ \A d : Naive!Stay(a, d) = Stay(a, d)
    BY SameGrid DEF Naive!Cone, Cone, Naive!Heading, Heading, Naive!Stay, Stay
  <2>2. \A d : Naive!Step(a, d) = Step(a, d)
    BY <1>1, <1>2, <2>1 DEF Naive!Step, Step
  <2>3. Naive!Candidates(a) = Candidates(a)
    BY <1>1, <1>2, <2>1 DEF Naive!Candidates, Candidates
  <2>4. \A trail, c : Naive!Score(a, trail, c) = Score(a, trail, c)
    <3>1. \A c : Naive!Cheb(c) = Cheb(c)
      BY Zenon DEF Naive!Cheb, Cheb, Naive!AbsDiff, AbsDiff
    <3>2. Naive!NestBias = NestBias
      BY Zenon DEF Naive!NestBias, NestBias
    <3> QED
      BY <3>1, <3>2 DEF Naive!Score, Score
  <2>5. \A trail : Naive!Best(a, trail) = Best(a, trail)
    <3>1. \A trail, j, k : Naive!Better(a, trail, j, k) <=> Better(a, trail, j, k)
      BY <1>1, <2>1, <2>4 DEF Naive!Better, Better
    <3> QED
      BY <2>3, <3>1, Zenon DEF Naive!Best, Best
  <2> QED
    BY <2>1, <2>2, <2>3, <2>5 DEF Naive!ChooseMove, ChooseMove
<1> QED
  BY <1>1, <1>2, <1>3, <1>4

-----------------------------------------------------------------------------
(***************************************************************************)
(* What the three engines keep.                                            *)
(***************************************************************************)
LevelSlices == [Index -> 0 .. MaxLevel]

\* What a step of the engines over slices needs to be well defined.
FlatCore ==
  /\ ants \in [Ants -> AntType] /\ \A i \in Ants : ants[i].pos \notin WallCells
  /\ stream \in [Ants -> [Positions -> 0 .. RawRange - 1]]
  /\ walls = WallSlice /\ food \in [Index -> Nat]
  /\ pheroFood \in LevelSlices /\ pheroHome \in LevelSlices
  /\ depFood \in LevelSlices /\ depHome \in LevelSlices
  /\ nextFood \in LevelSlices /\ nextHome \in LevelSlices
  /\ t \in 0 .. Ticks /\ ticksRun = t /\ committed \in 0 .. AntCount
  /\ phase \in {"sense", "commit", "decay", "swap", "observe"} => t < Ticks
  /\ phase \in {"loop", "final", "returned"} => drawn = [i \in Ants |-> 1 + 2 * t]
  /\ phase \in {"commit", "decay", "swap", "observe"} => drawn = [i \in Ants |-> 3 + 2 * t]
  /\ phase = "commit" =>
       intents \in [Ants -> IntentType] /\ \A i \in Ants : intents[i].pos \notin WallCells

\* newWorld adds the piles up by address and gets what it gets by cell.
LEMMA SameFood ==
  ASSUME NEW i \in Index
  PROVE  MapThenSumSet(LAMBDA m : Piles[m].amount, {m \in DOMAIN Piles : Idx(Piles[m].at) = i})
           = FoodAt(<<i % Width, i \div Width>>)
<1> DEFINE c == <<i % Width, i \div Width>>
<1>1. c \in Cells /\ Idx(c) = i
  BY CellOf
<1>2. \A e \in Cells : Idx(e) = Idx(c) => e = c
  <2> SUFFICES ASSUME NEW e \in Cells, Idx(e) = Idx(c) PROVE e = c
    OBVIOUS
  <2>1. e[1] = c[1] /\ e[2] = c[2]
    BY <1>1, Address
  <2> QED
    BY <2>1 DEF Cells
<1> HIDE DEF c
<1>3. \A m \in DOMAIN Piles : Piles[m].at \in Cells
  BY WorldAssumption
<1>4. {m \in DOMAIN Piles : Idx(Piles[m].at) = i} = {m \in DOMAIN Piles : Piles[m].at = c}
  BY <1>1, <1>2, <1>3
<1>5. MapThenSumSet(LAMBDA m : Piles[m].amount, {m \in DOMAIN Piles : Idx(Piles[m].at) = i})
        = FoodAt(c)
  BY <1>4, Zenon DEF FoodAt, MapThenSumSet, MapThenFoldSet
<1> QED
  BY <1>5 DEF c

\* newWorld sets the slices up.
LEMMA FlatInitCore == NewFlatWorld => FlatCore
<1> SUFFICES ASSUME NewFlatWorld PROVE FlatCore
  OBVIOUS
<1>1. stream \in [Ants -> [Positions -> 0 .. RawRange - 1]] /\ 0 \in Positions
  <2>1. stream \in Streams
    BY DEF NewFlatWorld
  <2>2. 0 \in Positions
    BY ConfigAssumption DEF Positions
  <2> QED
    BY <2>1, <2>2, FlatRunAssumption
<1>2. \A i \in Ants : Intn(stream[i][0], 8) \in Dirs
  <2> SUFFICES ASSUME NEW i \in Ants PROVE Intn(stream[i][0], 8) \in Dirs
    OBVIOUS
  <2>1. stream[i][0] \in 0 .. RawRange - 1
    BY <1>1
  <2> QED BY <2>1, IntnRange DEF Dirs
<1>3. ants \in [Ants -> AntType] /\ \A i \in Ants : ants[i].pos \notin WallCells
  BY <1>2, ConfigAssumption, WorldAssumption DEF NewFlatWorld, AntType
<1>4. walls = WallSlice
  BY Zenon DEF NewFlatWorld, WallSlice
<1>5. food \in [Index -> Nat]
  <2>1. food = [i \in Index |->
          MapThenSumSet(LAMBDA m : Piles[m].amount, {m \in DOMAIN Piles : Idx(Piles[m].at) = i})]
    BY Zenon DEF NewFlatWorld, MapThenSumSet
  <2>2. food = [i \in Index |-> FoodAt(<<i % Width, i \div Width>>)]
    BY <2>1, SameFood, Zenon
  <2>3. \A i \in Index : FoodAt(<<i % Width, i \div Width>>) \in Nat
    BY CellOf, WorldAssumption
  <2> QED
    BY <2>2, <2>3
<1>6. ZeroSlice \in LevelSlices
  BY ConfigAssumption DEF ZeroSlice, LevelSlices
<1>7. /\ t \in 0 .. Ticks /\ ticksRun = t /\ committed \in 0 .. AntCount /\ phase = "loop"
      /\ drawn = [i \in Ants |-> 1 + 2 * t]
  BY ConfigAssumption DEF NewFlatWorld
<1>8. /\ pheroFood \in LevelSlices /\ pheroHome \in LevelSlices
      /\ depFood \in LevelSlices /\ depHome \in LevelSlices
      /\ nextFood \in LevelSlices /\ nextHome \in LevelSlices
  BY <1>6 DEF NewFlatWorld
<1> QED
  BY <1>1, <1>3, <1>4, <1>5, <1>7, <1>8 DEF FlatCore

\* Committing one ant, whichever branch it takes.
LEMMA FlatCommitCore ==
  ASSUME FlatCore, Commit
  PROVE  FlatCore'
<1> DEFINE i == committed
           cell == Idx(intents[i].pos)
<1>1. i \in Ants /\ phase = "commit" /\ phase' = phase
  BY ConfigAssumption DEF Commit, FlatCore, Ants
<1>2. intents[i] \in IntentType /\ intents[i].pos \in Cells \ WallCells
  BY <1>1 DEF FlatCore, IntentType
<1>3. cell \in Index
  BY <1>2, Address
<1>4. /\ ants[i].hasFood \in BOOLEAN /\ intents[i].dir \in Dirs
      /\ Opposite(intents[i].dir) \in Dirs /\ intents[i].blocked \in BOOLEAN
  BY <1>1, <1>2, OppositeType DEF FlatCore, AntType, IntentType
<1>5. PICK a \in AntType : ants' = [ants EXCEPT ![i] = a] /\ a.pos = intents[i].pos
  <2> DEFINE had  == ants[i].hasFood
             up   == ~had /\ food[cell] > 0
             down == had /\ intents[i].pos = Nest
             has  == up \/ (had /\ ~down)
             a    == [pos |-> intents[i].pos,
                      dir |-> IF up \/ down THEN Opposite(intents[i].dir) ELSE intents[i].dir,
                      hasFood |-> has, blocked |-> intents[i].blocked]
  <2>1. ants' = [ants EXCEPT ![i] = a]
    BY DEF Commit, CommitAnt
  <2>2. a.pos = intents[i].pos
    OBVIOUS
  <2>3. has \in BOOLEAN /\ a.dir \in Dirs
    BY <1>4
  <2> HIDE DEF has
  <2>4. a \in AntType
    BY <1>2, <1>4, <2>3 DEF AntType
  <2> HIDE DEF a
  <2> QED BY <2>1, <2>2, <2>4
<1>6. ants' \in [Ants -> AntType] /\ \A j \in Ants : ants'[j].pos \notin WallCells
  BY <1>1, <1>2, <1>5 DEF FlatCore
<1>7. food' \in [Index -> Nat]
  BY <1>3 DEF Commit, CommitAnt, FlatCore
<1>8. depFood' \in LevelSlices /\ depHome' \in LevelSlices
  <2>1. /\ AddSat(depFood[cell], DepositFood) \in 0 .. MaxLevel
        /\ AddSat(depHome[cell], DepositHome) \in 0 .. MaxLevel
    BY <1>3, AddSatType, ConfigAssumption DEF FlatCore, LevelSlices
  <2>2. /\ depFood' \in {depFood, [depFood EXCEPT ![cell] = AddSat(depFood[cell], DepositFood)]}
        /\ depHome' \in {depHome, [depHome EXCEPT ![cell] = AddSat(depHome[cell], DepositHome)]}
    BY DEF Commit, CommitAnt
  <2> QED BY <2>1, <2>2 DEF FlatCore, LevelSlices
<1>9. committed' \in 0 .. AntCount
  BY ConfigAssumption DEF Commit, FlatCore
<1> HIDE DEF i, cell
<1> QED
  BY <1>1, <1>6, <1>7, <1>8, <1>9 DEF Commit, FlatCore, loop

\* The loop of Run touches neither the world nor the streams.
LEMMA FlatLoopCore ==
  ASSUME FlatCore, LoopHead \/ Observe \/ Finish \/ Cancel
  PROVE  FlatCore'
<1> USE DEF FlatCore, larder, grids, loop
<1>1. CASE LoopHead
  BY <1>1 DEF LoopHead
<1>2. CASE Observe
  <2>1. t < Ticks /\ t' = t + 1 /\ t' \in 0 .. Ticks /\ ticksRun' = t' /\ phase' = "loop"
    BY <1>2, ConfigAssumption DEF Observe
  <2>2. drawn' = [i \in Ants |-> 1 + 2 * t']
    <3>1. drawn' = [i \in Ants |-> 3 + 2 * t] /\ 3 + 2 * t = 1 + 2 * t'
      BY <1>2, <2>1, ConfigAssumption DEF Observe
    <3> QED BY <3>1
  <2> QED
    BY <1>2, <2>1, <2>2 DEF Observe
<1>3. CASE Finish
  BY <1>3 DEF Finish
<1>4. CASE Cancel
  BY <1>4 DEF Cancel
<1> QED
  BY <1>1, <1>2, <1>3, <1>4

\* What ant i decides in this tick, by the rules of the reference engine.
Decision(i) ==
  ChooseMove(ants[i], Intn(stream[i][1 + 2 * t], RandomDen), Intn(stream[i][2 + 2 * t], 3),
             ByCell(pheroFood), ByCell(pheroHome))

\* It is sound, and what flatgrid decides from the same two draws.
LEMMA DecisionType ==
  ASSUME FlatCore, phase = "sense", NEW i \in Ants
  PROVE  /\ Decision(i) \in IntentType /\ Decision(i).pos \notin WallCells
         /\ drawn[i] = 1 + 2 * t => FlatMove(i) = Decision(i)
<1> DEFINE roll == Intn(stream[i][1 + 2 * t], RandomDen)
           pick == Intn(stream[i][2 + 2 * t], 3)
<1>1. t \in Nat /\ 1 + 2 * t \in Positions /\ 2 + 2 * t \in Positions
  BY ConfigAssumption DEF FlatCore, Positions
<1>2. stream[i][1 + 2 * t] \in 0 .. RawRange - 1 /\ stream[i][2 + 2 * t] \in 0 .. RawRange - 1
  BY <1>1 DEF FlatCore
<1>3. RandomDen \in Nat \ {0} /\ 3 \in Nat \ {0}
  BY ConfigAssumption
<1>4. roll \in 0 .. RandomDen - 1 /\ pick \in 0 .. 3 - 1
  BY ONLY <1>2, <1>3, IntnRange
<1>5. roll \in Nat /\ pick \in 0 .. 2
  BY <1>3, <1>4
<1>6. pheroFood \in [Index -> Nat] /\ pheroHome \in [Index -> Nat]
  <2>1. 0 .. MaxLevel \subseteq Nat
    BY ConfigAssumption
  <2> QED BY <2>1 DEF FlatCore, LevelSlices
<1>7. ByCell(pheroFood) \in [Cells -> Nat] /\ ByCell(pheroHome) \in [Cells -> Nat]
  BY <1>6, ByCellOf
<1>8. ants[i] \in AntType /\ ants[i].pos \notin WallCells /\ walls = WallSlice
  BY DEF FlatCore
<1>9. SoundIntent(ants[i], roll, Decision(i))
  <2> HIDE DEF roll, pick
  <2>1. SoundIntent(ants[i], roll, ChooseMove(ants[i], roll, pick, ByCell(pheroFood), ByCell(pheroHome)))
    BY ONLY <1>5, <1>7, <1>8, ChooseMoveType
  <2> QED BY <2>1 DEF Decision, roll, pick
<1>10. ASSUME drawn[i] = 1 + 2 * t PROVE FlatMove(i) = Decision(i)
  <2>1. drawn[i] + 1 = 2 + 2 * t
    BY <1>1, <1>10
  <2>2. Intn(stream[i][drawn[i] + 1], 3) \in 0 .. 2
    BY <1>5, <2>1
  <2>3. FlatMove(i) = ChooseMove(ants[i], Intn(stream[i][drawn[i]], RandomDen),
                                 Intn(stream[i][drawn[i] + 1], 3),
                                 ByCell(pheroFood), ByCell(pheroHome))
    BY <1>6, <1>8, <2>2, SameMove
  <2> QED
    BY <1>10, <2>1, <2>3 DEF Decision
<1> QED
  BY <1>9, <1>10 DEF SoundIntent

\* The end of phase A: every ant has decided, and drawn twice.
Sensed ==
  /\ phase = "sense" /\ phase' = "commit"
  /\ intents' = [i \in Ants |-> Decision(i)]
  /\ drawn' = [i \in Ants |-> 3 + 2 * t]
  /\ UNCHANGED <<ants, stream, larder, grids, committed, loop, cancelled, walls>>

\* The end of phase C: both grids are decayed and the deposits are cleared.
Swapped ==
  /\ (phase = "commit" /\ committed = AntCount) \/ phase = "swap"
  /\ phase' = "observe" /\ committed' = 0
  /\ pheroFood' = FlatWritten(pheroFood, depFood, ZeroSlice)
  /\ pheroHome' = FlatWritten(pheroHome, depHome, ZeroSlice)
  /\ depFood' = ZeroSlice /\ depHome' = ZeroSlice
  /\ nextFood' = ZeroSlice /\ nextHome' = ZeroSlice
  /\ UNCHANGED <<ants, stream, drawn, larder, loop, cancelled, walls>>

\* The end of phase A leaves sound intents.
LEMMA SensedCore == FlatCore /\ Sensed => FlatCore'
<1> SUFFICES ASSUME FlatCore, Sensed PROVE FlatCore'
  OBVIOUS
<1>1. \A i \in Ants : Decision(i) \in IntentType /\ Decision(i).pos \notin WallCells
  BY DecisionType DEF Sensed
<1>2. intents' \in [Ants -> IntentType] /\ \A i \in Ants : intents'[i].pos \notin WallCells
  BY <1>1 DEF Sensed
<1>3. drawn' = [i \in Ants |-> 3 + 2 * t'] /\ phase = "sense" /\ phase' = "commit"
  BY DEF Sensed, loop
<1> QED
  BY <1>2, <1>3 DEF Sensed, FlatCore, larder, grids, loop

\* A slice of levels is a slice of numbers; a cleared one is a slice of levels.
LEMMA SlicesAreNat == \A s \in LevelSlices : s \in [Index -> Nat]
<1>1. 0 .. MaxLevel \subseteq Nat
  BY ConfigAssumption
<1> QED
  BY <1>1 DEF LevelSlices

LEMMA ZeroIsASlice == ZeroSlice \in LevelSlices
BY ConfigAssumption DEF ZeroSlice, LevelSlices

\* The end of phase C leaves levels below the ceiling.
LEMMA SwappedCore == FlatCore /\ Swapped => FlatCore'
<1> SUFFICES ASSUME FlatCore, Swapped PROVE FlatCore'
  OBVIOUS
<1>1. /\ pheroFood \in [Index -> Nat] /\ depFood \in [Index -> Nat]
      /\ pheroHome \in [Index -> Nat] /\ depHome \in [Index -> Nat]
  BY SlicesAreNat DEF FlatCore
<1>2. pheroFood' \in LevelSlices /\ pheroHome' \in LevelSlices
  BY <1>1, SameWritten DEF Swapped, LevelSlices
<1>3. /\ depFood' \in LevelSlices /\ depHome' \in LevelSlices
      /\ nextFood' \in LevelSlices /\ nextHome' \in LevelSlices
  BY ZeroIsASlice DEF Swapped
<1>4. drawn' = [i \in Ants |-> 3 + 2 * t'] /\ t' < Ticks /\ phase' = "observe"
  BY DEF Swapped, FlatCore, loop
<1>5. committed' \in 0 .. AntCount
  BY ConfigAssumption DEF Swapped
<1> QED
  BY <1>2, <1>3, <1>4, <1>5 DEF Swapped, FlatCore, larder, loop
-----------------------------------------------------------------------------
(***************************************************************************)
(* Each of these steps is the step of naive it stands for.                 *)
(***************************************************************************)
\* newWorld is naive's newWorld.
LEMMA LikeInit == NewFlatWorld => Naive!Init
<1> SUFFICES ASSUME NewFlatWorld PROVE Naive!Init
  OBVIOUS
<1>1. phase = "loop" /\ committed = 0
  BY DEF NewFlatWorld
<1>2. ants = [i \in Naive!Ants |-> [pos |-> Nest, dir |-> Naive!Intn(stream[i][0], 8),
                                    hasFood |-> FALSE, blocked |-> FALSE]]
  BY SameGrid DEF NewFlatWorld
<1>3. ByCell(food) = [c \in Naive!Cells |-> Naive!FoodAt(c)]
  <2>1. food = [i \in Index |->
          MapThenSumSet(LAMBDA m : Piles[m].amount, {m \in DOMAIN Piles : Idx(Piles[m].at) = i})]
    BY Zenon DEF NewFlatWorld, MapThenSumSet
  <2>2. food = [i \in Index |-> FoodAt(<<i % Width, i \div Width>>)]
    BY <2>1, SameFood, Zenon
  <2>3. \A c \in Cells : food[Idx(c)] = FoodAt(c)
    <3> SUFFICES ASSUME NEW c \in Cells PROVE food[Idx(c)] = FoodAt(c)
      OBVIOUS
    <3>1. Idx(c) \in Index /\ Idx(c) % Width = c[1] /\ Idx(c) \div Width = c[2] /\ c = <<c[1], c[2]>>
      BY Address DEF Cells
    <3> QED
      BY <2>2, <3>1
  <2> QED
    BY <2>3, SameGrid DEF ByCell
<1>4. ByCell(ZeroSlice) = Naive!Zero
  BY SameGrid, Address DEF ByCell, ZeroSlice, Naive!Zero
<1>5. drawn = [i \in Naive!Ants |-> 1] /\ foodLeft = Naive!FoodTotal
  BY SameGrid DEF NewFlatWorld
<1> QED
  BY <1>1, <1>2, <1>3, <1>4, <1>5 DEF NewFlatWorld, Naive!Init, Naive!NewWorld

\* The loop of Run is naive's.
LEMMA LikeLoop ==
  ASSUME FlatCore
  PROVE  /\ LoopHead => Naive!LoopHead
         /\ Observe => Naive!Observe
         /\ Finish => Naive!Finish
         /\ Cancel => Naive!Cancel
<1>1. ASSUME LoopHead PROVE Naive!LoopHead
  <2>1. phase = "loop" /\ phase' \in {"sense", "final"} /\ drawn = [i \in Ants |-> 1 + 2 * t]
    BY <1>1 DEF LoopHead, FlatCore
  <2> QED
    BY <1>1, <2>1 DEF LoopHead, Naive!LoopHead, larder, grids, loop, Naive!larder, Naive!grids,
       Naive!loop, ByCell
<1>2. ASSUME Observe PROVE Naive!Observe
  BY <1>2 DEF Observe, Naive!Observe, larder, grids, loop, Naive!larder, Naive!grids,
     Naive!loop, ByCell, Frame, Naive!Frame, Naive!Due
<1>3. ASSUME Finish PROVE Naive!Finish
  BY <1>3 DEF Finish, Naive!Finish, larder, grids, loop, Naive!larder, Naive!grids, Naive!loop,
     ByCell, Frame, Naive!Frame
<1>4. ASSUME Cancel PROVE Naive!Cancel
  BY <1>4 DEF Cancel, Naive!Cancel, larder, grids, loop, Naive!larder, Naive!grids, Naive!loop,
     ByCell
<1> QED
  BY <1>1, <1>2, <1>3, <1>4

\* The end of phase A is naive's phase A.
LEMMA LikeSense == FlatCore /\ Sensed => Naive!Sense
<1> SUFFICES ASSUME FlatCore, Sensed PROVE Naive!Sense
  OBVIOUS
<1>1. phase = "sense" /\ phase' = "commit" /\ t \in Nat
  BY ConfigAssumption DEF Sensed, FlatCore
<1>2. \A i \in Naive!Ants : Naive!Intent(i) = Decision(i)
  <2> SUFFICES ASSUME NEW i \in Ants PROVE Naive!Intent(i) = Decision(i)
    BY SameGrid
  <2>1. [j \in Ants |-> 1 + 2 * t][i] = 1 + 2 * t /\ 1 + 2 * t + 1 = 2 + 2 * t
    BY <1>1
  <2> QED
    BY <1>1, <2>1, SameGrid, SameRules DEF Naive!Intent, Decision
<1>3. intents' = [i \in Naive!Ants |-> Naive!Intent(i)]
  BY <1>2, SameGrid DEF Sensed
<1>4. drawn' = [i \in Naive!Ants |-> [j \in Ants |-> 1 + 2 * t][i] + 2]
  BY <1>1, SameGrid DEF Sensed
<1> QED
  BY <1>1, <1>3, <1>4, Zenon DEF Sensed, Naive!Sense, larder, grids, loop, Naive!larder,
     Naive!grids,
     Naive!loop, ByCell

\* A commit on slices is the commit on maps.
LEMMA LikeCommit == FlatCore /\ Commit => Naive!Commit
<1> SUFFICES ASSUME FlatCore, Commit PROVE Naive!Commit
  OBVIOUS
<1> DEFINE i == committed
           c == intents[i].pos
<1>1. phase = "commit" /\ phase' = "commit" /\ i \in Ants /\ i \in Nat /\ i < AntCount
  BY ConfigAssumption DEF Commit, FlatCore, Ants
<1>2. intents[i] \in IntentType /\ c \in Cells /\ Idx(c) \in Index
  BY <1>1, Address DEF FlatCore, IntentType
<1>3. \A s, v : s \in [Index -> Nat] =>
        /\ ByCell(s)[c] = s[Idx(c)]
        /\ ByCell([s EXCEPT ![Idx(c)] = v]) = [ByCell(s) EXCEPT ![c] = v]
  <2> SUFFICES ASSUME NEW s \in [Index -> Nat], NEW v
               PROVE  /\ ByCell(s)[c] = s[Idx(c)]
                      /\ ByCell([s EXCEPT ![Idx(c)] = v]) = [ByCell(s) EXCEPT ![c] = v]
    OBVIOUS
  <2> HIDE DEF c
  <2>1. \A e \in Cells : Idx(e) \in Index /\ (Idx(e) = Idx(c) => e = c)
    <3> SUFFICES ASSUME NEW e \in Cells PROVE Idx(e) \in Index /\ (Idx(e) = Idx(c) => e = c)
      OBVIOUS
    <3>1. Idx(e) \in Index /\ (Idx(e) = Idx(c) => e[1] = c[1] /\ e[2] = c[2])
      BY <1>2, Address
    <3> QED
      BY <1>2, <3>1 DEF Cells
  <2> QED
    BY <1>2, <2>1 DEF ByCell
<1>4. /\ food \in [Index -> Nat] /\ depFood \in [Index -> Nat] /\ depHome \in [Index -> Nat]
  BY SlicesAreNat DEF FlatCore
<1> QED
  BY <1>1, <1>2, <1>3, <1>4, SameGrid DEF Commit, CommitAnt, Naive!Commit, Naive!CommitAnt,
     Naive!Handle, Naive!Mark, Naive!Committed, Naive!PicksUp, Naive!DropsOff, Naive!Loaded,
     Naive!TakeOne, loop, Naive!loop

\* The end of phase C is naive's phase C.
LEMMA LikeDecay == FlatCore /\ Swapped => Naive!Decay
<1> SUFFICES ASSUME FlatCore, Swapped PROVE Naive!Decay
  OBVIOUS
<1>1. /\ phase \in {"commit", "swap"} /\ phase' = "observe" /\ committed' = 0
      /\ phase = "commit" => committed = AntCount
  BY DEF Swapped
<1>2. /\ pheroFood \in [Index -> Nat] /\ depFood \in [Index -> Nat]
      /\ pheroHome \in [Index -> Nat] /\ depHome \in [Index -> Nat]
  BY SlicesAreNat DEF FlatCore
<1>3. ByCell(ZeroSlice) = Naive!Zero
  BY SameGrid, Address DEF ByCell, ZeroSlice, Naive!Zero
<1>4. \A cur, dep \in [Index -> Nat] :
        ByCell(FlatWritten(cur, dep, ZeroSlice)) = Naive!Written(ByCell(cur), ByCell(dep), ByCell(ZeroSlice))
  <2> SUFFICES ASSUME NEW cur \in [Index -> Nat], NEW dep \in [Index -> Nat]
               PROVE  ByCell(FlatWritten(cur, dep, ZeroSlice))
                        = Naive!Written(ByCell(cur), ByCell(dep), ByCell(ZeroSlice))
    OBVIOUS
  <2>1. ByCell(FlatWritten(cur, dep, ZeroSlice)) = [c \in Cells |-> Decayed(ByCell(cur), ByCell(dep), c)]
    BY SameWritten
  <2>2. \A c \in Cells : ByCell(ZeroSlice)[c] = 0
    BY <1>3, SameGrid DEF Naive!Zero
  <2> QED
    BY <2>1, <2>2, SameGrid, SameRules DEF Naive!Written
<1>5. /\ ByCell(pheroFood)' = Naive!Written(ByCell(pheroFood), ByCell(depFood), ByCell(ZeroSlice))
      /\ ByCell(pheroHome)' = Naive!Written(ByCell(pheroHome), ByCell(depHome), ByCell(ZeroSlice))
      /\ ByCell(depFood)' = ByCell(ZeroSlice) /\ ByCell(depHome)' = ByCell(ZeroSlice)
  BY <1>2, <1>4 DEF Swapped, ByCell
<1>6. UNCHANGED <<ants, stream, drawn, ByCell(food), foodLeft, collected, t, ticksRun, frames, cancelled>>
  BY DEF Swapped, larder, loop, ByCell
<1> QED
  BY <1>1, <1>3, <1>5, <1>6, SMT DEF Naive!Decay, Naive!Recycled, Naive!larder, Naive!loop

-----------------------------------------------------------------------------
(***************************************************************************)
(* flatgrid.                                                               *)
(***************************************************************************)
\* Phase A and phase C are one step each.
FlatInv ==
  /\ FlatCore
  /\ phase \in {"loop", "sense", "commit", "observe", "final", "returned"}
  /\ phase = "sense" => drawn = [i \in Ants |-> 1 + 2 * t]
  /\ nextFood = ZeroSlice /\ nextHome = ZeroSlice

\* No address leaves the slices.
LEMMA CoreTypes == FlatCore => FlatTypeOK
BY Zenon DEF FlatCore, FlatTypeOK, AntType, IntentType, WallSlice, LevelSlices

\* Phase A and phase C of flatgrid.
LEMMA FlatSenses == FlatInv /\ Sense => Sensed
<1> SUFFICES ASSUME FlatInv, Sense PROVE Sensed
  OBVIOUS
<1>1. phase = "sense" /\ phase' = "commit" /\ t \in Nat /\ drawn = [i \in Ants |-> 1 + 2 * t]
  BY ConfigAssumption DEF Sense, FlatInv, FlatCore
<1>2. \A i \in Ants : FlatMove(i) = Decision(i)
  BY <1>1, DecisionType DEF FlatInv
<1>3. drawn' = [i \in Ants |-> 3 + 2 * t]
  BY <1>1 DEF Sense
<1> QED
  BY <1>1, <1>2, <1>3 DEF Sense, Sensed

LEMMA FlatSwaps == FlatInv /\ Decay => Swapped
BY DEF FlatInv, Decay, Swapped

\* Every step of flatgrid is a step of naive.
LEMMA FlatStepSound ==
  ASSUME FlatInv, [FlatNext]_vars
  PROVE  FlatInv' /\ [Naive!Next]_(Naive!vars)
<1>1. FlatCore
  BY DEF FlatInv
<1>2. CASE LoopHead \/ Observe \/ Finish \/ Cancel
  <2>1. FlatCore'
    BY <1>1, <1>2, FlatLoopCore
  <2>2. FlatInv'
    BY <1>2, <2>1 DEF FlatInv, FlatCore, LoopHead, Observe, Finish, Cancel, grids, loop
  <2>3. Naive!Next
    BY <1>1, <1>2, LikeLoop DEF Naive!Next, Naive!Run
  <2> QED BY <2>2, <2>3
<1>3. CASE Sense
  <2>1. FlatCore' /\ Naive!Sense
    BY <1>1, <1>3, FlatSenses, SensedCore, LikeSense
  <2> QED
    BY <1>3, <2>1 DEF FlatInv, Sense, grids, Naive!Next, Naive!Run
<1>4. CASE Commit
  <2>1. FlatCore' /\ Naive!Commit
    BY <1>1, <1>4, FlatCommitCore, LikeCommit
  <2> QED
    BY <1>4, <2>1 DEF FlatInv, Commit, Naive!Next, Naive!Run
<1>5. CASE Decay
  <2>1. FlatCore' /\ Naive!Decay
    BY <1>1, <1>5, FlatSwaps, SwappedCore, LikeDecay
  <2> QED
    BY <1>5, <2>1 DEF FlatInv, Decay, Naive!Next, Naive!Run
<1>6. CASE UNCHANGED vars
  <2>1. UNCHANGED Naive!vars
    BY <1>6 DEF vars, larder, grids, loop, Naive!vars, Naive!larder, Naive!grids, Naive!loop,
       ByCell
  <2>2. FlatInv'
    BY <1>6 DEF FlatInv, FlatCore, vars, larder, grids, loop
  <2> QED BY <2>1, <2>2
<1> QED
  BY <1>2, <1>3, <1>4, <1>5, <1>6 DEF FlatNext, FlatTick, Returned

LEMMA FlatStart == FlatInit => FlatInv /\ Naive!Init
<1> SUFFICES ASSUME FlatInit PROVE FlatInv /\ Naive!Init
  OBVIOUS
<1>1. FlatCore /\ Naive!Init
  BY FlatInitCore, LikeInit DEF FlatInit
<1> QED
  BY <1>1 DEF FlatInv, FlatInit, NewFlatWorld

\* In every run of flatgrid the ants, the intents and hence the addresses stay on
\* the grid, and every slice keeps its length and its levels below the ceiling.
THEOREM FlatSlicesKeepTheirTypes == FlatSpec => []FlatTypeOK
<1>1. FlatInv => FlatTypeOK
  BY CoreTypes DEF FlatInv
<1>2. FlatInit => FlatInv
  BY FlatStart
<1>3. FlatInv /\ [FlatNext]_vars => FlatInv'
  BY FlatStepSound
<1> QED
  BY <1>1, <1>2, <1>3, PTL DEF FlatSpec

\* flatgrid is naive step by step (flatgrid.go 1-6): the safety part of
\* ImplementsNaive.
THEOREM FlatImplementsNaive == FlatSpec => Naive!Init /\ [][Naive!Next]_(Naive!vars)
<1>1. FlatInit => FlatInv /\ Naive!Init
  BY FlatStart
<1>2. FlatInv /\ [FlatNext]_vars => FlatInv' /\ [Naive!Next]_(Naive!vars)
  BY FlatStepSound
<1> QED
  BY <1>1, <1>2, PTL DEF FlatSpec

-----------------------------------------------------------------------------
(***************************************************************************)
(* How far the workers are.                                                *)
(***************************************************************************)
\* The ants or the rows worker k owns.
Portion(k, total) == Lo(k, total) .. Hi(k, total) - 1

\* The portions are disjoint.
LEMMA PortionsApart ==
  ASSUME n \in Nat \ {0}, NEW total \in Nat, NEW j \in Workers, NEW k \in Workers, j # k
  PROVE  Portion(j, total) \cap Portion(k, total) = {}
<1>1. ASSUME NEW a \in Workers, NEW b \in Workers, a < b
      PROVE  Portion(a, total) \cap Portion(b, total) = {}
  <2>1. a \in Nat /\ b \in Nat /\ b + 1 \in Nat /\ b < b + 1
    BY <1>1 DEF Workers
  <2>2. Hi(a, total) <= Lo(b, total) /\ Hi(a, total) \in Nat
    BY <1>1, <2>1, Shares
  <2>3. Lo(b, total) \in Nat /\ Hi(b, total) \in Nat /\ Lo(a, total) \in Nat
    BY <1>1, <2>1, Shares
  <2> QED
    BY <2>2, <2>3 DEF Portion
<1>2. j < k \/ k < j
  BY DEF Workers
<1> QED
  BY <1>1, <1>2

\* They end where everything ends.
LEMMA LastPortion ==
  ASSUME n \in Nat \ {0}, NEW total \in Nat
  PROVE  Lo(n, total) = total
<1> DEFINE q == (total * n) \div n
<1>1. q \in Int /\ n * q <= total * n /\ total * n < n * q + n /\ total * n \in Nat
  OBVIOUS
<1> HIDE DEF q
<1>2. CASE q <= total - 1
  <2>1. n * q <= n * (total - 1) /\ n * (total - 1) = total * n - n
    BY <1>1, <1>2
  <2> QED
    BY <1>1, <2>1
<1>3. CASE q >= total + 1
  <2>1. n * q >= n * (total + 1) /\ n * (total + 1) = total * n + n
    BY <1>1, <1>3
  <2> QED
    BY <1>1, <2>1
<1> QED
  BY <1>1, <1>2, <1>3 DEF q, Lo

\* No portion reaches beyond it.
LEMMA PortionsInside ==
  ASSUME n \in Nat \ {0}, NEW total \in Nat, NEW k \in Workers
  PROVE  Hi(k, total) <= total
<1>1. k \in Nat /\ k < n /\ n < n + 1 /\ n \in Nat /\ n + 1 \in Nat
  BY DEF Workers
<1>2. CASE k + 1 = n
  BY <1>1, <1>2, LastPortion DEF Hi, Lo
<1>3. CASE k + 1 < n
  <2>1. Hi(k, total) <= Lo(n, total)
    BY <1>1, Shares
  <2> QED
    BY <2>1, LastPortion
<1> QED
  BY <1>1, <1>2, <1>3

\* And none is missing.
LEMMA PortionsCover ==
  ASSUME n \in Nat \ {0}, NEW total \in Nat, NEW i \in 0 .. total - 1
  PROVE  \E k \in Workers : i \in Portion(k, total)
<1> DEFINE S == {m \in 0 .. n : i < Lo(m, total) => \E k \in 0 .. m - 1 : i \in Portion(k, total)}
<1>1. \A m \in Nat : Lo(m, total) \in Nat /\ Hi(m, total) = Lo(m + 1, total)
  <2> SUFFICES ASSUME NEW m \in Nat PROVE Lo(m, total) \in Nat /\ Hi(m, total) = Lo(m + 1, total)
    OBVIOUS
  <2>1. m + 1 \in Nat /\ m < m + 1
    OBVIOUS
  <2> QED BY <2>1, Shares DEF Lo, Hi
<1>2. 0 \in S
  <2>1. (total * 0) \div n = 0
    OBVIOUS
  <2> QED BY <2>1 DEF Lo
<1>3. \A m \in 0 .. n - 1 : m \in S => m + 1 \in S
  <2> SUFFICES ASSUME NEW m \in 0 .. n - 1, m \in S PROVE m + 1 \in S
    OBVIOUS
  <2>1. m \in Nat /\ m + 1 \in 0 .. n /\ 0 .. m - 1 \subseteq 0 .. (m + 1) - 1 /\ m \in 0 .. (m + 1) - 1
    OBVIOUS
  <2>2. CASE i < Lo(m, total)
    BY <2>1, <2>2
  <2>3. CASE ~(i < Lo(m, total)) /\ i < Lo(m + 1, total)
    <3>1. i \in Portion(m, total)
      BY <1>1, <2>1, <2>3 DEF Portion
    <3> QED BY <2>1, <3>1
  <2>4. CASE ~(i < Lo(m + 1, total))
    BY <2>1, <2>4
  <2> QED BY <2>2, <2>3, <2>4
<1>4. n \in S
  <2>1. n \in Nat /\ n \in 0 .. n
    OBVIOUS
  <2> HIDE DEF S
  <2> QED BY <1>2, <1>3, <2>1, UpTo
<1>5. Lo(n, total) = total
  BY LastPortion
<1> QED
  BY <1>4, <1>5 DEF Workers

\* Ant i has been moved through phase A, row y of a grid through phase C.
Decided(i) ==
  \E k \in Workers : i \in Portion(k, AntCount) /\ k < handed /\ (work[k] = "sense" => i < at[k])
Filled(g, y) ==
  \E k \in Workers :
    /\ y \in Portion(k, Height) /\ k < handed
    /\ work[k] = "decay" => IF grid[k] = g THEN y < at[k] ELSE g = "food"

\* Handing a phase to one more worker finishes nothing.
LEMMA HandProgress ==
  ASSUME TypeOK, PooledHand
  PROVE  /\ phase = "sense" => \A i : Decided(i)' <=> Decided(i)
         /\ phase = "decay" => \A g, y : Filled(g, y)' <=> Filled(g, y)
<1> DEFINE h == handed
<1>1. /\ phase \in {"sense", "decay"} /\ n' = n
      /\ h \in Workers /\ handed' = h + 1 /\ Workers' = Workers /\ n \in Nat \ {0}
      /\ work' = [work EXCEPT ![h] = phase] /\ at' = [at EXCEPT ![h] = Lo(h, Total(phase))]
      /\ grid' = [grid EXCEPT ![h] = "food"] /\ h \in Nat /\ h < n
  BY ConfigAssumption DEF PooledHand, HandOver, TypeOK, PoolTypeOK, Workers, vars
<1>2. /\ work' [h] = phase /\ at'[h] = Lo(h, Total(phase)) /\ grid'[h] = "food"
      /\ \A k \in Workers : k # h => work'[k] = work[k] /\ at'[k] = at[k] /\ grid'[k] = grid[k]
  BY <1>1 DEF TypeOK, PoolTypeOK
<1>3. \A k \in Workers : k < handed' <=> (k < handed \/ k = h)
  BY <1>1 DEF Workers
<1>4. \A k, total : Portion(k, total)' = Portion(k, total)
  BY <1>1 DEF Portion, Lo, Hi
<1>5. Lo(h, Total(phase)) \in Nat /\ Hi(h, Total(phase)) \in Nat /\ ~(h < handed)
  <2>1. h + 1 \in Nat /\ h < h + 1
    BY <1>1
  <2>2. n \in Nat \ {0} /\ Total(phase) \in Nat /\ h \in Nat
    BY <1>1, TotalType
  <2> HIDE DEF h
  <2>3. Lo(h, Total(phase)) \in Nat /\ Hi(h, Total(phase)) \in Nat
    BY <2>1, <2>2, Shares
  <2> QED BY <2>2, <2>3 DEF h
<1>6. \A i \in Portion(h, Total(phase)) : ~(i < Lo(h, Total(phase)))
  BY <1>5 DEF Portion
<1> HIDE DEF h
<1>7. ASSUME phase = "sense", NEW i PROVE Decided(i)' <=> Decided(i)
  BY <1>1, <1>2, <1>3, <1>4, <1>5, <1>6, <1>7 DEF Decided, Total
<1>8. ASSUME phase = "decay", NEW g, NEW y PROVE Filled(g, y)' <=> Filled(g, y)
  BY <1>1, <1>2, <1>3, <1>4, <1>5, <1>6, <1>8 DEF Filled, Total
<1> QED
  BY <1>7, <1>8

\* What TypeOK says of one worker.
LEMMA WorkerType ==
  ASSUME TypeOK, NEW k \in Workers
  PROVE  /\ n \in Nat \ {0} /\ k \in Nat /\ k < n
         /\ \A ph : Lo(k, Total(ph)) \in Nat /\ Hi(k, Total(ph)) \in Nat
         /\ at[k] \in Nat /\ handed \in Nat
         /\ Senses(k) => phase = "sense" /\ k < handed /\ at[k] \in Portion(k, AntCount) /\ at[k] \in Ants
         /\ Decays(k) => phase = "decay" /\ k < handed /\ at[k] \in Portion(k, Height)
         /\ work[k] \in {"sense", "decay"} => k \in Busy /\ k < handed /\ work[k] = phase
<1>1. n \in Nat \ {0} /\ k \in Nat /\ k < n /\ at[k] \in Nat /\ handed \in Nat
  BY ConfigAssumption DEF TypeOK, PoolTypeOK, Workers
<1>2. \A ph : Lo(k, Total(ph)) \in Nat /\ Hi(k, Total(ph)) \in Nat
  <2>1. k + 1 \in Nat /\ k < k + 1
    BY <1>1
  <2> QED BY <1>1, <2>1, Shares, TotalType
<1>3. work[k] \in {"sense", "decay"} =>
        /\ k \in Busy /\ k < handed /\ work[k] = phase
        /\ at[k] >= Lo(k, Total(phase))
  BY <1>2 DEF TypeOK, PoolTypeOK, Busy
<1>4. Hi(k, AntCount) <= AntCount
  BY <1>1, PortionsInside, ConfigAssumption
<1>5. Senses(k) => phase = "sense" /\ at[k] \in Portion(k, AntCount) /\ at[k] \in Ants
  <2>1. Total("sense") = AntCount /\ AntCount \in Nat
    BY ConfigAssumption DEF Total
  <2> QED BY <1>1, <1>2, <1>3, <1>4, <2>1 DEF Senses, Portion, Ants
<1>6. Decays(k) => phase = "decay" /\ at[k] \in Portion(k, Height)
  <2>1. Total("decay") = Height
    BY DEF Total
  <2> QED BY <1>1, <1>2, <1>3, <2>1 DEF Decays, Portion
<1> QED
  BY <1>1, <1>2, <1>3, <1>5, <1>6 DEF Senses, Decays

\* Back at its receive, or at the second grid, a worker has finished nothing more.
LEMMA IdleProgress ==
  ASSUME TypeOK, NEW k \in Workers, Idles(k)
  PROVE  /\ phase = "sense" => \A i : Decided(i)' <=> Decided(i)
         /\ phase = "decay" => \A g \in {"food", "home"} : \A y : Filled(g, y)' <=> Filled(g, y)
<1>1. UNCHANGED <<n, handed>> /\ Workers' = Workers
  BY DEF Idles, NextGrid, Done, Exit, Workers
<1>2. \A j, total : Portion(j, total)' = Portion(j, total)
  BY <1>1 DEF Portion, Lo, Hi
<1>3. /\ work \in [Workers -> {"idle", "sense", "decay", "exited"}]
      /\ grid \in [Workers -> {"food", "home"}] /\ at \in [Workers -> Nat]
  BY DEF TypeOK, PoolTypeOK
<1>4. \A j \in Workers : j # k => work'[j] = work[j] /\ at'[j] = at[j] /\ grid'[j] = grid[j]
  BY <1>3 DEF Idles, NextGrid, Done, Exit
<1>5. /\ work[k] \in {"sense", "decay"} => k < handed /\ work[k] = phase
      /\ Lo(k, AntCount) \in Nat /\ Hi(k, AntCount) \in Nat
      /\ Lo(k, Height) \in Nat /\ Hi(k, Height) \in Nat
  BY WorkerType DEF Total
<1>6. ASSUME phase = "sense", NEW i PROVE Decided(i)' <=> Decided(i)
  <2>1. i \in Portion(k, AntCount) /\ work[k] = "sense" /\ at[k] = Hi(k, AntCount) => i < at[k]
    BY <1>5 DEF Portion
  <2>2. i \in Portion(k, AntCount) =>
          ((work'[k] = "sense" => i < at'[k]) <=> (work[k] = "sense" => i < at[k]))
    BY <1>3, <1>5, <1>6, <2>1 DEF Idles, NextGrid, Done, Exit
  <2> QED
    BY <1>1, <1>2, <1>4, <2>2 DEF Decided
<1>7. ASSUME phase = "decay", NEW g \in {"food", "home"}, NEW y
      PROVE  Filled(g, y)' <=> Filled(g, y)
  <2>1. y \in Portion(k, Height) /\ at[k] = Hi(k, Height) => y < at[k]
    BY <1>5 DEF Portion
  <2>2. y \in Portion(k, Height) => ~(y < Lo(k, Height))
    BY <1>5 DEF Portion
  <2>3. y \in Portion(k, Height) =>
          ((work'[k] = "decay" => IF grid'[k] = g THEN y < at'[k] ELSE g = "food")
             <=> (work[k] = "decay" => IF grid[k] = g THEN y < at[k] ELSE g = "food"))
    BY <1>3, <1>5, <1>7, <2>1, <2>2 DEF Idles, NextGrid, Done, Exit
  <2> QED
    BY <1>1, <1>2, <1>4, <2>3 DEF Filled
<1> QED
  BY <1>6, <1>7

\* One ant of phase A, or one row of one grid of phase C, nobody else was at.
LEMMA AdvanceProgress ==
  ASSUME TypeOK, NEW k \in Workers, Advance(k)
  PROVE  /\ Senses(k) => /\ ~Decided(at[k])
                         /\ \A i : Decided(i)' <=> (Decided(i) \/ i = at[k])
         /\ Decays(k) => /\ ~Filled(grid[k], at[k])
                         /\ \A g \in {"food", "home"} : \A y : Filled(g, y)' <=>
                              (Filled(g, y) \/ (g = grid[k] /\ y = at[k]))
<1>1. UNCHANGED <<n, handed, work, grid>> /\ Workers' = Workers
  BY DEF Advance, Workers
<1>2. \A j, total : Portion(j, total)' = Portion(j, total)
  BY <1>1 DEF Portion, Lo, Hi
<1>3. /\ grid \in [Workers -> {"food", "home"}] /\ at \in [Workers -> Nat]
  BY DEF TypeOK, PoolTypeOK
<1>4. at'[k] = at[k] + 1 /\ \A j \in Workers : j # k => at'[j] = at[j]
  BY <1>3 DEF Advance
<1>5. n \in Nat \ {0} /\ k \in Nat /\ at[k] \in Nat /\ AntCount \in Nat /\ Height \in Nat
  BY WorkerType, ConfigAssumption
<1>6. \A j \in Workers : \A total \in Nat : at[k] \in Portion(k, total) /\ at[k] \in Portion(j, total) => j = k
  BY <1>5, PortionsApart
<1>7. \A total \in {AntCount, Height} : \A i \in Portion(k, total) : i \in Int /\ (i < at[k] + 1 <=> i < at[k] \/ i = at[k])
  <2>1. /\ Lo(k, AntCount) \in Nat /\ Hi(k, AntCount) \in Nat
        /\ Lo(k, Height) \in Nat /\ Hi(k, Height) \in Nat
    BY WorkerType DEF Total
  <2> QED
    BY <1>5, <2>1 DEF Portion
<1>8. ASSUME Senses(k)
      PROVE  ~Decided(at[k]) /\ \A i : Decided(i)' <=> (Decided(i) \/ i = at[k])
  <2>1. k < handed /\ at[k] \in Portion(k, AntCount) /\ work[k] = "sense"
    BY <1>8, WorkerType DEF Senses
  <2>2. ~Decided(at[k])
    BY <1>5, <1>6, <2>1 DEF Decided
  <2>3. ASSUME NEW i PROVE Decided(i)' <=> (Decided(i) \/ i = at[k])
    BY <1>1, <1>2, <1>4, <1>7, <2>1 DEF Decided
  <2> QED
    BY <2>2, <2>3
<1>9. ASSUME Decays(k)
      PROVE  /\ ~Filled(grid[k], at[k])
             /\ \A g \in {"food", "home"} : \A y : Filled(g, y)' <=> (Filled(g, y) \/ (g = grid[k] /\ y = at[k]))
  <2>1. k < handed /\ at[k] \in Portion(k, Height) /\ work[k] = "decay"
    BY <1>9, WorkerType DEF Decays
  <2>2. ~Filled(grid[k], at[k])
    BY <1>5, <1>6, <2>1 DEF Filled
  <2>3. ASSUME NEW g \in {"food", "home"}, NEW y
        PROVE  Filled(g, y)' <=> (Filled(g, y) \/ (g = grid[k] /\ y = at[k]))
    BY <1>1, <1>2, <1>3, <1>4, <1>7, <2>1 DEF Filled
  <2> QED
    BY <2>2, <2>3
<1> QED
  BY <1>8, <1>9

-----------------------------------------------------------------------------
(***************************************************************************)
(* parallel and nogc.                                                      *)
(***************************************************************************)
\* Phase A: the ants that are done have drawn twice and decided as naive does.
SenseProgress ==
  phase = "sense" =>
    /\ drawn = [i \in Ants |-> IF Decided(i) THEN 3 + 2 * t ELSE 1 + 2 * t]
    /\ \A i \in Ants : Decided(i) => intents[i] = Decision(i)

\* Phase C: the rows that are done hold the decayed levels, the others nothing.
RowsWritten(g, cur, dep) ==
  [i \in Index |->
     IF phase = "swap" \/ (phase = "decay" /\ Filled(g, i \div Width))
     THEN FlatWritten(cur, dep, ZeroSlice)[i] ELSE 0]

PooledInv ==
  /\ TypeOK
  /\ FlatCore
  /\ SenseProgress
  /\ DOMAIN intents = Ants /\ intents = [i \in Ants |-> intents[i]]
  /\ nextFood = RowsWritten("food", pheroFood, depFood)
  /\ nextHome = RowsWritten("home", pheroHome, depHome)
  /\ phase \in {"decay", "swap"} => committed = 0

\* Outside phase C the next buffers are clear.
LEMMA NothingWritten ==
  \A g, cur, dep : phase \notin {"decay", "swap"} => RowsWritten(g, cur, dep) = ZeroSlice
BY DEF RowsWritten, ZeroSlice

\* newWorld and newPool.
LEMMA PooledStart == PooledInit => PooledInv /\ Naive!Init
<1> SUFFICES ASSUME PooledInit PROVE PooledInv /\ Naive!Init
  OBVIOUS
<1>1. TypeOK /\ FlatCore /\ Naive!Init /\ phase = "loop"
  BY TypeInit, FlatInitCore, LikeInit DEF PooledInit, NewFlatWorld
<1>2. intents = [i \in Ants |-> NoIntent] /\ nextFood = ZeroSlice /\ nextHome = ZeroSlice
  BY DEF PooledInit, NewFlatWorld
<1> QED
  BY <1>1, <1>2, NothingWritten DEF PooledInv, SenseProgress

\* A band is a row.
LEMMA BandIsRow ==
  ASSUME NEW y \in 0 .. Height - 1, NEW i \in Index
  PROVE  i \in BandOf(y) <=> i \div Width = y
<1> DEFINE W == Width
           q == i \div W
<1>1. W \in Nat \ {0} /\ Height \in Nat \ {0} /\ i \in Nat
  BY ConfigAssumption DEF Index
<1> HIDE DEF W
<1>2. q \in Int /\ W * q <= i /\ i < W * q + W
  BY <1>1
<1> HIDE DEF q
<1>3. y * W \in Nat /\ y * W = W * y
  BY <1>1
<1>4. q = y => i \in y * W .. y * W + W - 1
  BY <1>1, <1>2, <1>3
<1>5. i \in y * W .. y * W + W - 1 => q = y
  <2> SUFFICES ASSUME i \in y * W .. y * W + W - 1 PROVE q = y
    OBVIOUS
  <2>1. CASE q <= y - 1
    <3>1. W * q <= W * (y - 1) /\ W * (y - 1) = y * W - W
      BY <1>1, <1>2, <2>1
    <3> QED BY <1>1, <1>2, <1>3, <3>1
  <2>2. CASE q >= y + 1
    <3>1. W * q >= W * (y + 1) /\ W * (y + 1) = y * W + W
      BY <1>1, <1>2, <2>2
    <3> QED BY <1>1, <1>2, <1>3, <3>1
  <2> QED BY <1>2, <2>1, <2>2
<1> QED
  BY <1>4, <1>5 DEF BandOf, q, W

\* Writing the band of a row not yet written.
LEMMA BandWritten ==
  ASSUME NEW g \in {"food", "home"}, NEW y \in 0 .. Height - 1, NEW cur, NEW dep,
         phase = "decay", phase' = "decay", ~Filled(g, y),
         \A z : Filled(g, z)' <=> (Filled(g, z) \/ z = y)
  PROVE  WrittenBand(cur, dep, RowsWritten(g, cur, dep), y)
           = [i \in Index |-> IF Filled(g, i \div Width)' THEN FlatWritten(cur, dep, ZeroSlice)[i] ELSE 0]
<1> DEFINE next == RowsWritten(g, cur, dep)
<1>1. ASSUME NEW i \in Index
      PROVE  (IF i \in BandOf(y) THEN FlatWritten(cur, dep, next)[i] ELSE next[i])
               = IF Filled(g, i \div Width)' THEN FlatWritten(cur, dep, ZeroSlice)[i] ELSE 0
  <2>1. i \in BandOf(y) <=> i \div Width = y
    BY BandIsRow
  <2>2. next[i] = IF Filled(g, i \div Width) THEN FlatWritten(cur, dep, ZeroSlice)[i] ELSE 0
    BY DEF RowsWritten
  <2>3. Filled(g, i \div Width)' <=> (Filled(g, i \div Width) \/ i \div Width = y)
    OBVIOUS
  <2> HIDE DEF next
  <2>4. CASE i \in BandOf(y)
    <3>1. next[i] = ZeroSlice[i]
      BY <2>1, <2>2, <2>4 DEF ZeroSlice
    <3>2. FlatWritten(cur, dep, next)[i] = FlatWritten(cur, dep, ZeroSlice)[i]
      BY <3>1 DEF FlatWritten
    <3> QED
      BY <2>1, <2>3, <2>4, <3>2
  <2>5. CASE i \notin BandOf(y)
    BY <2>1, <2>2, <2>3, <2>5
  <2> QED
    BY <2>4, <2>5
<1> QED
  BY <1>1 DEF WrittenBand

\* What a step of a worker or of the hand-over leaves alone.
Unseen ==
  UNCHANGED <<ants, stream, larder, pheroFood, pheroHome, depFood, depHome, phase, committed,
              loop, cancelled, walls>>

\* Naive does not see it, and it keeps what the slices keep.
LEMMA UnseenIsAStutter ==
  ASSUME Unseen, phase \in {"sense", "decay", "returned"},
         phase # "sense" => drawn' = drawn, phase = "decay" => intents' = intents
  PROVE  UNCHANGED Naive!vars
<1>1. /\ UNCHANGED <<ants, stream, ByCell(food), foodLeft, collected, ByCell(pheroFood),
                     ByCell(pheroHome), ByCell(depFood), ByCell(depHome), phase, committed,
                     t, ticksRun, frames, cancelled>>
  BY DEF Unseen, larder, loop, ByCell
<1> QED
  BY <1>1, Zenon DEF Naive!vars, Naive!larder, Naive!grids, Naive!loop

LEMMA UnseenCore ==
  ASSUME FlatCore, Unseen, phase # "sense" => drawn' = drawn, phase \notin {"commit"},
         nextFood' \in LevelSlices, nextHome' \in LevelSlices
  PROVE  FlatCore'
BY DEF FlatCore, Unseen, larder, loop

LEMMA UnseenDecision ==
  ASSUME Unseen PROVE \A i : Decision(i)' = Decision(i)
BY DEF Unseen, loop, Decision, ByCell

\* Handing a phase to a worker is not seen.
LEMMA HandSound ==
  ASSUME PooledInv, PooledHand, TypeOK'
  PROVE  PooledInv' /\ UNCHANGED Naive!vars
<1>1. /\ phase \in {"sense", "decay"} /\ Unseen
      /\ UNCHANGED <<drawn, intents, nextFood, nextHome, phase, committed, pheroFood, pheroHome, depFood, depHome, t>>
  BY DEF PooledHand, vars, grids, loop, Unseen
<1>2. FlatCore'
  BY <1>1, UnseenCore DEF PooledInv, FlatCore
<1>3. /\ phase = "sense" => \A i : Decided(i)' <=> Decided(i)
      /\ phase = "decay" => \A g, y : Filled(g, y)' <=> Filled(g, y)
  BY HandProgress DEF PooledInv
<1>4. SenseProgress'
  BY <1>1, <1>3, UnseenDecision DEF PooledInv, SenseProgress
<1>5. /\ nextFood' = RowsWritten("food", pheroFood, depFood)'
      /\ nextHome' = RowsWritten("home", pheroHome, depHome)'
  BY <1>1, <1>3 DEF PooledInv, RowsWritten
<1> QED
  BY <1>1, <1>2, <1>4, <1>5, UnseenIsAStutter DEF PooledInv

\* Nor is a worker that goes to its second grid, is done, or leaves.
LEMMA IdleSound ==
  ASSUME PooledInv, NEW k \in Workers, Idles(k), UNCHANGED vars, TypeOK'
  PROVE  PooledInv' /\ UNCHANGED Naive!vars
<1>1. /\ Unseen
      /\ UNCHANGED <<drawn, intents, nextFood, nextHome, phase, committed, pheroFood, pheroHome, depFood, depHome, t>>
  BY DEF vars, grids, loop, Unseen
<1>2. UNCHANGED Naive!vars
  BY <1>1, Zenon DEF vars, larder, grids, loop, Naive!vars, Naive!larder, Naive!grids,
     Naive!loop, ByCell
<1>3. FlatCore'
  BY <1>1 DEF PooledInv, FlatCore, Unseen, larder, loop
<1>4. /\ phase = "sense" => \A i : Decided(i)' <=> Decided(i)
      /\ phase = "decay" => \A g \in {"food", "home"} : \A y : Filled(g, y)' <=> Filled(g, y)
  BY IdleProgress DEF PooledInv
<1>5. SenseProgress'
  BY <1>1, <1>4, UnseenDecision DEF PooledInv, SenseProgress
<1>6. /\ nextFood' = RowsWritten("food", pheroFood, depFood)'
      /\ nextHome' = RowsWritten("home", pheroHome, depHome)'
  BY <1>1, <1>4 DEF PooledInv, RowsWritten
<1> QED
  BY <1>1, <1>2, <1>3, <1>5, <1>6 DEF PooledInv

\* Nor one ant of phase A.
LEMMA SenseAntSound ==
  ASSUME PooledInv, NEW k \in Workers, PooledSenseAnt(k), TypeOK'
  PROVE  PooledInv' /\ UNCHANGED Naive!vars
<1> DEFINE a == at[k]
<1>1. /\ phase = "sense" /\ a \in Ants /\ Unseen /\ TypeOK /\ FlatCore
      /\ UNCHANGED <<nextFood, nextHome, phase, committed, pheroFood, pheroHome, depFood, depHome, t>>
      /\ intents' = [intents EXCEPT ![a] = FlatMove(a)]
      /\ drawn' = [drawn EXCEPT ![a] = drawn[a] + 2]
  BY WorkerType DEF PooledSenseAnt, PooledInv, grids, loop, Unseen
<1>2. ~Decided(a) /\ \A i : Decided(i)' <=> (Decided(i) \/ i = a)
  BY <1>1, AdvanceProgress DEF PooledSenseAnt
<1> HIDE DEF a
<1>3. drawn[a] = 1 + 2 * t /\ t \in Nat
  BY <1>1, <1>2, ConfigAssumption DEF PooledInv, SenseProgress, FlatCore
<1>4. FlatMove(a) = Decision(a)
  BY <1>1, <1>3, DecisionType
<1>5. \A i : Decision(i)' = Decision(i)
  BY <1>1, UnseenDecision
<1>6. drawn' = [i \in Ants |-> IF Decided(i)' THEN 3 + 2 * t' ELSE 1 + 2 * t']
  <2>1. drawn = [i \in Ants |-> IF Decided(i) THEN 3 + 2 * t ELSE 1 + 2 * t]
    BY <1>1 DEF PooledInv, SenseProgress
  <2>2. drawn[a] + 2 = 3 + 2 * t
    BY <1>3
  <2> QED
    BY <1>1, <1>2, <2>1, <2>2
<1>7. DOMAIN intents' = Ants /\ intents' = [i \in Ants |-> intents'[i]]
  BY <1>1 DEF PooledInv
<1>8. \A i \in Ants : Decided(i)' => intents'[i] = Decision(i)'
  BY <1>1, <1>2, <1>4, <1>5 DEF PooledInv, SenseProgress
<1>9. SenseProgress'
  BY <1>6, <1>8 DEF SenseProgress
<1>10. FlatCore'
  BY <1>1, UnseenCore DEF FlatCore
<1>11. /\ nextFood' = RowsWritten("food", pheroFood, depFood)'
       /\ nextHome' = RowsWritten("home", pheroHome, depHome)'
  BY <1>1, NothingWritten DEF PooledInv, RowsWritten
<1>12. UNCHANGED Naive!vars
  BY <1>1, UnseenIsAStutter
<1> QED
  BY <1>1, <1>7, <1>9, <1>10, <1>11, <1>12 DEF PooledInv

\* Nor one row of phase C.
LEMMA DecayRowSound ==
  ASSUME PooledInv, NEW k \in Workers, PooledDecayRow(k), TypeOK'
  PROVE  PooledInv' /\ UNCHANGED Naive!vars
<1> DEFINE y == at[k]
           g == grid[k]
<1>1. /\ phase = "decay" /\ Unseen /\ TypeOK /\ FlatCore /\ y \in Portion(k, Height)
      /\ UNCHANGED <<drawn, intents, phase, committed, pheroFood, pheroHome, depFood, depHome, t>>
      /\ IF g = "food"
         THEN nextFood' = WrittenBand(pheroFood, depFood, nextFood, y) /\ UNCHANGED nextHome
         ELSE nextHome' = WrittenBand(pheroHome, depHome, nextHome, y) /\ UNCHANGED nextFood
  BY WorkerType DEF PooledDecayRow, PooledInv, loop, larder, Unseen
<1>2. g \in {"food", "home"} /\ y \in 0 .. Height - 1
  <2>1. n \in Nat \ {0} /\ Height \in Nat /\ Lo(k, Height) \in Nat /\ Hi(k, Height) \in Nat
    BY <1>1, WorkerType, ConfigAssumption DEF Total
  <2>2. Hi(k, Height) <= Height
    BY <2>1, PortionsInside
  <2> QED
    BY <1>1, <2>1, <2>2 DEF Portion, TypeOK, PoolTypeOK
<1>3. /\ ~Filled(g, y)
      /\ \A h \in {"food", "home"} : \A z : Filled(h, z)' <=> (Filled(h, z) \/ (h = g /\ z = y))
  BY <1>1, AdvanceProgress DEF PooledDecayRow
<1> HIDE DEF y, g
<1>4. /\ pheroFood \in [Index -> Nat] /\ depFood \in [Index -> Nat]
      /\ pheroHome \in [Index -> Nat] /\ depHome \in [Index -> Nat]
  BY <1>1, SlicesAreNat DEF FlatCore
<1>5. nextFood' = [i \in Index |-> IF Filled("food", i \div Width)' THEN FlatWritten(pheroFood, depFood, ZeroSlice)[i] ELSE 0]
  <2>1. CASE g = "food"
    BY <1>1, <1>2, <1>3, <2>1, BandWritten DEF PooledInv
  <2>2. CASE g # "food"
    BY <1>1, <1>3, <2>2 DEF PooledInv, RowsWritten
  <2> QED BY <2>1, <2>2
<1>6. nextHome' = [i \in Index |-> IF Filled("home", i \div Width)' THEN FlatWritten(pheroHome, depHome, ZeroSlice)[i] ELSE 0]
  <2>1. CASE g = "home"
    BY <1>1, <1>2, <1>3, <2>1, BandWritten DEF PooledInv
  <2>2. CASE g # "home"
    BY <1>1, <1>2, <1>3, <2>2 DEF PooledInv, RowsWritten
  <2> QED BY <2>1, <2>2
<1>7. /\ nextFood' = RowsWritten("food", pheroFood, depFood)'
      /\ nextHome' = RowsWritten("home", pheroHome, depHome)'
  BY <1>1, <1>5, <1>6 DEF RowsWritten
<1>8. nextFood' \in LevelSlices /\ nextHome' \in LevelSlices
  <2>1. /\ FlatWritten(pheroFood, depFood, ZeroSlice) \in [Index -> 0 .. MaxLevel]
        /\ FlatWritten(pheroHome, depHome, ZeroSlice) \in [Index -> 0 .. MaxLevel]
    BY <1>4, SameWritten
  <2> QED
    BY <1>5, <1>6, <2>1, ConfigAssumption DEF LevelSlices
<1>9. FlatCore'
  BY <1>1, <1>8, UnseenCore
<1>10. UNCHANGED Naive!vars
  BY <1>1, UnseenIsAStutter
<1> QED
  BY <1>1, <1>7, <1>9, <1>10 DEF PooledInv, SenseProgress

\* At the barrier everything is done.
LEMMA BarrierReached ==
  ASSUME TypeOK, PooledWait
  PROVE  /\ phase = "sense" => \A i \in Ants : Decided(i)
         /\ phase = "decay" => \A g \in {"food", "home"} : \A y \in 0 .. Height - 1 : Filled(g, y)
<1>1. phase \in {"sense", "decay"} /\ handed = n /\ wg = 0 /\ n \in Nat \ {0}
  BY ConfigAssumption DEF PooledWait, Released, TypeOK, PoolTypeOK
<1>2. wg = Cardinality(Busy) + (n - handed)
  BY <1>1 DEF TypeOK, PoolTypeOK
<1>3. IsFiniteSet(Busy) /\ Cardinality(Busy) = 0
  BY <1>1, <1>2, BusyIsFinite
<1>4. Busy = {}
  BY <1>3, FS_EmptySet
<1>5. \A k \in Workers : k < handed /\ work[k] \notin {"sense", "decay"}
  BY <1>1, <1>4 DEF Busy, Workers
<1>6. AntCount \in Nat /\ Height \in Nat
  BY ConfigAssumption
<1>7. ASSUME NEW i \in Ants PROVE Decided(i)
  <2>1. \E k \in Workers : i \in Portion(k, AntCount)
    BY <1>1, <1>6, PortionsCover DEF Ants
  <2> QED BY <1>5, <2>1 DEF Decided
<1>8. ASSUME NEW g \in {"food", "home"}, NEW y \in 0 .. Height - 1 PROVE Filled(g, y)
  <2>1. \E k \in Workers : y \in Portion(k, Height)
    BY <1>1, <1>6, PortionsCover
  <2> QED BY <1>5, <2>1 DEF Filled
<1> QED
  BY <1>7, <1>8

\* The barrier of phase A is naive's phase A; the one of phase C is not seen.
LEMMA WaitSound ==
  ASSUME PooledInv, PooledWait, TypeOK'
  PROVE  PooledInv' /\ [Naive!Next]_(Naive!vars)
<1>1. /\ UNCHANGED <<ants, stream, drawn, larder, pheroFood, pheroHome, depFood, depHome,
                     nextFood, nextHome, intents, committed, loop, cancelled, walls>>
      /\ TypeOK /\ FlatCore /\ UNCHANGED <<t, ticksRun, frames>>
  BY DEF PooledWait, grids, PooledInv, loop
<1>2. CASE phase = "sense"
  <2>1. phase' = "commit" /\ \A i \in Ants : Decided(i)
    BY <1>1, <1>2, BarrierReached DEF PooledWait
  <2>2. intents = [i \in Ants |-> Decision(i)] /\ drawn = [i \in Ants |-> 3 + 2 * t]
    BY <1>2, <2>1 DEF PooledInv, SenseProgress
  <2>3. Sensed
    BY <1>1, <1>2, <2>1, <2>2 DEF Sensed, grids
  <2>4. FlatCore' /\ Naive!Sense
    BY <1>1, <2>3, SensedCore, LikeSense
  <2>5. /\ nextFood' = RowsWritten("food", pheroFood, depFood)'
        /\ nextHome' = RowsWritten("home", pheroHome, depHome)'
    BY <1>1, <1>2, <2>1 DEF PooledInv, RowsWritten
  <2> QED
    BY <1>1, <2>1, <2>4, <2>5 DEF PooledInv, SenseProgress, Naive!Next, Naive!Run
<1>3. CASE phase = "decay"
  <2>1. phase' = "swap" /\ \A g \in {"food", "home"} : \A y \in 0 .. Height - 1 : Filled(g, y)
    BY <1>1, <1>3, BarrierReached DEF PooledWait
  <2>2. \A i \in Index : i \div Width \in 0 .. Height - 1
    BY CellOf DEF Cells
  <2>3. /\ nextFood' = RowsWritten("food", pheroFood, depFood)'
        /\ nextHome' = RowsWritten("home", pheroHome, depHome)'
    BY <1>1, <1>3, <2>1, <2>2 DEF PooledInv, RowsWritten
  <2>4. FlatCore'
    BY <1>1, <1>3, <2>1 DEF FlatCore, larder, loop
  <2>5. UNCHANGED Naive!vars
    BY <1>1, <1>3, <2>1, Zenon DEF larder, loop, Naive!vars, Naive!larder, Naive!grids,
       Naive!loop, ByCell
  <2> QED
    BY <1>1, <1>3, <2>1, <2>3, <2>4, <2>5 DEF PooledInv, SenseProgress
<1> QED
  BY <1>2, <1>3 DEF PooledWait

\* The loop of Run, whatever the workers are doing.
LEMMA LoopSound ==
  ASSUME PooledInv, PooledLoopHead \/ PooledObserve \/ PooledFinish \/ PooledCancel, TypeOK'
  PROVE  PooledInv' /\ [Naive!Next]_(Naive!vars)
<1>1. LoopHead \/ Observe \/ Finish \/ Cancel
  BY DEF PooledLoopHead, PooledObserve, PooledFinish, PooledCancel
<1>2. FlatCore /\ FlatCore' /\ Naive!Next
  BY <1>1, FlatLoopCore, LikeLoop DEF PooledInv, Naive!Next, Naive!Run
<1>3. UNCHANGED <<ants, stream, drawn, pheroFood, pheroHome, depFood, depHome, nextFood, nextHome,
                  intents, committed>>
  BY <1>1 DEF LoopHead, Observe, Finish, Cancel, grids
<1>4. CASE PooledCancel
  <2>1. /\ UNCHANGED <<phase, n, handed, work, at, grid, t>>
    BY <1>4 DEF PooledCancel, Cancel, pool, loop
  <2>2. \A i, g, y : (Decided(i)' <=> Decided(i)) /\ (Filled(g, y)' <=> Filled(g, y))
    BY <2>1 DEF Decided, Filled, Portion, Workers, Lo, Hi
  <2>3. SenseProgress'
    BY <1>3, <2>1, <2>2 DEF PooledInv, SenseProgress, Decision, ByCell
  <2>4. /\ nextFood' = RowsWritten("food", pheroFood, depFood)'
        /\ nextHome' = RowsWritten("home", pheroHome, depHome)'
    BY <1>3, <2>1, <2>2 DEF PooledInv, RowsWritten
  <2> QED
    BY <1>2, <1>3, <2>1, <2>3, <2>4 DEF PooledInv
<1>5. CASE PooledLoopHead \/ PooledObserve \/ PooledFinish
  <2>1. /\ phase \in {"loop", "observe", "final"} /\ phase' \in {"sense", "loop", "final", "returned"}
        /\ phase' = "sense" => phase = "loop" /\ handed' = 0 /\ n' = n /\ t' = t
    BY <1>5 DEF PooledLoopHead, LoopHead, Submit, PooledObserve, Observe, PooledFinish, Finish,
       loop
  <2>2. /\ nextFood' = RowsWritten("food", pheroFood, depFood)'
        /\ nextHome' = RowsWritten("home", pheroHome, depHome)'
    BY <1>3, <2>1 DEF PooledInv, RowsWritten
  <2>3. ASSUME phase' = "sense" PROVE SenseProgress'
    <3>1. \A i : ~Decided(i)'
      <4>1. handed' = 0 /\ Workers' \subseteq Nat
        BY <2>1, <2>3 DEF Workers
      <4> QED BY <4>1 DEF Decided
    <3>2. drawn' = [i \in Ants |-> 1 + 2 * t']
      BY <1>2, <1>3, <2>1, <2>3 DEF FlatCore
    <3> QED BY <3>1, <3>2 DEF SenseProgress
  <2>4. SenseProgress'
    BY <2>3 DEF SenseProgress
  <2> QED
    BY <1>2, <1>3, <2>1, <2>2, <2>4 DEF PooledInv
<1> QED
  BY <1>4, <1>5

\* Phase B, the start of phase C and the swap that ends it.
LEMMA CommitSound ==
  ASSUME PooledInv, PooledCommit \/ PooledStartDecay \/ PooledSwap, TypeOK'
  PROVE  PooledInv' /\ [Naive!Next]_(Naive!vars)
<1>1. CASE PooledCommit
  <2>1. FlatCore' /\ Naive!Next
    BY <1>1, FlatCommitCore, LikeCommit DEF PooledCommit, PooledInv, Naive!Next, Naive!Run
  <2>2. phase = "commit" /\ phase' = "commit" /\ UNCHANGED <<intents, nextFood, nextHome>>
    BY <1>1 DEF PooledCommit, Commit
  <2> QED
    BY <2>1, <2>2 DEF PooledInv, SenseProgress, RowsWritten
<1>2. CASE PooledStartDecay
  <2>1. /\ phase = "commit" /\ phase' = "decay" /\ committed = AntCount /\ committed' = 0
        /\ handed' = 0
        /\ UNCHANGED <<ants, stream, drawn, larder, pheroFood, pheroHome, depFood, depHome,
                       nextFood, nextHome, intents, loop, cancelled, walls>>
    BY <1>2 DEF PooledStartDecay, Submit, grids
  <2>2. FlatCore'
    BY <2>1, ConfigAssumption DEF PooledInv, FlatCore, larder, loop
  <2>3. \A g, y : ~Filled(g, y)'
    <3>1. Workers' \subseteq Nat
      BY DEF Workers
    <3> QED BY <2>1, <3>1 DEF Filled
  <2>4. /\ nextFood' = RowsWritten("food", pheroFood, depFood)'
        /\ nextHome' = RowsWritten("home", pheroHome, depHome)'
    BY <2>1, <2>3 DEF PooledInv, RowsWritten
  <2>5. UNCHANGED Naive!vars
    BY <2>1, Zenon DEF larder, loop, Naive!vars, Naive!larder, Naive!grids, Naive!loop, ByCell
  <2> QED
    BY <2>1, <2>2, <2>4, <2>5 DEF PooledInv, SenseProgress
<1>3. CASE PooledSwap
  <2>1. /\ phase = "swap" /\ phase' = "observe" /\ committed' = committed /\ committed = 0
        /\ pheroFood' = nextFood /\ pheroHome' = nextHome
        /\ depFood' = ZeroSlice /\ depHome' = ZeroSlice
        /\ nextFood' = ZeroSlice /\ nextHome' = ZeroSlice
        /\ UNCHANGED <<ants, stream, drawn, larder, intents, loop, cancelled, walls>>
    BY <1>3 DEF PooledSwap, PooledInv
  <2>2. /\ nextFood = FlatWritten(pheroFood, depFood, ZeroSlice)
        /\ nextHome = FlatWritten(pheroHome, depHome, ZeroSlice)
    BY <2>1 DEF PooledInv, RowsWritten, FlatWritten
  <2>3. Swapped
    BY <2>1, <2>2 DEF Swapped
  <2>4. FlatCore' /\ Naive!Next
    BY <2>3, SwappedCore, LikeDecay DEF PooledInv, Naive!Next, Naive!Run
  <2> QED
    BY <2>1, <2>4, NothingWritten DEF PooledInv, SenseProgress, RowsWritten, ZeroSlice
<1> QED
  BY <1>1, <1>2, <1>3

\* Every step of the pooled engines is a step of naive, or not seen.
LEMMA PooledStep ==
  ASSUME PooledInv, [PooledNext]_pooledVars
  PROVE  PooledInv' /\ [Naive!Next]_(Naive!vars)
<1>1. TypeOK'
  BY TypeNext DEF PooledInv
<1>2. CASE PooledCaller \/ PooledCancel
  BY <1>1, <1>2, HandSound, WaitSound, LoopSound, CommitSound DEF PooledCaller
<1>3. ASSUME NEW k \in 0 .. Height - 1, PooledWorker(k)
      PROVE  PooledInv' /\ [Naive!Next]_(Naive!vars)
  BY <1>1, <1>3, SenseAntSound, DecayRowSound, IdleSound DEF PooledWorker
<1>4. CASE UNCHANGED pooledVars
  <2>1. UNCHANGED vars /\ UNCHANGED <<n, handed, work, at, grid, closed, wg>>
    BY <1>4 DEF pooledVars, pool
  <2>2. /\ UNCHANGED <<ants, stream, drawn, food, foodLeft, collected, intents, phase, committed, t,
                       ticksRun, frames, cancelled, walls, pheroFood, pheroHome, depFood, depHome,
                       nextFood, nextHome>>
    BY <2>1 DEF vars, larder, grids, loop
  <2>3. FlatCore' /\ (\A i, g, y : (Decided(i)' <=> Decided(i)) /\ (Filled(g, y)' <=> Filled(g, y)))
    BY <2>1, <2>2 DEF PooledInv, FlatCore, Decided, Filled, Portion, Workers, Lo, Hi
  <2>4. SenseProgress'
    BY <2>2, <2>3 DEF PooledInv, SenseProgress, Decision, ByCell
  <2>5. /\ nextFood' = RowsWritten("food", pheroFood, depFood)'
        /\ nextHome' = RowsWritten("home", pheroHome, depHome)'
    BY <2>2, <2>3 DEF PooledInv, RowsWritten
  <2>6. UNCHANGED Naive!vars
    BY <2>2, Zenon DEF Naive!vars, Naive!larder, Naive!grids, Naive!loop, ByCell
  <2> QED
    BY <1>1, <2>2, <2>3, <2>4, <2>5, <2>6 DEF PooledInv
<1> QED
  BY <1>2, <1>3, <1>4 DEF PooledNext

\* parallel and nogc are naive step by step, whatever the number of workers and
\* however their steps interleave (parallel.go 18-20): the safety part of
\* ImplementsNaive.
THEOREM PooledImplementsNaive == PooledSpec => Naive!Init /\ [][Naive!Next]_(Naive!vars)
BY PooledStart, PooledStep, PTL DEF PooledSpec

\* In every run of the pooled engines the addresses stay inside the slices and the
\* levels below the ceiling, in the middle of a phase too.
THEOREM PooledSlicesKeepTheirTypes == PooledSpec => []FlatTypeOK
<1>1. PooledInv => FlatTypeOK
  BY CoreTypes DEF PooledInv
<1>2. PooledInit => PooledInv
  BY PooledStart
<1>3. PooledInv /\ [PooledNext]_pooledVars => PooledInv'
  BY PooledStep
<1> QED
  BY <1>1, <1>2, <1>3, PTL DEF PooledSpec
=============================================================================
