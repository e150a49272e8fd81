------------------------------- MODULE Setup -------------------------------
(***************************************************************************)
(* From a request to the draws of the first ticks: Admission, then         *)
(* newWorld, which gives every ant a generator of its own, then the calls  *)
(* of Intn each ant makes (internal/engine/naive, internal/simcore/rng.go).*)
(***************************************************************************)
EXTENDS Admission, Rng

CONSTANTS
  Salt,    \* 0x632BE59BD9B4E019
  MaxDraws \* bound: the calls of each ant that are followed

\* Seeds are words, the numbers of a ratio halves of words, and an int no wider
\* than a word.
ASSUME SetupAssumption ==
  /\ IntRange <= WordSize /\ 8 < HalfSize /\ Salt \in Words
  /\ \A r \in Requests :
       /\ r.seed \in {None} \cup Words
       /\ r.doc # None => r.doc.seed \in Words /\ r.doc.random[2] \in Raw

VARIABLES
  rng,   \* each ant's generator
  drawn, \* the calls of Intn each ant has finished
  asked  \* the ant in Intn and its bound n; None between two calls

genVars == <<rng, drawn, asked>>
vars == <<admissionVars, genVars>>

Init == AdmissionInit /\ rng = <<>> /\ drawn = <<>> /\ asked = None

\* Mutation: the ants are seeded from the configuration alone.
SeedShared(i) == SplitMix64(cfg.seed)
SeedOf(i) == SplitMix64(XorOf[cfg.seed][Low(i * Gamma + Salt)])

NewWorld ==
  /\ Admitted /\ rng = <<>>
  /\ rng' = [i \in 0 .. cfg.ants - 1 |-> SeedRng(SeedOf(i))]
  /\ drawn' = [i \in 0 .. cfg.ants - 1 |-> 0]
  /\ UNCHANGED <<admissionVars, asked>>

\* The first call is for the heading, at birth, then two in every tick.  In each
\* round an ant makes all its calls before the next ant makes its first.
Bound(k) == IF k = 0 THEN 8 ELSE IF k % 2 = 1 THEN cfg.random[2] ELSE 3
Round(k) == (k + 1) \div 2
Turn(i) ==
  \A j \in DOMAIN drawn :
    IF j < i THEN Round(drawn[j]) > Round(drawn[i]) ELSE Round(drawn[j]) >= Round(drawn[i])

Call(i) ==
  /\ asked = None /\ Turn(i) /\ drawn[i] < 1 + 2 * cfg.ticks /\ drawn[i] < MaxDraws
  /\ asked' = [ant |-> i, n |-> Bound(drawn[i])]
  /\ UNCHANGED <<admissionVars, rng, drawn>>

\* One pass of Intn's loop.
Draw ==
  /\ asked # None
  /\ LET i == asked.ant
         x == RawOf(Output(rng[i]))
     IN /\ rng' = [rng EXCEPT ![i] = Advanced(@)]
        /\ IF Rejected(x, asked.n)
           THEN UNCHANGED <<drawn, asked>>
           ELSE drawn' = [drawn EXCEPT ![i] = @ + 1] /\ asked' = None
  /\ UNCHANGED admissionVars

Next ==
  \/ AdmissionNext /\ UNCHANGED genVars
  \/ NewWorld
  \/ \E i \in DOMAIN rng : Call(i)
  \/ Draw

Spec == Init /\ [][Next]_vars
-----------------------------------------------------------------------------
(***************************************************************************)
(* Properties.                                                             *)
(***************************************************************************)
\* "a uniform value in [0, n) [...] and no modulo bias" (rng.go 57-58): whatever
\* bound is asked for, every value below it is the outcome of equally many raw
\* words, and of as many as there can be.
Unbiased ==
  asked # None =>
    \A v \in 0 .. asked.n - 1 :
      Cardinality({x \in Raw : ~Rejected(x, asked.n) /\ Value(x, asked.n) = v})
        = HalfSize \div asked.n

\* Two ants of a colony never start from the same generator, whatever the seed
\* and their indices: their walks would coincide (naive.go 155-159).
OwnStreams ==
  \A i, j \in DOMAIN rng :
    i # j /\ drawn[i] = 0 /\ drawn[j] = 0 /\ asked = None => rng[i] # rng[j]
=============================================================================
