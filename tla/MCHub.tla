------------------------------- MODULE MCHub -------------------------------
(***************************************************************************)
(* Two starts, two browsers and one stop for Hub, of which any three come: *)
(* a timeout can end any run besides.  The buffer is smaller than a run    *)
(* has frames.                                                             *)
(***************************************************************************)
EXTENDS Hub

CONSTANT MaxRequests   \* bound: the requests that come

Came ==
  Cardinality({s \in Starters : starter[s] # "new"})
  + Cardinality({x \in Stoppers : stopper[x] # "new"})
  + Cardinality({v \in Viewers : viewer[v] # "new"})

MCNext == Next /\ Came' <= MaxRequests
MCSpec == Init /\ [][MCNext]_vars /\ Scheduled
=============================================================================
