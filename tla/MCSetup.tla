------------------------------ MODULE MCSetup ------------------------------
(***************************************************************************)
(* Requests for Setup: ints of 8 bits, grids of at most 9 cells, words of  *)
(* 8 bits.  Three families: documents whose numbers lie at the edges of    *)
(* int, requests that override ants and ticks, and every seed with bounds  *)
(* that divide the raw range and bounds that do not.                       *)
(*                                                                         *)
(* Around the handlers, Transport with two exchanges and two compressors,  *)
(* so that one can find the compressor the other left behind.  It shares   *)
(* no state with a request that is being admitted: a run follows the one   *)
(* or the other.                                                           *)
(***************************************************************************)
EXTENDS Setup, Transport, Bitwise

CONSTANTS q1, q2, k1, k2

\* Every pair of words of 8 bits.
MCXor == [x \in 0 .. 255 |-> [y \in 0 .. 255 |-> x ^^ y]]

Doc ==
  [version |-> 1, seed |-> 1, width |-> 3, height |-> 3, ticks |-> 2, ants |-> 2,
   nest |-> <<1, 1>>, walls |-> <<>>, food |-> <<>>,
   evap |-> <<3, 4>>, diff |-> <<1, 2>>, random |-> <<1, 3>>, max |-> 40]
Ask ==
  [kind |-> "run", doc |-> Doc, seed |-> None, ticks |-> None, ants |-> None,
   count |-> 1, engineKnown |-> TRUE]

\* A wall in the second row and a pile; grids whose sides wrap in their product.
Rects ==
  {[x |-> x, y |-> 1, w |-> w, h |-> h] :
     x \in {-1, 0, 1, 2, 127}, w \in {0, 1, 2, 126, 127}, h \in {1, 2, 127}}
Shapes ==
  {[Doc EXCEPT !.walls = <<r>>, !.food = <<[at |-> p, amount |-> a]>>, !.nest = <<0, 0>>] :
     r \in Rects, p \in {<<2, 0>>, <<2, 1>>, <<3, 0>>}, a \in {0, 1}}
  \cup {[Doc EXCEPT !.width = w, !.height = h, !.walls = r] :
          w \in {0, 1, 2, 4, 16, 127}, h \in {2, 3, 16}, r \in {<<>>, <<[x |-> 0, y |-> 0, w |-> 1, h |-> 1]>>}}
  \cup {[Doc EXCEPT ![f] = q] : f \in {"evap", "diff", "random"}, q \in {<<0, 0>>, <<2, 1>>}}
  \cup {[Doc EXCEPT !.version = 2], [Doc EXCEPT !.max = 0]}
Kinds == {"run", "bench", "antsim"}
ByShape == {[Ask EXCEPT !.kind = k, !.doc = d] : k \in Kinds, d \in Shapes \cup {None}}

ByWork ==
  {[Ask EXCEPT !.kind = k, !.ants = a, !.ticks = n, !.count = r, !.engineKnown = e] :
     k \in Kinds, a \in {None, 0, 3, 4, 64}, n \in {None, -1, 0, 3, 4, 5, 64},
     r \in {0, 2, 3}, e \in BOOLEAN}

BySeed ==
  {[Ask EXCEPT !.doc = [Doc EXCEPT !.random = <<1, den>>, !.ticks = 1], !.seed = s, !.ants = 3] :
     den \in {1, 4, 7, 10, 15}, s \in 0 .. 2 ^ 8 - 1}

MCRequests == ByShape \cup ByWork \cup BySeed

MCExchanges == {q1, q2}
MCCompressors == {k1, k2}

\* A browser, a client that resumes a download, the browser's stream, somebody
\* without the password, and the container's probe.
Plain == [path |-> "page", gzip |-> TRUE, range |-> FALSE, known |-> TRUE]
MCIncoming ==
  {Plain, [Plain EXCEPT !.range = TRUE], [Plain EXCEPT !.path = "stream"],
   [Plain EXCEPT !.known = FALSE], [Plain EXCEPT !.path = "healthz", !.known = FALSE]}

\* A request that was refused, and two strangers who were turned away.
Refused ==
  /\ req = [Ask EXCEPT !.doc = None] /\ cfg = None /\ step = "refused" /\ count = None
  /\ rng = <<>> /\ drawn = <<>> /\ asked = None
TurnedAway ==
  /\ call = [q \in Exchanges |-> [Plain EXCEPT !.known = FALSE]]
  /\ at = [q \in Exchanges |-> "answered"] /\ gz = [q \in Exchanges |-> Nobody]
  /\ wroteHeader = [q \in Exchanges |-> FALSE] /\ compressing = [q \in Exchanges |-> FALSE]
  /\ written = [q \in Exchanges |-> 1] /\ gone = [q \in Exchanges |-> FALSE]
  /\ code = [q \in Exchanges |-> 401] /\ body = [q \in Exchanges |-> <<Part(q, 1, FALSE)>>]
  /\ encoded = [q \in Exchanges |-> FALSE] /\ length = [q \in Exchanges |-> FALSE]
  /\ pool = Compressors /\ target = [k \in Compressors |-> Nobody]
  /\ kept = [k \in Compressors |-> <<>>] /\ failed = [k \in Compressors |-> FALSE]

MCInit == (Init /\ TurnedAway) \/ (Refused /\ TransportInit)
MCNext ==
  \/ Next /\ UNCHANGED transportVars
  \/ TransportNext /\ UNCHANGED vars
MCSpec == MCInit /\ [][MCNext]_<<vars, transportVars>>

=============================================================================
