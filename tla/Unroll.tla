-------------------------------- MODULE Unroll --------------------------------
(***************************************************************************)
(* The partitioner's first step: a neuron with more inputs than max_fanin  *)
(* becomes a chain of intermediate neurons, each with at most max_fanin    *)
(* inputs, the last of which is the neuron itself (Model::unroll).  usnn   *)
(* grows at its end while the loop goes over the original neurons.         *)
(***************************************************************************)
EXTENDS Integers, Sequences, FiniteSets

CONSTANTS
  NumNeurons,    \* the original neurons are 0 .. NumNeurons - 1
  Connections,   \* connection files to choose from: sequences of [src, dsts]
  Spikes,        \* spike files to choose from: a set of times per neuron
  Fanins         \* values of --unroll-fanin to choose from, or INVALID_FANIN

(* The neuron id and the fan-in that are not given: (UINT64)-1, (unsigned)-1. *)
INVALID_ID    == -1
INVALID_FANIN == -1

Neuron == 0 .. NumNeurons - 1

(* One line per source neuron.  A chain needs fan-in two: with one, the     *)
(* number of its links is a division by zero.                               *)
ASSUME UnrollAssumption ==
  /\ NumNeurons \in Nat \ {0}
  /\ \A lines \in Connections :
       /\ lines \in Seq([src : Neuron, dsts : SUBSET Neuron])
       /\ \A i, j \in DOMAIN lines : lines[i].src = lines[j].src => i = j
  /\ Spikes \subseteq [Neuron -> SUBSET Nat]
  /\ Fanins \subseteq (Nat \ {0, 1}) \union {INVALID_FANIN}

VARIABLES
  connection,   \* the file of connections
  max_fanin,    \* Model::max_fanin
  usnn,         \* Model::usnn, from 0; Model::snn when nothing is unrolled
  idx           \* the neuron the loop of unroll is at, NumNeurons when it is over

unrollVars == <<connection, max_fanin, usnn, idx>>

Elements(s) == { s[j] : j \in DOMAIN s }
Id == DOMAIN usnn

-----------------------------------------------------------------------------
(* Model::Model: readSpikes, readConnections *)

(* The inputs of n, in the order of the lines of their sources. *)
Inputs(lines, n) ==
  LET at == { k \in DOMAIN lines : n \in lines[k].dsts }
  IN  [j \in 1 .. Cardinality(at) |->
        lines[CHOOSE k \in at : Cardinality({ i \in at : i <= k }) = j].src]

Outputs(lines, n) == UNION { l.dsts : l \in { k \in Elements(lines) : k.src = n } }

UnrollInit ==
  /\ connection \in Connections
  /\ max_fanin \in Fanins
  /\ \E spikes \in Spikes :
       usnn = [n \in Neuron |->
                [inputs      |-> Inputs(connection, n),
                 outputs     |-> Outputs(connection, n),
                 parent      |-> INVALID_ID,
                 children    |-> <<>>,
                 spike_times |-> spikes[n],
                 num_spikes  |-> Cardinality(spikes[n])]]
  /\ idx = IF max_fanin = INVALID_FANIN THEN NumNeurons ELSE 0

-----------------------------------------------------------------------------
(* Model::unroll, for a neuron whose inputs ins are too many.  Link k of    *)
(* the chain is the intermediate neuron with number base + k, the last one  *)
(* is the neuron itself.                                                    *)

(* Slip: rounded down.                                                      *)
NumInter_Floor(n) == (n - max_fanin) \div (max_fanin - 1) + 1

(* ceil((n - fanin) / (fanin - 1)) + 1 links; the float is exact enough     *)
(* below 2^24 inputs.                                                       *)
NumInter(n) == (n - 2) \div (max_fanin - 1) + 1

(* The first link takes max_fanin inputs, the others one less, and the last *)
(* one what is left.                                                        *)
First(k) == IF k = 0 THEN 1 ELSE max_fanin + (k - 1) * (max_fanin - 1) + 1
Last(k, n) == IF k = NumInter(n) - 1 THEN n ELSE max_fanin + k * (max_fanin - 1)

(* Slip: the link before is forgotten.                                      *)
LinkInputs_NoChain(ins, k, base) == SubSeq(ins, First(k), Last(k, Len(ins)))

LinkInputs(ins, k, base) ==
  (IF k = 0 THEN <<>> ELSE <<base + k - 1>>) \o SubSeq(ins, First(k), Last(k, Len(ins)))

LinkId(ins, k, base) == IF k = NumInter(Len(ins)) - 1 THEN idx ELSE base + k

(* Slip: an intermediate neuron fires with its own inputs only.             *)
LinkSpikes_Own(ins, k) ==
  UNION { usnn[ins[j]].spike_times : j \in First(k) .. Last(k, Len(ins)) }

(* An intermediate neuron fires whenever one of its inputs does. *)
LinkSpikes(ins, k) == UNION { usnn[ins[j]].spike_times : j \in 1 .. Last(k, Len(ins)) }

(* Its number of spikes is the sum of those of its inputs. *)
LinkNumSpikes(ins, k) ==
  Cardinality(UNION { {j} \X usnn[ins[j]].spike_times : j \in 1 .. Last(k, Len(ins)) })

NewNeuron(ins, k, base) ==
  [inputs      |-> LinkInputs(ins, k, base),
   outputs     |-> {LinkId(ins, k + 1, base)},
   parent      |-> idx,
   children    |-> <<>>,
   spike_times |-> LinkSpikes(ins, k),
   num_spikes  |-> LinkNumSpikes(ins, k)]

(* Slip: the input keeps its way to the neuron itself.                      *)
TakenBy_Kept(ins, m, base) ==
  {idx} \union { LinkId(ins, k, base) : k \in { i \in 0 .. NumInter(Len(ins)) - 1 :
                    \E j \in First(i) .. Last(i, Len(ins)) : ins[j] = m } }

(* The links that input m goes to. *)
TakenBy(ins, m, base) ==
  { LinkId(ins, k, base) : k \in { i \in 0 .. NumInter(Len(ins)) - 1 :
      \E j \in First(i) .. Last(i, Len(ins)) : ins[j] = m } }

(* What becomes of neuron m, which was there before. *)
OldNeuron(ins, m, base) ==
  LET last == NumInter(Len(ins)) - 1
      rewired == IF m \in Elements(ins)
                 THEN [usnn[m] EXCEPT !.outputs = (@ \ {idx}) \union TakenBy(ins, m, base)]
                 ELSE usnn[m]
  IN  IF m # idx THEN rewired
      ELSE [rewired EXCEPT !.inputs = LinkInputs(ins, last, base),
                           !.children = [k \in 1 .. last |-> base + k - 1]]

(* One iteration of the loop over the original neurons. *)
UnrollNeuron ==
  LET ins  == usnn[idx].inputs
      base == Cardinality(Id)
  IN  /\ idx < NumNeurons
      /\ usnn' = IF Len(ins) <= max_fanin THEN usnn
                 ELSE [m \in 0 .. base + NumInter(Len(ins)) - 2 |->
                        IF m < base THEN OldNeuron(ins, m, base)
                                    ELSE NewNeuron(ins, m - base, base)]
      /\ idx' = idx + 1
      /\ UNCHANGED <<connection, max_fanin>>

-----------------------------------------------------------------------------
(* The intermediate neurons of n, and all neurons that reach m through the  *)
(* intermediate neurons of n.                                               *)
Chain(n) == Elements(usnn[n].children)
Upstream(n, m) ==
  LET R[k \in 0 .. Cardinality(Chain(n))] ==
        IF k = 0 THEN Elements(usnn[m].inputs)
        ELSE UNION { {c} \union (IF c \in Chain(n) THEN Elements(usnn[c].inputs) ELSE {}) :
                     c \in R[k - 1] }
  IN  R[Cardinality(Chain(n))]

(* No neuron the loop of unroll has passed, and none it has made, has more  *)
(* than max_fanin inputs, whatever the other neurons' chains do to it: the  *)
(* assert of outputUnrolledIR.                                              *)
FaninBounded ==
  max_fanin # INVALID_FANIN =>
    \A n \in Id : n < idx \/ n >= NumNeurons => Len(usnn[n].inputs) <= max_fanin

(* The input lists and the output lists, which unroll edits separately,     *)
(* describe the same edges, and no edge twice.                              *)
EdgesAgree ==
  \A n \in Id :
    /\ \A m \in Id : m \in Elements(usnn[n].inputs) <=> n \in usnn[m].outputs
    /\ \A i, j \in DOMAIN usnn[n].inputs :
         usnn[n].inputs[i] = usnn[n].inputs[j] => i = j

(* Unrolling keeps the network: a neuron is reached, through its own        *)
(* intermediate neurons, from exactly the neurons it was connected to, each *)
(* on one way only; and an intermediate neuron serves nobody else.          *)
SameNetwork ==
  \A n \in Neuron :
    /\ Upstream(n, n) \ Chain(n) = Elements(Inputs(connection, n))
    /\ \A m \in Elements(Inputs(connection, n)) :
         Cardinality(usnn[m].outputs \intersect ({n} \union Chain(n))) = 1
    /\ \A c \in Chain(n) :
         usnn[c].parent = n /\ usnn[c].outputs \subseteq {n} \union Chain(n)

(* An intermediate neuron fires exactly when one of the original inputs     *)
(* behind it does.                                                          *)
SpikesKept ==
  \A n \in Neuron : \A c \in Chain(n) :
    usnn[c].spike_times
      = UNION { usnn[m].spike_times : m \in Upstream(n, c) \ Chain(n) }
=============================================================================
