--------------------------- MODULE ClusteringProofs ---------------------------
(***************************************************************************)
(* The fan-in after unrolling, the agreement of the input and output       *)
(* lists, the spikes a split neuron keeps, the limits of the crossbars,    *)
(* the answers of the input-output map, the one cluster that computes a    *)
(* neuron and the inputs it receives, the connection of components, and    *)
(* the work that decreases, for every application, fan-in and order of     *)
(* packing.                                                                *)
(***************************************************************************)
EXTENDS Clustering, FiniteSetTheorems, SequenceTheorems, NaturalsInduction, TLAPS

(* A neuron is a record with these fields.                                  *)
IsNeuron(r) ==
  r = [inputs |-> r.inputs, outputs |-> r.outputs, parent |-> r.parent,
       children |-> r.children, spike_times |-> r.spike_times,
       num_spikes |-> r.num_spikes]

(* A list, of whatever elements.                                            *)
IsList(s) == \E S : s \in Seq(S)

(* The loop only unrolls when a fan-in was given; neurons are numbered      *)
(* without gaps, so a new one never takes the place of another.             *)
UnrollInv ==
  /\ max_fanin \in (Nat \ {0, 1}) \union {INVALID_FANIN}
  /\ idx \in 0 .. NumNeurons
  /\ max_fanin = INVALID_FANIN => idx = NumNeurons
  /\ Cardinality(Id) \in Nat
  /\ Id = 0 .. Cardinality(Id) - 1
  /\ NumNeurons <= Cardinality(Id)
  /\ \A n \in Id : IsNeuron(usnn[n]) /\ IsList(usnn[n].inputs)
  /\ FaninBounded

-----------------------------------------------------------------------------
(* The arithmetic of a chain for n inputs, too many for one neuron.         *)

(* Quotient and remainder. *)
LEMMA Division ==
  ASSUME NEW a \in Nat, NEW b \in Nat \ {0}
  PROVE  /\ a \div b \in Nat
         /\ (a \div b) * b <= a
         /\ a - (a \div b) * b < b
  BY SMT

(* There are at least two links. *)
LEMMA AtLeastTwoLinks ==
  ASSUME max_fanin \in Nat \ {0, 1}, NEW n \in Nat, n > max_fanin
  PROVE  NumInter(n) \in Nat /\ NumInter(n) >= 2
<1> DEFINE b == max_fanin - 1
           q == (n - 2) \div b
<1>1. b \in Nat \ {0} /\ n - 2 \in Nat /\ n - 2 >= b
  OBVIOUS
<1>2. q \in Nat /\ n - 2 - q * b < b
  BY <1>1, Division
<1>3. q >= 1
  <2>1. q # 0
    BY <1>1, <1>2
  <2> QED BY <2>1, <1>2
<1> QED BY <1>2, <1>3 DEF NumInter

(* A product with a larger factor is larger.                                *)
LEMMA ProductGrows ==
  ASSUME NEW a \in Nat, NEW c \in Nat, NEW b \in Nat, a <= c
  PROVE  a * b <= c * b /\ a * b \in Nat /\ c * b \in Nat
  BY SMT

(* Link k takes inputs of the neuron, and with the link before it no more   *)
(* than max_fanin.                                                          *)
LEMMA LinkLength ==
  ASSUME max_fanin \in Nat \ {0, 1}, NEW n \in Nat, n > max_fanin,
         NEW k \in 0 .. NumInter(n) - 1
  PROVE  /\ First(k) \in Nat \ {0} /\ Last(k, n) \in Nat
         /\ Last(k, n) <= n
         /\ Last(k, n) - First(k) + 1 <= (IF k = 0 THEN max_fanin ELSE max_fanin - 1)
<1> DEFINE b == max_fanin - 1
           q == (n - 2) \div b
<1>1. b \in Nat \ {0} /\ n - 2 \in Nat
  OBVIOUS
<1>2. q \in Nat /\ q * b <= n - 2 /\ n - 2 - q * b < b
  BY <1>1, Division
<1>3. NumInter(n) = q + 1 /\ q >= 1
  BY <1>2, AtLeastTwoLinks DEF NumInter
<1>4. CASE k = 0
  BY <1>3, <1>4 DEF First, Last
<1>5. CASE k # 0 /\ k = q
  <2>1. (k - 1) * b = q * b - b /\ q * b \in Nat /\ (k - 1) * b \in Nat
    BY <1>1, <1>2, <1>3, <1>5, ProductGrows
  <2>2. First(k) = max_fanin + (k - 1) * b + 1 /\ Last(k, n) = n
    BY <1>3, <1>5 DEF First, Last
  <2> HIDE DEF q
  <2> QED BY <1>1, <1>2, <2>1, <2>2, <1>5
<1>6. CASE k # 0 /\ k # q
  <2>1. k \in Nat /\ k <= q - 1
    BY <1>2, <1>3, <1>6
  <2>2. k * b <= (q - 1) * b /\ k * b \in Nat /\ (k - 1) * b \in Nat
    BY <1>1, <1>2, <1>3, <2>1, <1>6, ProductGrows
  <2>3. (q - 1) * b = q * b - b /\ (k - 1) * b = k * b - b
    BY <1>1, <1>2, <2>1
  <2>4. First(k) = max_fanin + (k - 1) * b + 1 /\ Last(k, n) = max_fanin + k * b
    BY <1>3, <1>6 DEF First, Last
  <2> HIDE DEF q
  <2> QED BY <1>1, <1>2, <2>1, <2>2, <2>3, <2>4, <1>6
<1> QED BY <1>4, <1>5, <1>6

(* What LinkInputs returns is a list that is short enough.                  *)
LEMMA LinkInputsBounded ==
  ASSUME max_fanin \in Nat \ {0, 1}, NEW ins, IsList(ins), Len(ins) > max_fanin,
         NEW k \in 0 .. NumInter(Len(ins)) - 1, NEW base
  PROVE  IsList(LinkInputs(ins, k, base)) /\ Len(LinkInputs(ins, k, base)) <= max_fanin
<1>0. PICK S : ins \in Seq(S)
  BY DEF IsList
<1> DEFINE T == S \union {base + k - 1}
           own == SubSeq(ins, First(k), Last(k, Len(ins)))
           chain == IF k = 0 THEN <<>> ELSE <<base + k - 1>>
<1>1. Len(ins) \in Nat /\ k \in Nat
  BY <1>0, AtLeastTwoLinks
<1>2. /\ First(k) \in Nat \ {0} /\ Last(k, Len(ins)) \in Nat
      /\ Last(k, Len(ins)) <= Len(ins)
      /\ Last(k, Len(ins)) - First(k) + 1 <= (IF k = 0 THEN max_fanin ELSE max_fanin - 1)
  BY <1>1, LinkLength
<1>3. own \in Seq(T) /\ Len(own) = IF First(k) <= Last(k, Len(ins))
                                   THEN Last(k, Len(ins)) - First(k) + 1 ELSE 0
  <2>1. \A i \in First(k) .. Last(k, Len(ins)) : ins[i] \in T
    BY <1>0, <1>2
  <2>2. ins \in Seq(T)
    BY <1>0
  <2> QED BY <1>2, <2>1, <2>2, SubSeqProperties
<1>4. chain \in Seq(T) /\ Len(chain) = IF k = 0 THEN 0 ELSE 1
  <2>1. CASE k = 0
    BY <2>1
  <2>2. CASE k # 0
    BY <2>2
  <2> QED BY <2>1, <2>2
<1>5. chain \o own \in Seq(T) /\ Len(chain \o own) = Len(chain) + Len(own)
  BY <1>3, <1>4, ConcatProperties
<1>6. Len(chain) + Len(own) <= max_fanin
  <2> HIDE DEF own, chain
  <2> QED BY <1>2, <1>3, <1>4
<1>7. LinkInputs(ins, k, base) = chain \o own
  BY DEF LinkInputs
<1> HIDE DEF own, chain, T
<1>8. LinkInputs(ins, k, base) \in Seq(T) /\ Len(LinkInputs(ins, k, base)) <= max_fanin
  BY <1>5, <1>6, <1>7
<1> QED BY <1>8 DEF IsList

-----------------------------------------------------------------------------
(* The inputs that the files give are a list. *)
LEMMA InputsAreAList ==
  ASSUME NEW lines \in Connections, NEW n
  PROVE  IsList(Inputs(lines, n))
<1> DEFINE at == { k \in DOMAIN lines : n \in lines[k].dsts }
           input(j) == lines[CHOOSE k \in at : Cardinality({ i \in at : i <= k }) = j].src
<1>1. lines \in Seq([src : Neuron, dsts : SUBSET Neuron])
  BY UnrollAssumption
<1>2. IsFiniteSet(1 .. Len(lines)) /\ at \subseteq 1 .. Len(lines)
  <2>1. Len(lines) \in Nat /\ DOMAIN lines = 1 .. Len(lines)
    BY <1>1
  <2> QED BY <2>1, FS_Interval
<1>3. Cardinality(at) \in Nat
  <2> HIDE DEF at
  <2> QED BY <1>2, FS_Subset, FS_CardinalityType
<1>4. Inputs(lines, n) = [j \in 1 .. Cardinality(at) |-> input(j)]
  BY DEF Inputs
<1> HIDE DEF at, input
<1>5. Inputs(lines, n) \in Seq({ input(j) : j \in 1 .. Cardinality(at) })
  BY <1>3, <1>4
<1> QED BY <1>5 DEF IsList

(* The numbers below m.                                                     *)
LEMMA Numbered ==
  ASSUME NEW m \in Nat
  PROVE  Cardinality(0 .. m - 1) = m
<1>1. Cardinality(0 .. m - 1) = IF 0 > m - 1 THEN 0 ELSE (m - 1) - 0 + 1
  BY FS_Interval
<1> QED BY <1>1

(* The network as it is read. *)
LEMMA UnrollInitial == Init => UnrollInv
<1> SUFFICES ASSUME UnrollInit
             PROVE  UnrollInv
  BY DEF Init
<1>1. NumNeurons \in Nat \ {0} /\ max_fanin \in (Nat \ {0, 1}) \union {INVALID_FANIN}
  BY UnrollAssumption DEF UnrollInit
<1>2. /\ Id = Neuron
      /\ \A n \in Id : IsNeuron(usnn[n]) /\ usnn[n].inputs = Inputs(connection, n)
  BY DEF UnrollInit, Id, IsNeuron
<1>3. Id = 0 .. NumNeurons - 1 /\ Cardinality(Id) = NumNeurons
  BY <1>1, <1>2, Numbered DEF Neuron
<1>4. \A n \in Id : IsList(usnn[n].inputs)
  BY <1>2, InputsAreAList DEF UnrollInit
<1>5. idx = IF max_fanin = INVALID_FANIN THEN NumNeurons ELSE 0
  BY DEF UnrollInit
<1>6. FaninBounded
  BY <1>1, <1>3, <1>5 DEF FaninBounded
<1> QED BY <1>1, <1>2, <1>3, <1>4, <1>5, <1>6 DEF UnrollInv

(* One iteration of the loop. *)
LEMMA UnrollStep == UnrollInv /\ UnrollNeuron => UnrollInv'
<1> SUFFICES ASSUME UnrollInv, UnrollNeuron
             PROVE  UnrollInv'
  OBVIOUS
<1> DEFINE ins  == usnn[idx].inputs
           base == Cardinality(Id)
           size == base + NumInter(Len(ins)) - 1
<1>1. /\ NumNeurons \in Nat /\ idx \in Nat /\ idx < NumNeurons
      /\ max_fanin \in Nat \ {0, 1} /\ max_fanin # INVALID_FANIN
      /\ idx' = idx + 1 /\ max_fanin' = max_fanin
  BY UnrollAssumption DEF UnrollInv, UnrollNeuron, INVALID_FANIN
<1>2. base \in Nat /\ NumNeurons <= base /\ Id = 0 .. base - 1 /\ idx \in Id
  BY <1>1 DEF UnrollInv
<1>3. /\ \A n \in Id : IsNeuron(usnn[n]) /\ IsList(usnn[n].inputs)
      /\ \A n \in Id : n < idx \/ n >= NumNeurons => Len(usnn[n].inputs) <= max_fanin
  BY <1>1 DEF UnrollInv, FaninBounded
<1>4. Len(ins) \in Nat
  BY <1>2, <1>3 DEF IsList
<1>5. CASE Len(ins) <= max_fanin
  <2>1. usnn' = usnn /\ Id' = Id
    BY <1>5 DEF UnrollNeuron, Id
  <2>2. FaninBounded'
    BY <1>1, <1>2, <1>3, <1>5, <2>1 DEF FaninBounded
  <2> QED BY <1>1, <1>2, <1>3, <2>1, <2>2 DEF UnrollInv
<1>6. CASE Len(ins) > max_fanin
  <2>1. size \in Nat /\ size > base /\ NumInter(Len(ins)) \in Nat /\ NumInter(Len(ins)) >= 2
    <3> HIDE DEF base, ins
    <3> QED BY <1>1, <1>2, <1>4, <1>6, AtLeastTwoLinks
  <2>2. usnn' = [m \in 0 .. size - 1 |-> IF m < base THEN OldNeuron(ins, m, base)
                                                   ELSE NewNeuron(ins, m - base, base)]
    <3>1. base + NumInter(Len(ins)) - 2 = size - 1
      <4> HIDE DEF base, ins
      <4> QED BY <1>2, <2>1
    <3>2. ~ (Len(ins) <= max_fanin)
      <4> HIDE DEF ins
      <4> QED BY <1>1, <1>4, <1>6
    <3> QED BY <3>1, <3>2 DEF UnrollNeuron
  <2>3. Id' = 0 .. size - 1
    BY <2>2 DEF Id
  <2>4. Cardinality(Id') = size
    <3> HIDE DEF size
    <3> QED BY <2>1, <2>3, Numbered
  <2>5. ASSUME NEW k \in 0 .. NumInter(Len(ins)) - 1
        PROVE  /\ IsList(LinkInputs(ins, k, base))
               /\ Len(LinkInputs(ins, k, base)) <= max_fanin
    BY <1>1, <1>2, <1>3, <1>6, LinkInputsBounded
  <2> HIDE DEF ins, base, size
  <2>6. ASSUME NEW n \in 0 .. size - 1, n < base
        PROVE  /\ IsNeuron(usnn'[n]) /\ IsList(usnn'[n].inputs)
               /\ n < idx + 1 \/ n >= NumNeurons => Len(usnn'[n].inputs) <= max_fanin
    <3>1. usnn'[n] = OldNeuron(ins, n, base) /\ n \in Id
      BY <1>2, <2>2, <2>6
    <3>2. CASE n = idx
      <4>1. /\ IsNeuron(usnn'[n])
            /\ usnn'[n].inputs = LinkInputs(ins, NumInter(Len(ins)) - 1, base)
        BY <1>3, <3>1, <3>2 DEF OldNeuron, IsNeuron
      <4> QED BY <2>1, <2>5, <4>1
    <3>3. CASE n # idx
      <4>1. IsNeuron(usnn'[n]) /\ usnn'[n].inputs = usnn[n].inputs
        BY <1>3, <3>1, <3>3 DEF OldNeuron, IsNeuron
      <4> QED BY <1>1, <1>3, <3>1, <3>3, <4>1
    <3> QED BY <3>2, <3>3
  <2>7. ASSUME NEW n \in 0 .. size - 1, ~ (n < base)
        PROVE  /\ IsNeuron(usnn'[n]) /\ IsList(usnn'[n].inputs)
               /\ Len(usnn'[n].inputs) <= max_fanin
    <3>1. n - base \in 0 .. NumInter(Len(ins)) - 1
      BY <1>2, <2>1, <2>7 DEF size
    <3>2. IsNeuron(usnn'[n]) /\ usnn'[n].inputs = LinkInputs(ins, n - base, base)
      BY <2>2, <2>7 DEF NewNeuron, IsNeuron
    <3> QED BY <2>5, <3>1, <3>2
  <2>8. FaninBounded'
    BY <1>1, <2>3, <2>6, <2>7 DEF FaninBounded
  <2> QED BY <1>1, <1>2, <2>1, <2>3, <2>4, <2>6, <2>7, <2>8 DEF UnrollInv
<1> QED BY <1>1, <1>4, <1>5, <1>6

(* The steps of the clustering leave the neurons alone. *)
LEMMA UnrollKept == UnrollInv /\ [Next]_vars => UnrollInv'
<1> SUFFICES ASSUME UnrollInv, [Next]_vars
             PROVE  UnrollInv'
  OBVIOUS
<1>1. CASE UnrollNeuron
  BY <1>1, UnrollStep
<1>2. CASE UNCHANGED unrollVars
  BY <1>2 DEF UnrollInv, unrollVars, FaninBounded, Id
<1>3. UnrollNeuron \/ UNCHANGED unrollVars
  BY DEF Next, vars, StartNeuron, TryCluster, NewCluster, FindComponents, Connect, Finish
<1> QED BY <1>1, <1>2, <1>3

(* No neuron that Model::unroll has passed or made ever has more than       *)
(* max_fanin inputs: the assert of outputUnrolledIR never fails.            *)
THEOREM FaninIsBounded == Spec => []FaninBounded
<1>1. UnrollInv => FaninBounded
  BY DEF UnrollInv
<1> QED BY <1>1, UnrollInitial, UnrollKept, PTL DEF Spec

-----------------------------------------------------------------------------
(* Unrolling keeps input lists and output lists in agreement.               *)

(* The lists hold neurons only, so that a new one is in none of them.       *)
EdgeInv ==
  /\ UnrollInv
  /\ \A n \in Id : usnn[n].inputs \in Seq(Id) /\ usnn[n].outputs \subseteq Id
  /\ EdgesAgree

-----------------------------------------------------------------------------
(* The lists as they are read: those of the inputs are made by rank.        *)

(* The rank of an element: how many there are up to it.                     *)
Rank(at, k) == Cardinality({ i \in at : i <= k })

(* Ranks number the elements of a finite set, without gaps.                 *)
LEMMA Ranks ==
  ASSUME NEW at \in SUBSET Int, IsFiniteSet(at)
  PROVE  /\ Cardinality(at) \in Nat
         /\ \A k \in at : Rank(at, k) \in 1 .. Cardinality(at)
         /\ \A k, l \in at : Rank(at, k) = Rank(at, l) => k = l
         /\ \A j \in 1 .. Cardinality(at) : \E k \in at : Rank(at, k) = j
<1> DEFINE c == Cardinality(at)
           rank == [k \in at |-> Rank(at, k)]
<1>1. c \in Nat
  BY FS_CardinalityType
<1>2. ASSUME NEW k \in at
      PROVE  Rank(at, k) \in 1 .. c
  <2> DEFINE S == { i \in at : i <= k }
  <2>1. S \subseteq at /\ S # {}
    <3>1. k \in S
      OBVIOUS
    <3> QED BY <3>1
  <2>2. IsFiniteSet(S) /\ Cardinality(S) <= c
    BY <2>1, FS_Subset
  <2>3. Cardinality(S) \in Nat /\ Cardinality(S) # 0
    BY <2>1, <2>2, FS_CardinalityType, FS_EmptySet
  <2> QED BY <1>1, <2>2, <2>3 DEF Rank
<1>3. ASSUME NEW k \in at, NEW l \in at, k < l
      PROVE  Rank(at, k) # Rank(at, l)
  <2> DEFINE S == { i \in at : i <= k }
             T == { i \in at : i <= l }
  <2>1. S \subseteq T /\ S # T /\ T \subseteq at
    <3>1. k \in Int /\ l \in Int
      OBVIOUS
    <3>2. l \in T /\ l \notin S
      BY <3>1, <1>3
    <3>3. \A i \in S : i \in T
      BY <1>3
    <3> QED BY <3>2, <3>3
  <2>2. IsFiniteSet(T)
    BY <2>1, FS_Subset
  <2> QED BY <2>1, <2>2, FS_Subset DEF Rank
<1>4. \A k, l \in at : Rank(at, k) = Rank(at, l) => k = l
  <2> SUFFICES ASSUME NEW k \in at, NEW l \in at, k # l
               PROVE  Rank(at, k) # Rank(at, l)
    OBVIOUS
  <2>1. k < l \/ l < k
    OBVIOUS
  <2> QED BY <1>3, <2>1
<1>5. rank \in Injection(at, 1 .. c)
  BY <1>2, <1>4 DEF Injection, IsInjective
<1>6. IsFiniteSet(1 .. c) /\ Cardinality(1 .. c) = c
  BY <1>1, FS_Interval
<1>7. rank \in Surjection(at, 1 .. c)
  <2> HIDE DEF rank
  <2> QED BY <1>5, <1>6, FS_Injection
<1>8. \A j \in 1 .. c : \E k \in at : rank[k] = j
  <2> HIDE DEF rank
  <2> QED BY <1>7 DEF Surjection
<1> QED
  BY <1>1, <1>2, <1>4, <1>8

(* The inputs read from the connection lines, each once.                    *)
LEMMA InputsRead ==
  ASSUME NEW lines \in Connections, NEW n
  PROVE  /\ Inputs(lines, n) \in Seq(Neuron)
         /\ Elements(Inputs(lines, n)) = { m \in Neuron : n \in Outputs(lines, m) }
         /\ \A i, j \in DOMAIN Inputs(lines, n) :
              Inputs(lines, n)[i] = Inputs(lines, n)[j] => i = j
<1> DEFINE at == { k \in DOMAIN lines : n \in lines[k].dsts }
           line(j) == CHOOSE k \in at : Rank(at, k) = j
<1>1. lines \in Seq([src : Neuron, dsts : SUBSET Neuron])
  BY UnrollAssumption
<1>2. DOMAIN lines = 1 .. Len(lines) /\ Len(lines) \in Nat
  BY <1>1
<1>3. IsFiniteSet(at) /\ at \subseteq Int
  <2>1. at \subseteq 1 .. Len(lines)
    BY <1>2
  <2>2. IsFiniteSet(1 .. Len(lines))
    BY <1>2, FS_Interval
  <2>3. 1 .. Len(lines) \subseteq Int
    BY <1>2
  <2> HIDE DEF at
  <2>4. at \subseteq Int
    BY <2>1, <2>3
  <2> QED BY <2>1, <2>2, <2>4, FS_Subset
<1>4. Cardinality(at) \in Nat
  BY <1>3, FS_CardinalityType
<1>5. \A j \in 1 .. Cardinality(at) : line(j) \in at /\ Rank(at, line(j)) = j
  <2> HIDE DEF at
  <2>1. \A j \in 1 .. Cardinality(at) : \E k \in at : Rank(at, k) = j
    BY <1>3, Ranks
  <2> QED BY <2>1
<1>6. \A k \in at : Rank(at, k) \in 1 .. Cardinality(at) /\ line(Rank(at, k)) = k
  <2> SUFFICES ASSUME NEW k \in at
               PROVE  Rank(at, k) \in 1 .. Cardinality(at) /\ line(Rank(at, k)) = k
    OBVIOUS
  <2>1. Rank(at, k) \in 1 .. Cardinality(at)
    BY <1>3, Ranks
  <2>2. line(Rank(at, k)) \in at /\ Rank(at, line(Rank(at, k))) = Rank(at, k)
    BY <2>1, <1>5
  <2> QED BY <1>3, <2>1, <2>2, Ranks
<1>7. Inputs(lines, n) = [j \in 1 .. Cardinality(at) |-> lines[line(j)].src]
  BY DEF Inputs, Rank
<1>8. \A k \in at : lines[k] \in [src : Neuron, dsts : SUBSET Neuron] /\ n \in lines[k].dsts
  BY <1>1, <1>2, ElementOfSeq
<1>9. \A m : n \in Outputs(lines, m) <=> \E k \in at : lines[k].src = m
  BY DEF Outputs, Elements
<1>10. \A k, l \in at : lines[k].src = lines[l].src => k = l
  BY UnrollAssumption
<1> HIDE DEF at, line
<1>11. \A j \in 1 .. Cardinality(at) : Inputs(lines, n)[j] = lines[line(j)].src
  BY <1>7
<1>12. DOMAIN Inputs(lines, n) = 1 .. Cardinality(at)
  BY <1>7
<1>13. Inputs(lines, n) \in Seq(Neuron)
  <2>1. Inputs(lines, n) \in [1 .. Cardinality(at) -> Neuron]
    BY <1>5, <1>7, <1>8
  <2> QED BY <1>4, <2>1
<1>14. Elements(Inputs(lines, n)) = { m \in Neuron : n \in Outputs(lines, m) }
  <2>1. ASSUME NEW m \in Elements(Inputs(lines, n))
        PROVE  m \in Neuron /\ n \in Outputs(lines, m)
    <3>1. PICK j \in 1 .. Cardinality(at) : m = lines[line(j)].src
      BY <1>11, <1>12 DEF Elements
    <3> QED BY <1>5, <1>8, <1>9, <3>1
  <2>2. ASSUME NEW m \in Neuron, n \in Outputs(lines, m)
        PROVE  m \in Elements(Inputs(lines, n))
    <3>1. PICK k \in at : lines[k].src = m
      BY <1>9, <2>2
    <3>2. Rank(at, k) \in 1 .. Cardinality(at) /\ Inputs(lines, n)[Rank(at, k)] = m
      BY <1>6, <1>11, <3>1
    <3> QED BY <1>12, <3>2 DEF Elements
  <2> QED BY <2>1, <2>2
<1>15. \A i, j \in 1 .. Cardinality(at) : Inputs(lines, n)[i] = Inputs(lines, n)[j] => i = j
  <2> SUFFICES ASSUME NEW i \in 1 .. Cardinality(at), NEW j \in 1 .. Cardinality(at),
                      lines[line(i)].src = lines[line(j)].src
               PROVE  i = j
    BY <1>11
  <2>1. line(i) = line(j)
    BY <1>5, <1>10
  <2> QED BY <1>5, <2>1
<1> QED
  BY <1>12, <1>13, <1>14, <1>15

(* The network as it is read.                                               *)
LEMMA EdgesInitial == Init => EdgeInv
<1> SUFFICES ASSUME Init
             PROVE  EdgeInv
  OBVIOUS
<1>1. UnrollInv
  BY UnrollInitial
<1>2. /\ connection \in Connections /\ Id = Neuron
      /\ \A n \in Neuron : /\ usnn[n].inputs = Inputs(connection, n)
                           /\ usnn[n].outputs = Outputs(connection, n)
  BY DEF Init, UnrollInit, Id
<1>3. \A n \in Neuron : Outputs(connection, n) \subseteq Neuron
  <2>1. connection \in Seq([src : Neuron, dsts : SUBSET Neuron])
    BY <1>2, UnrollAssumption
  <2>2. \A l \in Elements(connection) : l \in [src : Neuron, dsts : SUBSET Neuron]
    <3>1. DOMAIN connection = 1 .. Len(connection)
      BY <2>1
    <3>2. \A j \in 1 .. Len(connection) : connection[j] \in [src : Neuron, dsts : SUBSET Neuron]
      BY <2>1, ElementOfSeq
    <3> QED BY <3>1, <3>2 DEF Elements
  <2> QED BY <2>2 DEF Outputs
<1>4. \A n \in Id : usnn[n].inputs \in Seq(Id) /\ usnn[n].outputs \subseteq Id
  BY <1>2, <1>3, InputsRead
<1>5. EdgesAgree
  BY <1>2, InputsRead DEF EdgesAgree
<1> QED
  BY <1>1, <1>4, <1>5 DEF EdgeInv

-----------------------------------------------------------------------------
(* Every input is taken by one link of the chain.                           *)
LEMMA LinksShare ==
  ASSUME max_fanin \in Nat \ {0, 1}, NEW n \in Nat, n > max_fanin
  PROVE  \A j \in 1 .. n : \E k \in 0 .. NumInter(n) - 1 : j \in First(k) .. Last(k, n)
<1> DEFINE b == max_fanin - 1
           q == (n - 2) \div b
<1> SUFFICES ASSUME NEW j \in 1 .. n
             PROVE  \E k \in 0 .. NumInter(n) - 1 : j \in First(k) .. Last(k, n)
  OBVIOUS
<1>1. b \in Nat \ {0} /\ n - 2 \in Nat /\ max_fanin = b + 1
  OBVIOUS
<1>2. q \in Nat /\ q * b <= n - 2 /\ n - 2 - q * b < b
  BY <1>1, Division
<1>3. NumInter(n) = q + 1 /\ q >= 1
  BY <1>2, AtLeastTwoLinks DEF NumInter
<1>4. CASE j <= max_fanin
  <2>1. First(0) = 1 /\ Last(0, n) = max_fanin
    BY <1>1, <1>3 DEF First, Last
  <2>2. 0 \in 0 .. NumInter(n) - 1
    BY <1>2, <1>3
  <2> QED BY <1>4, <2>1, <2>2
<1>5. CASE j > max_fanin
  <2> DEFINE k == (j - 2) \div b
  <2>1. j - 2 \in Nat /\ j - 2 >= b /\ j - 2 <= n - 2
    BY <1>1, <1>5
  <2>2. k \in Nat /\ k * b <= j - 2 /\ j - 2 - k * b < b
    BY <1>1, <2>1, Division
  <2>3. k * b \in Nat /\ q * b \in Nat /\ (k + 1) * b = k * b + b
    BY <1>1, <1>2, <2>2, ProductGrows
  <2>4. k # 0
    BY <1>1, <2>1, <2>2
  <2>5. k <= q
    <3> SUFFICES ASSUME k > q PROVE FALSE
      BY <1>2, <2>2
    <3>1. q + 1 <= k /\ q + 1 \in Nat
      BY <1>2, <2>2
    <3>2. (q + 1) * b <= k * b
      BY <1>1, <2>2, <3>1, ProductGrows
    <3>3. (q + 1) * b = q * b + b
      BY <1>1, <1>2
    <3> HIDE DEF k, q
    <3> QED BY <1>1, <1>2, <2>1, <2>2, <2>3, <3>2, <3>3
  <2>6. First(k) = k * b + 2
    <3>1. First(k) = max_fanin + (k - 1) * b + 1
      BY <2>4 DEF First
    <3> HIDE DEF k
    <3>2. (k - 1) * b = k * b - b
      BY <1>1, <2>2
    <3> QED BY <1>1, <2>3, <3>1, <3>2
  <2>7. j <= Last(k, n)
    <3>1. Last(k, n) = IF k = q THEN n ELSE max_fanin + k * b
      BY <1>2, <1>3, <2>2 DEF Last
    <3> HIDE DEF k, q
    <3> QED BY <1>1, <2>2, <2>3, <3>1
  <2>8. Last(k, n) \in Nat
    BY <1>2, <1>3, <2>2, <2>5, LinkLength
  <2> HIDE DEF k, q
  <2>9. k \in 0 .. NumInter(n) - 1 /\ j \in First(k) .. Last(k, n)
    BY <1>2, <1>3, <2>2, <2>3, <2>5, <2>6, <2>7, <2>8
  <2> QED BY <2>9
<1> QED BY <1>4, <1>5

(* A list behind another one.                                               *)
LEMMA Concatenated ==
  ASSUME NEW T, NEW s \in Seq(T), NEW t \in Seq(T), NEW h, NEW len, Len(s) = h, Len(t) = len
  PROVE  /\ s \o t \in Seq(T) /\ Len(s \o t) = h + len
         /\ \A i \in 1 .. h + len : (s \o t)[i] = IF i <= h THEN s[i] ELSE t[i - h]
  BY ConcatProperties

(* What link k gets: the link before it, which was not there yet, and its   *)
(* share of the inputs.                                                     *)
LEMMA LinkEdges ==
  ASSUME max_fanin \in Nat \ {0, 1}, NEW S, NEW ins \in Seq(S), Len(ins) > max_fanin,
         \A i, j \in DOMAIN ins : ins[i] = ins[j] => i = j,
         NEW base \in Nat, \A x \in S : x \in Nat /\ x < base,
         NEW k \in 0 .. NumInter(Len(ins)) - 1
  PROVE  LET t == LinkInputs(ins, k, base)
             own == { ins[j] : j \in First(k) .. Last(k, Len(ins)) }
         IN  /\ own \subseteq S
             /\ t \in Seq(own \union {base + k - 1})
             /\ Elements(t) = own \union (IF k = 0 THEN {} ELSE {base + k - 1})
             /\ \A i, j \in DOMAIN t : t[i] = t[j] => i = j
<1> DEFINE t == LinkInputs(ins, k, base)
           a == First(k)
           z == Last(k, Len(ins))
           own == { ins[j] : j \in a .. z }
           T == own \union {base + k - 1}
           sub == SubSeq(ins, a, z)
           chain == IF k = 0 THEN <<>> ELSE <<base + k - 1>>
           h == IF k = 0 THEN 0 ELSE 1
           len == IF a <= z THEN z - a + 1 ELSE 0
<1>1. Len(ins) \in Nat /\ DOMAIN ins = 1 .. Len(ins) /\ k \in Nat
  BY AtLeastTwoLinks
<1>2. a \in Nat \ {0} /\ z \in Nat /\ z <= Len(ins)
  BY <1>1, LinkLength
<1>3. \A j \in a .. z : j \in 1 .. Len(ins) /\ ins[j] \in S
  <2> HIDE DEF a, z
  <2> QED BY <1>1, <1>2, ElementOfSeq
<1>4. /\ sub \in Seq(T) /\ Len(sub) = len
      /\ \A i \in 1 .. z - a + 1 : sub[i] = ins[a + i - 1]
  <2>1. \A j \in a .. z : ins[j] \in T
    OBVIOUS
  <2> HIDE DEF a, z, T
  <2> QED BY <1>2, <2>1, SubSeqProperties
<1>5. chain \in Seq(T) /\ Len(chain) = h /\ (k # 0 => chain[1] = base + k - 1)
  <2>1. base + k - 1 \in T
    OBVIOUS
  <2> HIDE DEF T
  <2>2. CASE k = 0
    BY <2>2
  <2>3. CASE k # 0
    BY <2>1, <2>3
  <2> QED BY <2>2, <2>3
<1>6. t = chain \o sub
  BY DEF LinkInputs
<1>7. /\ t \in Seq(T) /\ Len(t) = h + len
      /\ \A i \in 1 .. h + len : t[i] = IF i <= h THEN chain[i] ELSE sub[i - h]
  <2> HIDE DEF T, sub, chain, t, h, len, a, z, own
  <2> QED BY SMTT(30), <1>4, <1>5, <1>6, Concatenated
<1>8. h \in {0, 1} /\ len \in Nat /\ (len > 0 => len = z - a + 1) /\ (h = 1 <=> k # 0)
      /\ (a <= z => len = z - a + 1)
  <2> HIDE DEF a, z
  <2> QED BY <1>2
<1>9. DOMAIN t = 1 .. h + len
  <2> HIDE DEF t, T, h, len
  <2> QED BY <1>7
<1> HIDE DEF t, a, z, sub, chain, h, len
<1>10. \A i \in 1 .. h + len :
         IF i <= h THEN k # 0 /\ i = 1 /\ t[i] = base + k - 1
                   ELSE a + (i - h) - 1 \in a .. z /\ t[i] = ins[a + (i - h) - 1]
  <2> SUFFICES ASSUME NEW i \in 1 .. h + len
               PROVE  IF i <= h THEN k # 0 /\ i = 1 /\ t[i] = base + k - 1
                      ELSE a + (i - h) - 1 \in a .. z /\ t[i] = ins[a + (i - h) - 1]
    OBVIOUS
  <2>1. CASE i <= h
    BY <1>5, <1>7, <1>8, <2>1
  <2>2. CASE ~(i <= h)
    <3>1. i - h \in 1 .. z - a + 1 /\ i - h \in Nat
      BY <1>2, <1>8, <2>2
    <3>2. t[i] = sub[i - h]
      BY <1>7, <2>2
    <3>3. sub[i - h] = ins[a + (i - h) - 1]
      BY <1>4, <3>1
    <3>4. a + (i - h) - 1 \in a .. z
      BY <1>2, <3>1
    <3> QED BY <2>2, <3>2, <3>3, <3>4
  <2> QED BY <2>1, <2>2
<1>11. own \subseteq S
  BY <1>3
<1>12. Elements(t) = own \union (IF k = 0 THEN {} ELSE {base + k - 1})
  <2>1. ASSUME NEW x \in Elements(t)
        PROVE  x \in own \union (IF k = 0 THEN {} ELSE {base + k - 1})
    <3>1. PICK i \in 1 .. h + len : x = t[i]
      BY <1>9 DEF Elements
    <3> QED BY <1>10, <3>1
  <2>2. ASSUME NEW x \in own
        PROVE  x \in Elements(t)
    <3>1. PICK j \in a .. z : x = ins[j]
      OBVIOUS
    <3> DEFINE i == j - a + 1 + h
    <3>2. h \in Nat /\ j \in Nat /\ a <= j /\ j <= z /\ len = z - a + 1
      BY <1>2, <1>8
    <3>3. i \in 1 .. h + len /\ ~(i <= h) /\ a + (i - h) - 1 = j
      BY <1>2, <3>2
    <3> HIDE DEF i
    <3> QED BY <1>9, <1>10, <3>1, <3>3 DEF Elements
  <2>3. ASSUME k # 0
        PROVE  base + k - 1 \in Elements(t)
    <3>1. 1 \in 1 .. h + len /\ 1 <= h
      BY <1>8, <2>3
    <3> QED BY <1>9, <1>10, <3>1 DEF Elements
  <2> HIDE DEF own
  <2> QED BY <2>1, <2>2, <2>3
<1>13. \A i, j \in 1 .. h + len : t[i] = t[j] => i = j
  <2> SUFFICES ASSUME NEW i \in 1 .. h + len, NEW j \in 1 .. h + len, t[i] = t[j]
               PROVE  i = j
    OBVIOUS
  <2>1. \A m \in 1 .. h + len : ~(m <= h) => t[m] < base /\ t[m] \in Nat
    BY <1>3, <1>10
  <2>2. \A m \in 1 .. h + len : m <= h => t[m] >= base
    BY <1>1, <1>10
  <2>3. CASE i <= h
    <3>1. j <= h
      BY <1>1, <1>10, <2>1, <2>3
    <3> QED BY <1>10, <2>3, <3>1
  <2>4. CASE ~(i <= h)
    <3>1. ~(j <= h)
      BY <1>1, <1>10, <2>1, <2>4
    <3>2. a + (i - h) - 1 = a + (j - h) - 1
      BY SMTT(30), <1>1, <1>3, <1>10, <2>4, <3>1
    <3> QED BY <1>2, <1>8, <3>2
  <2> QED BY <2>3, <2>4
<1> QED
  BY <1>7, <1>9, <1>11, <1>12, <1>13 DEF t, a, z

-----------------------------------------------------------------------------
(* One iteration of the loop.                                               *)
LEMMA EdgesStep == EdgeInv /\ UnrollNeuron => EdgeInv'
<1> SUFFICES ASSUME EdgeInv, UnrollNeuron
             PROVE  EdgeInv'
  OBVIOUS
<1> DEFINE ins  == usnn[idx].inputs
           base == Cardinality(Id)
           N    == NumInter(Len(ins))
           size == base + N - 1
           link(k) == LinkId(ins, k, base)
           share(k) == { ins[j] : j \in First(k) .. Last(k, Len(ins)) }
<1>1. UnrollInv /\ UnrollInv'
  BY UnrollStep DEF EdgeInv
<1>2. /\ idx \in Nat /\ idx < NumNeurons /\ NumNeurons \in Nat
      /\ max_fanin \in Nat \ {0, 1} /\ max_fanin # INVALID_FANIN
  BY <1>1, UnrollAssumption DEF UnrollInv, UnrollNeuron, INVALID_FANIN
<1>3. base \in Nat /\ NumNeurons <= base /\ Id = 0 .. base - 1 /\ idx \in Id
  BY <1>1, <1>2 DEF UnrollInv
<1>4. /\ \A n \in Id : usnn[n].inputs \in Seq(Id) /\ usnn[n].outputs \subseteq Id
      /\ EdgesAgree
      /\ \A n \in Id : IsNeuron(usnn[n])
  BY <1>1 DEF EdgeInv, UnrollInv
<1>5. ins \in Seq(Id) /\ Len(ins) \in Nat /\ DOMAIN ins = 1 .. Len(ins)
  <2>1. ins \in Seq(Id)
    BY <1>3, <1>4
  <2> HIDE DEF ins
  <2> QED BY <2>1
<1>6. CASE Len(ins) <= max_fanin
  <2>1. usnn' = usnn /\ Id' = Id
    BY <1>6 DEF UnrollNeuron, Id
  <2>2. EdgesAgree'
    BY <1>4, <2>1 DEF EdgesAgree
  <2> QED BY <1>1, <1>4, <2>1, <2>2 DEF EdgeInv
<1>7. CASE Len(ins) > max_fanin
  <2>1. N \in Nat /\ N >= 2 /\ size \in Nat /\ size > base
    <3> HIDE DEF base, ins
    <3> QED BY <1>2, <1>3, <1>5, <1>7, AtLeastTwoLinks
  <2>2. usnn' = [m \in 0 .. size - 1 |-> IF m < base THEN OldNeuron(ins, m, base)
                                                   ELSE NewNeuron(ins, m - base, base)]
    <3>1. base + NumInter(Len(ins)) - 2 = size - 1
      <4> HIDE DEF base, ins
      <4> QED BY <1>3, <2>1
    <3>2. ~ (Len(ins) <= max_fanin)
      <4> HIDE DEF ins
      <4> QED BY <1>2, <1>5, <1>7
    <3> QED BY <3>1, <3>2 DEF UnrollNeuron
  <2>3. Id' = 0 .. size - 1
    BY <2>2 DEF Id
  <2>4. \A i, j \in DOMAIN ins : ins[i] = ins[j] => i = j
    BY <1>3, <1>4 DEF EdgesAgree
  <2>5. \A m \in Id : m \in Elements(ins) <=> idx \in usnn[m].outputs
    BY <1>3, <1>4 DEF EdgesAgree
  <2>6. \A k \in 0 .. N - 1 : link(k) = IF k = N - 1 THEN idx ELSE base + k
    BY DEF LinkId
  <2> HIDE DEF ins, base, size, N, link
  <2>7. \A k \in 0 .. N - 1 : link(k) \in Id' /\ (link(k) \in Id => link(k) = idx)
    BY <1>2, <1>3, <2>1, <2>3, <2>6 DEF size
  <2>8. \A k, l \in 0 .. N - 1 : link(k) = link(l) => k = l
    BY <1>2, <1>3, <2>1, <2>6
  <2>9. Id \subseteq Id' /\ \A k \in 0 .. N - 2 : base + k \in Id' \ Id
    BY <1>3, <2>1, <2>3 DEF size
  <2>10. ASSUME NEW k \in 0 .. N - 1
         PROVE  LET t == LinkInputs(ins, k, base)
                IN  /\ share(k) \subseteq Id
                    /\ t \in Seq(Id')
                    /\ Elements(t) = share(k) \union (IF k = 0 THEN {} ELSE {base + k - 1})
                    /\ \A i, j \in DOMAIN t : t[i] = t[j] => i = j
    <3> DEFINE t == LinkInputs(ins, k, base)
    <3>1. \A x \in Id : x \in Nat /\ x < base
      BY <1>3
    <3>2. /\ share(k) \subseteq Id
          /\ t \in Seq(share(k) \union {base + k - 1})
          /\ Elements(t) = share(k) \union (IF k = 0 THEN {} ELSE {base + k - 1})
          /\ \A i, j \in DOMAIN t : t[i] = t[j] => i = j
      <4>1. k \in 0 .. NumInter(Len(ins)) - 1
        BY DEF N
      <4>2. max_fanin \in Nat \ {0, 1} /\ base \in Nat /\ ins \in Seq(Id) /\ Len(ins) > max_fanin
        BY <1>2, <1>3, <1>5, <1>7
      <4> QED BY <2>4, <3>1, <4>1, <4>2, LinkEdges
    <3>3. base + k - 1 \in Id'
      BY <1>3, <2>1, <2>3 DEF size
    <3> HIDE DEF t, share
    <3>4. t \in Seq(Id')
      BY <2>9, <3>2, <3>3, SeqMonotonic
    <3> QED BY <3>2, <3>4 DEF t
  <2>11. /\ \A k \in 0 .. N - 1 : share(k) \subseteq Elements(ins)
         /\ \A x \in Elements(ins) : \E k \in 0 .. N - 1 : x \in share(k)
    <3>1. ASSUME NEW k \in 0 .. N - 1, NEW j \in First(k) .. Last(k, Len(ins))
          PROVE  j \in DOMAIN ins
      <4>1. /\ First(k) \in Nat \ {0} /\ Last(k, Len(ins)) \in Nat
            /\ Last(k, Len(ins)) <= Len(ins)
        BY <1>2, <1>5, <1>7, LinkLength DEF N
      <4> QED BY <1>5, <4>1
    <3>2. \A j \in DOMAIN ins : \E k \in 0 .. N - 1 : j \in First(k) .. Last(k, Len(ins))
      BY <1>2, <1>5, <1>7, LinksShare DEF N
    <3> QED BY <3>1, <3>2 DEF Elements
  <2>12. \A m, n : n \in TakenBy(ins, m, base) <=> \E k \in 0 .. N - 1 : n = link(k) /\ m \in share(k)
    BY DEF TakenBy, N, link
  <2>13. ASSUME NEW k \in 0 .. N - 2
         PROVE  /\ usnn'[base + k].inputs = LinkInputs(ins, k, base)
                /\ usnn'[base + k].outputs = {link(k + 1)}
    <3>1. base + k \in 0 .. size - 1 /\ ~(base + k < base) /\ base + k - base = k
      BY <1>3, <2>1 DEF size
    <3>2. \A m \in 0 .. size - 1 : ~(m < base) => usnn'[m] = NewNeuron(ins, m - base, base)
      BY <2>2
    <3>3. usnn'[base + k] = NewNeuron(ins, k, base)
      <4>1. PICK m \in 0 .. size - 1 : m = base + k
        BY <3>1
      <4>2. ~(m < base) /\ m - base = k
        BY <1>3, <2>1, <3>1, <4>1
      <4>3. usnn'[m] = NewNeuron(ins, m - base, base)
        BY <3>2, <4>2
      <4> QED BY <4>1, <4>2, <4>3
    <3> QED BY <3>3 DEF NewNeuron, link
  <2>14. ASSUME NEW m \in Id
         PROVE  /\ m # idx => usnn'[m].inputs = usnn[m].inputs
                /\ m = idx => usnn'[m].inputs = LinkInputs(ins, N - 1, base)
                /\ usnn'[m].outputs = IF m \in Elements(ins)
                                      THEN (usnn[m].outputs \ {idx}) \union TakenBy(ins, m, base)
                                      ELSE usnn[m].outputs
    <3>1. usnn'[m] = OldNeuron(ins, m, base)
      BY <1>3, <2>1, <2>2
    <3> QED BY <1>4, <3>1 DEF OldNeuron, IsNeuron, N
  <2>15. \A k \in 0 .. N - 1 : usnn'[link(k)].inputs = LinkInputs(ins, k, base)
    <3> SUFFICES ASSUME NEW k \in 0 .. N - 1
                 PROVE  usnn'[link(k)].inputs = LinkInputs(ins, k, base)
      OBVIOUS
    <3>1. CASE k = N - 1
      BY <1>3, <2>6, <2>14, <3>1
    <3>2. CASE k # N - 1
      <4>1. k \in 0 .. N - 2
        BY <2>1, <3>2
      <4> QED BY <2>6, <2>13, <3>2, <4>1
    <3> QED BY <3>1, <3>2
  <2> HIDE DEF share
  <2>16. \A n \in Id' : (n \in Id /\ n # idx) \/ \E k \in 0 .. N - 1 : n = link(k)
    BY <1>2, <1>3, <2>1, <2>3, <2>6 DEF size
  <2>17. \A m \in Id' : m \in Id \/ \E k \in 0 .. N - 2 : m = base + k
    BY <1>3, <2>1, <2>3 DEF size
  <2>18. ASSUME NEW n \in Id'
         PROVE  usnn'[n].inputs \in Seq(Id') /\ usnn'[n].outputs \subseteq Id'
    <3>1. usnn'[n].inputs \in Seq(Id')
      <4>1. CASE n \in Id /\ n # idx
        BY <1>4, <2>9, <2>14, <4>1, SeqMonotonic
      <4>2. CASE \E k \in 0 .. N - 1 : n = link(k)
        BY <2>10, <2>15, <4>2
      <4> QED BY <2>16, <4>1, <4>2
    <3>2. usnn'[n].outputs \subseteq Id'
      <4>1. CASE n \in Id
        <5>1. TakenBy(ins, n, base) \subseteq Id'
          BY <2>7, <2>12
        <5>2. usnn[n].outputs \subseteq Id'
          BY <1>4, <2>9, <4>1
        <5> QED BY <2>14, <4>1, <5>1, <5>2
      <4>2. CASE \E k \in 0 .. N - 2 : n = base + k
        <5>1. PICK k \in 0 .. N - 2 : n = base + k
          BY <4>2
        <5>2. k + 1 \in 0 .. N - 1
          BY <2>1
        <5> QED BY <2>7, <2>13, <5>1, <5>2
      <4> QED BY <2>17, <4>1, <4>2
    <3> QED BY <3>1, <3>2
  <2>19. ASSUME NEW n \in Id', NEW m \in Id'
         PROVE  m \in Elements(usnn'[n].inputs) <=> n \in usnn'[m].outputs
    <3>1. CASE n \in Id /\ n # idx
      <4>0. /\ usnn'[n].inputs = usnn[n].inputs
            /\ Elements(usnn[n].inputs) \subseteq Id
            /\ \A k \in 0 .. N - 1 : n # link(k)
        <5>1. usnn[n].inputs \in Seq(Id)
          BY <1>4, <3>1
        <5>2. Elements(usnn[n].inputs) \subseteq Id
          BY <5>1, ElementOfSeq, LenProperties DEF Elements
        <5> QED BY <2>7, <2>14, <3>1, <5>2
      <4>1. CASE m \in Id
        <5>1. m \in Elements(usnn[n].inputs) <=> n \in usnn[m].outputs
          BY <1>4, <3>1, <4>1 DEF EdgesAgree
        <5>2. n \in usnn'[m].outputs <=> n \in usnn[m].outputs
          <6>1. n \notin TakenBy(ins, m, base)
            BY <2>12, <4>0
          <6>2. \/ usnn'[m].outputs = (usnn[m].outputs \ {idx}) \union TakenBy(ins, m, base)
                \/ usnn'[m].outputs = usnn[m].outputs
            BY <2>14, <4>1
          <6> QED BY <3>1, <6>1, <6>2
        <5> QED BY <4>0, <5>1, <5>2
      <4>2. CASE \E k \in 0 .. N - 2 : m = base + k
        <5>1. PICK k \in 0 .. N - 2 : m = base + k
          BY <4>2
        <5>2. k + 1 \in 0 .. N - 1 /\ m \notin Id
          BY <2>1, <2>9, <5>1
        <5>3. usnn'[m].outputs = {link(k + 1)}
          BY <2>13, <5>1
        <5> QED BY <4>0, <5>2, <5>3
      <4> QED BY <2>17, <4>1, <4>2
    <3>2. CASE \E k \in 0 .. N - 1 : n = link(k)
      <4>0. PICK k \in 0 .. N - 1 : n = link(k)
        BY <3>2
      <4>1. /\ Elements(usnn'[n].inputs) = share(k) \union (IF k = 0 THEN {} ELSE {base + k - 1})
            /\ share(k) \subseteq Id
        BY <2>10, <2>15, <4>0
      <4>2. CASE m \in Id
        <5>1. m \in Elements(usnn'[n].inputs) <=> m \in share(k)
          <6>1. k # 0 => base + k - 1 # m
            BY <1>3, <2>1, <4>2
          <6> QED BY <4>1, <6>1
        <5>2. CASE m \in Elements(ins)
          <6>1. n \in TakenBy(ins, m, base) <=> m \in share(k)
            BY <2>8, <2>12, <4>0
          <6>2. ~(n \in usnn[m].outputs \ {idx})
            BY <1>4, <2>7, <4>0, <4>2
          <6> QED BY <2>14, <4>2, <5>1, <5>2, <6>1, <6>2
        <5>3. CASE m \notin Elements(ins)
          <6>1. m \notin share(k)
            BY <2>11, <5>3
          <6>2. n \notin usnn[m].outputs
            BY <1>4, <2>5, <2>7, <4>0, <4>2, <5>3
          <6> QED BY <2>14, <4>2, <5>1, <5>3, <6>1, <6>2
        <5> QED BY <5>2, <5>3
      <4>3. CASE \E i \in 0 .. N - 2 : m = base + i
        <5>1. PICK i \in 0 .. N - 2 : m = base + i
          BY <4>3
        <5>2. m \notin Id
          BY <2>9, <5>1
        <5>3. usnn'[m].outputs = {link(i + 1)} /\ i + 1 \in 0 .. N - 1
          BY <2>1, <2>13, <5>1
        <5>4. n \in usnn'[m].outputs <=> k = i + 1
          BY <2>8, <4>0, <5>3
        <5>5. (k # 0 /\ m = base + k - 1) <=> k = i + 1
          BY <1>3, <2>1, <5>1
        <5> QED BY <4>1, <5>2, <5>4, <5>5
      <4> QED BY <2>17, <4>2, <4>3
    <3> QED BY <2>16, <3>1, <3>2
  <2>20. ASSUME NEW n \in Id'
         PROVE  \A i, j \in DOMAIN usnn'[n].inputs :
                  usnn'[n].inputs[i] = usnn'[n].inputs[j] => i = j
    <3>1. CASE n \in Id /\ n # idx
      BY <1>4, <2>14, <3>1 DEF EdgesAgree
    <3>2. CASE \E k \in 0 .. N - 1 : n = link(k)
      BY <2>10, <2>15, <3>2
    <3> QED BY <2>16, <3>1, <3>2
  <2>21. EdgesAgree'
    BY <2>19, <2>20 DEF EdgesAgree
  <2> QED BY <1>1, <2>18, <2>21 DEF EdgeInv
<1> QED BY <1>2, <1>5, <1>6, <1>7

(* The steps of the clustering leave the neurons alone. *)
LEMMA EdgesKept == EdgeInv /\ [Next]_vars => EdgeInv'
<1> SUFFICES ASSUME EdgeInv, [Next]_vars
             PROVE  EdgeInv'
  OBVIOUS
<1>1. CASE UnrollNeuron
  BY <1>1, EdgesStep
<1>2. CASE UNCHANGED unrollVars
  <2>1. UnrollInv'
    BY UnrollKept DEF EdgeInv
  <2> QED BY <1>2, <2>1 DEF EdgeInv, unrollVars, EdgesAgree, Id, Elements
<1>3. UnrollNeuron \/ UNCHANGED unrollVars
  BY DEF Next, vars, StartNeuron, TryCluster, NewCluster, FindComponents, Connect, Finish
<1> QED BY <1>1, <1>2, <1>3

(* Whatever is unrolled, into however many links: m is in the input list of *)
(* n, and once only, exactly if n is among the outputs of m; although       *)
(* Model::unroll edits the lists of the inputs, of the links and of the     *)
(* neuron separately, and of inputs that are unrolled themselves.           *)
THEOREM EdgesAlwaysAgree == Spec => []EdgesAgree
<1>1. EdgeInv => EdgesAgree
  BY DEF EdgeInv
<1> QED BY <1>1, EdgesInitial, EdgesKept, PTL DEF Spec

-----------------------------------------------------------------------------
(* Packing inputs into a crossbar.                                          *)

(* The crossbars, with finitely many inputs and outputs.                    *)
FinNat == { S \in SUBSET Nat : IsFiniteSet(S) }
Crossbar == [inputs : FinNat, outputs : FinNat]

(* The first elements of a range, counted.                                  *)
LEMMA InitialPart ==
  ASSUME NEW n \in Nat, NEW S \in SUBSET (1 .. n),
         \A i \in S : \A j \in 1 .. n : j <= i => j \in S
  PROVE  /\ Cardinality(S) \in 0 .. n
         /\ Cardinality(S) # 0 => Cardinality(S) \in S
<1> DEFINE c == Cardinality(S)
<1>1. IsFiniteSet(S) /\ c \in 0 .. n
  <2>1. IsFiniteSet(1 .. n) /\ Cardinality(1 .. n) = n
    BY FS_Interval
  <2>2. IsFiniteSet(S) /\ c <= n
    BY <2>1, FS_Subset
  <2> QED BY <2>2, FS_CardinalityType
<1>2. ASSUME c # 0, c \notin S
      PROVE  FALSE
  <2>1. c \in 1 .. n
    BY <1>1, <1>2
  <2>2. S \subseteq 1 .. c - 1
    <3> SUFFICES ASSUME NEW i \in S, ~(i \in 1 .. c - 1)
                 PROVE  FALSE
      OBVIOUS
    <3>1. i \in 1 .. n /\ c <= i
      BY <2>1
    <3> HIDE DEF c
    <3> QED BY <1>2, <2>1, <3>1
  <2>3. IsFiniteSet(1 .. c - 1) /\ Cardinality(1 .. c - 1) = c - 1
    <3> HIDE DEF c
    <3> QED BY <2>1, FS_Interval
  <2>4. c <= c - 1
    <3>1. S \in SUBSET (1 .. c - 1)
      BY <2>2
    <3>2. Cardinality(S) <= Cardinality(1 .. c - 1)
      BY <2>3, <3>1, FS_Subset
    <3> QED BY <2>3, <3>2
  <2> HIDE DEF c
  <2> QED BY <2>1, <2>4
<1> QED BY <1>1, <1>2

(* The pending inputs that crossbar c does not have yet.                    *)
Added(c, j) == { i \in 1 .. j : pending[i] \notin c.inputs }

(* More pending inputs add no less to a crossbar.                           *)
LEMMA AddedCounts ==
  ASSUME NEW c, NEW i \in Nat, NEW j \in Nat, i <= j
  PROVE  /\ IsFiniteSet(Added(c, j))
         /\ Cardinality(Added(c, i)) \in Nat /\ Cardinality(Added(c, j)) \in Nat
         /\ Cardinality(Added(c, i)) <= Cardinality(Added(c, j))
         /\ Cardinality(Added(c, j)) <= j
<1>1. IsFiniteSet(1 .. j) /\ Cardinality(1 .. j) = j
  BY FS_Interval
<1>2. Added(c, i) \subseteq Added(c, j) /\ Added(c, j) \subseteq 1 .. j
  BY DEF Added
<1> HIDE DEF Added
<1>3. IsFiniteSet(Added(c, j)) /\ Cardinality(Added(c, j)) <= j
  BY <1>1, <1>2, FS_Subset
<1>4. IsFiniteSet(Added(c, i)) /\ Cardinality(Added(c, i)) <= Cardinality(Added(c, j))
  BY <1>2, <1>3, FS_Subset
<1> QED BY <1>3, <1>4, FS_CardinalityType

(* What fits also fits in part.                                             *)
LEMMA FitsInPart ==
  ASSUME crossbar_size \in Nat, NEW c \in Crossbar, NEW i \in Nat, NEW j \in Nat, i <= j,
         Fits(c, j)
  PROVE  Fits(c, i)
<1>1. Cardinality(c.inputs) \in Nat
  BY FS_CardinalityType DEF Crossbar, FinNat
<1>2. /\ Cardinality(Added(c, i)) \in Nat /\ Cardinality(Added(c, j)) \in Nat
      /\ Cardinality(Added(c, i)) <= Cardinality(Added(c, j))
  BY AddedCounts
<1>3. Cardinality(c.inputs) + Cardinality(Added(c, i)) <= crossbar_size
  <2>1. Cardinality(c.inputs) + Cardinality(Added(c, j)) <= crossbar_size
    BY DEF Fits, Added
  <2> QED BY <1>1, <1>2, <2>1
<1> QED BY <1>3 DEF Fits, Added

(* What the packing of pending inputs relies on.                            *)
Packing(s) == /\ crossbar_size \in Nat \ {0, 1}
              /\ MIN_FANIN \in Nat \ {0, 1} /\ MIN_FANIN <= crossbar_size
              /\ \E S : s \in Seq(S)

(* The chunk that is packed fits, and ends with the last pending input or,  *)
(* if it does not, has at least two.                                        *)
LEMMA ChunkFits ==
  ASSUME Packing(pending), NEW c \in Crossbar
  PROVE  LET k == NumCanBePacked(c) IN
           /\ k \in 0 .. Len(pending)
           /\ k # 0 => Fits(c, k)
           /\ pending # <<>> /\ CanPack(c) => k # 0 /\ (k > 1 \/ k = Len(pending))
<1> DEFINE n == Len(pending)
           S == { j \in 1 .. n : Fits(c, j) }
           k == Cardinality(S)
<1>1. PICK T : pending \in Seq(T)
  BY DEF Packing
<1>2. n \in Nat /\ DOMAIN pending = 1 .. n /\ (pending # <<>> => n # 0)
  BY <1>1, EmptySeq
<1>3. NumCanBePacked(c) = k
  BY <1>2 DEF NumCanBePacked
<1> HIDE DEF n
<1>4. k \in 0 .. n /\ (k # 0 => k \in S)
  <2>1. S \in SUBSET (1 .. n)
    OBVIOUS
  <2>2. \A i \in S : \A j \in 1 .. n : j <= i => j \in S
    BY <1>2, FitsInPart DEF Packing
  <2> HIDE DEF S
  <2> QED BY <1>2, <2>1, <2>2, InitialPart
<1>5. CanPack(c) => IF n >= MIN_FANIN THEN k >= MIN_FANIN ELSE k = n
  BY <1>3 DEF CanPack, n
<1>6. MIN_FANIN \in Nat \ {0, 1}
  BY DEF Packing
<1> HIDE DEF k
<1>7. pending # <<>> /\ CanPack(c) => k # 0 /\ (k > 1 \/ k = n)
  BY <1>2, <1>4, <1>5, <1>6
<1>8. k # 0 => Fits(c, k)
  BY <1>4
<1> QED BY <1>3, <1>4, <1>7, <1>8 DEF n

(* A new crossbar takes all pending inputs or as many as it has rows.       *)
LEMMA NewFits ==
  ASSUME Packing(pending), pending # <<>>
  PROVE  CanPack(NoCluster)
<1> DEFINE n == Len(pending)
           m == IF n < crossbar_size THEN n ELSE crossbar_size
           S == { j \in 1 .. n : Fits(NoCluster, j) }
<1>1. PICK T : pending \in Seq(T)
  BY DEF Packing
<1>2. n \in Nat /\ DOMAIN pending = 1 .. n
  BY <1>1
<1>3. crossbar_size \in Nat \ {0, 1} /\ MIN_FANIN \in Nat /\ MIN_FANIN <= crossbar_size
  BY DEF Packing
<1> HIDE DEF n
<1>4. m \in Nat /\ m <= n /\ m <= crossbar_size
  BY <1>2, <1>3
<1>5. 1 .. m \subseteq S
  <2> SUFFICES ASSUME NEW j \in 1 .. m
               PROVE  Fits(NoCluster, j)
    BY <1>2, <1>4
  <2>1. Cardinality(Added(NoCluster, j)) \in Nat /\ Cardinality(Added(NoCluster, j)) <= j
    BY AddedCounts
  <2>2. Cardinality(NoCluster.inputs) = 0 /\ Cardinality(NoCluster.outputs) = 0
    BY FS_EmptySet DEF NoCluster
  <2>3. j <= crossbar_size
    BY <1>3, <1>4
  <2>4. Cardinality(NoCluster.inputs) + Cardinality(Added(NoCluster, j)) <= crossbar_size
    BY <1>3, <2>1, <2>2, <2>3
  <2>5. Cardinality(NoCluster.outputs) < crossbar_size
    BY <1>3, <2>2
  <2> QED BY <2>4, <2>5 DEF Fits, Added
<1>6. IsFiniteSet(1 .. n) /\ Cardinality(1 .. n) = n /\ Cardinality(1 .. m) = m
  BY <1>2, <1>4, FS_Interval
<1>7. S \in SUBSET (1 .. n)
  OBVIOUS
<1> HIDE DEF S, m
<1>8. IsFiniteSet(S) /\ Cardinality(S) <= n /\ m <= Cardinality(S)
  <2>1. IsFiniteSet(S) /\ Cardinality(S) <= n
    BY <1>6, <1>7, FS_Subset
  <2>2. Cardinality(1 .. m) <= Cardinality(S)
    <3>1. 1 .. m \in SUBSET S
      BY <1>5
    <3> QED BY <2>1, <3>1, FS_Subset
  <2> QED BY <1>6, <2>1, <2>2
<1>9. Cardinality(S) \in Nat
  BY <1>8, FS_CardinalityType
<1>10. NumCanBePacked(NoCluster) = Cardinality(S)
  BY <1>2 DEF NumCanBePacked, S
<1>11. IF n >= MIN_FANIN THEN Cardinality(S) >= MIN_FANIN ELSE Cardinality(S) = n
  BY <1>2, <1>3, <1>4, <1>8, <1>9 DEF m
<1> QED BY <1>10, <1>11 DEF CanPack, n

-----------------------------------------------------------------------------
(* One step of the packing.                                                 *)

(* Of the links of the chain of n, and n, just one takes a.                 *)
Single(n, a) == \E m \in Id : Outs(n, a) = {m}

(* What is left to pack for n: the map has an answer for each input but the *)
(* first, which may be a link of the chain, and for the last it is n.       *)
Listed(n, s) ==
  /\ s \in Seq(Id)
  /\ s # <<>> => /\ \A i \in 2 .. Len(s) : Single(n, s[i])
                 /\ Outs(n, s[Len(s)]) = {n}

(* The last input of the chunk has an answer.                               *)
LEMMA ChunkAnswered ==
  ASSUME Packing(pending), Listed(cur, pending), cur \in Id, pending # <<>>,
         NEW c \in Crossbar, CanPack(c)
  PROVE  LET k == NumCanBePacked(c) IN
           /\ k \in 1 .. Len(pending) /\ Fits(c, k)
           /\ Outs(cur, pending[k]) = {ChunkOutput(c)} /\ ChunkOutput(c) \in Id
           /\ k = Len(pending) => ChunkOutput(c) = cur
<1> DEFINE k == NumCanBePacked(c)
<1>1. Len(pending) \in Nat
  BY DEF Listed
<1>2. k \in 1 .. Len(pending) /\ Fits(c, k) /\ (k > 1 \/ k = Len(pending))
  <2>1. k \in 0 .. Len(pending) /\ (k # 0 => Fits(c, k)) /\ k # 0 /\ (k > 1 \/ k = Len(pending))
    BY ChunkFits
  <2> HIDE DEF k
  <2> QED BY <1>1, <2>1
<1>3. ChunkOutput(c) = CHOOSE m \in Outs(cur, pending[k]) : TRUE
  BY DEF ChunkOutput
<1> HIDE DEF k
<1>4. k = Len(pending) => Outs(cur, pending[k]) = {cur}
  BY DEF Listed
<1>5. PICK m \in Id : Outs(cur, pending[k]) = {m}
  <2>1. CASE k = Len(pending)
    BY <1>4, <2>1
  <2>2. CASE k # Len(pending)
    <3>1. k \in 2 .. Len(pending)
      BY <1>1, <1>2, <2>2
    <3> QED BY <3>1 DEF Listed, Single
  <2> QED BY <2>1, <2>2
<1>6. ChunkOutput(c) = m
  BY <1>3, <1>5
<1> QED BY <1>2, <1>4, <1>5, <1>6 DEF k

(* What packToCluster adds keeps a crossbar within its size.                *)
LEMMA PackedFits ==
  ASSUME Packing(pending), Listed(cur, pending), cur \in Id, Id \subseteq Nat, pending # <<>>,
         NEW c \in Crossbar, CanPack(c)
  PROVE  LET p == Packed(c) IN
           /\ p \in Crossbar /\ p.outputs # {}
           /\ Cardinality(p.inputs) <= crossbar_size /\ Cardinality(p.outputs) <= crossbar_size
           /\ p.inputs \subseteq c.inputs \union Id /\ p.outputs \subseteq c.outputs \union Id
<1> DEFINE k == NumCanBePacked(c)
           chunk == { pending[j] : j \in 1 .. k }
           extra == chunk \ c.inputs
           f == [i \in Added(c, k) |-> pending[i]]
           m == ChunkOutput(c)
<1>1. /\ k \in 1 .. Len(pending) /\ Fits(c, k) /\ m \in Id
      /\ pending \in Seq(Id) /\ Len(pending) \in Nat /\ crossbar_size \in Nat
  BY ChunkAnswered DEF Listed, Packing
<1>2. Packed(c) = [inputs |-> c.inputs \union chunk, outputs |-> c.outputs \union {m}]
  BY DEF Packed
<1> HIDE DEF k, m
<1>3. chunk \subseteq Id
  BY <1>1, ElementOfSeq
<1>4. f \in Surjection(Added(c, k), extra)
  <2>1. \A x \in extra : \E i \in Added(c, k) : f[i] = x
    BY DEF Added
  <2>2. f \in [Added(c, k) -> extra]
    BY DEF Added
  <2> QED BY <2>1, <2>2 DEF Surjection
<1>5. /\ IsFiniteSet(c.inputs) /\ Cardinality(c.inputs) \in Nat /\ c.inputs \subseteq Nat
      /\ IsFiniteSet(c.outputs) /\ Cardinality(c.outputs) \in Nat /\ c.outputs \subseteq Nat
  BY FS_CardinalityType DEF Crossbar, FinNat
<1>6. /\ Cardinality(c.inputs) + Cardinality(Added(c, k)) <= crossbar_size
      /\ Cardinality(c.outputs) < crossbar_size
  BY <1>1 DEF Fits, Added
<1>7. /\ IsFiniteSet(extra) /\ Cardinality(extra) <= Cardinality(Added(c, k))
      /\ Cardinality(Added(c, k)) \in Nat /\ Cardinality(extra) \in Nat
  <2>1. IsFiniteSet(Added(c, k)) /\ Cardinality(Added(c, k)) \in Nat
    BY <1>1, AddedCounts
  <2> HIDE DEF f, extra
  <2> QED BY <1>4, <2>1, FS_Surjection, FS_CardinalityType
<1>8. c.inputs \union chunk = c.inputs \union extra /\ c.inputs \intersect extra = {}
  OBVIOUS
<1> HIDE DEF extra, chunk, f
<1>9. /\ IsFiniteSet(c.inputs \union chunk)
      /\ Cardinality(c.inputs \union chunk) <= crossbar_size
  <2>1. /\ IsFiniteSet(c.inputs \union extra)
        /\ Cardinality(c.inputs \union extra)
             = Cardinality(c.inputs) + Cardinality(extra) - Cardinality(c.inputs \intersect extra)
    BY <1>5, <1>7, FS_Union
  <2>2. Cardinality(c.inputs \intersect extra) = 0
    BY <1>8, FS_EmptySet
  <2>3. /\ IsFiniteSet(c.inputs \union chunk)
        /\ Cardinality(c.inputs \union chunk) = Cardinality(c.inputs) + Cardinality(extra) - 0
    BY <1>8, <2>1, <2>2
  <2> QED BY <1>1, <1>5, <1>6, <1>7, <2>3
<1>10. /\ IsFiniteSet(c.outputs \union {m})
       /\ Cardinality(c.outputs \union {m}) <= crossbar_size
  <2>1. /\ IsFiniteSet(c.outputs \union {m})
        /\ Cardinality(c.outputs \union {m})
             = IF m \in c.outputs THEN Cardinality(c.outputs) ELSE Cardinality(c.outputs) + 1
    BY <1>5, FS_AddElement
  <2> QED BY <1>1, <1>5, <1>6, <2>1
<1>11. Packed(c) \in Crossbar
  <2>1. c.inputs \union chunk \in FinNat /\ c.outputs \union {m} \in FinNat
    BY <1>1, <1>3, <1>5, <1>9, <1>10 DEF FinNat
  <2> QED BY <1>2, <2>1 DEF Crossbar
<1>12. /\ Packed(c).inputs = c.inputs \union chunk
       /\ Packed(c).outputs = c.outputs \union {m}
  BY <1>2
<1> HIDE DEF Packed
<1>13. Packed(c).outputs # {} /\ Packed(c).outputs \subseteq c.outputs \union Id
  BY <1>1, <1>12
<1>14. Packed(c).inputs \subseteq c.inputs \union Id
  BY <1>3, <1>12
<1> QED BY <1>9, <1>10, <1>11, <1>12, <1>13, <1>14

(* The rest is listed as well.                                              *)
LEMMA RestListed ==
  ASSUME Packing(pending), Listed(cur, pending), cur \in Id, pending # <<>>,
         NEW c \in Crossbar, CanPack(c)
  PROVE  Listed(cur, Rest(c))
<1> DEFINE n == Len(pending)
           k == NumCanBePacked(c)
           m == ChunkOutput(c)
           sub == SubSeq(pending, k + 1, n)
           link == IF m = cur THEN <<>> ELSE <<m>>
           h == IF m = cur THEN 0 ELSE 1
           s == link \o sub
<1>1. /\ k \in 1 .. n /\ m \in Id /\ (k = n => m = cur)
      /\ pending \in Seq(Id) /\ n \in Nat
      /\ \A i \in 2 .. n : Single(cur, pending[i])
      /\ Outs(cur, pending[n]) = {cur}
  BY ChunkAnswered DEF Listed
<1>2. Rest(c) = s
  BY DEF Rest
<1> HIDE DEF k, m, n
<1>3. /\ sub \in Seq(Id) /\ Len(sub) = n - k
      /\ \A i \in 1 .. n - k : sub[i] = pending[k + i]
  <2>1. k + 1 \in 1 .. n + 1 /\ n = Len(pending)
    BY <1>1 DEF n
  <2>2. \A i \in k + 1 .. n : pending[i] \in Id
    BY <1>1, <2>1, ElementOfSeq
  <2> QED BY <1>1, <2>1, <2>2, SubSeqProperties
<1>4. link \in Seq(Id) /\ Len(link) = h /\ h \in {0, 1}
  BY <1>1
<1> HIDE DEF link, sub
<1>5. /\ s \in Seq(Id) /\ Len(s) = h + (n - k)
      /\ \A i \in 1 .. h + (n - k) : s[i] = IF i <= h THEN link[i] ELSE sub[i - h]
  <2>1. n - k \in Nat /\ h \in Nat
    BY <1>1, <1>4
  <2> HIDE DEF h
  <2> QED BY SMTT(30), <1>3, <1>4, <2>1, Concatenated
<1> HIDE DEF s
<1>6. ASSUME s # <<>>
      PROVE  /\ \A i \in 2 .. Len(s) : Single(cur, s[i])
             /\ Outs(cur, s[Len(s)]) = {cur}
  <2>1. k < n
    <3>1. Len(s) # 0
      BY <1>5, <1>6, EmptySeq
    <3> QED BY <1>1, <1>5, <3>1 DEF h
  <2>2. ASSUME NEW i \in 1 .. Len(s), i > 1 \/ i = Len(s)
        PROVE  i - h \in 1 .. n - k /\ s[i] = pending[k + (i - h)]
    <3>1. i - h \in 1 .. n - k /\ ~(i <= h) /\ i \in 1 .. h + (n - k)
      BY <1>1, <1>4, <1>5, <2>1, <2>2
    <3> QED BY <1>3, <1>5, <3>1
  <2>3. ASSUME NEW i \in 2 .. Len(s)
        PROVE  Single(cur, s[i])
    <3>1. k + (i - h) \in 2 .. n /\ s[i] = pending[k + (i - h)]
      BY <1>1, <1>4, <1>5, <2>1, <2>2
    <3> QED BY <1>1, <3>1
  <2>4. s[Len(s)] = pending[n]
    <3>1. Len(s) \in 1 .. Len(s) /\ k + (Len(s) - h) = n
      <4> HIDE DEF h
      <4>1. h \in Nat /\ k \in Nat /\ n \in Nat /\ Len(s) = h + (n - k)
        BY <1>1, <1>4, <1>5
      <4> QED BY <2>1, <4>1
    <3>2. s[Len(s)] = pending[k + (Len(s) - h)]
      BY <2>2, <3>1
    <3> QED BY <3>1, <3>2
  <2> QED BY <1>1, <2>3, <2>4
<1> QED BY <1>2, <1>5, <1>6 DEF Listed

-----------------------------------------------------------------------------
(* The chains that unrolling makes: no two links take the same input, and   *)
(* the neuron itself, which is the last, takes one.                         *)
ChainOK(n) ==
  /\ usnn[n].children \in Seq(Id)
  /\ Chain(n) \intersect Neuron = {}
  /\ \A l, m \in Chain(n) \union {n} : \A a \in Elements(usnn[l].inputs) \ Chain(n) :
       a \in Elements(usnn[m].inputs) => l = m
  /\ usnn[n].children # <<>> => Elements(usnn[n].inputs) \ Chain(n) # {}

ChainsOK ==
  \A n \in Neuron : ChainOK(n) /\ (n >= idx => usnn[n].children = <<>>)

(* A neuron that is not unrolled has no chain.                              *)
LEMMA NoChain ==
  ASSUME NEW n, usnn[n].children = <<>>
  PROVE  ChainOK(n) /\ Chain(n) = {}
<1>1. <<>> \in Seq(Id) /\ Elements(<<>>) = {}
  BY EmptySeq DEF Elements
<1>2. Chain(n) = {}
  BY <1>1 DEF Chain
<1> QED BY <1>1, <1>2 DEF ChainOK

(* Nothing is unrolled at first.                                            *)
LEMMA ChainsInitial == Init => ChainsOK
<1> SUFFICES ASSUME Init, NEW n \in Neuron
             PROVE  ChainOK(n) /\ (n >= idx => usnn[n].children = <<>>)
  BY DEF ChainsOK
<1>1. usnn[n].children = <<>>
  BY DEF Init, UnrollInit
<1> QED BY <1>1, NoChain

(* The shares of the links are apart, and the last is not empty.            *)
LEMMA LinksApart ==
  ASSUME max_fanin \in Nat \ {0, 1}, NEW n \in Nat, n > max_fanin
  PROVE  /\ \A k, l \in 0 .. NumInter(n) - 1 : k < l => Last(k, n) < First(l)
         /\ First(NumInter(n) - 1) <= n /\ Last(NumInter(n) - 1, n) = n
<1> DEFINE b == max_fanin - 1
           q == (n - 2) \div b
<1>1. b \in Nat \ {0} /\ n - 2 \in Nat /\ max_fanin = b + 1
  OBVIOUS
<1>2. q \in Nat /\ q * b <= n - 2 /\ q * b \in Nat
  <2> HIDE DEF b
  <2> QED BY <1>1, Division, ProductGrows
<1>3. NumInter(n) = q + 1 /\ NumInter(n) >= 2
  BY AtLeastTwoLinks DEF NumInter
<1> HIDE DEF q, b
<1>4. ASSUME NEW k \in 0 .. NumInter(n) - 1, NEW l \in 0 .. NumInter(n) - 1, k < l
      PROVE  Last(k, n) < First(l)
  <2>1. k \in Nat /\ l \in Nat /\ l # 0 /\ k # NumInter(n) - 1 /\ l - 1 \in Nat /\ k <= l - 1
    BY <1>2, <1>3, <1>4
  <2>2. k * b <= (l - 1) * b /\ k * b \in Nat /\ (l - 1) * b \in Nat
    BY <1>1, <2>1, ProductGrows
  <2>3. Last(k, n) = max_fanin + k * b /\ First(l) = max_fanin + (l - 1) * b + 1
    BY <2>1 DEF Last, First, b
  <2> QED BY <1>1, <2>2, <2>3
<1>5. First(NumInter(n) - 1) <= n
  <2>1. q - 1 \in Nat /\ q # 0
    BY <1>2, <1>3
  <2>2. (q - 1) * b = q * b - b
    BY <1>1, <1>2
  <2>3. First(q) = max_fanin + (q - 1) * b + 1
    BY <2>1 DEF First, b
  <2>4. NumInter(n) - 1 = q
    BY <1>2, <1>3
  <2> QED BY <1>1, <1>2, <2>2, <2>3, <2>4
<1> QED BY <1>4, <1>5 DEF Last

(* What one iteration makes of a neuron with too many inputs.               *)
LEMMA ChainMade ==
  ASSUME EdgeInv, UnrollNeuron, Len(usnn[idx].inputs) > max_fanin
  PROVE  LET ins  == usnn[idx].inputs
             base == Cardinality(Id)
             N    == NumInter(Len(ins))
         IN  /\ N \in Nat /\ N >= 2 /\ base \in Nat /\ NumNeurons <= base
             /\ Id = 0 .. base - 1 /\ Id' = 0 .. base + N - 2
             /\ idx \in Neuron /\ idx' = idx + 1
             /\ usnn'[idx].children = [k \in 1 .. N - 1 |-> base + k - 1]
             /\ \A n \in Id \ {idx} : /\ usnn'[n].inputs = usnn[n].inputs
                                      /\ usnn'[n].children = usnn[n].children
             /\ \A k \in 0 .. N - 1 :
                  usnn'[LinkId(ins, k, base)].inputs = LinkInputs(ins, k, base)
<1> DEFINE ins  == usnn[idx].inputs
           base == Cardinality(Id)
           N    == NumInter(Len(ins))
           size == base + N - 1
<1>1. UnrollInv
  BY DEF EdgeInv
<1>2. /\ idx \in Nat /\ idx < NumNeurons /\ NumNeurons \in Nat /\ idx' = idx + 1
      /\ max_fanin \in Nat \ {0, 1}
  BY <1>1, UnrollAssumption DEF UnrollInv, UnrollNeuron, INVALID_FANIN
<1>3. base \in Nat /\ NumNeurons <= base /\ Id = 0 .. base - 1 /\ idx \in Id
  BY <1>1, <1>2 DEF UnrollInv
<1>4. \A n \in Id : IsNeuron(usnn[n]) /\ usnn[n].inputs \in Seq(Id)
  BY <1>1 DEF EdgeInv, UnrollInv
<1>5. Len(ins) \in Nat /\ Len(ins) > max_fanin
  BY <1>3, <1>4
<1>6. N \in Nat /\ N >= 2 /\ size \in Nat /\ size > base
  <2> HIDE DEF base, ins
  <2> QED BY <1>2, <1>3, <1>5, AtLeastTwoLinks
<1>7. usnn' = [m \in 0 .. size - 1 |-> IF m < base THEN OldNeuron(ins, m, base)
                                                 ELSE NewNeuron(ins, m - base, base)]
  <2>1. base + NumInter(Len(ins)) - 2 = size - 1
    <3> HIDE DEF base, ins
    <3> QED BY <1>3, <1>6
  <2>2. ~ (Len(ins) <= max_fanin)
    <3> HIDE DEF ins
    <3> QED BY <1>2, <1>5
  <2> QED BY <2>1, <2>2 DEF UnrollNeuron
<1>8. Id' = 0 .. base + N - 2
  <2>1. Id' = 0 .. size - 1
    BY <1>7 DEF Id
  <2>2. size - 1 = base + N - 2
    <3> HIDE DEF base, N
    <3> QED BY <1>3, <1>6
  <2> QED BY <2>1, <2>2
<1> HIDE DEF ins, base, size, N
<1>9. \A n \in Id : usnn'[n] = OldNeuron(ins, n, base)
  BY <1>3, <1>6, <1>7
<1>10. \A n \in Id \ {idx} : /\ usnn'[n].inputs = usnn[n].inputs
                             /\ usnn'[n].children = usnn[n].children
  BY <1>4, <1>9 DEF OldNeuron, IsNeuron
<1>11. /\ usnn'[idx].inputs = LinkInputs(ins, N - 1, base)
       /\ usnn'[idx].children = [k \in 1 .. N - 1 |-> base + k - 1]
  <2>1. usnn'[idx] = OldNeuron(ins, idx, base) /\ IsNeuron(usnn[idx])
    BY <1>3, <1>4, <1>9
  <2>2. CASE idx \in Elements(ins)
    BY <2>1, <2>2 DEF OldNeuron, IsNeuron, N
  <2>3. CASE idx \notin Elements(ins)
    BY <2>1, <2>3 DEF OldNeuron, IsNeuron, N
  <2> QED BY <2>2, <2>3
<1>12. ASSUME NEW k \in 0 .. N - 1
       PROVE  usnn'[LinkId(ins, k, base)].inputs = LinkInputs(ins, k, base)
  <2>1. LinkId(ins, k, base) = IF k = N - 1 THEN idx ELSE base + k
    BY DEF LinkId, N
  <2>2. CASE k = N - 1
    BY <1>11, <2>1, <2>2
  <2>3. CASE k # N - 1
    <3>1. base + k \in 0 .. size - 1 /\ ~(base + k < base) /\ (base + k) - base = k
      BY <1>3, <1>6, <2>3 DEF size
    <3>2. usnn'[base + k] = NewNeuron(ins, k, base)
      BY <1>7, <3>1
    <3> QED BY <2>1, <2>3, <3>2 DEF NewNeuron
  <2> QED BY <2>2, <2>3
<1>13. idx \in Neuron
  BY <1>2 DEF Neuron
<1> QED BY <1>2, <1>3, <1>6, <1>8, <1>10, <1>11, <1>12, <1>13 DEF ins, base, N

(* One iteration of the loop. *)
LEMMA ChainsStep == EdgeInv /\ ChainsOK /\ UnrollNeuron => ChainsOK'
<1> SUFFICES ASSUME EdgeInv, ChainsOK, UnrollNeuron
             PROVE  ChainsOK'
  OBVIOUS
<1> DEFINE ins  == usnn[idx].inputs
           base == Cardinality(Id)
           N    == NumInter(Len(ins))
           link(k) == LinkId(ins, k, base)
           share(k) == { ins[j] : j \in First(k) .. Last(k, Len(ins)) }
<1>1. idx \in Nat /\ idx < NumNeurons /\ NumNeurons \in Nat /\ idx' = idx + 1
      /\ max_fanin \in Nat \ {0, 1}
  BY UnrollAssumption DEF EdgeInv, UnrollInv, UnrollNeuron, INVALID_FANIN
<1>2. \A n \in Neuron : n \in Int /\ (n >= idx' => n >= idx /\ n # idx)
  BY <1>1 DEF Neuron
<1>3. CASE Len(ins) <= max_fanin
  <2>1. usnn' = usnn /\ Id' = Id
    BY <1>3 DEF UnrollNeuron, Id
  <2>2. \A n \in Neuron : ChainOK(n)'
    BY <2>1 DEF ChainsOK, ChainOK, Chain
  <2> QED BY <1>2, <2>1, <2>2 DEF ChainsOK
<1>4. CASE ~(Len(ins) <= max_fanin)
  <2>1. ins \in Seq(Id) /\ Len(ins) \in Nat /\ DOMAIN ins = 1 .. Len(ins) /\ idx \in Id
        /\ \A i, j \in DOMAIN ins : ins[i] = ins[j] => i = j
    BY <1>1 DEF EdgeInv, UnrollInv, EdgesAgree
  <2>2. Len(ins) > max_fanin
    BY <1>1, <1>4, <2>1
  <2>3. /\ N \in Nat /\ N >= 2 /\ base \in Nat /\ NumNeurons <= base
        /\ Id = 0 .. base - 1 /\ Id' = 0 .. base + N - 2
        /\ idx \in Neuron
        /\ usnn'[idx].children = [k \in 1 .. N - 1 |-> base + k - 1]
        /\ \A n \in Id \ {idx} : /\ usnn'[n].inputs = usnn[n].inputs
                                 /\ usnn'[n].children = usnn[n].children
        /\ \A k \in 0 .. N - 1 : usnn'[link(k)].inputs = LinkInputs(ins, k, base)
    BY <2>2, ChainMade
  <2>4. /\ \A k, l \in 0 .. N - 1 : k < l => Last(k, Len(ins)) < First(l)
        /\ First(N - 1) <= Len(ins) /\ Last(N - 1, Len(ins)) = Len(ins)
        /\ \A k \in 0 .. N - 1 : /\ First(k) \in Nat \ {0} /\ Last(k, Len(ins)) \in Nat
                                 /\ Last(k, Len(ins)) <= Len(ins)
    BY <1>1, <2>1, <2>2, LinksApart, LinkLength
  <2>5. \A k \in 0 .. N - 1 : link(k) = IF k = N - 1 THEN idx ELSE base + k
    BY DEF LinkId
  <2>6. \A k \in 0 .. N - 1 :
          /\ share(k) \subseteq Id
          /\ Elements(LinkInputs(ins, k, base))
               = share(k) \union (IF k = 0 THEN {} ELSE {base + k - 1})
    <3> SUFFICES ASSUME NEW k \in 0 .. N - 1
                 PROVE  /\ share(k) \subseteq Id
                        /\ Elements(LinkInputs(ins, k, base))
                             = share(k) \union (IF k = 0 THEN {} ELSE {base + k - 1})
      OBVIOUS
    <3>1. \A x \in Id : x \in Nat /\ x < base
      BY <2>3
    <3>2. /\ max_fanin \in Nat \ {0, 1} /\ ins \in Seq(Id) /\ Len(ins) > max_fanin
          /\ \A i, j \in DOMAIN ins : ins[i] = ins[j] => i = j
          /\ base \in Nat /\ k \in 0 .. NumInter(Len(ins)) - 1
      BY <1>1, <2>1, <2>2, <2>3
    <3> HIDE DEF base, ins, N
    <3> DEFINE t == LinkInputs(ins, k, base)
    <3>3. /\ share(k) \subseteq Id
          /\ t \in Seq(share(k) \union {base + k - 1})
          /\ Elements(t) = share(k) \union (IF k = 0 THEN {} ELSE {base + k - 1})
          /\ \A i, j \in DOMAIN t : t[i] = t[j] => i = j
      BY <3>1, <3>2, LinkEdges
    <3> QED BY <3>3
  <2> HIDE DEF ins, base, N, link
  <2>7. ASSUME NEW n \in Neuron, n # idx
        PROVE  ChainOK(n)' /\ usnn'[n].children = usnn[n].children
    <3>1. n \in Id /\ Id \subseteq Id'
      BY <1>1, <2>3 DEF Neuron
    <3>2. usnn'[n].children = usnn[n].children /\ Chain(n)' = Chain(n)
      BY <2>3, <2>7, <3>1 DEF Chain
    <3>3. ChainOK(n)
      BY DEF ChainsOK
    <3>4. Chain(n) \subseteq Id
      <4>1. usnn[n].children \in Seq(Id)
        BY <3>3 DEF ChainOK
      <4> QED BY <4>1 DEF Chain, Elements
    <3>5. \A l \in Chain(n) \union {n} : usnn'[l].inputs = usnn[l].inputs
      BY <2>3, <2>7, <3>1, <3>3, <3>4 DEF ChainOK
    <3>6. usnn[n].children \in Seq(Id')
      BY <3>1, <3>3, SeqMonotonic DEF ChainOK
    <3> QED BY <3>2, <3>3, <3>5, <3>6 DEF ChainOK
  <2>8. ASSUME NEW n \in Neuron, n = idx
        PROVE  ChainOK(n)'
    <3> DEFINE C == base .. base + N - 2
               ch == usnn'[n].children
    <3>1. ch \in Seq(Id') /\ Elements(ch) = C /\ ch # <<>>
      <4>1. ch = [k \in 1 .. N - 1 |-> base + k - 1]
        BY <2>3, <2>8
      <4>2. N - 1 \in Nat \ {0} /\ \A k \in 1 .. N - 1 : base + k - 1 \in C /\ base + k - 1 \in Id'
        BY <2>3
      <4>3. \A x \in C : x - base + 1 \in 1 .. N - 1 /\ x = base + (x - base + 1) - 1
        BY <2>3
      <4> HIDE DEF ch, C
      <4>4. ch \in Seq(Id')
        BY <4>1, <4>2
      <4>5. \A x \in C : \E j \in DOMAIN ch : x = ch[j]
        BY <4>1, <4>3
      <4>6. Len(ch) # 0
        BY <4>1, <4>2
      <4>7. Elements(ch) = C
        <5>1. \A j \in DOMAIN ch : ch[j] \in C
          BY <4>1, <4>2
        <5> QED BY <4>5, <5>1 DEF Elements
      <4> QED BY <4>4, <4>6, <4>7, EmptySeq
    <3>2. Chain(n)' = C
      BY <3>1 DEF Chain
    <3>3. \A k \in 0 .. N - 1 : k # N - 1 => link(k) \in C
      BY <2>3, <2>5
    <3>4. \A l \in C \union {n} : \E k \in 0 .. N - 1 : l = link(k)
      <4>1. \A l \in C : l - base \in 0 .. N - 1 /\ l - base # N - 1 /\ base + (l - base) = l
        BY <2>3
      <4>2. N - 1 \in 0 .. N - 1
        BY <2>3
      <4> QED BY <2>5, <2>8, <4>1, <4>2
    <3>5. \A k \in 0 .. N - 1 :
            /\ Elements(usnn'[link(k)].inputs) \ C \subseteq share(k)
            /\ share(k) \subseteq Elements(usnn'[link(k)].inputs)
      <4> SUFFICES ASSUME NEW k \in 0 .. N - 1
                   PROVE  /\ Elements(usnn'[link(k)].inputs) \ C \subseteq share(k)
                          /\ share(k) \subseteq Elements(usnn'[link(k)].inputs)
        OBVIOUS
      <4>1. k # 0 => base + k - 1 \in C
        BY <2>3
      <4>2. Elements(usnn'[link(k)].inputs)
              = share(k) \union (IF k = 0 THEN {} ELSE {base + k - 1})
        BY <2>3, <2>6
      <4> HIDE DEF C, share
      <4> QED BY <4>1, <4>2
    <3>6. \A k, l \in 0 .. N - 1 : \A a : a \in share(k) /\ a \in share(l) => k = l
      <4> SUFFICES ASSUME NEW k \in 0 .. N - 1, NEW l \in 0 .. N - 1,
                          NEW i \in First(k) .. Last(k, Len(ins)),
                          NEW j \in First(l) .. Last(l, Len(ins)), ins[i] = ins[j]
                   PROVE  k = l
        OBVIOUS
      <4>1. i = j
        BY <2>1, <2>4
      <4>2. ~(k < l) /\ ~(l < k)
        BY <2>4, <4>1
      <4> QED BY <4>2
    <3>7. C \intersect Neuron = {} /\ \A k \in 0 .. N - 1 : share(k) \intersect C = {}
      <4>1. C \intersect Id = {} /\ Neuron \subseteq Id
        BY <1>1, <2>3 DEF Neuron
      <4> HIDE DEF share, C
      <4> QED BY <2>6, <4>1
    <3>8. \E a \in share(N - 1) : TRUE
      <4>1. Len(ins) \in First(N - 1) .. Last(N - 1, Len(ins))
        <5>1. N - 1 \in 0 .. N - 1
          BY <2>3
        <5> QED BY <2>1, <2>4, <5>1
      <4> QED BY <4>1
    <3>9. N - 1 \in 0 .. N - 1 /\ link(N - 1) = n
      BY <2>3, <2>5, <2>8
    <3> HIDE DEF share, C, ch
    <3>10. Elements(usnn'[n].inputs) \ C # {}
      BY <3>5, <3>7, <3>8, <3>9
    <3>11. \A l, m \in C \union {n} : \A a \in Elements(usnn'[l].inputs) \ C :
             a \in Elements(usnn'[m].inputs) => l = m
      <4> SUFFICES ASSUME NEW l \in C \union {n}, NEW m \in C \union {n},
                          NEW a \in Elements(usnn'[l].inputs) \ C,
                          a \in Elements(usnn'[m].inputs)
                   PROVE  l = m
        OBVIOUS
      <4>1. PICK k \in 0 .. N - 1 : l = link(k)
        BY <3>4
      <4>2. PICK j \in 0 .. N - 1 : m = link(j)
        BY <3>4
      <4>3. a \in share(k) /\ a \in share(j)
        BY <3>5, <4>1, <4>2
      <4> QED BY <3>6, <4>1, <4>2, <4>3
    <3> QED BY <3>1, <3>2, <3>7, <3>10, <3>11 DEF ChainOK, ch
  <2> QED
    <3>1. ASSUME NEW n \in Neuron
          PROVE  ChainOK(n)' /\ (n >= idx' => usnn'[n].children = <<>>)
      <4>1. CASE n = idx
        BY <1>2, <2>8, <4>1
      <4>2. CASE n # idx
        BY <1>2, <2>7, <4>2 DEF ChainsOK
      <4> QED BY <4>1, <4>2
    <3> QED BY <3>1 DEF ChainsOK
<1> QED BY <1>3, <1>4

-----------------------------------------------------------------------------
(* The inputs that are packed for a neuron.                                 *)

(* The places up to p.                                                      *)
UpTo(at, p) == { q \in at : NotAfter(q, p) }

(* So do the places up to one, in the order of the code's two loops.        *)
LEMMA PlaceRanks ==
  ASSUME NEW at \in SUBSET (Nat \X Nat), IsFiniteSet(at)
  PROVE  /\ Cardinality(at) \in Nat
         /\ \A j \in 1 .. Cardinality(at) : \E p \in at : Cardinality(UpTo(at, p)) = j
         /\ \A p \in at : Cardinality(UpTo(at, p)) = Cardinality(at) =>
              \A q \in at : NotAfter(q, p)
<1> DEFINE c == Cardinality(at)
           rank == [p \in at |-> Cardinality(UpTo(at, p))]
<1>1. c \in Nat
  BY FS_CardinalityType
<1>2. \A p \in at : /\ IsFiniteSet(UpTo(at, p)) /\ Cardinality(UpTo(at, p)) <= c
                    /\ Cardinality(UpTo(at, p)) \in Nat
                    /\ (Cardinality(UpTo(at, p)) = c => UpTo(at, p) = at)
  <2> SUFFICES ASSUME NEW p \in at
               PROVE  /\ IsFiniteSet(UpTo(at, p)) /\ Cardinality(UpTo(at, p)) <= c
                      /\ Cardinality(UpTo(at, p)) \in Nat
                      /\ (Cardinality(UpTo(at, p)) = c => UpTo(at, p) = at)
    OBVIOUS
  <2>1. UpTo(at, p) \in SUBSET at
    BY DEF UpTo
  <2> QED BY <2>1, FS_Subset, FS_CardinalityType
<1>3. \A p \in at : p[1] \in Nat /\ p[2] \in Nat /\ p = <<p[1], p[2]>>
  OBVIOUS
<1>4. \A p \in at : p \in UpTo(at, p)
  BY <1>3 DEF UpTo, NotAfter
<1>5. \A p \in at : Cardinality(UpTo(at, p)) \in 1 .. c
  <2> SUFFICES ASSUME NEW p \in at
               PROVE  Cardinality(UpTo(at, p)) \in 1 .. c
    OBVIOUS
  <2>1. Cardinality(UpTo(at, p)) # 0
    BY <1>2, <1>4, FS_EmptySet
  <2> QED BY <1>1, <1>2, <2>1
<1>6. ASSUME NEW p \in at, NEW q \in at, NotAfter(p, q), p # q
      PROVE  Cardinality(UpTo(at, p)) # Cardinality(UpTo(at, q))
  <2>1. q \notin UpTo(at, p) /\ q \in UpTo(at, q)
    BY <1>3, <1>4, <1>6 DEF UpTo, NotAfter
  <2>2. UpTo(at, p) \in SUBSET UpTo(at, q)
    BY <1>3, <1>6 DEF UpTo, NotAfter
  <2> QED BY <1>2, <2>1, <2>2, FS_Subset
<1>7. \A p, q \in at : NotAfter(p, q) \/ NotAfter(q, p)
  BY <1>3 DEF NotAfter
<1>8. \A p, q \in at : Cardinality(UpTo(at, p)) = Cardinality(UpTo(at, q)) => p = q
  BY <1>6, <1>7
<1>9. rank \in Injection(at, 1 .. c)
  BY <1>5, <1>8 DEF Injection, IsInjective
<1>10. IsFiniteSet(1 .. c) /\ Cardinality(1 .. c) = c
  BY <1>1, FS_Interval
<1>11. rank \in Surjection(at, 1 .. c)
  <2> HIDE DEF rank
  <2> QED BY <1>9, <1>10, FS_Injection
<1>12. \A j \in 1 .. c : \E p \in at : rank[p] = j
  <2> HIDE DEF rank
  <2> QED BY <1>11 DEF Surjection
<1>13. \A p \in at : Cardinality(UpTo(at, p)) = c => \A q \in at : NotAfter(q, p)
  BY <1>2 DEF UpTo
<1> QED BY <1>1, <1>12, <1>13

(* The links of a chain are neurons, and only the last is the neuron.       *)
LEMMA LinksOfChain ==
  ASSUME NEW n \in Neuron, Neuron \subseteq Id, ChainOK(n)
  PROVE  /\ Len(usnn[n].children) \in Nat
         /\ DOMAIN usnn[n].children = 1 .. Len(usnn[n].children)
         /\ Chain(n) \subseteq Id
         /\ \A k \in 1 .. Len(usnn[n].children) : Link(n, k) \in Chain(n) /\ Link(n, k) # n
         /\ Link(n, Len(usnn[n].children) + 1) = n
<1>1. usnn[n].children \in Seq(Id)
  BY DEF ChainOK
<1>2. /\ Len(usnn[n].children) \in Nat
      /\ DOMAIN usnn[n].children = 1 .. Len(usnn[n].children)
  BY <1>1
<1>3. Chain(n) \subseteq Id
  BY <1>1, <1>2, ElementOfSeq DEF Chain, Elements
<1>4. \A k \in 1 .. Len(usnn[n].children) : Link(n, k) \in Chain(n)
  BY <1>2 DEF Link, Chain, Elements
<1>5. n \notin Chain(n)
  BY DEF ChainOK
<1>6. Link(n, Len(usnn[n].children) + 1) = n
  BY <1>2 DEF Link
<1> QED BY <1>2, <1>3, <1>4, <1>5, <1>6

(* The places are finite in number.                                         *)
LEMMA PlacesFinite ==
  ASSUME NEW n \in Neuron, Neuron \subseteq Id, ChainOK(n),
         \A m \in Id : usnn[m].inputs \in Seq(Id)
  PROVE  /\ RawPlaces(n) \in SUBSET (Nat \X Nat) /\ IsFiniteSet(RawPlaces(n))
         /\ \A p : p \in RawPlaces(n) <=>
              \E k \in 1 .. Len(usnn[n].children) + 1, j \in Nat :
                /\ p = <<k, j>> /\ j \in 1 .. Len(usnn[Link(n, k)].inputs)
                /\ usnn[Link(n, k)].inputs[j] \notin Chain(n)
<1> DEFINE L == Len(usnn[n].children) + 1
           D(k) == { i \in DOMAIN usnn[Link(n, k)].inputs :
                       usnn[Link(n, k)].inputs[i] \notin Chain(n) }
           P(k) == { <<k, j>> : j \in D(k) }
           f == [k \in 1 .. L |-> P(k)]
           S == { P(k) : k \in 1 .. L }
<1>1. L \in Nat /\ \A k \in 1 .. L : Link(n, k) \in Id
  BY LinksOfChain
<1>2. \A k \in 1 .. L : /\ DOMAIN usnn[Link(n, k)].inputs = 1 .. Len(usnn[Link(n, k)].inputs)
                        /\ Len(usnn[Link(n, k)].inputs) \in Nat
  <2> HIDE DEF L
  <2> QED BY <1>1, LenProperties
<1>3. RawPlaces(n) = UNION S
  BY DEF RawPlaces
<1> HIDE DEF L
<1>4. ASSUME NEW k \in 1 .. L
      PROVE  IsFiniteSet(P(k))
  <2> DEFINE g == [j \in D(k) |-> <<k, j>>]
  <2>1. g \in Surjection(D(k), P(k))
    <3> HIDE DEF D
    <3> QED BY DEF Surjection
  <2>2. IsFiniteSet(D(k))
    <3>1. D(k) \in SUBSET (1 .. Len(usnn[Link(n, k)].inputs))
      BY <1>2
    <3>2. IsFiniteSet(1 .. Len(usnn[Link(n, k)].inputs))
      BY <1>2, FS_Interval
    <3> HIDE DEF D
    <3> QED BY <3>1, <3>2, FS_Subset
  <2> HIDE DEF g, D, P
  <2> QED BY <2>1, <2>2, FS_Surjection
<1>5. IsFiniteSet(S)
  <2>1. f \in Surjection(1 .. L, S)
    <3> HIDE DEF P
    <3> QED BY DEF Surjection
  <2>2. IsFiniteSet(1 .. L)
    BY <1>1, FS_Interval
  <2> HIDE DEF f, S
  <2> QED BY <2>1, <2>2, FS_Surjection
<1>6. IsFiniteSet(RawPlaces(n))
  <2>1. \A T \in S : IsFiniteSet(T)
    <3> HIDE DEF P
    <3> QED BY <1>4
  <2> HIDE DEF S
  <2> QED BY <1>3, <1>5, <2>1, FS_UNION
<1>7. \A p : p \in RawPlaces(n) <=>
              \E k \in 1 .. L, j \in Nat :
                /\ p = <<k, j>> /\ j \in 1 .. Len(usnn[Link(n, k)].inputs)
                /\ usnn[Link(n, k)].inputs[j] \notin Chain(n)
  <2>1. \A k \in 1 .. L : \A j : j \in D(k) <=> /\ j \in Nat /\ j \in 1 .. Len(usnn[Link(n, k)].inputs)
                                              /\ usnn[Link(n, k)].inputs[j] \notin Chain(n)
    BY <1>2
  <2> HIDE DEF D
  <2> QED BY <1>3, <2>1
<1>8. RawPlaces(n) \in SUBSET (Nat \X Nat)
  BY <1>1, <1>7
<1> QED BY <1>6, <1>7, <1>8 DEF L

(* A raw input is taken by the link it is listed at, and by no other.       *)
LEMMA LinkAnswers ==
  ASSUME NEW n \in Neuron, Neuron \subseteq Id, ChainOK(n), NEW l \in Chain(n) \union {n},
         NEW a \in Elements(usnn[l].inputs) \ Chain(n)
  PROVE  Outs(n, a) = {l} /\ l \in Id
<1>1. \A m \in Chain(n) \union {n} : a \in Elements(usnn[m].inputs) => l = m
  BY DEF ChainOK
<1>2. l \in Id
  BY LinksOfChain
<1> QED BY <1>1, <1>2 DEF Outs

(* What a neuron starts with is listed.                                     *)
LEMMA InputsListed ==
  ASSUME NEW n \in Neuron, Neuron \subseteq Id, ChainOK(n), crossbar_size \in Nat,
         \A m \in Id : usnn[m].inputs \in Seq(Id)
  PROVE  Listed(n, InputsToPack(n))
<1> DEFINE s == InputsToPack(n)
<1>1. CASE usnn[n].children = <<>>
  <2> DEFINE ins == usnn[n].inputs
             z == IF Len(ins) < crossbar_size THEN Len(ins) ELSE crossbar_size
  <2>1. ins \in Seq(Id) /\ Len(ins) \in Nat /\ DOMAIN ins = 1 .. Len(ins)
    <3>1. ins \in Seq(Id)
      OBVIOUS
    <3> HIDE DEF ins
    <3> QED BY <3>1
  <2>2. s = SubSeq(ins, 1, z)
    BY <1>1 DEF InputsToPack
  <2>3. Chain(n) = {}
    BY <1>1, NoChain
  <2>4. \A j \in DOMAIN ins : Outs(n, ins[j]) = {n}
    BY <2>3, LinkAnswers DEF Elements
  <2> HIDE DEF ins
  <2>5. z \in Nat /\ z <= Len(ins)
    BY <2>1
  <2> HIDE DEF z
  <2>6. /\ s \in Seq(Id) /\ Len(s) = z
        /\ \A i \in 1 .. z : s[i] = ins[i]
    <3>1. \A i \in 1 .. z : ins[i] \in Id
      BY <2>1, <2>5, ElementOfSeq
    <3> HIDE DEF s
    <3> QED BY <2>2, <2>5, <3>1, SubSeqProperties
  <2> HIDE DEF s
  <2>7. \A i \in 1 .. z : Outs(n, s[i]) = {n}
    BY <2>1, <2>4, <2>5, <2>6
  <2>8. s # <<>> => z \in 1 .. z
    BY <2>5, <2>6, EmptySeq
  <2>9. n \in Id
    OBVIOUS
  <2> QED BY <2>5, <2>6, <2>7, <2>8, <2>9 DEF Listed, Single, s
<1>2. CASE usnn[n].children # <<>>
  <2> DEFINE at == RawPlaces(n)
             c == Cardinality(at)
             place(i) == CHOOSE p \in at : Cardinality(UpTo(at, p)) = i
             L == Len(usnn[n].children) + 1
  <2>1. s = [i \in 1 .. c |-> RawInput(n, place(i))]
    BY <1>2 DEF InputsToPack, UpTo
  <2>2. /\ at \in SUBSET (Nat \X Nat) /\ IsFiniteSet(at)
        /\ \A p : p \in at <=>
             \E k \in 1 .. L, j \in Nat :
               /\ p = <<k, j>> /\ j \in 1 .. Len(usnn[Link(n, k)].inputs)
               /\ usnn[Link(n, k)].inputs[j] \notin Chain(n)
    BY PlacesFinite
  <2>3. /\ L \in Nat \ {0}
        /\ \A k \in 1 .. L : Link(n, k) \in Chain(n) \union {n} /\ Link(n, k) \in Id
        /\ Link(n, L) = n
    BY LinksOfChain
  <2> HIDE DEF at, L
  <2>4. /\ c \in Nat
        /\ \A j \in 1 .. c : \E p \in at : Cardinality(UpTo(at, p)) = j
        /\ \A p \in at : Cardinality(UpTo(at, p)) = c => \A q \in at : NotAfter(q, p)
    BY <2>2, PlaceRanks
  <2>5. \A i \in 1 .. c : place(i) \in at /\ Cardinality(UpTo(at, place(i))) = i
    BY <2>4
  <2> HIDE DEF place, s, c
  <2>6. ASSUME NEW p \in at
        PROVE  /\ RawInput(n, p) \in Id
               /\ Outs(n, RawInput(n, p)) = {Link(n, p[1])} /\ Link(n, p[1]) \in Id
    <3>1. PICK k \in 1 .. L, j \in Nat :
               /\ p = <<k, j>> /\ j \in 1 .. Len(usnn[Link(n, k)].inputs)
               /\ usnn[Link(n, k)].inputs[j] \notin Chain(n)
      BY <2>2
    <3>2. usnn[Link(n, k)].inputs \in Seq(Id) /\ Link(n, k) \in Chain(n) \union {n}
      BY <2>3
    <3>3. RawInput(n, p) = usnn[Link(n, k)].inputs[j] /\ p[1] = k
      BY <3>1 DEF RawInput
    <3>4. RawInput(n, p) \in Elements(usnn[Link(n, k)].inputs) \ Chain(n)
      BY <3>1, <3>2, <3>3 DEF Elements
    <3>5. RawInput(n, p) \in Id
      BY <3>1, <3>2, <3>3, ElementOfSeq
    <3> QED BY <3>2, <3>3, <3>4, <3>5, LinkAnswers
  <2>7. s \in Seq(Id) /\ Len(s) = c /\ \A i \in 1 .. c : s[i] = RawInput(n, place(i))
    <3>1. \A i \in 1 .. c : RawInput(n, place(i)) \in Id
      BY <2>5, <2>6
    <3> QED BY <2>1, <2>4, <3>1
  <2>8. \A i \in 1 .. c : Single(n, s[i])
    BY <2>5, <2>6, <2>7 DEF Single
  <2>9. s # <<>> => c \in 1 .. c
    BY <2>4, <2>7, EmptySeq
  <2>10. c \in 1 .. c => Outs(n, s[c]) = {n}
    <3> SUFFICES ASSUME c \in 1 .. c
                 PROVE  Outs(n, s[c]) = {n}
      OBVIOUS
    <3>1. PICK a : a \in Elements(usnn[n].inputs) \ Chain(n)
      BY <1>2 DEF ChainOK
    <3>2. usnn[n].inputs \in Seq(Id)
      OBVIOUS
    <3>3. PICK j \in 1 .. Len(usnn[n].inputs) : usnn[n].inputs[j] = a
      BY <3>1, <3>2 DEF Elements
    <3>4. <<L, j>> \in at
      <4>1. L \in 1 .. L /\ j \in Nat
        BY <2>3, <3>2, <3>3
      <4> QED BY <2>2, <2>3, <3>1, <3>3, <4>1
    <3>5. place(c) \in at /\ NotAfter(<<L, j>>, place(c))
      BY <2>4, <2>5, <3>4
    <3>6. PICK k \in 1 .. L, i \in Nat : place(c) = <<k, i>>
      BY <2>2, <3>5
    <3>7. k = L
      BY <2>3, <3>5, <3>6 DEF NotAfter
    <3>8. place(c)[1] = L
      BY <3>6, <3>7
    <3> QED BY <2>3, <2>6, <2>7, <3>5, <3>8
  <2>11. \A i \in 2 .. Len(s) : Single(n, s[i])
    BY <2>4, <2>7, <2>8
  <2> QED BY <2>7, <2>9, <2>10, <2>11 DEF Listed, s
<1> QED BY <1>1, <1>2

-----------------------------------------------------------------------------
(* The inductive invariant of the clustering.                               *)

(* The types of what packing and connecting assign.                         *)
PackTypes ==
  /\ crossbar_size \in Nat \ {0, 1} /\ max_fanin <= crossbar_size
  /\ clusters \in Seq(Crossbar)
  /\ todo \subseteq Neuron /\ cur \in Neuron /\ left \subseteq Cid
  /\ to_connect \in Seq(Nat) /\ num_new \in Nat

(* Nothing is packed before unrolling is over, nor connected while packing. *)
Stages ==
  /\ idx < NumNeurons => pending = <<>>
  /\ phase = "pack" => num_new = 0

(* Every cluster computes something, but for the first one of minComm and   *)
(* random as long as nothing was packed; it is tried when something is.     *)
ClustersUsed ==
  \A c \in Cid : clusters[c].outputs = {} =>
    /\ clusters = <<NoCluster>> /\ phase # "connect"
    /\ pending # <<>> => left = {1}

(* Clusters hold neurons of the network until neurons are added, and inputs *)
(* of the network until a full cluster is connected to the next.            *)
Members ==
  /\ num_new = 0 => \A c \in Cid : clusters[c].outputs \subseteq Id
  /\ num_new <= crossbar_size =>
       to_connect \in Seq(Id) /\ \A c \in Cid : clusters[c].inputs \subseteq Id

(* The cluster that is being filled with added neurons.                     *)
Filling ==
  num_new # 0 =>
    /\ clusters # <<>>
    /\ num_new % crossbar_size # 0 =>
         /\ Cardinality(clusters[Len(clusters)].inputs) <= num_new % crossbar_size
         /\ Cardinality(clusters[Len(clusters)].outputs) <= num_new % crossbar_size

(* All of it together.                                                      *)
PackInv ==
  /\ EdgeInv /\ ChainsOK /\ PackTypes /\ Stages /\ Listed(cur, pending)
  /\ CrossbarLimits /\ ClustersUsed /\ Members /\ Filling

(* An empty crossbar is one.                                                *)
LEMMA NoClusterFits == NoCluster \in Crossbar /\ Cardinality({}) = 0
  BY FS_EmptySet DEF NoCluster, Crossbar, FinNat

(* Counting up to s and starting again.                                     *)
LEMMA Remainder ==
  ASSUME NEW s \in Nat \ {0, 1}
  PROVE  /\ \A n \in Nat : n % s \in 0 .. s - 1
         /\ \A n \in 0 .. s - 1 : n % s = n
         /\ \A n \in Nat : (n + 1) % s # 0 => (n + 1) % s = (n % s) + 1
<1>1. \A n \in Nat : n % s \in 0 .. s - 1
  OBVIOUS
<1>2. \A n \in 0 .. s - 1 : n % s = n
  OBVIOUS
<1>3. ASSUME NEW n \in Nat, (n + 1) % s # 0
      PROVE  (n + 1) % s = (n % s) + 1
  <2> DEFINE q == n \div s
             p == (n + 1) \div s
  <2>1. /\ q \in Int /\ n % s \in 0 .. s - 1 /\ n = s * q + (n % s)
        /\ p \in Int /\ (n + 1) % s \in 0 .. s - 1 /\ n + 1 = s * p + ((n + 1) % s)
    OBVIOUS
  <2>2. \A d \in Int : d >= 1 => s * d >= s
    OBVIOUS
  <2>3. p - q \in Int /\ q - p \in Int /\ s * (p - q) = s * p - s * q /\ s * (q - p) = s * q - s * p
    BY <2>1
  <2> HIDE DEF p, q
  <2>4. p = q
    BY <1>3, <2>1, <2>2, <2>3
  <2> QED BY <2>1, <2>4
<1> QED BY <1>1, <1>2, <1>3

(* Initially nothing is unrolled or packed.                                 *)
LEMMA PackInitial == Init => PackInv
<1> SUFFICES ASSUME Init
             PROVE  PackInv
  OBVIOUS
<1>1. EdgeInv /\ ChainsOK
  BY EdgesInitial, ChainsInitial
<1>2. /\ crossbar_size \in Nat \ {0, 1} /\ max_fanin <= crossbar_size
      /\ todo = Neuron /\ cur = 0 /\ left = {} /\ pending = <<>> /\ to_connect = <<>>
      /\ num_new = 0 /\ phase = "pack"
      /\ (clusters = <<>> \/ clusters = <<NoCluster>>)
  BY ClusteringAssumption DEF Init
<1>3. clusters \in Seq(Crossbar)
  <2>1. <<>> \in Seq(Crossbar)
    BY EmptySeq
  <2>2. <<NoCluster>> \in Seq(Crossbar)
    BY NoClusterFits
  <2> QED BY <1>2, <2>1, <2>2
<1>4. \A c \in Cid : clusters = <<NoCluster>> /\ clusters[c] = NoCluster
  BY <1>2 DEF Cid
<1>5. PackTypes
  BY <1>2, <1>3, UnrollAssumption, EmptySeq DEF PackTypes, Neuron
<1>6. Stages /\ ClustersUsed /\ Listed(cur, pending)
  BY <1>2, <1>4, EmptySeq DEF Stages, ClustersUsed, Listed
<1>7. CrossbarLimits
  <2>1. NoCluster.inputs = {} /\ NoCluster.outputs = {} /\ 0 <= crossbar_size
    BY <1>2 DEF NoCluster
  <2> HIDE DEF NoCluster
  <2> QED BY <1>4, <2>1, NoClusterFits DEF CrossbarLimits
<1>8. Members
  BY <1>2, <1>4, EmptySeq DEF Members, NoCluster
<1>9. Filling
  BY <1>2 DEF Filling
<1> QED BY <1>1, <1>5, <1>6, <1>7, <1>8, <1>9 DEF PackInv

(* What the packing relies on is there.                                     *)
LEMMA ReadyToPack ==
  ASSUME PackInv
  PROVE  /\ Packing(pending) /\ Id \subseteq Nat /\ Neuron \subseteq Id
         /\ cur \in Id
         /\ Cid = 1 .. Len(clusters) /\ Len(clusters) \in Nat
         /\ \A c \in Cid : clusters[c] \in Crossbar
<1>1. max_fanin \in (Nat \ {0, 1}) \union {INVALID_FANIN}
  BY DEF PackInv, EdgeInv, UnrollInv
<1>2. crossbar_size \in Nat \ {0, 1} /\ max_fanin <= crossbar_size /\ clusters \in Seq(Crossbar)
  BY DEF PackInv, PackTypes
<1>3. MIN_FANIN \in Nat \ {0, 1} /\ MIN_FANIN <= crossbar_size
  BY <1>1, <1>2 DEF MIN_FANIN, INVALID_FANIN
<1>4. pending \in Seq(Id)
  BY DEF PackInv, Listed
<1>5. Id \subseteq Nat /\ Neuron \subseteq Id
  BY UnrollAssumption DEF PackInv, EdgeInv, UnrollInv, Neuron
<1>6. cur \in Id
  BY <1>5 DEF PackInv, PackTypes
<1>7. \A c \in 1 .. Len(clusters) : clusters[c] \in Crossbar
  BY <1>2, ElementOfSeq
<1> QED BY <1>2, <1>3, <1>4, <1>5, <1>6, <1>7 DEF Packing, Cid

(* Unrolling a neuron: the network only grows.                              *)
LEMMA NetworkGrows ==
  ASSUME EdgeInv, UnrollNeuron
  PROVE  Id \subseteq Id'
<1>1. CASE Len(usnn[idx].inputs) <= max_fanin
  BY <1>1 DEF UnrollNeuron, Id
<1>2. CASE ~(Len(usnn[idx].inputs) <= max_fanin)
  <2>1. /\ max_fanin \in Nat /\ idx \in Id /\ usnn[idx].inputs \in Seq(Id)
    BY UnrollAssumption DEF EdgeInv, UnrollInv, UnrollNeuron, INVALID_FANIN
  <2>2. Len(usnn[idx].inputs) > max_fanin
    <3>1. Len(usnn[idx].inputs) \in Nat
      BY <2>1
    <3> QED BY <1>2, <2>1, <3>1
  <2> QED BY <2>2, ChainMade
<1> QED BY <1>1, <1>2

(* Unrolling packs nothing.                                                 *)
LEMMA UnrollPacks ==
  ASSUME PackInv, UnrollNeuron, UNCHANGED <<mode, crossbar_size, packVars, todo, connectVars>>
  PROVE  PackInv'
<1>1. EdgeInv' /\ ChainsOK' /\ Id \subseteq Id'
  BY EdgesStep, ChainsStep, NetworkGrows DEF PackInv
<1>2. pending = <<>> /\ max_fanin' = max_fanin
  BY DEF PackInv, Stages, UnrollNeuron
<1>3. /\ crossbar_size' = crossbar_size /\ clusters' = clusters /\ cur' = cur /\ left' = left
      /\ pending' = pending /\ todo' = todo /\ phase' = phase /\ to_connect' = to_connect
      /\ num_new' = num_new /\ Cid' = Cid
  BY DEF packVars, connectVars, Cid
<1>4. PackTypes' /\ CrossbarLimits' /\ ClustersUsed' /\ Filling'
  BY <1>2, <1>3 DEF PackInv, PackTypes, CrossbarLimits, ClustersUsed, Filling
<1>5. Stages' /\ Listed(cur, pending)'
  BY <1>2, <1>3, EmptySeq DEF PackInv, Stages, Listed
<1>6. Members'
  <2>1. to_connect \in Seq(Id) => to_connect \in Seq(Id')
    BY <1>1, SeqMonotonic
  <2> QED BY <1>1, <1>3, <2>1 DEF PackInv, Members
<1> QED BY <1>1, <1>4, <1>5, <1>6 DEF PackInv

(* The other steps leave the network alone.                                 *)
LEMMA NetworkKept ==
  ASSUME EdgeInv, ChainsOK, UNCHANGED unrollVars
  PROVE  /\ EdgeInv' /\ ChainsOK' /\ Id' = Id /\ idx' = idx /\ max_fanin' = max_fanin
         /\ \A n, a : Outs(n, a)' = Outs(n, a)
<1>1. /\ connection' = connection /\ max_fanin' = max_fanin /\ usnn' = usnn /\ idx' = idx
      /\ Id' = Id
  BY DEF unrollVars, Id
<1>2. EdgeInv'
  BY <1>1 DEF EdgeInv, UnrollInv, FaninBounded, EdgesAgree
<1>3. ChainsOK'
  BY <1>1 DEF ChainsOK, ChainOK, Chain
<1>4. \A n, a : Outs(n, a)' = Outs(n, a)
  BY <1>1 DEF Outs, Chain
<1> QED BY <1>1, <1>2, <1>3, <1>4

(* The inputs of the next neuron.                                           *)
LEMMA StartPacks ==
  ASSUME PackInv, NEW n \in todo, StartNeuron(n)
  PROVE  PackInv'
<1>1. /\ UNCHANGED unrollVars /\ crossbar_size' = crossbar_size /\ clusters' = clusters
      /\ phase' = phase /\ to_connect' = to_connect /\ num_new' = num_new
      /\ idx' = idx /\ idx = NumNeurons /\ cur' = n /\ pending' = InputsToPack(n)
      /\ todo' = todo \ {n} /\ left' = Cid /\ Cid' = Cid /\ max_fanin' = max_fanin
  BY DEF StartNeuron, connectVars, unrollVars, Cid
<1>2. EdgeInv' /\ ChainsOK' /\ Id' = Id
  BY <1>1, NetworkKept DEF PackInv
<1>3. n \in Neuron
  BY DEF PackInv, PackTypes
<1>4. Listed(n, InputsToPack(n))
  <2>1. Neuron \subseteq Id
    BY ReadyToPack
  <2>2. ChainOK(n)
    BY <1>3 DEF PackInv, ChainsOK
  <2>3. \A m \in Id : usnn[m].inputs \in Seq(Id)
    BY DEF PackInv, EdgeInv
  <2>4. crossbar_size \in Nat
    BY DEF PackInv, PackTypes
  <2> QED BY <1>3, <2>1, <2>2, <2>3, <2>4, InputsListed
<1>5. Listed(cur, pending)'
  BY <1>1, <1>4 DEF Listed, Single, Outs, Chain, Id, unrollVars
<1>6. PackTypes' /\ CrossbarLimits' /\ Filling' /\ Members'
  BY <1>1, <1>2, <1>3 DEF PackInv, PackTypes, CrossbarLimits, Filling, Members
<1>7. Stages'
  <2>1. NumNeurons \in Nat
    BY UnrollAssumption
  <2> QED BY <1>1, <2>1 DEF PackInv, Stages
<1>8. ClustersUsed'
  <2>1. clusters = <<NoCluster>> => Cid = {1}
    BY DEF Cid
  <2> QED BY <1>1, <2>1 DEF PackInv, ClustersUsed
<1> QED BY <1>2, <1>5, <1>6, <1>7, <1>8 DEF PackInv

(* A cluster while neurons are packed.                                      *)
ClusterOK(x) ==
  /\ x \in Crossbar /\ x.inputs \subseteq Id /\ x.outputs \subseteq Id
  /\ Cardinality(x.inputs) <= crossbar_size /\ Cardinality(x.outputs) <= crossbar_size

(* packToCluster. *)
LEMMA PackedInto ==
  ASSUME PackInv, pending # <<>>, UNCHANGED <<unrollVars, cur>>,
         NEW cs \in Seq(Crossbar), \A d \in 1 .. Len(cs) : ClusterOK(cs[d]),
         NEW c \in 1 .. Len(cs), PackInto(c, cs)
  PROVE  /\ clusters' \in Seq(Crossbar) /\ Len(clusters') = Len(cs)
         /\ \A d \in 1 .. Len(cs) : ClusterOK(clusters'[d])
         /\ Listed(cur, pending)'
         /\ \A d \in 1 .. Len(cs) : clusters'[d].outputs = {} =>
              cs[d].outputs = {} /\ ~(d = c /\ CanPack(cs[c]))
<1>1. Packing(pending) /\ Listed(cur, pending) /\ cur \in Id /\ Id \subseteq Nat
  BY ReadyToPack DEF PackInv
<1>2. EdgeInv /\ ChainsOK /\ UNCHANGED unrollVars /\ cur' = cur
  BY DEF PackInv
<1>3. Id' = Id /\ \A n, a : Outs(n, a)' = Outs(n, a)
  BY <1>2, NetworkKept
<1>4. \A s : pending' = s /\ Listed(cur, s) => Listed(cur, pending)'
  BY <1>2, <1>3 DEF Listed, Single
<1>5. CASE CanPack(cs[c])
  <2>1. clusters' = [cs EXCEPT ![c] = Packed(cs[c])] /\ pending' = Rest(cs[c])
    BY <1>5 DEF PackInto
  <2>2. cs[c] \in Crossbar /\ ClusterOK(cs[c])
    BY DEF ClusterOK
  <2>3. LET p == Packed(cs[c]) IN
          /\ p \in Crossbar /\ p.outputs # {}
          /\ Cardinality(p.inputs) <= crossbar_size /\ Cardinality(p.outputs) <= crossbar_size
          /\ p.inputs \subseteq cs[c].inputs \union Id
          /\ p.outputs \subseteq cs[c].outputs \union Id
    BY <1>1, <1>5, <2>2, PackedFits
  <2>4. ClusterOK(Packed(cs[c])) /\ Packed(cs[c]).outputs # {} /\ Packed(cs[c]) \in Crossbar
    BY <2>2, <2>3 DEF ClusterOK
  <2>5. /\ clusters' \in Seq(Crossbar) /\ Len(clusters') = Len(cs)
        /\ \A d \in 1 .. Len(cs) : clusters'[d] = IF d = c THEN Packed(cs[c]) ELSE cs[d]
    BY <2>1, <2>4, ExceptSeq
  <2>6. Listed(cur, pending)'
    <3>1. Listed(cur, Rest(cs[c]))
      BY <1>1, <1>5, <2>2, RestListed
    <3> QED BY <1>4, <2>1, <3>1
  <2> QED BY <2>4, <2>5, <2>6
<1>6. CASE ~CanPack(cs[c])
  <2>1. clusters' = cs /\ pending' = pending
    BY <1>6 DEF PackInto
  <2> QED BY <1>1, <1>4, <1>6, <2>1
<1> QED BY <1>5, <1>6

(* The clusters there are, while neurons are packed.                        *)
LEMMA ClustersAreOK ==
  ASSUME PackInv, phase = "pack"
  PROVE  /\ clusters \in Seq(Crossbar) /\ Len(clusters) \in Nat /\ Cid = 1 .. Len(clusters)
         /\ \A d \in 1 .. Len(clusters) : ClusterOK(clusters[d])
         /\ num_new = 0 /\ crossbar_size \in Nat
<1>1. /\ clusters \in Seq(Crossbar) /\ Len(clusters) \in Nat /\ Cid = 1 .. Len(clusters)
      /\ \A c \in Cid : clusters[c] \in Crossbar
  BY ReadyToPack DEF PackInv, PackTypes
<1>2. num_new = 0 /\ crossbar_size \in Nat /\ num_new <= crossbar_size
  BY DEF PackInv, PackTypes, Stages
<1>3. /\ \A c \in Cid : clusters[c].outputs \subseteq Id /\ clusters[c].inputs \subseteq Id
      /\ \A c \in Cid : /\ Cardinality(clusters[c].inputs) <= crossbar_size
                        /\ Cardinality(clusters[c].outputs) <= crossbar_size
  BY <1>2 DEF PackInv, Members, CrossbarLimits
<1> QED BY <1>1, <1>2, <1>3 DEF ClusterOK

(* What follows for the invariant.                                          *)
LEMMA PackingKeeps ==
  ASSUME PackInv, phase = "pack", pending # <<>>,
         UNCHANGED <<unrollVars, mode, crossbar_size, todo, cur, connectVars>>,
         clusters' \in Seq(Crossbar), Len(clusters') \in Nat,
         \A d \in 1 .. Len(clusters') : ClusterOK(clusters'[d]),
         Listed(cur, pending)', left' \subseteq 1 .. Len(clusters'),
         \A d \in 1 .. Len(clusters') : clusters'[d].outputs # {}
  PROVE  PackInv'
<1>1. EdgeInv' /\ ChainsOK' /\ Id' = Id /\ idx' = idx /\ max_fanin' = max_fanin
  BY NetworkKept DEF PackInv
<1>2. /\ crossbar_size' = crossbar_size /\ todo' = todo /\ cur' = cur /\ phase' = phase
      /\ to_connect' = to_connect /\ num_new' = num_new /\ num_new = 0
      /\ Cid' = 1 .. Len(clusters')
  BY DEF connectVars, Cid, PackInv, Stages
<1>3. PackTypes'
  BY <1>1, <1>2 DEF PackInv, PackTypes
<1>4. Stages'
  <2>1. idx \in Int /\ ~(idx < NumNeurons)
    BY UnrollAssumption DEF PackInv, Stages, EdgeInv, UnrollInv
  <2> QED BY <1>1, <1>2, <2>1 DEF Stages
<1>5. CrossbarLimits'
  BY <1>2 DEF CrossbarLimits, ClusterOK
<1>6. ClustersUsed'
  BY <1>2 DEF ClustersUsed
<1>7. Members'
  BY <1>1, <1>2 DEF PackInv, PackTypes, Members, ClusterOK
<1>8. Filling'
  BY <1>2 DEF Filling
<1> QED BY <1>1, <1>3, <1>4, <1>5, <1>6, <1>7, <1>8 DEF PackInv

(* An existing cluster takes inputs, or is passed over.                     *)
LEMMA TryPacks ==
  ASSUME PackInv, NEW c \in left, TryCluster(c)
  PROVE  PackInv'
<1>1. /\ phase = "pack" /\ pending # <<>> /\ PackInto(c, clusters)
      /\ UNCHANGED <<unrollVars, mode, crossbar_size, todo, cur, connectVars>>
      /\ left' \subseteq left
  BY DEF TryCluster
<1>2. /\ clusters \in Seq(Crossbar) /\ Len(clusters) \in Nat /\ Cid = 1 .. Len(clusters)
      /\ \A d \in 1 .. Len(clusters) : ClusterOK(clusters[d])
  BY <1>1, ClustersAreOK
<1>3. c \in 1 .. Len(clusters) /\ left \subseteq 1 .. Len(clusters)
  BY <1>2 DEF PackInv, PackTypes
<1>4. /\ clusters' \in Seq(Crossbar) /\ Len(clusters') = Len(clusters)
      /\ \A d \in 1 .. Len(clusters) : ClusterOK(clusters'[d])
      /\ Listed(cur, pending)'
      /\ \A d \in 1 .. Len(clusters) : clusters'[d].outputs = {} =>
           clusters[d].outputs = {} /\ ~(d = c /\ CanPack(clusters[c]))
  BY <1>1, <1>2, <1>3, PackedInto
<1>5. ASSUME NEW d \in 1 .. Len(clusters), clusters'[d].outputs = {}
      PROVE  FALSE
  <2>1. clusters[d].outputs = {} /\ ~(d = c /\ CanPack(clusters[c]))
    BY <1>4, <1>5
  <2>2. clusters = <<NoCluster>> /\ left = {1}
    BY <1>1, <1>2, <2>1 DEF PackInv, ClustersUsed
  <2>3. d = c /\ clusters[c] = NoCluster
    BY <1>2, <1>3, <2>2
  <2>4. CanPack(NoCluster)
    BY <1>1, ReadyToPack, NewFits
  <2> QED BY <2>1, <2>3, <2>4
<1> QED BY <1>1, <1>2, <1>3, <1>4, <1>5, PackingKeeps

(* A new cluster takes inputs.                                              *)
LEMMA NewPacks ==
  ASSUME PackInv, NewCluster
  PROVE  PackInv'
<1> DEFINE n  == Len(clusters) + 1
           cs == Append(clusters, NoCluster)
<1>1. /\ phase = "pack" /\ pending # <<>> /\ left = {} /\ PackInto(n, cs)
      /\ UNCHANGED <<unrollVars, mode, crossbar_size, todo, cur, connectVars>>
      /\ left' \subseteq DOMAIN clusters'
  BY DEF NewCluster
<1>2. /\ clusters \in Seq(Crossbar) /\ Len(clusters) \in Nat /\ Cid = 1 .. Len(clusters)
      /\ \A d \in 1 .. Len(clusters) : ClusterOK(clusters[d])
      /\ crossbar_size \in Nat
  BY <1>1, ClustersAreOK
<1>3. /\ cs \in Seq(Crossbar) /\ Len(cs) = n /\ n \in 1 .. n /\ cs[n] = NoCluster
      /\ \A d \in 1 .. Len(clusters) : cs[d] = clusters[d]
  BY <1>2, NoClusterFits, AppendProperties
<1>4. ClusterOK(NoCluster)
  <2>1. NoCluster.inputs = {} /\ NoCluster.outputs = {} /\ 0 <= crossbar_size
    BY <1>2 DEF NoCluster
  <2> HIDE DEF NoCluster
  <2> QED BY <2>1, NoClusterFits DEF ClusterOK
<1> HIDE DEF cs
<1>5. \A d \in 1 .. Len(cs) : ClusterOK(cs[d])
  <2>1. \A d \in 1 .. n : d = n \/ d \in 1 .. Len(clusters)
    BY <1>2
  <2> QED BY <1>2, <1>3, <1>4, <2>1
<1>6. /\ clusters' \in Seq(Crossbar) /\ Len(clusters') = n
      /\ \A d \in 1 .. n : ClusterOK(clusters'[d])
      /\ Listed(cur, pending)'
      /\ \A d \in 1 .. n : clusters'[d].outputs = {} =>
           cs[d].outputs = {} /\ ~(d = n /\ CanPack(cs[n]))
  BY <1>1, <1>3, <1>5, PackedInto
<1>7. ASSUME NEW d \in 1 .. n, clusters'[d].outputs = {}
      PROVE  FALSE
  <2>1. cs[d].outputs = {} /\ ~(d = n /\ CanPack(cs[n]))
    BY <1>6, <1>7
  <2>2. CanPack(NoCluster)
    BY <1>1, ReadyToPack, NewFits
  <2>3. d \in Cid /\ clusters[d].outputs = {}
    BY <1>2, <1>3, <2>1, <2>2
  <2> QED BY <1>1, <2>3 DEF PackInv, ClustersUsed
<1>8. left' \subseteq 1 .. Len(clusters')
  BY <1>1, <1>6
<1> QED BY <1>1, <1>2, <1>6, <1>7, <1>8, PackingKeeps

-----------------------------------------------------------------------------
(* Connecting the components.                                               *)

(* A set of numbers has a least one.                                        *)
LEMMA LeastOf ==
  ASSUME NEW S \in SUBSET Nat, S # {}
  PROVE  \E x \in S : \A y \in S : x <= y
<1> DEFINE R == { ss \in Nat \X Nat : ss[1] < ss[2] }
<1>1. IsWellFoundedOn(R, Nat)
  BY NatLessThanWellFounded DEF OpToRel
<1>2. PICK x \in S : \A y \in S : <<y, x>> \notin R
  <2> HIDE DEF R
  <2> QED BY <1>1, WFMin
<1>3. ASSUME NEW y \in S
      PROVE  x <= y
  <2>1. ~(y < x)
    BY <1>2
  <2> QED BY <2>1
<1> QED BY <1>3

(* And Smallest is it.                                                      *)
LEMMA SmallestOf ==
  ASSUME NEW S \in SUBSET Nat, S # {}
  PROVE  Smallest(S) \in S
BY LeastOf DEF Smallest

(* Each neuron to be connected is an output of a cluster.                   *)
LEMMA FirstOutputsListed ==
  ASSUME PackInv, phase = "pack", \A c \in Cid : clusters[c].outputs # {},
         NEW chosen \in SUBSET Cid
  PROVE  FirstOutputs(chosen) \in Seq(Id)
<1> DEFINE roots == Roots(chosen)
           root(k) == CHOOSE r \in roots : Rank(roots, r) = k
           sole(r) == CHOOSE c \in chosen : c \in Component(r)
           n == Cardinality(roots)
<1>1. FirstOutputs(chosen) = [k \in 1 .. n |-> Smallest(clusters[sole(root(k))].outputs)]
  BY DEF FirstOutputs, Rank
<1>2. Cid = 1 .. Len(clusters) /\ Len(clusters) \in Nat
      /\ \A d \in 1 .. Len(clusters) : ClusterOK(clusters[d])
  BY ClustersAreOK
<1>3. roots \subseteq Cid /\ \A r \in roots : chosen \intersect Component(r) # {}
  BY DEF Roots
<1> HIDE DEF roots
<1>4. IsFiniteSet(roots) /\ roots \subseteq Int /\ n \in Nat
  <2>1. IsFiniteSet(1 .. Len(clusters)) /\ 1 .. Len(clusters) \subseteq Int
    BY <1>2, FS_Interval
  <2> QED BY <1>2, <1>3, <2>1, FS_Subset, FS_CardinalityType
<1>5. \A k \in 1 .. n : root(k) \in roots
  <2>1. \A k \in 1 .. n : \E r \in roots : Rank(roots, r) = k
    BY <1>4, Ranks
  <2> QED BY <2>1
<1> HIDE DEF root
<1>6. \A r \in roots : sole(r) \in Cid
  BY <1>3
<1> HIDE DEF sole
<1>7. \A c \in Cid : Smallest(clusters[c].outputs) \in Id
  <2> SUFFICES ASSUME NEW c \in Cid
               PROVE  Smallest(clusters[c].outputs) \in Id
    OBVIOUS
  <2>1. clusters[c].outputs \in SUBSET Nat /\ clusters[c].outputs # {}
        /\ clusters[c].outputs \subseteq Id
    BY <1>2 DEF ClusterOK, Crossbar, FinNat
  <2> QED BY <2>1, SmallestOf
<1>8. \A k \in 1 .. n : Smallest(clusters[sole(root(k))].outputs) \in Id
  BY <1>5, <1>6, <1>7
<1> HIDE DEF n
<1> QED BY <1>1, <1>4, <1>8

(* The components are found when all is packed.                             *)
LEMMA ComponentsPack ==
  ASSUME PackInv, FindComponents
  PROVE  PackInv'
<1>1. /\ phase = "pack" /\ idx = NumNeurons /\ pending = <<>>
      /\ UNCHANGED unrollVars /\ crossbar_size' = crossbar_size /\ clusters' = clusters
      /\ cur' = cur /\ pending' = pending /\ left' = left /\ todo' = todo
      /\ num_new' = num_new /\ Cid' = Cid
  BY DEF FindComponents, packVars, Cid
<1>2. EdgeInv' /\ ChainsOK' /\ Id' = Id /\ idx' = idx /\ max_fanin' = max_fanin
  BY <1>1, NetworkKept DEF PackInv
<1>3. /\ num_new = 0 /\ num_new <= crossbar_size /\ to_connect \in Seq(Id)
      /\ Id \subseteq Nat
  BY <1>1, ReadyToPack DEF PackInv, PackTypes, Stages, Members
<1>4. \/ phase' = "done" /\ to_connect' = to_connect
      \/ /\ phase' = "connect" /\ Cardinality(Components) > 1
         /\ \E chosen \in SUBSET Cid : to_connect' = FirstOutputs(chosen)
  <2>1. CASE Cardinality(Components) <= 1
    BY <2>1 DEF FindComponents
  <2>2. CASE ~(Cardinality(Components) <= 1)
    <3>1. phase' = "connect" /\ \E chosen \in SUBSET { c \in Cid : Sink(c) } :
                                  to_connect' = FirstOutputs(chosen)
      BY <2>2 DEF FindComponents
    <3>2. Cardinality(Components) > 1
      <4>1. Cid = 1 .. Len(clusters) /\ Len(clusters) \in Nat
        BY ReadyToPack
      <4>2. IsFiniteSet(1 .. Len(clusters))
        BY <4>1, FS_Interval
      <4> DEFINE f == [c \in Cid |-> Component(c)]
      <4>3. f \in Surjection(Cid, Components)
        BY DEF Surjection, Components
      <4> HIDE DEF f
      <4>4. Cardinality(Components) \in Nat
        BY <4>1, <4>2, <4>3, FS_Surjection, FS_CardinalityType
      <4> QED BY <2>2, <4>4
    <3> QED BY <3>1, <3>2
  <2> QED BY <2>1, <2>2
<1>5. phase' = "connect" => \A c \in Cid : clusters[c].outputs # {}
  <2> SUFFICES ASSUME phase' = "connect", NEW c \in Cid, clusters[c].outputs = {}
               PROVE  FALSE
    OBVIOUS
  <2>1. Cardinality(Components) > 1
    BY <1>4
  <2>2. Cid = {1}
    BY DEF PackInv, ClustersUsed, Cid
  <2>3. Components = {Component(1)}
    BY <2>2 DEF Components
  <2>4. Cardinality(Components) = 1
    BY <2>3, FS_Singleton
  <2> QED BY <2>1, <2>4
<1>6. to_connect' \in Seq(Id) /\ to_connect' \in Seq(Nat) /\ phase' # "pack"
  <2>1. to_connect' \in Seq(Id) /\ phase' # "pack"
    BY <1>1, <1>3, <1>4, <1>5, FirstOutputsListed
  <2> QED BY <1>3, <2>1, SeqMonotonic
<1>7. Listed(cur, pending)' /\ Stages'
  BY <1>1, <1>2, <1>6, EmptySeq DEF PackInv, Listed, Stages
<1>8. PackTypes' /\ CrossbarLimits' /\ Filling' /\ Members'
  BY <1>1, <1>2, <1>6 DEF PackInv, PackTypes, CrossbarLimits, Filling, Members
<1>9. ClustersUsed'
  BY <1>1, <1>5 DEF PackInv, ClustersUsed
<1> QED BY <1>2, <1>7, <1>8, <1>9 DEF PackInv

(* One neuron is connected.                                                 *)
LEMMA ConnectPacks ==
  ASSUME PackInv, Connect
  PROVE  PackInv'
<1> DEFINE s == crossbar_size
           full == num_new % s = 0
           cs == IF full THEN Append(clusters, NoCluster) ELSE clusters
           n == Len(cs)
           h == Head(AtFront)
           last == [inputs |-> cs[n].inputs \union {h}, outputs |-> cs[n].outputs \union {NewId}]
<1>1. /\ phase = "connect" /\ phase' = phase /\ UNCHANGED unrollVars /\ crossbar_size' = s
      /\ cur' = cur /\ pending' = pending /\ left' = left /\ todo' = todo
      /\ num_new' = num_new + 1 /\ to_connect' = Tail(AtFront) /\ to_connect # <<>>
  BY DEF Connect
<1>2. EdgeInv' /\ ChainsOK' /\ Id' = Id /\ idx' = idx /\ max_fanin' = max_fanin
  BY <1>1, NetworkKept DEF PackInv
<1>3. /\ s \in Nat \ {0, 1} /\ num_new \in Nat /\ to_connect \in Seq(Nat)
      /\ clusters \in Seq(Crossbar) /\ Len(clusters) \in Nat /\ Cid = 1 .. Len(clusters)
      /\ \A c \in Cid : clusters[c] \in Crossbar /\ clusters[c].outputs # {}
  <2>1. \A c \in Cid : clusters[c].outputs # {}
    BY <1>1 DEF PackInv, ClustersUsed
  <2> QED BY <2>1, ReadyToPack DEF PackInv, PackTypes
<1>4. /\ num_new % s \in 0 .. s - 1 /\ (num_new + 1) % s \in 0 .. s - 1
      /\ ((num_new + 1) % s # 0 => (num_new + 1) % s = (num_new % s) + 1)
      /\ (num_new \in 0 .. s - 1 => num_new % s = num_new)
  <2>1. num_new + 1 \in Nat
    BY <1>3
  <2> HIDE DEF s
  <2> QED BY <1>3, <2>1, Remainder
<1>5. clusters' = [cs EXCEPT ![n] = [inputs |-> cs[n].inputs \union {h},
                                     outputs |-> cs[n].outputs \union {NewId}]]
  BY DEF Connect
<1>6. /\ AtFront \in Seq(Nat) /\ AtFront # <<>>
      /\ num_new + 1 <= s => AtFront = to_connect
  <2>1. CASE ~(full /\ num_new > 0)
    <3>1. AtFront = to_connect
      BY <2>1 DEF AtFront
    <3> QED BY <1>1, <1>3, <3>1
  <2>2. CASE full /\ num_new > 0
    <3> DEFINE m == Smallest(clusters[Len(clusters)].outputs)
    <3>1. AtFront = <<m>> \o to_connect
      BY <2>2 DEF AtFront
    <3>2. Len(clusters) \in Cid
      <4>1. clusters # <<>>
        BY <1>3, <2>2 DEF PackInv, Filling
      <4> QED BY <1>3, <4>1, EmptySeq
    <3>3. m \in Nat
      <4>1. clusters[Len(clusters)].outputs \in SUBSET Nat
        BY <1>3, <3>2 DEF Crossbar, FinNat
      <4>2. clusters[Len(clusters)].outputs # {}
        BY <1>3, <3>2
      <4> QED BY <4>1, <4>2, SmallestOf
    <3> HIDE DEF m
    <3>4. <<m>> \in Seq(Nat) /\ Len(<<m>>) = 1
      BY <3>3
    <3>5. AtFront \in Seq(Nat) /\ Len(AtFront) = 1 + Len(to_connect)
      BY <1>3, <3>1, <3>4, ConcatProperties
    <3>6. AtFront # <<>>
      <4>1. Len(to_connect) \in Nat
        BY <1>3
      <4> QED BY <3>5, <4>1, EmptySeq
    <3>7. ~(num_new + 1 <= s)
      BY <1>3, <1>4, <2>2
    <3> QED BY <3>5, <3>6, <3>7
  <2> QED BY <2>1, <2>2
<1>7. h \in Nat /\ Tail(AtFront) \in Seq(Nat)
  BY <1>6, HeadTailProperties
<1>8. NewId \in Nat
  BY <1>3 DEF NewId, PackInv, EdgeInv, UnrollInv
<1>9. /\ cs \in Seq(Crossbar) /\ n \in 1 .. n /\ n \in Nat /\ Len(clusters) <= n
      /\ cs[n] \in Crossbar
      /\ \A d \in 1 .. n : d = n \/ (d \in Cid /\ cs[d] = clusters[d])
      /\ IF full THEN cs[n] = NoCluster ELSE n = Len(clusters) /\ cs[n] = clusters[n]
  <2>1. CASE full
    <3>1. /\ cs \in Seq(Crossbar) /\ n = Len(clusters) + 1 /\ cs[n] = NoCluster
          /\ \A d \in 1 .. Len(clusters) : cs[d] = clusters[d]
      BY <1>3, <2>1, NoClusterFits, AppendProperties
    <3> HIDE DEF cs, full
    <3> QED BY <1>3, <2>1, <3>1, NoClusterFits
  <2>2. CASE ~full
    <3>1. num_new # 0
      BY <1>3, <1>4, <2>2
    <3>2. clusters # <<>>
      BY <3>1 DEF PackInv, Filling
    <3>3. Len(clusters) \in 1 .. Len(clusters)
      BY <1>3, <3>2, EmptySeq
    <3>4. cs = clusters
      BY <2>2
    <3> HIDE DEF cs, full
    <3> QED BY <1>3, <2>2, <3>3, <3>4
  <2> QED BY <2>1, <2>2
<1>10. /\ Cardinality(cs[n].inputs) \in 0 .. num_new % s
       /\ Cardinality(cs[n].outputs) \in 0 .. num_new % s
  <2>1. Cardinality(cs[n].inputs) \in Nat /\ Cardinality(cs[n].outputs) \in Nat
    <3>1. IsFiniteSet(cs[n].inputs) /\ IsFiniteSet(cs[n].outputs)
      BY <1>9 DEF Crossbar, FinNat
    <3> QED BY <3>1, FS_CardinalityType
  <2>2. CASE full
    <3>1. cs[n].inputs = {} /\ cs[n].outputs = {}
      BY <1>9, <2>2 DEF NoCluster
    <3> HIDE DEF cs, n
    <3> QED BY <1>4, <2>2, <3>1, NoClusterFits
  <2>3. CASE ~full
    <3>1. num_new # 0
      BY <1>3, <1>4, <2>3
    <3>2. /\ Cardinality(clusters[Len(clusters)].inputs) <= num_new % s
          /\ Cardinality(clusters[Len(clusters)].outputs) <= num_new % s
      BY <2>3, <3>1 DEF PackInv, Filling
    <3>3. n = Len(clusters) /\ cs[n] = clusters[Len(clusters)]
      BY <1>9, <2>3
    <3> HIDE DEF cs, n, full
    <3> QED BY <1>4, <2>1, <3>2, <3>3
  <2> QED BY <2>2, <2>3
<1> HIDE DEF cs, n, h, full
<1>11. /\ last \in Crossbar /\ last.outputs # {}
       /\ Cardinality(last.inputs) <= (num_new % s) + 1
       /\ Cardinality(last.outputs) <= (num_new % s) + 1
  <2>1. /\ IsFiniteSet(cs[n].inputs) /\ IsFiniteSet(cs[n].outputs)
        /\ cs[n].inputs \subseteq Nat /\ cs[n].outputs \subseteq Nat
    BY <1>9 DEF Crossbar, FinNat
  <2>2. /\ IsFiniteSet(cs[n].inputs \union {h})
        /\ Cardinality(cs[n].inputs \union {h}) <= (num_new % s) + 1
    <3>1. Cardinality(cs[n].inputs \union {h}) = IF h \in cs[n].inputs THEN Cardinality(cs[n].inputs)
                                                                   ELSE Cardinality(cs[n].inputs) + 1
      BY <2>1, FS_AddElement
    <3> QED BY <1>4, <1>10, <2>1, <3>1, FS_AddElement
  <2>3. /\ IsFiniteSet(cs[n].outputs \union {NewId})
        /\ Cardinality(cs[n].outputs \union {NewId}) <= (num_new % s) + 1
    <3>1. Cardinality(cs[n].outputs \union {NewId})
            = IF NewId \in cs[n].outputs THEN Cardinality(cs[n].outputs)
                                         ELSE Cardinality(cs[n].outputs) + 1
      BY <2>1, FS_AddElement
    <3> QED BY <1>4, <1>10, <2>1, <3>1, FS_AddElement
  <2>4. cs[n].inputs \union {h} \in FinNat /\ cs[n].outputs \union {NewId} \in FinNat
    BY <1>7, <1>8, <2>1, <2>2, <2>3 DEF FinNat
  <2> QED BY <2>2, <2>3, <2>4 DEF Crossbar
<1>12. /\ last.inputs = cs[n].inputs \union {h} /\ clusters' = [cs EXCEPT ![n] = last]
  BY <1>5
<1> HIDE DEF last
<1>13. /\ clusters' \in Seq(Crossbar) /\ Len(clusters') = n /\ Cid' = 1 .. n /\ clusters' # <<>>
       /\ clusters'[n] = last
       /\ \A d \in 1 .. n : d # n => d \in Cid /\ clusters'[d] = clusters[d]
  <2>1. /\ clusters' \in Seq(Crossbar) /\ Len(clusters') = n
        /\ \A d \in 1 .. n : clusters'[d] = IF d = n THEN last ELSE cs[d]
    BY <1>9, <1>11, <1>12, ExceptSeq DEF n
  <2>2. Cid' = 1 .. n /\ clusters' # <<>>
    BY <1>9, <2>1, EmptySeq DEF Cid
  <2> QED BY <1>9, <2>1, <2>2
<1>14. PackTypes'
  <2>1. left \subseteq 1 .. n
    BY <1>3, <1>9 DEF PackInv, PackTypes
  <2> QED BY <1>1, <1>2, <1>3, <1>7, <1>13, <2>1 DEF PackInv, PackTypes
<1>15. Listed(cur, pending)'
  <2>1. \A m, a : Outs(m, a)' = Outs(m, a)
    BY <1>1, NetworkKept DEF PackInv
  <2> QED BY <1>1, <1>2, <2>1 DEF PackInv, Listed, Single
<1>16. Stages' /\ ClustersUsed'
  <2>1. Stages'
    BY <1>1, <1>2 DEF PackInv, Stages
  <2>2. \A d \in 1 .. n : clusters'[d].outputs # {}
    BY <1>3, <1>11, <1>13
  <2> QED BY <1>13, <2>1, <2>2 DEF ClustersUsed
<1>17. CrossbarLimits'
  <2>1. (num_new % s) + 1 <= s
    BY <1>3, <1>4
  <2>2. Cardinality(last.inputs) <= s /\ Cardinality(last.outputs) <= s
    <3>1. Cardinality(last.inputs) \in Nat /\ Cardinality(last.outputs) \in Nat
      BY <1>11, FS_CardinalityType DEF Crossbar, FinNat
    <3> QED BY <1>3, <1>4, <1>11, <2>1, <3>1
  <2> QED BY <1>1, <1>13, <2>2 DEF PackInv, CrossbarLimits
<1>18. Members'
  <2>1. num_new' # 0
    BY <1>1, <1>3
  <2>2. CASE num_new' <= s
    <3>1. num_new <= s /\ AtFront = to_connect
      BY <1>1, <1>3, <1>6, <2>2
    <3>2. to_connect \in Seq(Id) /\ \A c \in Cid : clusters[c].inputs \subseteq Id
      BY <3>1 DEF PackInv, Members
    <3>3. h \in Id /\ to_connect' \in Seq(Id)
      BY <1>1, <3>1, <3>2, HeadTailProperties DEF h
    <3>4. cs[n].inputs \subseteq Id
      <4>1. CASE full
        BY <1>9, <4>1 DEF NoCluster
      <4>2. CASE ~full
        BY <1>3, <1>9, <3>2, <4>2
      <4> QED BY <4>1, <4>2
    <3>5. last.inputs \subseteq Id
      BY <1>12, <3>3, <3>4
    <3>6. \A d \in 1 .. n : clusters'[d].inputs \subseteq Id
      BY <1>13, <3>2, <3>5
    <3> QED BY <1>1, <1>2, <1>13, <2>1, <3>3, <3>6 DEF Members
  <2>3. CASE ~(num_new' <= s)
    BY <1>1, <2>1, <2>3 DEF Members
  <2> QED BY <2>2, <2>3
<1>19. Filling'
  <2>1. (num_new + 1) % s # 0 =>
          /\ Cardinality(last.inputs) <= (num_new + 1) % s
          /\ Cardinality(last.outputs) <= (num_new + 1) % s
    BY <1>4, <1>11
  <2> QED BY <1>1, <1>13, <2>1 DEF Filling
<1> QED BY <1>2, <1>14, <1>15, <1>16, <1>17, <1>18, <1>19 DEF PackInv

(* Every step.                                                              *)
LEMMA PackKept == PackInv /\ [Next]_vars => PackInv'
<1> SUFFICES ASSUME PackInv, [Next]_vars
             PROVE  PackInv'
  OBVIOUS
<1>1. CASE UnrollNeuron /\ UNCHANGED <<mode, crossbar_size, packVars, todo, connectVars>>
  BY <1>1, UnrollPacks
<1>2. CASE \E n \in todo : StartNeuron(n)
  BY <1>2, StartPacks
<1>3. CASE \E c \in left : TryCluster(c)
  BY <1>3, TryPacks
<1>4. CASE NewCluster
  BY <1>4, NewPacks
<1>5. CASE FindComponents
  BY <1>5, ComponentsPack
<1>6. CASE Connect
  BY <1>6, ConnectPacks
<1>7. CASE Finish \/ UNCHANGED vars
  <2>1. /\ UNCHANGED unrollVars /\ crossbar_size' = crossbar_size /\ clusters' = clusters
        /\ cur' = cur /\ pending' = pending /\ left' = left /\ todo' = todo
        /\ num_new' = num_new /\ to_connect' = to_connect /\ Cid' = Cid
        /\ phase' \in {phase, "done"}
    BY <1>7 DEF Finish, vars, packVars, connectVars, Cid
  <2>2. EdgeInv' /\ ChainsOK' /\ Id' = Id /\ idx' = idx /\ max_fanin' = max_fanin
        /\ \A m, a : Outs(m, a)' = Outs(m, a)
    BY <2>1, NetworkKept DEF PackInv
  <2>3. PackTypes' /\ CrossbarLimits' /\ Filling' /\ Members' /\ Stages' /\ ClustersUsed'
    BY <2>1, <2>2
       DEF PackInv, PackTypes, CrossbarLimits, Filling, Members, Stages, ClustersUsed
  <2>4. Listed(cur, pending)'
    BY <2>1, <2>2 DEF PackInv, Listed, Single
  <2> QED BY <2>2, <2>3, <2>4 DEF PackInv
<1> QED BY <1>1, <1>2, <1>3, <1>4, <1>5, <1>6, <1>7 DEF Next

(* The inductive invariant of the clustering.                               *)
THEOREM PackInvariance == Spec => []PackInv
BY PackInitial, PackKept, PTL DEF Spec

(* No cluster ever has more inputs than its crossbar has rows, nor more     *)
(* outputs than it has columns: the asserts of packToCluster.               *)
THEOREM CrossbarsKeepLimits == Spec => []CrossbarLimits
<1>1. PackInv => CrossbarLimits
  BY DEF PackInv
<1> QED BY <1>1, PackInvariance, PTL

(* The map from inputs to links has just one answer for the last input of   *)
(* every chunk, and every cluster that is connected computes something: the *)
(* other asserts of packToCluster and connectedComponents.                  *)
THEOREM MapsAlwaysAnswer == Spec => []MapsAnswer
<1>1. PackInv => MapsAnswer
  <2> SUFFICES ASSUME PackInv
               PROVE  MapsAnswer
    OBVIOUS
  <2>1. ASSUME pending # <<>>, NEW c \in Cid, CanPack(clusters[c])
        PROVE  Cardinality(Outs(cur, pending[NumCanBePacked(clusters[c])])) = 1
    <3>1. Outs(cur, pending[NumCanBePacked(clusters[c])]) = {ChunkOutput(clusters[c])}
      <4>1. Packing(pending) /\ Listed(cur, pending) /\ cur \in Id /\ clusters[c] \in Crossbar
        BY ReadyToPack DEF PackInv
      <4> QED BY <2>1, <4>1, ChunkAnswered
    <3> QED BY <3>1, FS_Singleton
  <2>2. phase = "connect" => \A c \in Cid : clusters[c].outputs # {}
    BY DEF PackInv, ClustersUsed
  <2> QED BY <2>1, <2>2 DEF MapsAnswer
<1> QED BY <1>1, PackInvariance, PTL

(* Unless a full cluster is connected to the next, no added neuron is an    *)
(* input of a cluster, so that its spikes, which nobody sets, are not read. *)
THEOREM AddedNeuronsAreSilent == Spec => []AddedNeuronsSilent
<1>1. PackInv => AddedNeuronsSilent
  <2> SUFFICES ASSUME PackInv, num_new <= crossbar_size,
                      NEW n \in Cardinality(Id) .. NewId - 1, NEW c \in Connected(n)
               PROVE  FALSE
    BY DEF AddedNeuronsSilent
  <2>1. n \in Id
    BY DEF Connected, PackInv, Members
  <2>2. Cardinality(Id) \in Nat /\ Id = 0 .. Cardinality(Id) - 1
    BY DEF PackInv, EdgeInv, UnrollInv
  <2> QED BY <2>1, <2>2
<1> QED BY <1>1, PackInvariance, PTL

-----------------------------------------------------------------------------
(* What a chain passes on.                                                  *)

(* The inputs of link k of n that are not links themselves.                 *)
Own(n, k) == Elements(usnn[Link(n, k)].inputs) \ Chain(n)

(* The inputs of the first k links.                                         *)
OwnUpTo(n, k) == UNION { Own(n, j) : j \in 1 .. k }

(* The links of n are a line: each is an input of the next and of nothing   *)
(* else.  Together they take the inputs that n had, and each fires for its  *)
(* own and for those of the links before it.                                *)
Line(n) ==
  LET last == Len(usnn[n].children) + 1 IN
  /\ \A j, k \in 1 .. last : Link(n, j) = Link(n, k) => j = k
  /\ \A k \in 1 .. last : Elements(usnn[Link(n, k)].inputs) \intersect Chain(n)
                            = IF k = 1 THEN {} ELSE {Link(n, k - 1)}
  /\ OwnUpTo(n, last) = Elements(Inputs(connection, n))
  /\ \A k \in 1 .. last - 1 :
       /\ usnn[Link(n, k)].parent = n
       /\ usnn[Link(n, k)].outputs = {Link(n, k + 1)}
       /\ usnn[Link(n, k)].spike_times = UNION { usnn[m].spike_times : m \in OwnUpTo(n, k) }

(* A neuron the loop has not come to has the inputs that were read.         *)
LineInv ==
  /\ EdgeInv
  /\ ChainsOK
  /\ connection \in Connections
  /\ \A n \in Neuron : /\ Line(n)
                       /\ n >= idx => usnn[n].inputs = Inputs(connection, n)

-----------------------------------------------------------------------------
(* All neurons that reach link k of n: in i steps back, the links from      *)
(* k - 1 - i on, and the inputs of those from k - i on.                     *)
Behind(n, k, i) ==
  (UNION { Own(n, j) : j \in { x \in 1 .. k : x >= k - i } })
    \union { Link(n, j) : j \in { x \in 1 .. k - 1 : x >= k - 1 - i } }

(* One step back from a set of neurons.                                     *)
Back(n, S) ==
  UNION { {c} \union (IF c \in Chain(n) THEN Elements(usnn[c].inputs) ELSE {}) : c \in S }

(* The inputs of a link.                                                    *)
LEMMA LinkTakes ==
  ASSUME NEW n \in Neuron, Neuron \subseteq Id, ChainOK(n), Line(n),
         NEW k \in 1 .. Len(usnn[n].children) + 1
  PROVE  Elements(usnn[Link(n, k)].inputs) = Own(n, k) \union (IF k = 1 THEN {} ELSE {Link(n, k - 1)})
<1>1. Elements(usnn[Link(n, k)].inputs) \intersect Chain(n) = IF k = 1 THEN {} ELSE {Link(n, k - 1)}
  BY DEF Line
<1> QED BY <1>1 DEF Own

(* One step back.                                                           *)
LEMMA StepBack ==
  ASSUME NEW n \in Neuron, Neuron \subseteq Id, ChainOK(n), Line(n),
         NEW k \in 1 .. Len(usnn[n].children) + 1, NEW i \in Nat \ {0}
  PROVE  Behind(n, k, i) = Back(n, Behind(n, k, i - 1))
<1> DEFINE L == Len(usnn[n].children)
           B == Behind(n, k, i - 1)
<1>1. /\ L \in Nat /\ k \in Nat
      /\ \A j \in 1 .. L : Link(n, j) \in Chain(n)
  BY LinksOfChain
<1>2. \A j \in 1 .. L + 1 : Elements(usnn[Link(n, j)].inputs)
                              = Own(n, j) \union (IF j = 1 THEN {} ELSE {Link(n, j - 1)})
  BY LinkTakes
<1>3. \A j : Own(n, j) \intersect Chain(n) = {}
  BY DEF Own
<1>4. \A c : c \in Back(n, B) <=> \/ c \in B
                                  \/ \E d \in B : d \in Chain(n) /\ c \in Elements(usnn[d].inputs)
  BY DEF Back
<1>5. \A c, h : h \in Nat =>
         (c \in Behind(n, k, h) <=> \/ \E j \in 1 .. k : j >= k - h /\ c \in Own(n, j)
                                    \/ \E j \in 1 .. k - 1 : j >= k - 1 - h /\ c = Link(n, j))
  <2> SUFFICES ASSUME NEW c, NEW h \in Nat
               PROVE  c \in Behind(n, k, h) <=>
                        \/ \E j \in 1 .. k : j >= k - h /\ c \in Own(n, j)
                        \/ \E j \in 1 .. k - 1 : j >= k - 1 - h /\ c = Link(n, j)
    OBVIOUS
  <2> DEFINE js == { x \in 1 .. k : x >= k - h }
             ks == { x \in 1 .. k - 1 : x >= k - 1 - h }
  <2> HIDE DEF L, B
  <2>1. \A j : (j \in js <=> j \in 1 .. k /\ j >= k - h)
              /\ (j \in ks <=> j \in 1 .. k - 1 /\ j >= k - 1 - h)
    OBVIOUS
  <2>2. Behind(n, k, h) = (UNION { Own(n, j) : j \in js }) \union { Link(n, j) : j \in ks }
    BY DEF Behind
  <2> HIDE DEF js, ks
  <2>3. c \in Behind(n, k, h) <=> (\E j \in js : c \in Own(n, j)) \/ (\E j \in ks : c = Link(n, j))
    BY <2>2
  <2> QED BY <2>1, <2>3
<1> HIDE DEF L
<1>6. i - 1 \in Nat /\ i \in Nat
  OBVIOUS
<1>7. ASSUME NEW c \in Behind(n, k, i)
      PROVE  c \in Back(n, B)
  <2>1. CASE \E j \in 1 .. k : j >= k - i /\ c \in Own(n, j)
    <3>1. PICK j \in 1 .. k : j >= k - i /\ c \in Own(n, j)
      BY <2>1
    <3>2. CASE j >= k - (i - 1)
      BY <1>4, <1>5, <1>6, <3>1, <3>2
    <3>3. CASE ~(j >= k - (i - 1))
      <4>1. j \in 1 .. k - 1 /\ j >= k - 1 - (i - 1) /\ j \in 1 .. L
        BY <1>1, <3>1, <3>3 DEF L
      <4>2. Link(n, j) \in B /\ Link(n, j) \in Chain(n)
        BY <1>1, <1>5, <1>6, <4>1
      <4>3. c \in Elements(usnn[Link(n, j)].inputs)
        BY <1>1, <1>2, <3>1, <4>1
      <4> QED BY <1>4, <4>2, <4>3
    <3> QED BY <3>2, <3>3
  <2>2. CASE \E j \in 1 .. k - 1 : j >= k - 1 - i /\ c = Link(n, j)
    <3>1. PICK j \in 1 .. k - 1 : j >= k - 1 - i /\ c = Link(n, j)
      BY <2>2
    <3>2. CASE j >= k - 1 - (i - 1)
      BY <1>4, <1>5, <1>6, <3>1, <3>2
    <3>3. CASE ~(j >= k - 1 - (i - 1))
      <4>1. /\ j + 1 \in 1 .. k - 1 /\ j + 1 >= k - 1 - (i - 1) /\ j + 1 \in 1 .. L
            /\ j + 1 # 1 /\ (j + 1) - 1 = j /\ j + 1 \in 1 .. L + 1
        BY <1>1, <3>1, <3>3 DEF L
      <4>2. Link(n, j + 1) \in B /\ Link(n, j + 1) \in Chain(n)
        BY <1>1, <1>5, <1>6, <4>1
      <4>3. c \in Elements(usnn[Link(n, j + 1)].inputs)
        BY <1>2, <3>1, <4>1
      <4> QED BY <1>4, <4>2, <4>3
    <3> QED BY <3>2, <3>3
  <2> QED BY <1>5, <1>6, <2>1, <2>2
<1>8. ASSUME NEW c \in Back(n, B)
      PROVE  c \in Behind(n, k, i)
  <2>1. CASE c \in B
    <3>1. CASE \E j \in 1 .. k : j >= k - (i - 1) /\ c \in Own(n, j)
      <4>1. \E j \in 1 .. k : j >= k - i /\ c \in Own(n, j)
        BY <1>1, <1>6, <3>1
      <4> QED BY <1>5, <1>6, <4>1
    <3>2. CASE \E j \in 1 .. k - 1 : j >= k - 1 - (i - 1) /\ c = Link(n, j)
      <4>1. \E j \in 1 .. k - 1 : j >= k - 1 - i /\ c = Link(n, j)
        BY <1>1, <1>6, <3>2
      <4> QED BY <1>5, <1>6, <4>1
    <3> QED BY <1>5, <1>6, <2>1, <3>1, <3>2
  <2>2. CASE \E d \in B : d \in Chain(n) /\ c \in Elements(usnn[d].inputs)
    <3>1. PICK d \in B : d \in Chain(n) /\ c \in Elements(usnn[d].inputs)
      BY <2>2
    <3>2. PICK j \in 1 .. k - 1 : j >= k - 1 - (i - 1) /\ d = Link(n, j)
      BY <1>3, <1>5, <1>6, <3>1
    <3>3. j \in 1 .. L + 1 /\ j \in 1 .. k /\ j >= k - i
      BY <1>1, <3>2 DEF L
    <3>4. c \in Own(n, j) \/ (j # 1 /\ c = Link(n, j - 1))
      BY <1>2, <3>1, <3>2, <3>3
    <3>5. CASE c \in Own(n, j)
      BY <1>5, <1>6, <3>3, <3>5
    <3>6. CASE j # 1 /\ c = Link(n, j - 1)
      <4>1. j - 1 \in 1 .. k - 1 /\ j - 1 >= k - 1 - i
        BY <1>1, <3>2, <3>6
      <4> QED BY <1>5, <1>6, <3>6, <4>1
    <3> QED BY <3>4, <3>5, <3>6
  <2> QED BY <1>4, <2>1, <2>2
<1> QED BY <1>7, <1>8

(* A chain is as long as the list of its links.                             *)
LEMMA ChainLength ==
  ASSUME NEW n \in Neuron, Neuron \subseteq Id, ChainOK(n), Line(n)
  PROVE  Cardinality(Chain(n)) = Len(usnn[n].children)
<1> DEFINE L == Len(usnn[n].children)
           f == [j \in 1 .. L |-> Link(n, j)]
<1>1. /\ L \in Nat /\ DOMAIN usnn[n].children = 1 .. L
      /\ \A j \in 1 .. L : Link(n, j) \in Chain(n)
  BY LinksOfChain
<1>2. f \in Injection(1 .. L, Chain(n))
  <2>1. \A i, j \in 1 .. L : Link(n, i) = Link(n, j) => i = j
    <3>1. \A i, j \in 1 .. L + 1 : Link(n, i) = Link(n, j) => i = j
      BY DEF Line
    <3> HIDE DEF L
    <3> QED BY <1>1, <3>1
  <2> HIDE DEF L
  <2> QED BY <1>1, <2>1 DEF Injection, IsInjective
<1>3. f \in Surjection(1 .. L, Chain(n))
  <2>1. \A x \in Chain(n) : \E j \in 1 .. L : x = Link(n, j)
    BY <1>1 DEF Chain, Elements, Link
  <2> HIDE DEF L
  <2> QED BY <1>1, <2>1 DEF Surjection
<1>4. f \in Bijection(1 .. L, Chain(n))
  BY <1>2, <1>3 DEF Bijection
<1>5. IsFiniteSet(1 .. L) /\ Cardinality(1 .. L) = L
  <2> HIDE DEF L
  <2> QED BY <1>1, FS_Interval
<1> HIDE DEF f, L
<1>6. ExistsBijection(1 .. L, Chain(n))
  BY <1>4 DEF ExistsBijection
<1> QED BY <1>5, <1>6, FS_Bijection DEF L

(* All neurons that reach link k: the links before it, and all inputs that  *)
(* these links and it have of their own.                                    *)
LEMMA UpstreamOf ==
  ASSUME NEW n \in Neuron, Neuron \subseteq Id, ChainOK(n), Line(n),
         NEW k \in 1 .. Len(usnn[n].children) + 1
  PROVE  Upstream(n, Link(n, k)) = OwnUpTo(n, k) \union { Link(n, j) : j \in 1 .. k - 1 }
<1> DEFINE L == Len(usnn[n].children)
           C == Cardinality(Chain(n))
           V == [i \in 0 .. C |-> Behind(n, k, i)]
           E == Elements(usnn[Link(n, k)].inputs)
<1>1. /\ L \in Nat /\ k \in Nat /\ DOMAIN usnn[n].children = 1 .. L
      /\ \A j \in 1 .. L : Link(n, j) \in Chain(n)
  BY LinksOfChain
<1>2. C = L
  BY ChainLength
<1>3. Behind(n, k, 0) = E
  <2>1. E = Own(n, k) \union (IF k = 1 THEN {} ELSE {Link(n, k - 1)})
    BY LinkTakes
  <2>2. { x \in 1 .. k : x >= k - 0 } = {k}
    BY <1>1
  <2>3. { x \in 1 .. k - 1 : x >= k - 1 - 0 } = IF k = 1 THEN {} ELSE {k - 1}
    BY <1>1
  <2> HIDE DEF E
  <2>4. Behind(n, k, 0) = (UNION { Own(n, j) : j \in {k} })
                            \union { Link(n, j) : j \in IF k = 1 THEN {} ELSE {k - 1} }
    BY <2>2, <2>3, Zenon DEF Behind
  <2>5. UNION { Own(n, j) : j \in {k} } = Own(n, k)
    OBVIOUS
  <2>6. { Link(n, j) : j \in IF k = 1 THEN {} ELSE {k - 1} } = IF k = 1 THEN {} ELSE {Link(n, k - 1)}
    OBVIOUS
  <2> QED BY <2>1, <2>4, <2>5, <2>6
<1>4. \A i \in 1 .. C : V[i] = Back(n, V[i - 1])
  <2> SUFFICES ASSUME NEW i \in 1 .. C PROVE V[i] = Back(n, V[i - 1])
    OBVIOUS
  <2> HIDE DEF L, C
  <2>1. i \in Nat \ {0} /\ i \in 0 .. C /\ i - 1 \in 0 .. C
    BY <1>1, <1>2
  <2>2. Behind(n, k, i) = Back(n, Behind(n, k, i - 1))
    BY <2>1, StepBack
  <2> QED BY <2>1, <2>2
<1>5. C \in Nat /\ V[0] = E
  BY <1>1, <1>2, <1>3
<1>6. PICK R : /\ R = [i \in 0 .. C |-> IF i = 0 THEN E ELSE Back(n, R[i - 1])]
               /\ Upstream(n, Link(n, k)) = R[C]
  <2>1. V = [i \in 0 .. C |-> IF i = 0 THEN E ELSE Back(n, V[i - 1])]
    <3> HIDE DEF E, C
    <3>1. \A i \in 0 .. C : V[i] = IF i = 0 THEN E ELSE Back(n, V[i - 1])
      <4>1. \A i \in 0 .. C : i # 0 => i \in 1 .. C
        BY <1>5
      <4> HIDE DEF V
      <4> QED BY <1>4, <1>5, <4>1
    <3>2. DOMAIN V = 0 .. C
      OBVIOUS
    <3>3. V = [i \in 0 .. C |-> V[i]]
      OBVIOUS
    <3> HIDE DEF V
    <3> QED BY <3>1, <3>3
  <2>2. \E W : W = [i \in 0 .. C |-> IF i = 0 THEN E ELSE Back(n, W[i - 1])]
    <3> HIDE DEF V, C, E
    <3> QED BY <2>1
  <2> HIDE DEF V
  <2> QED BY <2>2 DEF Upstream, Back
<1>7. R[C] = V[C]
  <2>1. R[0] = E /\ \A i \in 1 .. C : R[i] = Back(n, R[i - 1])
    <3> HIDE DEF C, E
    <3>1. 0 \in 0 .. C /\ \A i \in 1 .. C : i \in 0 .. C /\ i # 0
      BY <1>5
    <3> QED BY <1>6, <3>1
  <2> DEFINE S == { i \in 0 .. C : R[i] # V[i] }
  <2> HIDE DEF V, C, E
  <2> SUFFICES ASSUME S # {} PROVE FALSE
    <3>1. C \in 0 .. C
      BY <1>5
    <3> QED BY <3>1
  <2>2. PICK i \in S : \A j \in S : i <= j
    <3>1. S \in SUBSET Nat
      BY <1>5
    <3> HIDE DEF S
    <3> QED BY <3>1, LeastOf
  <2>3. i \in 1 .. C /\ i - 1 \in 0 .. C /\ ~(i <= i - 1)
    BY <1>5, <2>1
  <2>4. R[i - 1] = V[i - 1]
    BY <2>2, <2>3
  <2> QED BY <1>4, <2>1, <2>3, <2>4
<1>8. V[C] = Behind(n, k, C)
  <2> HIDE DEF C
  <2> QED BY <1>5
<1>9. Behind(n, k, C) = OwnUpTo(n, k) \union { Link(n, j) : j \in 1 .. k - 1 }
  <2> HIDE DEF C, L
  <2>1. { x \in 1 .. k : x >= k - C } = 1 .. k
    BY <1>1, <1>2
  <2>2. { x \in 1 .. k - 1 : x >= k - 1 - C } = 1 .. k - 1
    BY <1>1, <1>2
  <2>3. Behind(n, k, C) = (UNION { Own(n, j) : j \in 1 .. k }) \union { Link(n, j) : j \in 1 .. k - 1 }
    BY <2>1, <2>2, Zenon DEF Behind
  <2> QED BY <2>3 DEF OwnUpTo
<1> QED BY <1>6, <1>7, <1>8, <1>9

(* The lists of inputs were read from the file.                             *)
LEMMA ReadInputs ==
  ASSUME NEW lines \in Connections, NEW n
  PROVE  Elements(Inputs(lines, n)) \subseteq Neuron
BY InputsRead

(* A neuron without a chain.                                                *)
LEMMA LineOfOne ==
  ASSUME NEW n \in Neuron, usnn[n].children = <<>>, usnn[n].inputs = Inputs(connection, n)
  PROVE  Line(n)
<1>1. Len(usnn[n].children) = 0 /\ Chain(n) = {} /\ \A k : Link(n, k) = n
  <2>1. <<>> \in Seq({}) /\ Len(<<>>) = 0 /\ DOMAIN <<>> = {}
    BY EmptySeq
  <2> QED BY <2>1, NoChain DEF Link
<1>2. OwnUpTo(n, 1) = Elements(Inputs(connection, n))
  <2>1. \A k : Own(n, k) = Elements(Inputs(connection, n))
    BY <1>1 DEF Own
  <2>2. 1 .. 1 = {1}
    OBVIOUS
  <2> QED BY <2>1, <2>2 DEF OwnUpTo
<1>3. 1 .. 1 = {1} /\ 1 .. 1 - 1 = {} /\ 0 + 1 = 1
  OBVIOUS
<1>4. \A k \in 1 .. 1 : Elements(usnn[Link(n, k)].inputs) \intersect Chain(n)
                          = IF k = 1 THEN {} ELSE {Link(n, k - 1)}
  BY <1>1, <1>3
<1> QED BY <1>1, <1>2, <1>3, <1>4 DEF Line

(* The network as it is read.                                               *)
LEMMA LinesInitial == Init => LineInv
<1> SUFFICES ASSUME Init
             PROVE  LineInv
  OBVIOUS
<1>1. connection \in Connections
      /\ \A n \in Neuron : usnn[n].inputs = Inputs(connection, n) /\ usnn[n].children = <<>>
  BY DEF Init, UnrollInit
<1>2. \A n \in Neuron : Line(n)
  BY <1>1, LineOfOne
<1> QED BY <1>1, <1>2, EdgesInitial, ChainsInitial DEF LineInv

-----------------------------------------------------------------------------
(* Later links take later inputs.                                           *)
LEMMA LastGrows ==
  ASSUME max_fanin \in Nat \ {0, 1}, NEW n \in Nat, n > max_fanin,
         NEW k \in 0 .. NumInter(n) - 1, NEW l \in 0 .. NumInter(n) - 1, k <= l
  PROVE  Last(k, n) <= Last(l, n)
<1> DEFINE b == max_fanin - 1
<1>1. /\ NumInter(n) \in Nat /\ b \in Nat /\ k \in Nat /\ l \in Nat
      /\ Last(k, n) \in Nat /\ Last(k, n) <= n
  BY AtLeastTwoLinks, LinkLength
<1>2. CASE l = NumInter(n) - 1
  BY <1>1, <1>2 DEF Last
<1>3. CASE l # NumInter(n) - 1
  <2>1. k # NumInter(n) - 1
    BY <1>1, <1>3
  <2>2. Last(k, n) = max_fanin + k * b /\ Last(l, n) = max_fanin + l * b
    BY <1>3, <2>1 DEF Last
  <2>3. k * b <= l * b /\ k * b \in Nat /\ l * b \in Nat
    <3> HIDE DEF b
    <3> QED BY <1>1, ProductGrows
  <2> QED BY <2>2, <2>3
<1> QED BY <1>2, <1>3

(* The first links take the first inputs.                                   *)
LEMMA FirstShares ==
  ASSUME max_fanin \in Nat \ {0, 1}, NEW n \in Nat, n > max_fanin,
         NEW k \in 0 .. NumInter(n) - 1, NEW i
  PROVE  i \in 1 .. Last(k, n) <=> \E l \in 0 .. k : i \in First(l) .. Last(l, n)
<1>1. /\ NumInter(n) \in Nat /\ k \in Nat /\ k <= NumInter(n) - 1
      /\ \A l \in 0 .. k : l \in 0 .. NumInter(n) - 1
      /\ \A l \in 0 .. NumInter(n) - 1 : /\ First(l) \in Nat \ {0}
                                         /\ Last(l, n) \in Nat /\ Last(l, n) <= n
  BY AtLeastTwoLinks, LinkLength
<1>2. ASSUME i \in 1 .. Last(k, n)
      PROVE  \E l \in 0 .. k : i \in First(l) .. Last(l, n)
  <2>1. i \in 1 .. n /\ i <= Last(k, n)
    BY <1>1, <1>2
  <2>2. PICK l \in 0 .. NumInter(n) - 1 : i \in First(l) .. Last(l, n)
    BY <2>1, LinksShare
  <2>3. ~(k < l)
    <3> SUFFICES ASSUME k < l PROVE FALSE
      OBVIOUS
    <3>1. Last(k, n) < First(l)
      BY LinksApart
    <3> QED BY <1>1, <2>1, <2>2, <3>1
  <2> QED BY <1>1, <2>2, <2>3
<1>3. ASSUME NEW l \in 0 .. k, i \in First(l) .. Last(l, n)
      PROVE  i \in 1 .. Last(k, n)
  <2>1. Last(l, n) <= Last(k, n)
    BY <1>1, LastGrows
  <2> QED BY <1>1, <1>3, <2>1
<1> QED BY <1>2, <1>3

(* What an iteration leaves to the neurons there were, and what it gives to *)
(* those that it makes.                                                     *)
LEMMA NeuronsMade ==
  ASSUME EdgeInv, UnrollNeuron, Len(usnn[idx].inputs) > max_fanin
  PROVE  LET ins  == usnn[idx].inputs
             base == Cardinality(Id)
             N    == NumInter(Len(ins))
         IN  /\ \A n \in Id :
                  /\ usnn'[n].spike_times = usnn[n].spike_times
                  /\ usnn'[n].parent = usnn[n].parent
                  /\ n \notin Elements(ins) => usnn'[n].outputs = usnn[n].outputs
             /\ \A k \in 0 .. N - 2 :
                  /\ usnn'[base + k].parent = idx
                  /\ usnn'[base + k].outputs = {LinkId(ins, k + 1, base)}
                  /\ usnn'[base + k].spike_times = LinkSpikes(ins, k)
<1> DEFINE ins  == usnn[idx].inputs
           base == Cardinality(Id)
           N    == NumInter(Len(ins))
<1>1. N \in Nat /\ N >= 2 /\ base \in Nat /\ Id = 0 .. base - 1
  BY ChainMade
<1>2. \A n \in Id : IsNeuron(usnn[n])
  BY DEF EdgeInv, UnrollInv
<1>3. usnn' = [m \in 0 .. base + N - 2 |-> IF m < base THEN OldNeuron(ins, m, base)
                                                     ELSE NewNeuron(ins, m - base, base)]
  <2>1. ~ (Len(ins) <= max_fanin)
    <3>1. idx \in Id /\ max_fanin \in Nat
      BY UnrollAssumption DEF EdgeInv, UnrollInv, UnrollNeuron, INVALID_FANIN
    <3>2. Len(ins) \in Nat
      BY <3>1 DEF EdgeInv
    <3> HIDE DEF ins
    <3>3. Len(ins) > max_fanin
      BY DEF ins
    <3> QED BY <3>1, <3>2, <3>3
  <2> QED BY <2>1 DEF UnrollNeuron
<1> HIDE DEF ins, base, N
<1>4. ASSUME NEW n \in Id
      PROVE  /\ usnn'[n].spike_times = usnn[n].spike_times
             /\ usnn'[n].parent = usnn[n].parent
             /\ n \notin Elements(ins) => usnn'[n].outputs = usnn[n].outputs
  <2>1. usnn'[n] = OldNeuron(ins, n, base)
    BY <1>1, <1>3
  <2> QED BY <1>2, <2>1 DEF OldNeuron, IsNeuron
<1>5. ASSUME NEW k \in 0 .. N - 2
      PROVE  /\ usnn'[base + k].parent = idx
             /\ usnn'[base + k].outputs = {LinkId(ins, k + 1, base)}
             /\ usnn'[base + k].spike_times = LinkSpikes(ins, k)
  <2>1. base + k \in 0 .. base + N - 2 /\ ~(base + k < base) /\ (base + k) - base = k
    BY <1>1
  <2>2. usnn'[base + k] = NewNeuron(ins, k, base)
    BY <1>3, <2>1
  <2> QED BY <2>2 DEF NewNeuron
<1> QED BY <1>4, <1>5 DEF ins, base, N

(* The neurons and inputs a line is made of.                                *)
LEMMA LineMembers ==
  ASSUME LineInv, NEW n \in Neuron, NEW k \in 1 .. Len(usnn[n].children) + 1
  PROVE  /\ Own(n, k) \subseteq Neuron
         /\ k # Len(usnn[n].children) + 1 =>
              Link(n, k) \in Chain(n) /\ Link(n, k) \in Id \ Neuron
         /\ k = Len(usnn[n].children) + 1 => Link(n, k) = n
         /\ Neuron \subseteq Id /\ ChainOK(n) /\ Line(n)
         /\ Chain(n) \subseteq Id
<1>1. /\ ChainOK(n) /\ Line(n) /\ connection \in Connections
      /\ NumNeurons \in Nat
      /\ Neuron \subseteq Id
  BY UnrollAssumption DEF LineInv, ChainsOK, EdgeInv, UnrollInv, Neuron
<1>2. /\ Len(usnn[n].children) \in Nat /\ Chain(n) \subseteq Id
      /\ \A j \in 1 .. Len(usnn[n].children) : Link(n, j) \in Chain(n)
      /\ Link(n, Len(usnn[n].children) + 1) = n
  BY <1>1, LinksOfChain
<1>3. Chain(n) \intersect Neuron = {}
  BY <1>1 DEF ChainOK
<1>4. Own(n, k) \subseteq Neuron
  <2>1. OwnUpTo(n, Len(usnn[n].children) + 1) \subseteq Neuron
    BY <1>1, ReadInputs DEF Line
  <2> QED BY <2>1 DEF OwnUpTo
<1> QED BY <1>1, <1>2, <1>3, <1>4

(* The chain of a neuron that is not at the turn stays as it is: its links  *)
(* are not inputs of the one that is.                                       *)
LEMMA LineKept ==
  ASSUME LineInv, UnrollNeuron, Len(usnn[idx].inputs) > max_fanin,
         NEW n \in Neuron, n # idx
  PROVE  Line(n)' /\ usnn'[n].inputs = usnn[n].inputs
<1> DEFINE ins  == usnn[idx].inputs
           last == Len(usnn[n].children) + 1
<1>1. EdgeInv /\ Neuron \subseteq Id /\ idx \in Neuron /\ connection' = connection
  <2>1. EdgeInv
    BY DEF LineInv
  <2>2. idx \in Neuron /\ connection' = connection
    BY <2>1, ChainMade DEF UnrollNeuron
  <2>3. Neuron \subseteq Id
    BY <2>1, UnrollAssumption DEF EdgeInv, UnrollInv, Neuron
  <2> QED BY <2>1, <2>2, <2>3
<1>2. /\ \A m \in Id \ {idx} : /\ usnn'[m].inputs = usnn[m].inputs
                               /\ usnn'[m].children = usnn[m].children
      /\ \A m \in Id : /\ usnn'[m].spike_times = usnn[m].spike_times
                       /\ usnn'[m].parent = usnn[m].parent
                       /\ m \notin Elements(ins) => usnn'[m].outputs = usnn[m].outputs
  BY <1>1, ChainMade, NeuronsMade
<1>3. /\ Line(n) /\ last \in Nat /\ last >= 1
      /\ \A k \in 1 .. last : /\ Link(n, k) \in Id \ {idx}
                              /\ Own(n, k) \subseteq Neuron
                              /\ k # last => Link(n, k) \notin Neuron
      /\ \A k \in 1 .. last - 1 : k + 1 \in 1 .. last /\ k \in 1 .. last /\ k # last
  <2>1. Line(n) /\ usnn[n].children \in Seq(Id)
    BY DEF LineInv, ChainsOK, ChainOK
  <2>2. last \in Nat /\ last >= 1
    BY <2>1
  <2>3. \A k \in 1 .. last : /\ Own(n, k) \subseteq Neuron
                             /\ k # last => Link(n, k) \in Id \ Neuron
                             /\ k = last => Link(n, k) = n
    BY LineMembers
  <2> HIDE DEF last
  <2> QED BY <1>1, <2>1, <2>2, <2>3
<1>4. usnn'[n].children = usnn[n].children /\ usnn'[n].inputs = usnn[n].inputs
  BY <1>1, <1>2
<1>5. Chain(n)' = Chain(n) /\ last' = last /\ \A k : Link(n, k)' = Link(n, k)
  BY <1>4 DEF Chain, Link
<1>6. \A k \in 1 .. last : usnn'[Link(n, k)].inputs = usnn[Link(n, k)].inputs
  BY <1>2, <1>3
<1>7. \A k \in 1 .. last : Own(n, k)' = Own(n, k)
  BY <1>5, <1>6 DEF Own
<1>8. \A k \in 1 .. last : OwnUpTo(n, k)' = OwnUpTo(n, k) /\ OwnUpTo(n, k) \subseteq Neuron
  <2> SUFFICES ASSUME NEW k \in 1 .. last
               PROVE  OwnUpTo(n, k)' = OwnUpTo(n, k) /\ OwnUpTo(n, k) \subseteq Neuron
    OBVIOUS
  <2>1. \A j \in 1 .. k : j \in 1 .. last
    BY <1>3
  <2> HIDE DEF last
  <2>2. \A j \in 1 .. k : Own(n, j)' = Own(n, j) /\ Own(n, j) \subseteq Neuron
    BY <1>3, <1>7, <2>1
  <2> QED BY <2>2 DEF OwnUpTo
<1>9. ASSUME NEW k \in 1 .. last - 1
      PROVE  Link(n, k) \notin Elements(ins)
  <2>1. usnn[Link(n, k)].outputs = {Link(n, k + 1)}
    BY <1>3 DEF Line
  <2>2. Link(n, k + 1) # idx /\ Link(n, k) \in Id
    BY <1>3
  <2>3. Link(n, k) \in Elements(ins) => idx \in usnn[Link(n, k)].outputs
    BY <1>1, <2>2 DEF EdgeInv, EdgesAgree
  <2> QED BY <2>1, <2>2, <2>3
<1> HIDE DEF last, ins
<1>10. /\ \A j, k \in 1 .. last : Link(n, j) = Link(n, k) => j = k
       /\ \A k \in 1 .. last : Elements(usnn[Link(n, k)].inputs) \intersect Chain(n)
                                 = IF k = 1 THEN {} ELSE {Link(n, k - 1)}
       /\ OwnUpTo(n, last) = Elements(Inputs(connection, n))
       /\ \A k \in 1 .. last - 1 :
            /\ usnn[Link(n, k)].parent = n
            /\ usnn[Link(n, k)].outputs = {Link(n, k + 1)}
            /\ usnn[Link(n, k)].spike_times = UNION { usnn[m].spike_times : m \in OwnUpTo(n, k) }
  BY <1>3 DEF Line, last
<1>11. /\ \A j, k \in 1 .. last : Link(n, j)' = Link(n, k)' => j = k
       /\ \A k \in 1 .. last : Elements(usnn'[Link(n, k)'].inputs) \intersect Chain(n)'
                                 = IF k = 1 THEN {} ELSE {Link(n, k - 1)'}
  BY <1>5, <1>6, <1>10
<1>13. OwnUpTo(n, last)' = Elements(Inputs(connection', n))
  <2>1. PICK z \in 1 .. last : z = last
    BY <1>3
  <2>2. OwnUpTo(n, z)' = OwnUpTo(n, z) /\ last' = z
    BY <1>5, <1>8, <2>1
  <2>3. OwnUpTo(n, last)' = OwnUpTo(n, z)'
    BY <2>2
  <2> QED BY <1>1, <1>10, <2>1, <2>2, <2>3
<1>12. ASSUME NEW k \in 1 .. last - 1
       PROVE  /\ usnn'[Link(n, k)'].parent = n
              /\ usnn'[Link(n, k)'].outputs = {Link(n, k + 1)'}
              /\ usnn'[Link(n, k)'].spike_times
                   = UNION { usnn'[m].spike_times : m \in OwnUpTo(n, k)' }
  <2>1. \A m \in OwnUpTo(n, k) : usnn'[m].spike_times = usnn[m].spike_times
    BY <1>1, <1>2, <1>3, <1>8
  <2>2. Link(n, k) \in Id
    BY <1>3
  <2>3. UNION { usnn'[m].spike_times : m \in OwnUpTo(n, k) }
          = UNION { usnn[m].spike_times : m \in OwnUpTo(n, k) }
    BY <2>1
  <2>4. OwnUpTo(n, k)' = OwnUpTo(n, k) /\ Link(n, k)' = Link(n, k) /\ Link(n, k + 1)' = Link(n, k + 1)
    BY <1>3, <1>5, <1>8
  <2>5. /\ usnn'[Link(n, k)].spike_times = usnn[Link(n, k)].spike_times
        /\ usnn'[Link(n, k)].parent = usnn[Link(n, k)].parent
        /\ usnn'[Link(n, k)].outputs = usnn[Link(n, k)].outputs
    BY <1>2, <1>9, <2>2
  <2>6. usnn'[Link(n, k)].parent = n /\ usnn'[Link(n, k)].outputs = {Link(n, k + 1)}
    BY <1>10, <2>5
  <2>7. usnn'[Link(n, k)].spike_times = UNION { usnn'[m].spike_times : m \in OwnUpTo(n, k) }
    BY <1>10, <2>3, <2>5
  <2> QED BY <2>4, <2>6, <2>7
<1> QED BY <1>4, <1>5, <1>11, <1>12, <1>13 DEF Line, last

(* The chain of the neuron at the turn.                                     *)
LEMMA LineMade ==
  ASSUME LineInv, UnrollNeuron, Len(usnn[idx].inputs) > max_fanin, NEW n, n = idx
  PROVE  Line(n)'
<1> DEFINE ins  == usnn[idx].inputs
           base == Cardinality(Id)
           N    == NumInter(Len(ins))
           share(k) == { ins[j] : j \in First(k) .. Last(k, Len(ins)) }
           link(k) == IF k = N THEN n ELSE base + k - 1
           C == base .. base + N - 2
<1>1. EdgeInv /\ max_fanin \in Nat \ {0, 1} /\ connection \in Connections
      /\ connection' = connection
  BY UnrollAssumption DEF LineInv, EdgeInv, UnrollInv, UnrollNeuron, INVALID_FANIN
<1>2. /\ N \in Nat /\ N >= 2 /\ base \in Nat /\ NumNeurons <= base /\ NumNeurons \in Nat
      /\ Id = 0 .. base - 1 /\ Id' = 0 .. base + N - 2
      /\ idx \in Neuron /\ idx' = idx + 1
      /\ usnn'[n].children = [k \in 1 .. N - 1 |-> base + k - 1]
      /\ \A k \in 0 .. N - 1 : usnn'[LinkId(ins, k, base)].inputs = LinkInputs(ins, k, base)
  BY <1>1, ChainMade, UnrollAssumption
<1>3. /\ \A m \in Id : usnn'[m].spike_times = usnn[m].spike_times
      /\ \A k \in 0 .. N - 2 :
           /\ usnn'[base + k].parent = idx
           /\ usnn'[base + k].outputs = {LinkId(ins, k + 1, base)}
           /\ usnn'[base + k].spike_times = LinkSpikes(ins, k)
  BY <1>1, NeuronsMade
<1>4. ins = Inputs(connection, idx)
  <2>1. idx >= idx
    BY <1>2 DEF Neuron
  <2> QED BY <1>2, <2>1 DEF LineInv
<1>5. ins \in Seq(Id) /\ Len(ins) \in Nat /\ DOMAIN ins = 1 .. Len(ins) /\ Len(ins) > max_fanin
      /\ \A i, j \in DOMAIN ins : ins[i] = ins[j] => i = j
      /\ Elements(ins) \subseteq Neuron
  <2>1. idx \in Id
    BY <1>2 DEF Neuron
  <2>2. Elements(ins) \subseteq Neuron
    BY <1>1, <1>4, ReadInputs
  <2>3. ins \in Seq(Id)
    BY <1>1, <2>1 DEF EdgeInv
  <2>4. \A i, j \in DOMAIN ins : ins[i] = ins[j] => i = j
    BY <1>1, <2>1 DEF EdgeInv, EdgesAgree
  <2>5. Len(ins) > max_fanin
    OBVIOUS
  <2> HIDE DEF ins
  <2> QED BY <2>2, <2>3, <2>4, <2>5
<1>6. \A k \in 0 .. N - 1 : LinkId(ins, k, base) = IF k = N - 1 THEN n ELSE base + k
  BY DEF LinkId
<1>7. \A k \in 0 .. N - 1 :
        /\ share(k) \subseteq Id
        /\ Elements(LinkInputs(ins, k, base))
             = share(k) \union (IF k = 0 THEN {} ELSE {base + k - 1})
  <2> SUFFICES ASSUME NEW k \in 0 .. N - 1
               PROVE  /\ share(k) \subseteq Id
                      /\ Elements(LinkInputs(ins, k, base))
                           = share(k) \union (IF k = 0 THEN {} ELSE {base + k - 1})
    OBVIOUS
  <2>1. \A x \in Id : x \in Nat /\ x < base
    BY <1>2
  <2>2. base \in Nat /\ k \in 0 .. NumInter(Len(ins)) - 1
    BY <1>2
  <2> HIDE DEF base, ins, N
  <2> DEFINE t == LinkInputs(ins, k, base)
  <2>3. /\ share(k) \subseteq Id
        /\ t \in Seq(share(k) \union {base + k - 1})
        /\ Elements(t) = share(k) \union (IF k = 0 THEN {} ELSE {base + k - 1})
        /\ \A i, j \in DOMAIN t : t[i] = t[j] => i = j
    BY <1>1, <1>5, <2>1, <2>2, LinkEdges
  <2> QED BY <2>3
<1>8. /\ Len(usnn'[n].children) = N - 1 /\ DOMAIN usnn'[n].children = 1 .. N - 1
      /\ Elements(usnn'[n].children) = C
      /\ \A k \in 1 .. N : Link(n, k)' = link(k)
  <2> HIDE DEF N, base
  <2>1. N - 1 \in Nat
    BY <1>2
  <2>2. DOMAIN usnn'[n].children = 1 .. N - 1 /\ Len(usnn'[n].children) = N - 1
    BY <1>2, <2>1
  <2>3. \A k \in 1 .. N - 1 : usnn'[n].children[k] = base + k - 1 /\ base + k - 1 \in C
    BY <1>2
  <2>4. ASSUME NEW x \in C
        PROVE  x - base + 1 \in 1 .. N - 1 /\ x = base + (x - base + 1) - 1
    <3>1. N \in Nat /\ base \in Nat
      BY <1>2
    <3> QED BY <3>1
  <2>5. \A k \in 1 .. N : k \in 1 .. N - 1 <=> k # N
    <3>1. N \in Nat
      BY <1>2
    <3> QED BY <3>1
  <2>6. Elements(usnn'[n].children) = C
    <3> HIDE DEF C
    <3>1. \A x \in C : \E j \in 1 .. N - 1 : x = usnn'[n].children[j]
      BY <2>3, <2>4
    <3>2. Elements(usnn'[n].children) = { usnn'[n].children[j] : j \in 1 .. N - 1 }
      BY <2>2 DEF Elements
    <3>3. \A j \in 1 .. N - 1 : usnn'[n].children[j] \in C
      BY <2>3
    <3> QED BY <3>1, <3>2, <3>3
  <2>7. \A k \in 1 .. N : Link(n, k)' = link(k)
    <3> SUFFICES ASSUME NEW k \in 1 .. N PROVE Link(n, k)' = link(k)
      OBVIOUS
    <3>1. Link(n, k)' = IF k \in 1 .. N - 1 THEN usnn'[n].children[k] ELSE n
      BY <2>2 DEF Link
    <3>2. k \in 1 .. N - 1 <=> k # N
      BY <2>5
    <3>3. k \in 1 .. N - 1 => usnn'[n].children[k] = base + k - 1
      BY <2>3
    <3> QED BY <3>1, <3>2, <3>3
  <2> QED BY <2>2, <2>6, <2>7
<1>9. Chain(n)' = C
  BY <1>8 DEF Chain
<1>10. ASSUME NEW k \in 1 .. N
       PROVE  /\ k - 1 \in 0 .. N - 1
              /\ usnn'[link(k)].inputs = LinkInputs(ins, k - 1, base)
              /\ Elements(usnn'[link(k)].inputs)
                   = share(k - 1) \union (IF k = 1 THEN {} ELSE {link(k - 1)})
              /\ k # 1 => link(k - 1) \in C
              /\ share(k - 1) \subseteq Id
  <2> HIDE DEF N, base, ins, share
  <2>1. k - 1 \in 0 .. N - 1 /\ base + (k - 1) = base + k - 1 /\ (k = N <=> k - 1 = N - 1)
        /\ (k - 1 = 0 <=> k = 1)
    BY <1>2
  <2>2. LinkId(ins, k - 1, base) = link(k)
    BY <1>6, <2>1
  <2>3. usnn'[link(k)].inputs = LinkInputs(ins, k - 1, base)
    BY <1>2, <2>1, <2>2
  <2>4. k # 1 => /\ k - 1 # N /\ base + (k - 1) - 1 \in C
                 /\ link(k - 1) = base + (k - 1) - 1
    <3>1. N \in Nat /\ base \in Nat
      BY <1>2
    <3>2. k # 1 => /\ k - 1 # N /\ base + (k - 1) - 1 \in C
      BY <3>1
    <3> HIDE DEF C
    <3> QED BY <3>2
  <2> HIDE DEF link, C
  <2>5. /\ share(k - 1) \subseteq Id
        /\ Elements(LinkInputs(ins, k - 1, base))
             = share(k - 1) \union (IF k - 1 = 0 THEN {} ELSE {base + (k - 1) - 1})
    BY <1>7, <2>1
  <2> QED BY <2>1, <2>3, <2>4, <2>5
<1>11. C \intersect Id = {} /\ Neuron \subseteq Id /\ n \notin C
  BY <1>2 DEF Neuron
<1>12. \A k \in 1 .. N : /\ Own(n, k)' = share(k - 1)
                         /\ Elements(usnn'[link(k)].inputs) \intersect C
                              = IF k = 1 THEN {} ELSE {link(k - 1)}
  <2> SUFFICES ASSUME NEW k \in 1 .. N
               PROVE  /\ Own(n, k)' = share(k - 1)
                      /\ Elements(usnn'[link(k)].inputs) \intersect C
                           = IF k = 1 THEN {} ELSE {link(k - 1)}
    OBVIOUS
  <2>1. Own(n, k)' = Elements(usnn'[link(k)].inputs) \ C
    BY <1>8, <1>9 DEF Own
  <2> HIDE DEF share, link, C, N, base, ins
  <2> QED BY <1>10, <1>11, <2>1
<1>13. \A k, j \in 1 .. N : link(k) = link(j) => k = j
  <2> HIDE DEF N, base
  <2> QED BY <1>2, <1>11
<1>14. ASSUME NEW k \in 1 .. N
       PROVE  /\ k - 1 \in 0 .. N - 1
              /\ OwnUpTo(n, k)' = { ins[i] : i \in 1 .. Last(k - 1, Len(ins)) }
  <2>1. k - 1 \in 0 .. N - 1
    BY <1>10
  <2>2. \A i : i \in 1 .. Last(k - 1, Len(ins)) <=>
                \E l \in 0 .. k - 1 : i \in First(l) .. Last(l, Len(ins))
    BY <1>1, <1>5, <2>1, FirstShares
  <2>3. \A j \in 1 .. k : j \in 1 .. N /\ j - 1 \in 0 .. k - 1
    <3> HIDE DEF N
    <3> QED BY <1>2
  <2>4. \A l \in 0 .. k - 1 : l + 1 \in 1 .. k /\ (l + 1) - 1 = l
    <3> HIDE DEF N
    <3> QED BY <1>2
  <2>5. OwnUpTo(n, k)' = UNION { share(j - 1) : j \in 1 .. k }
    <3> HIDE DEF share, N
    <3>1. \A j \in 1 .. k : Own(n, j)' = share(j - 1)
      BY <1>12, <2>3
    <3> QED BY <3>1 DEF OwnUpTo
  <2> HIDE DEF ins, N
  <2>6. \A x : x \in UNION { share(j - 1) : j \in 1 .. k } <=>
                 \E l \in 0 .. k - 1 : x \in share(l)
    <3> HIDE DEF share
    <3> QED BY <2>3, <2>4
  <2>7. \A x : (\E l \in 0 .. k - 1 : x \in share(l)) <=>
                 x \in { ins[i] : i \in 1 .. Last(k - 1, Len(ins)) }
    BY <2>2
  <2> HIDE DEF share
  <2> QED BY <2>1, <2>5, <2>6, <2>7
<1>15. \A k \in 1 .. N : k = N => OwnUpTo(n, k)' = Elements(Inputs(connection', n))
  <2>1. Last(N - 1, Len(ins)) = Len(ins)
    <3>1. N - 1 = NumInter(Len(ins)) - 1
      OBVIOUS
    <3> HIDE DEF N
    <3> QED BY <1>2, <3>1 DEF Last
  <2> SUFFICES ASSUME NEW k \in 1 .. N, k = N
               PROVE  OwnUpTo(n, k)' = Elements(Inputs(connection', n))
    OBVIOUS
  <2>2. OwnUpTo(n, k)' = { ins[i] : i \in 1 .. Len(ins) }
    BY <1>14, <2>1
  <2>3. Inputs(connection', n) = ins
    BY <1>1, <1>4
  <2> HIDE DEF ins
  <2> QED BY <1>5, <2>2, <2>3 DEF Elements
<1>16. ASSUME NEW k \in 1 .. N - 1
       PROVE  /\ k \in 1 .. N /\ k + 1 \in 1 .. N
              /\ usnn'[link(k)].parent = n
              /\ usnn'[link(k)].outputs = {link(k + 1)}
              /\ usnn'[link(k)].spike_times
                   = UNION { usnn'[m].spike_times : m \in OwnUpTo(n, k)' }
  <2>1. /\ k - 1 \in 0 .. N - 2 /\ base + (k - 1) = base + k - 1 /\ k # N
        /\ (k - 1) + 1 \in 0 .. N - 1 /\ (k - 1) + 1 = k /\ (k + 1 = N <=> k = N - 1)
        /\ k \in 1 .. N /\ k + 1 \in 1 .. N /\ base + (k + 1) - 1 = base + k
    <3> HIDE DEF N, base
    <3>1. N \in Nat /\ base \in Nat /\ k \in Int /\ 1 <= k /\ k <= N - 1
      BY <1>2
    <3>2. k - 1 \in 0 .. N - 2 /\ (k - 1) + 1 \in 0 .. N - 1 /\ k \in 1 .. N /\ k + 1 \in 1 .. N
      BY <3>1
    <3> QED BY <3>1, <3>2
  <2>2. link(k) = base + (k - 1)
    BY <2>1
  <2>3. LinkId(ins, (k - 1) + 1, base) = link(k + 1)
    <3> HIDE DEF N, base, ins
    <3> QED BY <1>6, <2>1
  <2>4. LinkSpikes(ins, k - 1) = UNION { usnn[m].spike_times : m \in OwnUpTo(n, k)' }
    <3>1. OwnUpTo(n, k)' = { ins[i] : i \in 1 .. Last(k - 1, Len(ins)) }
      BY <1>14, <2>1
    <3> HIDE DEF ins
    <3> QED BY <3>1 DEF LinkSpikes
  <2>5. OwnUpTo(n, k)' \subseteq Id
    <3>1. OwnUpTo(n, k)' = { ins[i] : i \in 1 .. Last(k - 1, Len(ins)) }
      BY <1>14, <2>1
    <3>2. k - 1 \in 0 .. NumInter(Len(ins)) - 1
      BY <1>14, <2>1
    <3>3. Last(k - 1, Len(ins)) \in Nat /\ Last(k - 1, Len(ins)) <= Len(ins)
      BY <1>1, <1>5, <3>2, LinkLength
    <3> HIDE DEF ins
    <3>4. \A i \in 1 .. Last(k - 1, Len(ins)) : ins[i] \in Id
      <4>1. \A i \in 1 .. Last(k - 1, Len(ins)) : i \in 1 .. Len(ins)
        BY <1>5, <3>3
      <4> QED BY <1>5, <4>1, ElementOfSeq
    <3> QED BY <3>1, <3>4
  <2>6. UNION { usnn[m].spike_times : m \in OwnUpTo(n, k)' }
          = UNION { usnn'[m].spike_times : m \in OwnUpTo(n, k)' }
    BY <1>3, <2>5
  <2> HIDE DEF link, N, base, ins
  <2> QED BY <1>3, <2>1, <2>2, <2>3, <2>4, <2>6
<1> HIDE DEF ins, base, N, share, C
<1>17. (Len(usnn[n].children) + 1)' = N /\ N \in 1 .. N
  BY <1>2, <1>8
<1> DEFINE last == Len(usnn[n].children) + 1
<1>18. last' = N
  BY <1>17
<1> HIDE DEF last, link
<1>19. /\ \A j, k \in 1 .. last' : Link(n, j)' = Link(n, k)' => j = k
       /\ \A k \in 1 .. last' : Elements(usnn'[Link(n, k)'].inputs) \intersect Chain(n)'
                                  = IF k = 1 THEN {} ELSE {Link(n, k - 1)'}
       /\ \A k \in 1 .. last' : k = last' => OwnUpTo(n, k)' = Elements(Inputs(connection', n))
       /\ \A k \in 1 .. last' - 1 :
            /\ usnn'[Link(n, k)'].parent = n
            /\ usnn'[Link(n, k)'].outputs = {Link(n, k + 1)'}
            /\ usnn'[Link(n, k)'].spike_times
                 = UNION { usnn'[m].spike_times : m \in OwnUpTo(n, k)' }
  <2>1. \A j, k \in 1 .. N : Link(n, j)' = Link(n, k)' => j = k
    BY <1>8, <1>13
  <2>2. \A k \in 1 .. N : Elements(usnn'[Link(n, k)'].inputs) \intersect Chain(n)'
                            = IF k = 1 THEN {} ELSE {Link(n, k - 1)'}
    <3>1. \A k \in 1 .. N : k # 1 => k - 1 \in 1 .. N
      BY <1>2
    <3> QED BY <1>8, <1>9, <1>12, <3>1
  <2>3. \A k \in 1 .. N - 1 :
            /\ usnn'[Link(n, k)'].parent = n
            /\ usnn'[Link(n, k)'].outputs = {Link(n, k + 1)'}
            /\ usnn'[Link(n, k)'].spike_times
                 = UNION { usnn'[m].spike_times : m \in OwnUpTo(n, k)' }
    BY <1>8, <1>16
  <2> QED BY <1>15, <1>18, <2>1, <2>2, <2>3
<1>20. last' \in 1 .. last'
  BY <1>17, <1>18
<1> QED BY <1>19, <1>20 DEF Line, last

(* One iteration of the loop.                                               *)
LEMMA LinesStep == LineInv /\ UnrollNeuron => LineInv'
<1> SUFFICES ASSUME LineInv, UnrollNeuron
             PROVE  LineInv'
  OBVIOUS
<1>1. /\ EdgeInv' /\ ChainsOK' /\ connection' = connection /\ connection \in Connections
      /\ EdgeInv
  BY EdgesStep, ChainsStep DEF LineInv, UnrollNeuron
<1>2. idx \in Nat /\ idx < NumNeurons /\ NumNeurons \in Nat /\ idx' = idx + 1
      /\ max_fanin \in Nat \ {0, 1} /\ idx \in Id
  BY <1>1, UnrollAssumption DEF EdgeInv, UnrollInv, UnrollNeuron, INVALID_FANIN
<1>3. \A n \in Neuron : n \in Int /\ (n >= idx' => n >= idx /\ n # idx)
  BY <1>2 DEF Neuron
<1>4. ASSUME NEW n \in Neuron
      PROVE  Line(n)' /\ (n # idx => usnn'[n].inputs = usnn[n].inputs)
  <2>1. CASE Len(usnn[idx].inputs) <= max_fanin
    <3>1. usnn' = usnn
      BY <2>1 DEF UnrollNeuron
    <3>2. Line(n)
      BY DEF LineInv
    <3>3. Line(n)' = Line(n)
      BY <1>1, <3>1 DEF Line, OwnUpTo, Own, Link, Chain
    <3> QED BY <3>1, <3>2, <3>3
  <2>2. CASE ~(Len(usnn[idx].inputs) <= max_fanin)
    <3>1. Len(usnn[idx].inputs) > max_fanin
      <4>1. Len(usnn[idx].inputs) \in Nat
        BY <1>1, <1>2 DEF EdgeInv
      <4> QED BY <1>2, <2>2, <4>1
    <3> QED BY <3>1, LineKept, LineMade
  <2> QED BY <2>1, <2>2
<1>5. \A n \in Neuron : n >= idx' => usnn'[n].inputs = Inputs(connection', n)
  BY <1>1, <1>3, <1>4 DEF LineInv
<1> QED BY <1>1, <1>4, <1>5 DEF LineInv

(* The steps of the clustering leave the neurons alone.                     *)
LEMMA LinesKept == LineInv /\ [Next]_vars => LineInv'
<1> SUFFICES ASSUME LineInv, [Next]_vars
             PROVE  LineInv'
  OBVIOUS
<1>1. CASE UnrollNeuron
  BY <1>1, LinesStep
<1>2. CASE UNCHANGED unrollVars
  <2>1. EdgeInv' /\ ChainsOK' /\ usnn' = usnn /\ connection' = connection /\ idx' = idx
    BY <1>2, NetworkKept DEF LineInv, unrollVars
  <2>2. \A n : Line(n)' = Line(n)
    BY <2>1 DEF Line, OwnUpTo, Own, Link, Chain
  <2> QED BY <2>1, <2>2 DEF LineInv
<1>3. UnrollNeuron \/ UNCHANGED unrollVars
  BY DEF Next, vars, StartNeuron, TryCluster, NewCluster, FindComponents, Connect, Finish
<1> QED BY <1>1, <1>2, <1>3

(* The invariant of the chains.                                             *)
THEOREM ChainsStayLines == Spec => []LineInv
BY LinesInitial, LinesKept, PTL DEF Spec

(* Unrolling keeps the network, whatever the connections and the fan-in:    *)
(* each neuron is reached through its own links from exactly the neurons    *)
(* it was connected to, each on one way, and its links serve nobody else.   *)
THEOREM UnrollingKeepsNetwork == Spec => []SameNetwork
<1>1. LineInv => SameNetwork
  <2> SUFFICES ASSUME LineInv, NEW n \in Neuron
               PROVE  /\ Upstream(n, n) \ Chain(n) = Elements(Inputs(connection, n))
                      /\ \A m \in Elements(Inputs(connection, n)) :
                           Cardinality(usnn[m].outputs \intersect ({n} \union Chain(n))) = 1
                      /\ \A c \in Chain(n) :
                           usnn[c].parent = n /\ usnn[c].outputs \subseteq {n} \union Chain(n)
    BY DEF SameNetwork
  <2> DEFINE last == Len(usnn[n].children) + 1
             ins == Elements(Inputs(connection, n))
  <2>1. /\ Neuron \subseteq Id /\ ChainOK(n) /\ Line(n) /\ last \in Nat /\ last >= 1
        /\ Chain(n) \subseteq Id /\ Chain(n) \intersect Neuron = {}
        /\ \A k \in 1 .. last : /\ Own(n, k) \subseteq Neuron
                                /\ k # last => Link(n, k) \in Chain(n)
                                /\ k = last => Link(n, k) = n
    <3>1. usnn[n].children \in Seq(Id) /\ Chain(n) \intersect Neuron = {}
      BY DEF LineInv, ChainsOK, ChainOK
    <3>2. last \in Nat /\ last >= 1
      BY <3>1
    <3>3. \A k \in 1 .. last : /\ Own(n, k) \subseteq Neuron
                               /\ k # last => Link(n, k) \in Chain(n)
                               /\ k = last => Link(n, k) = n
                               /\ Neuron \subseteq Id /\ ChainOK(n) /\ Line(n)
                               /\ Chain(n) \subseteq Id
      BY LineMembers
    <3> HIDE DEF last
    <3>4. 1 \in 1 .. last
      BY <3>2
    <3> QED BY <3>1, <3>2, <3>3, <3>4
  <2>2. /\ OwnUpTo(n, last) = ins
        /\ \A k \in 1 .. last - 1 : /\ usnn[Link(n, k)].parent = n
                                    /\ usnn[Link(n, k)].outputs = {Link(n, k + 1)}
    BY <2>1 DEF Line
  <2>3. \A c \in Chain(n) : \E k \in 1 .. last - 1 : c = Link(n, k)
    <3>1. /\ Len(usnn[n].children) \in Nat
          /\ DOMAIN usnn[n].children = 1 .. Len(usnn[n].children)
      BY <2>1, LinksOfChain
    <3>2. last - 1 = Len(usnn[n].children)
      BY <3>1
    <3> HIDE DEF last
    <3> QED BY <3>1, <3>2 DEF Chain, Elements, Link
  <2>4. Upstream(n, n) = OwnUpTo(n, last) \union { Link(n, j) : j \in 1 .. last - 1 }
    <3>1. \A k \in 1 .. last :
            Upstream(n, Link(n, k)) = OwnUpTo(n, k) \union { Link(n, j) : j \in 1 .. k - 1 }
      BY <2>1, UpstreamOf
    <3> HIDE DEF last
    <3>2. last \in 1 .. last /\ Link(n, last) = n
      BY <2>1
    <3> QED BY <3>1, <3>2
  <2> HIDE DEF last, ins
  <2>5. \A j \in 1 .. last - 1 : j \in 1 .. last /\ j # last /\ j + 1 \in 1 .. last
    BY <2>1
  <2>6. Upstream(n, n) \ Chain(n) = ins
    <3>1. \A x \in ins : x \notin Chain(n)
      <4>1. ins \subseteq Neuron
        BY <2>1, <2>2 DEF OwnUpTo
      <4> QED BY <2>1, <4>1
    <3> QED BY <2>1, <2>2, <2>4, <2>5, <3>1
  <2>7. ASSUME NEW m \in ins
        PROVE  Cardinality(usnn[m].outputs \intersect ({n} \union Chain(n))) = 1
    <3>1. PICK k \in 1 .. last : m \in Own(n, k)
      BY <2>2 DEF OwnUpTo
    <3>2. m \in Id /\ m \notin Chain(n) /\ m \in Elements(usnn[Link(n, k)].inputs)
      BY <2>1, <3>1 DEF Own
    <3>3. Link(n, k) \in {n} \union Chain(n) /\ {n} \union Chain(n) \subseteq Id
      BY <2>1
    <3>4. EdgesAgree
      BY DEF LineInv, EdgeInv
    <3>5. \A l \in {n} \union Chain(n) : l \in usnn[m].outputs <=> m \in Elements(usnn[l].inputs)
      BY <3>2, <3>3, <3>4 DEF EdgesAgree
    <3>6. \A l \in {n} \union Chain(n) : m \in Elements(usnn[l].inputs) => l = Link(n, k)
      BY <2>1, <3>2, <3>3 DEF ChainOK
    <3>7. usnn[m].outputs \intersect ({n} \union Chain(n)) = {Link(n, k)}
      BY <3>2, <3>3, <3>5, <3>6
    <3> QED BY <3>7, FS_Singleton
  <2>8. ASSUME NEW c \in Chain(n)
        PROVE  usnn[c].parent = n /\ usnn[c].outputs \subseteq {n} \union Chain(n)
    <3>1. PICK k \in 1 .. last - 1 : c = Link(n, k)
      BY <2>3
    <3>2. Link(n, k + 1) \in {n} \union Chain(n)
      BY <2>1, <2>5
    <3> QED BY <2>2, <3>1, <3>2
  <2> QED BY <2>6, <2>7, <2>8 DEF ins
<1> QED BY <1>1, ChainsStayLines, PTL

(* An intermediate neuron fires exactly when one of the original inputs     *)
(* behind it does, over however many links.                                 *)
THEOREM UnrollingKeepsSpikes == Spec => []SpikesKept
<1>1. LineInv => SpikesKept
  <2> SUFFICES ASSUME LineInv, NEW n \in Neuron, NEW c \in Chain(n)
               PROVE  usnn[c].spike_times
                        = UNION { usnn[m].spike_times : m \in Upstream(n, c) \ Chain(n) }
    BY DEF SpikesKept
  <2> DEFINE L == Len(usnn[n].children)
  <2>1. /\ ChainOK(n) /\ Line(n) /\ Neuron \subseteq Id
        /\ Chain(n) \intersect Neuron = {}
    <3>1. ChainOK(n) /\ Line(n)
      BY DEF LineInv, ChainsOK
    <3>2. Neuron \subseteq Id
      BY UnrollAssumption DEF LineInv, EdgeInv, UnrollInv, Neuron
    <3> QED BY <3>1, <3>2 DEF ChainOK
  <2>2. L \in Nat /\ DOMAIN usnn[n].children = 1 .. L /\ \A k \in 1 .. L : Link(n, k) \in Chain(n)
    BY <2>1, LinksOfChain
  <2>3. PICK k \in 1 .. L : c = Link(n, k)
    BY <2>2 DEF Chain, Elements, Link
  <2>4. \A j \in 1 .. L + 1 : Own(n, j) \subseteq Neuron
    BY LineMembers
  <2>5. \A j \in 1 .. L + 1 :
          Upstream(n, Link(n, j)) = OwnUpTo(n, j) \union { Link(n, i) : i \in 1 .. j - 1 }
    BY <2>1, UpstreamOf
  <2>6. \A j \in 1 .. L + 1 - 1 :
          usnn[Link(n, j)].spike_times = UNION { usnn[m].spike_times : m \in OwnUpTo(n, j) }
    BY <2>1 DEF Line
  <2> HIDE DEF L
  <2>7. /\ k \in 1 .. L + 1 /\ k \in 1 .. L + 1 - 1
        /\ \A j \in 1 .. k : j \in 1 .. L + 1
        /\ \A i \in 1 .. k - 1 : i \in 1 .. L
    BY <2>2
  <2>8. OwnUpTo(n, k) \subseteq Neuron
    BY <2>4, <2>7 DEF OwnUpTo
  <2>9. Upstream(n, c) \ Chain(n) = OwnUpTo(n, k)
    BY <2>1, <2>2, <2>3, <2>5, <2>7, <2>8
  <2> QED BY <2>3, <2>6, <2>7, <2>9
<1> QED BY <1>1, ChainsStayLines, PTL

-----------------------------------------------------------------------------
(* The lists of a chain: each link has the link before it in front, and the *)
(* share of the inputs that unrolling gave it, in their order.              *)
LinkList(n, k, ins) ==
  (IF k = 1 THEN <<>> ELSE <<Link(n, k - 1)>>)
    \o SubSeq(ins, First(k - 1), Last(k - 1, Len(ins)))

Shape(n) ==
  LET ins  == Inputs(connection, n)
      last == Len(usnn[n].children) + 1
  IN  IF usnn[n].children = <<>>
      THEN usnn[n].inputs = ins
      ELSE /\ max_fanin # INVALID_FANIN /\ Len(ins) > max_fanin /\ last = NumInter(Len(ins))
           /\ \A k \in 1 .. last : usnn[Link(n, k)].inputs = LinkList(n, k, ins)

ShapeInv == LineInv /\ \A n \in Neuron : Shape(n)

(* At first there are no chains.                                            *)
LEMMA ShapesInitial == Init => ShapeInv
<1> SUFFICES ASSUME Init
             PROVE  ShapeInv
  OBVIOUS
<1>1. \A n \in Neuron : usnn[n].inputs = Inputs(connection, n) /\ usnn[n].children = <<>>
  BY DEF Init, UnrollInit
<1>2. \A n \in Neuron : Shape(n)
  BY <1>1 DEF Shape
<1> QED BY <1>2, LinesInitial DEF ShapeInv

(* One iteration of the loop.                                               *)
LEMMA ShapesStep == ShapeInv /\ UnrollNeuron => ShapeInv'
<1> SUFFICES ASSUME ShapeInv, UnrollNeuron
             PROVE  ShapeInv'
  OBVIOUS
<1>1. LineInv /\ LineInv'
  BY LinesStep DEF ShapeInv
<1>2. EdgeInv /\ UnrollInv /\ connection' = connection /\ max_fanin' = max_fanin /\ idx < NumNeurons
  BY <1>1 DEF LineInv, EdgeInv, UnrollNeuron
<1>3. /\ max_fanin \in Nat \ {0, 1} /\ max_fanin # INVALID_FANIN /\ NumNeurons \in Nat
      /\ idx \in Neuron
  BY <1>2, UnrollAssumption DEF UnrollInv, INVALID_FANIN, Neuron
<1>4. Neuron \subseteq Id
  BY <1>2, <1>3 DEF UnrollInv, Neuron
<1>5. \A m, h : /\ First(m)' = First(m) /\ Last(m, h)' = Last(m, h)
                /\ NumInter(h)' = NumInter(h)
  BY <1>2 DEF First, Last, NumInter
<1>6. CASE Len(usnn[idx].inputs) <= max_fanin
  <2>1. usnn' = usnn
    BY <1>6 DEF UnrollNeuron
  <2>2. \A n : Shape(n)' = Shape(n)
    BY <1>2, <2>1 DEF Shape, Link, NumInter, LinkList, First, Last
  <2> QED BY <1>1, <2>2 DEF ShapeInv
<1>7. CASE ~(Len(usnn[idx].inputs) <= max_fanin)
  <2> DEFINE ins  == usnn[idx].inputs
             base == Cardinality(Id)
             N    == NumInter(Len(ins))
  <2>1. Len(ins) > max_fanin /\ Len(ins) \in Nat
    <3>1. Len(usnn[idx].inputs) \in Nat
      BY <1>2, <1>3, <1>4 DEF EdgeInv
    <3> QED BY <1>3, <1>7, <3>1
  <2>2. /\ N \in Nat /\ N >= 2 /\ base \in Nat
        /\ usnn'[idx].children = [k \in 1 .. N - 1 |-> base + k - 1]
        /\ \A k \in 0 .. N - 1 : usnn'[LinkId(ins, k, base)].inputs = LinkInputs(ins, k, base)
        /\ \A n \in Id \ {idx} : /\ usnn'[n].inputs = usnn[n].inputs
                                 /\ usnn'[n].children = usnn[n].children
    BY <1>2, <2>1, ChainMade
  <2>3. ASSUME NEW n \in Neuron, n # idx
        PROVE  Shape(n)'
    <3>1. Shape(n) /\ n \in Id \ {idx}
      BY <1>4, <2>3 DEF ShapeInv
    <3>2. usnn'[n].children = usnn[n].children /\ usnn'[n].inputs = usnn[n].inputs
      BY <2>2, <3>1
    <3>3. \A k : Link(n, k)' = Link(n, k)
      BY <3>2 DEF Link
    <3>4. \A k \in 1 .. Len(usnn[n].children) + 1 :
            usnn'[Link(n, k)].inputs = usnn[Link(n, k)].inputs
      <4> SUFFICES ASSUME NEW k \in 1 .. Len(usnn[n].children) + 1
                   PROVE  Link(n, k) \in Id \ {idx}
        BY <2>2
      <4> QED BY <1>1, <1>3, <2>3, <3>1, LineMembers
    <3>5. \A k, q : LinkList(n, k, q)' = LinkList(n, k, q')
      BY <1>5, <3>3 DEF LinkList
    <3>6. (Len(usnn[n].children) + 1)' = Len(usnn[n].children) + 1
      BY <3>2
    <3>7. Inputs(connection, n)' = Inputs(connection, n)
      BY <1>2
    <3>8. \A k : LinkList(n, k, Inputs(connection, n))' = LinkList(n, k, Inputs(connection, n))
      BY <3>5, <3>7
    <3> QED BY <1>2, <1>5, <3>1, <3>2, <3>3, <3>4, <3>6, <3>7, <3>8 DEF Shape
  <2>4. ASSUME NEW n \in Neuron, n = idx
        PROVE  Shape(n)'
    <3>1. ins = Inputs(connection', n)
      <4>1. idx >= idx
        BY <1>3 DEF Neuron
      <4> QED BY <1>1, <1>2, <1>3, <2>4, <4>1 DEF LineInv
    <3>2. N - 1 \in Nat \ {0}
      <4> HIDE DEF N
      <4> QED BY <2>2
    <3>3. usnn'[n].children = [k \in 1 .. N - 1 |-> base + k - 1]
      BY <2>2, <2>4
    <3>4. /\ DOMAIN usnn'[n].children = 1 .. N - 1 /\ Len(usnn'[n].children) = N - 1
          /\ usnn'[n].children # <<>>
      <4> HIDE DEF N, base
      <4>1. DOMAIN usnn'[n].children = 1 .. N - 1
        BY <3>3
      <4>2. Len(usnn'[n].children) = N - 1
        BY <3>2, <3>3
      <4> QED BY <3>2, <4>1, <4>2, EmptySeq
    <3>5. \A k \in 1 .. N - 1 : usnn'[n].children[k] = base + k - 1
      <4> HIDE DEF N, base
      <4> QED BY <3>3
    <3>6. \A k \in 1 .. N : Link(n, k)' = LinkId(ins, k - 1, base)
      <4> SUFFICES ASSUME NEW k \in 1 .. N
                   PROVE  Link(n, k)' = LinkId(ins, k - 1, base)
        OBVIOUS
      <4>1. LinkId(ins, k - 1, base) = IF k - 1 = N - 1 THEN n ELSE base + (k - 1)
        BY <2>4 DEF LinkId, N
      <4> HIDE DEF N, base, ins
      <4>2. (k - 1 = N - 1 <=> k = N) /\ (k \in 1 .. N - 1 <=> k # N) /\ base + (k - 1) = base + k - 1
        BY <2>2
      <4>3. Link(n, k)' = IF k \in 1 .. N - 1 THEN usnn'[n].children[k] ELSE n
        BY <3>4 DEF Link
      <4> QED BY <3>5, <4>1, <4>2, <4>3
    <3>7. \A k \in 1 .. N : usnn'[Link(n, k)'].inputs = LinkInputs(ins, k - 1, base)
      <4>1. \A k \in 1 .. N : k - 1 \in 0 .. N - 1
        BY <2>2
      <4> QED BY <2>2, <3>6, <4>1
    <3>8. \A k \in 1 .. N : k # 1 => Link(n, k - 1)' = base + (k - 1) - 1
      <4> SUFFICES ASSUME NEW k \in 1 .. N, k # 1
                   PROVE  Link(n, k - 1)' = base + (k - 1) - 1
        OBVIOUS
      <4> HIDE DEF N, base
      <4>1. k - 1 \in 1 .. N - 1
        BY <2>2
      <4> QED BY <3>4, <3>5, <4>1 DEF Link
    <3> DEFINE list(k) == (IF k = 1 THEN <<>> ELSE <<Link(n, k - 1)'>>)
                            \o SubSeq(ins, First(k - 1), Last(k - 1, Len(ins)))
    <3>9. \A k \in 1 .. N : LinkInputs(ins, k - 1, base) = list(k)
      <4> SUFFICES ASSUME NEW k \in 1 .. N
                   PROVE  LinkInputs(ins, k - 1, base) = list(k)
        OBVIOUS
      <4> HIDE DEF N, base, ins
      <4>1. k - 1 = 0 <=> k = 1
        BY <2>2
      <4>2. k # 1 => <<base + (k - 1) - 1>> = <<Link(n, k - 1)'>>
        BY <3>8
      <4> QED BY <4>1, <4>2 DEF LinkInputs
    <3> PICK z : z = Inputs(connection', n)
      OBVIOUS
    <3>10. \A k : LinkList(n, k, Inputs(connection, n))' = list(k)
      <4>1. \A k : LinkList(n, k, z)'
                     = (IF k = 1 THEN <<>> ELSE <<Link(n, k - 1)'>>)
                         \o SubSeq(z, First(k - 1), Last(k - 1, Len(z)))
        BY <1>5 DEF LinkList
      <4> QED BY <3>1, <4>1 DEF LinkList
    <3>11. (Len(usnn[n].children) + 1)' = N
      <4> HIDE DEF N
      <4> QED BY <2>2, <3>4
    <3>12. \A k \in 1 .. N : usnn'[Link(n, k)'].inputs = LinkList(n, k, Inputs(connection, n))'
      BY <3>7, <3>9, <3>10
    <3>13. NumInter(Len(Inputs(connection, n)))' = N
      BY <1>5, <3>1
    <3>14. Len(Inputs(connection', n)) > max_fanin
      BY <2>1, <3>1
    <3> HIDE DEF ins, N, base, list
    <3> QED BY <1>2, <1>3, <3>4, <3>11, <3>12, <3>13, <3>14 DEF Shape
  <2> QED BY <1>1, <2>3, <2>4 DEF ShapeInv
<1> QED BY <1>6, <1>7

(* The steps of the clustering leave the neurons alone.                     *)
LEMMA ShapesKept == ShapeInv /\ [Next]_vars => ShapeInv'
<1> SUFFICES ASSUME ShapeInv, [Next]_vars
             PROVE  ShapeInv'
  OBVIOUS
<1>1. CASE UnrollNeuron
  BY <1>1, ShapesStep
<1>2. CASE UNCHANGED unrollVars
  <2>1. LineInv' /\ usnn' = usnn /\ connection' = connection /\ max_fanin' = max_fanin
    BY <1>2, LinesKept DEF ShapeInv, unrollVars
  <2>2. \A n : Shape(n)' = Shape(n)
    BY <2>1 DEF Shape, Link, NumInter, LinkList, First, Last
  <2> QED BY <2>1, <2>2 DEF ShapeInv
<1>3. UnrollNeuron \/ UNCHANGED unrollVars
  BY DEF Next, vars, StartNeuron, TryCluster, NewCluster, FindComponents, Connect, Finish
<1> QED BY <1>1, <1>2, <1>3

-----------------------------------------------------------------------------
(* Which link takes which input.                                            *)

(* Of S inputs, the link that takes the one at place h.                     *)
Taker(S, h) == CHOOSE k \in 1 .. NumInter(S) : h \in First(k - 1) .. Last(k - 1, S)

(* Each takes a part of its own, in order, and the last one the last input. *)
LEMMA TakersInOrder ==
  ASSUME max_fanin \in Nat \ {0, 1}, NEW S \in Nat, S > max_fanin
  PROVE  /\ \A h \in 1 .. S : /\ Taker(S, h) \in 1 .. NumInter(S)
                              /\ h \in First(Taker(S, h) - 1) .. Last(Taker(S, h) - 1, S)
         /\ \A k \in 1 .. NumInter(S) :
              /\ First(k - 1) \in Nat \ {0} /\ Last(k - 1, S) \in Nat /\ Last(k - 1, S) <= S
              /\ \A h \in First(k - 1) .. Last(k - 1, S) : h \in 1 .. S /\ Taker(S, h) = k
         /\ \A h, i \in 1 .. S : h <= i => Taker(S, h) <= Taker(S, i)
         /\ Taker(S, S) = NumInter(S)
<1> DEFINE N == NumInter(S)
<1>1. N \in Nat /\ N >= 2
  BY AtLeastTwoLinks
<1>2. \A k \in 1 .. N : k - 1 \in 0 .. N - 1
  <2> HIDE DEF N
  <2> QED BY <1>1
<1>3. \A k \in 1 .. N : First(k - 1) \in Nat \ {0} /\ Last(k - 1, S) \in Nat /\ Last(k - 1, S) <= S
  BY <1>2, LinkLength
<1>4. ASSUME NEW h \in 1 .. S
      PROVE  Taker(S, h) \in 1 .. N /\ h \in First(Taker(S, h) - 1) .. Last(Taker(S, h) - 1, S)
  <2>1. PICK l \in 0 .. N - 1 : h \in First(l) .. Last(l, S)
    BY LinksShare
  <2>2. l + 1 \in 1 .. N /\ (l + 1) - 1 = l
    <3> HIDE DEF N
    <3> QED BY <1>1
  <2>3. \E k \in 1 .. N : h \in First(k - 1) .. Last(k - 1, S)
    BY <2>1, <2>2
  <2> QED BY <2>3 DEF Taker
<1>5. \A k, l \in 1 .. N : k < l => Last(k - 1, S) < First(l - 1)
  <2> SUFFICES ASSUME NEW k \in 1 .. N, NEW l \in 1 .. N, k < l
               PROVE  Last(k - 1, S) < First(l - 1)
    OBVIOUS
  <2>1. k - 1 \in 0 .. N - 1 /\ l - 1 \in 0 .. N - 1
    BY <1>2
  <2>2. k - 1 < l - 1
    <3> HIDE DEF N
    <3> QED BY <1>1
  <2> QED BY <2>1, <2>2, LinksApart
<1>6. \A h, i \in 1 .. S : h <= i => Taker(S, h) <= Taker(S, i)
  <2> SUFFICES ASSUME NEW h \in 1 .. S, NEW i \in 1 .. S, h <= i, ~(Taker(S, h) <= Taker(S, i))
               PROVE  FALSE
    OBVIOUS
  <2>1. PICK k \in 1 .. N, l \in 1 .. N :
          /\ k = Taker(S, h) /\ l = Taker(S, i)
          /\ h \in First(k - 1) .. Last(k - 1, S) /\ i \in First(l - 1) .. Last(l - 1, S)
    BY <1>4
  <2>2. l < k
    <3> HIDE DEF N
    <3> QED BY <1>1, <2>1
  <2>3. Last(l - 1, S) < First(k - 1)
    BY <1>5, <2>2
  <2>4. /\ First(k - 1) \in Nat /\ Last(k - 1, S) \in Nat
        /\ First(l - 1) \in Nat /\ Last(l - 1, S) \in Nat
    BY <1>3
  <2> HIDE DEF N
  <2> QED BY <2>1, <2>3, <2>4
<1>7. ASSUME NEW k \in 1 .. N, NEW h \in First(k - 1) .. Last(k - 1, S)
      PROVE  h \in 1 .. S /\ Taker(S, h) = k
  <2>1. First(k - 1) \in Nat \ {0} /\ Last(k - 1, S) \in Nat /\ Last(k - 1, S) <= S
    BY <1>3
  <2>2. h \in 1 .. S
    BY <2>1
  <2>3. PICK l \in 1 .. N : l = Taker(S, h) /\ h \in First(l - 1) .. Last(l - 1, S)
    BY <1>4, <2>2
  <2>4. First(l - 1) \in Nat /\ Last(l - 1, S) \in Nat
    BY <1>3
  <2>5. ~(k < l) /\ ~(l < k)
    <3>1. k < l => Last(k - 1, S) < First(l - 1)
      BY <1>5
    <3>2. l < k => Last(l - 1, S) < First(k - 1)
      BY <1>5
    <3> HIDE DEF N
    <3> QED BY <2>1, <2>3, <2>4, <3>1, <3>2
  <2>6. k = l
    <3> HIDE DEF N
    <3> QED BY <1>1, <2>5
  <2> QED BY <2>2, <2>3, <2>6
<1>8. Taker(S, S) = N
  <2>1. First(N - 1) <= S /\ Last(N - 1, S) = S
    BY LinksApart
  <2>2. N \in 1 .. N
    <3> HIDE DEF N
    <3> QED BY <1>1
  <2>3. First(N - 1) \in Nat
    BY <1>3, <2>2
  <2>4. S \in First(N - 1) .. Last(N - 1, S)
    <3> HIDE DEF N
    <3> QED BY <2>1, <2>3
  <2> QED BY <1>7, <2>2, <2>4
<1> QED BY <1>3, <1>4, <1>6, <1>7, <1>8

(* As many values as a list without repetitions is long.                    *)
LEMMA Enumerated ==
  ASSUME NEW i \in Nat, NEW q, \A l, m \in 1 .. i : q[l] = q[m] => l = m
  PROVE  Cardinality({ q[m] : m \in 1 .. i }) = i
<1> DEFINE V == { q[m] : m \in 1 .. i }
           f == [m \in 1 .. i |-> q[m]]
<1>1. f \in Injection(1 .. i, V)
  BY DEF Injection, IsInjective
<1>2. f \in Surjection(1 .. i, V)
  BY DEF Surjection
<1>3. f \in Bijection(1 .. i, V)
  BY <1>1, <1>2 DEF Bijection
<1> HIDE DEF f, V
<1>4. ExistsBijection(1 .. i, V)
  BY <1>3 DEF ExistsBijection
<1>5. IsFiniteSet(1 .. i) /\ Cardinality(1 .. i) = i
  BY FS_Interval
<1>6. Cardinality(V) = i
  BY <1>4, <1>5, FS_Bijection
<1> QED BY <1>6 DEF V

(* The list of link k: the link before it in front, then its share, in      *)
(* order.                                                                   *)
Listing(n, k, ins) ==
  LET h == IF k = 1 THEN 0 ELSE 1
      a == First(k - 1)
      z == Last(k - 1, Len(ins))
      t == LinkList(n, k, ins)
  IN  /\ Len(t) \in Nat /\ DOMAIN t = 1 .. Len(t)
      /\ \A j \in 1 .. Len(t) :
           IF j <= h THEN t[j] = Link(n, k - 1)
           ELSE a + (j - h) - 1 \in a .. z /\ t[j] = ins[a + (j - h) - 1]
      /\ \A i \in a .. z : i - a + 1 + h \in 1 .. Len(t) /\ t[i - a + 1 + h] = ins[i]

(* What the list of a link holds, place by place.                           *)
LEMMA ListOfLink ==
  ASSUME NEW ins \in Seq(Id), NEW k, NEW n, Link(n, k - 1) \in Id,
         First(k - 1) \in Nat \ {0}, Last(k - 1, Len(ins)) \in Nat, Last(k - 1, Len(ins)) <= Len(ins)
  PROVE  Listing(n, k, ins)
<1> DEFINE h == IF k = 1 THEN 0 ELSE 1
           a == First(k - 1)
           z == Last(k - 1, Len(ins))
           t == LinkList(n, k, ins)
           sub == SubSeq(ins, a, z)
           front == IF k = 1 THEN <<>> ELSE <<Link(n, k - 1)>>
           len == IF a <= z THEN z - a + 1 ELSE 0
<1>1. a \in Nat \ {0} /\ z \in Nat /\ z <= Len(ins) /\ Len(ins) \in Nat
  OBVIOUS
<1>2. \A j \in a .. z : ins[j] \in Id
  <2> HIDE DEF a, z
  <2> QED BY <1>1, ElementOfSeq
<1> HIDE DEF a, z
<1>3. /\ sub \in Seq(Id) /\ Len(sub) = len
      /\ \A i \in 1 .. z - a + 1 : sub[i] = ins[a + i - 1]
  BY <1>1, <1>2, SubSeqProperties
<1>4. front \in Seq(Id) /\ Len(front) = h /\ (h # 0 => front[1] = Link(n, k - 1))
  <2>1. CASE k = 1
    BY <2>1
  <2>2. CASE k # 1
    BY <2>2
  <2> QED BY <2>1, <2>2
<1>5. h \in {0, 1} /\ len \in Nat /\ (len > 0 => len = z - a + 1) /\ (a <= z => len = z - a + 1)
  BY <1>1
<1>6. t = front \o sub
  BY DEF LinkList, a, z
<1> HIDE DEF h, front, sub, len, t
<1>7. /\ t \in Seq(Id) /\ Len(t) = h + len
      /\ \A i \in 1 .. h + len : t[i] = IF i <= h THEN front[i] ELSE sub[i - h]
  BY SMTT(30), <1>3, <1>4, <1>6, Concatenated
<1>8. Len(t) \in Nat /\ DOMAIN t = 1 .. Len(t)
  BY <1>7
<1>9. ASSUME NEW j \in 1 .. Len(t)
      PROVE  IF j <= h THEN t[j] = Link(n, k - 1)
             ELSE a + (j - h) - 1 \in a .. z /\ t[j] = ins[a + (j - h) - 1]
  <2>1. CASE j <= h
    <3>1. j = 1 /\ h # 0
      BY <1>5, <1>7, <2>1
    <3> QED BY <1>4, <1>7, <2>1, <3>1
  <2>2. CASE ~(j <= h)
    <3>1. j - h \in 1 .. z - a + 1 /\ a + (j - h) - 1 \in a .. z
      BY <1>1, <1>5, <1>7, <2>2
    <3>2. t[j] = sub[j - h]
      BY <1>7, <2>2
    <3> QED BY <1>3, <2>2, <3>1, <3>2
  <2> QED BY <2>1, <2>2
<1>10. ASSUME NEW i \in a .. z
       PROVE  i - a + 1 + h \in 1 .. Len(t) /\ t[i - a + 1 + h] = ins[i]
  <2> DEFINE j == i - a + 1 + h
  <2>1. j \in 1 .. Len(t) /\ ~(j <= h) /\ a + (j - h) - 1 = i
    BY <1>1, <1>5, <1>7
  <2> HIDE DEF j
  <2>2. t[j] = ins[i]
    BY <1>9, <2>1
  <2> QED BY <2>1, <2>2 DEF j
<1> QED BY <1>8, <1>9, <1>10 DEF Listing, h, a, z, t

(* What is packed for an unrolled neuron are its inputs, in their order.    *)
LEMMA RawInOrder ==
  ASSUME ShapeInv, NEW n \in Neuron, usnn[n].children # <<>>
  PROVE  LET ins == Inputs(connection, n) IN
           /\ InputsToPack(n) = ins
           /\ \A i \in 1 .. Len(ins) : Outs(n, ins[i]) = {Link(n, Taker(Len(ins), i))}
<1> DEFINE ins == Inputs(connection, n)
           S   == Len(ins)
           N   == NumInter(S)
           at  == RawPlaces(n)
           h(k) == IF k = 1 THEN 0 ELSE 1
           q == [i \in 1 .. S |-> LET k == Taker(S, i) IN <<k, i - First(k - 1) + 1 + h(k)>>]
<1>1. /\ ins \in Seq(Neuron) /\ S \in Nat /\ DOMAIN ins = 1 .. S
      /\ max_fanin \in Nat \ {0, 1} /\ S > max_fanin
      /\ Len(usnn[n].children) + 1 = N
      /\ \A k \in 1 .. N : usnn[Link(n, k)].inputs = LinkList(n, k, ins)
  <2>1. Shape(n) /\ connection \in Connections /\ max_fanin \in (Nat \ {0, 1}) \union {INVALID_FANIN}
    BY DEF ShapeInv, LineInv, EdgeInv, UnrollInv
  <2>2. ins \in Seq(Neuron)
    BY <2>1, InputsRead
  <2>3. /\ max_fanin # INVALID_FANIN /\ S > max_fanin /\ Len(usnn[n].children) + 1 = N
        /\ \A k \in 1 .. N : usnn[Link(n, k)].inputs = LinkList(n, k, ins)
    BY <2>1 DEF Shape
  <2> HIDE DEF ins
  <2> QED BY <2>1, <2>2, <2>3
<1>2. /\ ChainOK(n) /\ Line(n) /\ Neuron \subseteq Id /\ \A m \in Id : usnn[m].inputs \in Seq(Id)
  BY UnrollAssumption DEF ShapeInv, LineInv, ChainsOK, EdgeInv, UnrollInv, Neuron
<1>3. /\ N \in Nat /\ N >= 2
      /\ \A k \in 1 .. N : Link(n, k) \in Chain(n) \union {n} /\ Link(n, k) \in Id
      /\ \A k \in 1 .. N : k # 1 => Link(n, k - 1) \in Chain(n)
      /\ Chain(n) \intersect Neuron = {}
  <2>1. /\ Len(usnn[n].children) \in Nat /\ Chain(n) \subseteq Id
        /\ \A k \in 1 .. Len(usnn[n].children) : Link(n, k) \in Chain(n)
        /\ Link(n, Len(usnn[n].children) + 1) = n
    BY <1>2, LinksOfChain
  <2>2. N \in Nat /\ N >= 2
    BY <1>1, AtLeastTwoLinks
  <2> HIDE DEF N
  <2> QED BY <1>1, <1>2, <2>1, <2>2 DEF ChainOK
<1> HIDE DEF ins
<1>4. /\ \A i \in 1 .. S : /\ Taker(S, i) \in 1 .. N
                            /\ i \in First(Taker(S, i) - 1) .. Last(Taker(S, i) - 1, S)
      /\ \A k \in 1 .. N :
           /\ First(k - 1) \in Nat \ {0} /\ Last(k - 1, S) \in Nat /\ Last(k - 1, S) <= S
           /\ \A i \in First(k - 1) .. Last(k - 1, S) : i \in 1 .. S /\ Taker(S, i) = k
      /\ \A i, j \in 1 .. S : i <= j => Taker(S, i) <= Taker(S, j)
  BY <1>1, TakersInOrder
<1> HIDE DEF S, N
<1>5. \A k \in 1 .. N : LET t == LinkList(n, k, ins) IN
        /\ Len(t) \in Nat /\ DOMAIN t = 1 .. Len(t)
        /\ \A j \in 1 .. Len(t) :
             IF j <= h(k) THEN t[j] = Link(n, k - 1)
             ELSE /\ First(k - 1) + (j - h(k)) - 1 \in First(k - 1) .. Last(k - 1, S)
                  /\ t[j] = ins[First(k - 1) + (j - h(k)) - 1]
        /\ \A i \in First(k - 1) .. Last(k - 1, S) :
             /\ i - First(k - 1) + 1 + h(k) \in 1 .. Len(t)
             /\ t[i - First(k - 1) + 1 + h(k)] = ins[i]
  <2> SUFFICES ASSUME NEW k \in 1 .. N
               PROVE  LET t == LinkList(n, k, ins) IN
        /\ Len(t) \in Nat /\ DOMAIN t = 1 .. Len(t)
        /\ \A j \in 1 .. Len(t) :
             IF j <= h(k) THEN t[j] = Link(n, k - 1)
             ELSE /\ First(k - 1) + (j - h(k)) - 1 \in First(k - 1) .. Last(k - 1, S)
                  /\ t[j] = ins[First(k - 1) + (j - h(k)) - 1]
        /\ \A i \in First(k - 1) .. Last(k - 1, S) :
             /\ i - First(k - 1) + 1 + h(k) \in 1 .. Len(t)
             /\ t[i - First(k - 1) + 1 + h(k)] = ins[i]
    OBVIOUS
  <2>1. Link(n, k - 1) \in Id
    <3>1. CASE k = 1
      <4>1. usnn[n].children \in Seq(Id)
        BY <1>2 DEF ChainOK
      <4>2. k - 1 \notin DOMAIN usnn[n].children
        BY <3>1, <4>1
      <4> QED BY <1>2, <4>2 DEF Link
    <3>2. CASE k # 1
      <4>1. k - 1 \in 1 .. N
        BY <1>3, <3>2
      <4> QED BY <1>3, <4>1
    <3> QED BY <3>1, <3>2
  <2>2. ins \in Seq(Id)
    BY <1>1, <1>2, SeqMonotonic
  <2>3. First(k - 1) \in Nat \ {0} /\ Last(k - 1, Len(ins)) \in Nat /\ Last(k - 1, Len(ins)) <= Len(ins)
    BY <1>4 DEF S
  <2> DEFINE g == IF k = 1 THEN 0 ELSE 1
             a == First(k - 1)
             z == Last(k - 1, Len(ins))
             t == LinkList(n, k, ins)
  <2>4. /\ Len(t) \in Nat /\ DOMAIN t = 1 .. Len(t)
        /\ \A j \in 1 .. Len(t) :
             IF j <= g THEN t[j] = Link(n, k - 1)
             ELSE a + (j - g) - 1 \in a .. z /\ t[j] = ins[a + (j - g) - 1]
        /\ \A i \in a .. z : i - a + 1 + g \in 1 .. Len(t) /\ t[i - a + 1 + g] = ins[i]
    <3>1. /\ First(k - 1) \in Nat \ {0} /\ Last(k - 1, Len(ins)) \in Nat
          /\ Last(k - 1, Len(ins)) <= Len(ins)
      BY <2>3
    <3>2. Listing(n, k, ins)
      BY <2>1, <2>2, <3>1, ListOfLink
    <3> QED BY <3>2 DEF Listing
  <2>5. h(k) = g /\ z = Last(k - 1, S)
    BY DEF S
  <2> HIDE DEF g, z, t, h
  <2>6. /\ Len(t) \in Nat /\ DOMAIN t = 1 .. Len(t)
        /\ \A j \in 1 .. Len(t) :
             IF j <= h(k) THEN t[j] = Link(n, k - 1)
             ELSE /\ First(k - 1) + (j - h(k)) - 1 \in First(k - 1) .. Last(k - 1, S)
                  /\ t[j] = ins[First(k - 1) + (j - h(k)) - 1]
        /\ \A i \in First(k - 1) .. Last(k - 1, S) :
             i - First(k - 1) + 1 + h(k) \in 1 .. Len(t) /\ t[i - First(k - 1) + 1 + h(k)] = ins[i]
    BY <2>4, <2>5
  <2> QED BY <2>6 DEF t
<1>6. \A i \in 1 .. S : ins[i] \in Neuron \ Chain(n)
  BY <1>1, <1>3
<1>7. ASSUME NEW i \in 1 .. S
      PROVE  /\ q[i] \in at /\ RawInput(n, q[i]) = ins[i]
             /\ q[i] = <<Taker(S, i), i - First(Taker(S, i) - 1) + 1 + h(Taker(S, i))>>
             /\ \E k \in 1 .. N, j \in Nat : q[i] = <<k, j>>
             /\ Outs(n, ins[i]) = {Link(n, Taker(S, i))}
  <2> PICK k \in 1 .. N : k = Taker(S, i)
    BY <1>4
  <2> DEFINE j == i - First(k - 1) + 1 + h(k)
             t == usnn[Link(n, k)].inputs
  <2>1. q[i] = <<k, j>>
    OBVIOUS
  <2>2. i \in First(k - 1) .. Last(k - 1, S)
    BY <1>4
  <2> HIDE DEF q, h
  <2>3. j \in 1 .. Len(t) /\ t[j] = ins[i] /\ DOMAIN t = 1 .. Len(t) /\ Len(t) \in Nat
    BY <1>1, <1>5, <2>2
  <2>4. RawInput(n, <<k, j>>) = t[j]
    BY DEF RawInput
  <2> HIDE DEF j
  <2>5. t[j] \in Elements(t) \ Chain(n)
    BY <1>6, <2>3 DEF Elements
  <2>6. Outs(n, ins[i]) = {Link(n, k)}
    <3>1. Link(n, k) \in Chain(n) \union {n}
      BY <1>3
    <3> QED BY <1>2, <2>3, <2>5, <3>1, LinkAnswers
  <2>7. <<k, j>> \in at
    <3>1. j \in Nat
      BY <2>3
    <3>2. usnn[Link(n, k)].inputs[j] \notin Chain(n)
      BY <2>5
    <3> QED BY <1>1, <1>2, <2>3, <3>1, <3>2, PlacesFinite
  <2>8. j \in Nat
    BY <2>3
  <2>9. q[i] = <<k, i - First(k - 1) + 1 + h(k)>>
    BY <2>1 DEF j
  <2> QED BY <2>1, <2>3, <2>4, <2>6, <2>7, <2>8, <2>9
<1>8. ASSUME NEW p \in at
      PROVE  \E i \in 1 .. S : p = q[i]
  <2>1. PICK k \in 1 .. N, j \in Nat :
           /\ p = <<k, j>> /\ j \in 1 .. Len(usnn[Link(n, k)].inputs)
           /\ usnn[Link(n, k)].inputs[j] \notin Chain(n)
    BY <1>1, <1>2, PlacesFinite
  <2> DEFINE t == LinkList(n, k, ins)
             i == First(k - 1) + (j - h(k)) - 1
  <2>2. usnn[Link(n, k)].inputs = t
    BY <1>1
  <2>3. ~(j <= h(k))
    <3> SUFFICES ASSUME j <= h(k) PROVE FALSE
      OBVIOUS
    <3>1. k # 1
      BY <2>1
    <3>2. t[j] = Link(n, k - 1)
      BY <1>5, <2>1, <2>2
    <3> QED BY <1>3, <2>1, <2>2, <3>1, <3>2
  <2>4. i \in First(k - 1) .. Last(k - 1, S)
    BY <1>5, <2>1, <2>2, <2>3
  <2>5. i \in 1 .. S /\ Taker(S, i) = k
    BY <1>4, <2>4
  <2>6. First(k - 1) \in Nat /\ h(k) \in Nat
    BY <1>4
  <2>7. i - First(k - 1) + 1 + h(k) = j
    <3> HIDE DEF h
    <3> QED BY <2>6
  <2> HIDE DEF i, h
  <2>8. q[i] = <<k, j>>
    BY <2>5, <2>7
  <2> QED BY <2>1, <2>5, <2>8
<1>9. \A i, j \in 1 .. S : i < j => NotAfter(q[i], q[j]) /\ q[i] # q[j] /\ ~NotAfter(q[j], q[i])
  <2> SUFFICES ASSUME NEW i \in 1 .. S, NEW j \in 1 .. S, i < j
               PROVE  NotAfter(q[i], q[j]) /\ q[i] # q[j] /\ ~NotAfter(q[j], q[i])
    OBVIOUS
  <2> PICK k \in 1 .. N : k = Taker(S, i)
    BY <1>4
  <2> PICK l \in 1 .. N : l = Taker(S, j)
    BY <1>4
  <2>1. k <= l
    BY <1>1, <1>4
  <2>2. First(k - 1) \in Nat /\ First(l - 1) \in Nat /\ h(k) \in Nat /\ h(l) \in Nat
    BY <1>4
  <2> HIDE DEF q, h
  <2>3. /\ q[i] = <<k, i - First(k - 1) + 1 + h(k)>>
        /\ q[j] = <<l, j - First(l - 1) + 1 + h(l)>>
    BY <1>7
  <2>4. /\ q[i][1] = k /\ q[i][2] = i - First(k - 1) + 1 + h(k)
        /\ q[j][1] = l /\ q[j][2] = j - First(l - 1) + 1 + h(l)
    BY <2>3
  <2>5. CASE k = l
    <3>1. q[i][2] < q[j][2] /\ q[i][2] \in Int /\ q[j][2] \in Int /\ q[i][1] = q[j][1]
      BY <1>1, <2>2, <2>4, <2>5
    <3> QED BY <1>3, <2>4, <3>1 DEF NotAfter
  <2>6. CASE k # l
    <3>1. k < l
      BY <1>3, <2>1, <2>6
    <3> QED BY <1>3, <2>4, <3>1 DEF NotAfter
  <2> QED BY <2>5, <2>6
<1>10. ASSUME NEW i \in 1 .. S
       PROVE  Cardinality(UpTo(at, q[i])) = i
  <2>1. i \in Nat
    BY <1>1
  <2>2. UpTo(at, q[i]) = { q[m] : m \in 1 .. i }
    <3> HIDE DEF q, at
    <3>1. ASSUME NEW p \in UpTo(at, q[i])
          PROVE  p \in { q[m] : m \in 1 .. i }
      <4>1. PICK m \in 1 .. S : p = q[m]
        BY <1>8 DEF UpTo
      <4>2. NotAfter(q[m], q[i])
        BY <4>1 DEF UpTo
      <4>3. ~(i < m)
        BY <1>9, <4>2
      <4>4. m \in 1 .. i
        BY <1>1, <4>3
      <4> QED BY <4>1, <4>4
    <3>2. ASSUME NEW m \in 1 .. i
          PROVE  q[m] \in UpTo(at, q[i])
      <4>1. m \in 1 .. S /\ (m < i \/ m = i)
        BY <1>1
      <4>2. q[m] \in at
        BY <1>7, <4>1
      <4>3. NotAfter(q[i], q[i])
        <5>1. PICK k \in 1 .. N, j \in Nat : q[i] = <<k, j>>
          BY <1>7
        <5> QED BY <1>3, <5>1 DEF NotAfter
      <4>4. NotAfter(q[m], q[i])
        BY <1>9, <4>1, <4>3
      <4> QED BY <4>2, <4>4 DEF UpTo
    <3> QED BY <3>1, <3>2
  <2>3. \A l, m \in 1 .. i : q[l] = q[m] => l = m
    <3> HIDE DEF q
    <3> SUFFICES ASSUME NEW l \in 1 .. i, NEW m \in 1 .. i, q[l] = q[m], l # m
                 PROVE  FALSE
      OBVIOUS
    <3>1. l \in 1 .. S /\ m \in 1 .. S /\ (l < m \/ m < l)
      BY <1>1
    <3> QED BY <1>9, <3>1
  <2> HIDE DEF q
  <2> QED BY <2>1, <2>2, <2>3, Enumerated
<1>11. Cardinality(at) = S
  <2>1. S \in 1 .. S
    BY <1>1
  <2>2. UpTo(at, q[S]) = at
    <3> HIDE DEF q, at
    <3> SUFFICES ASSUME NEW p \in at PROVE NotAfter(p, q[S])
      BY DEF UpTo
    <3>1. PICK m \in 1 .. S : p = q[m]
      BY <1>8
    <3>2. m < S \/ m = S
      BY <1>1
    <3>3. PICK k \in 1 .. N, j \in Nat : q[S] = <<k, j>>
      BY <1>7, <2>1
    <3>4. NotAfter(q[S], q[S])
      BY <1>3, <3>3 DEF NotAfter
    <3> QED BY <1>9, <2>1, <3>1, <3>2, <3>4
  <2> QED BY <1>10, <2>1, <2>2
<1>12. \A i \in 1 .. S : RawInput(n, CHOOSE p \in at : Cardinality(UpTo(at, p)) = i) = ins[i]
  <2> SUFFICES ASSUME NEW i \in 1 .. S
               PROVE  RawInput(n, CHOOSE p \in at : Cardinality(UpTo(at, p)) = i) = ins[i]
    OBVIOUS
  <2> HIDE DEF q, at
  <2>1. q[i] \in at /\ Cardinality(UpTo(at, q[i])) = i
    BY <1>7, <1>10
  <2>2. \A p \in at : Cardinality(UpTo(at, p)) = i => p = q[i]
    BY <1>8, <1>10
  <2>3. (CHOOSE p \in at : Cardinality(UpTo(at, p)) = i) = q[i]
    BY <2>1, <2>2
  <2> QED BY <1>7, <2>3
<1>13. InputsToPack(n) = ins
  <2>1. InputsToPack(n) = [i \in 1 .. S |-> RawInput(n, CHOOSE p \in at : Cardinality(UpTo(at, p)) = i)]
    BY <1>11 DEF InputsToPack, UpTo
  <2>2. ins = [i \in 1 .. S |-> ins[i]]
    BY <1>1
  <2> HIDE DEF at
  <2> QED BY <1>12, <2>1, <2>2
<1>14. \A i \in 1 .. S : Outs(n, ins[i]) = {Link(n, Taker(S, i))}
  BY <1>7
<1> QED BY <1>13, <1>14 DEF ins, S

-----------------------------------------------------------------------------
(* How far the packing of a neuron has come.                                *)

(* A chain of n ends in n itself.                                           *)
LastLink(n) == Len(usnn[n].children) + 1

(* The number of the link that takes the input at place h of those that are *)
(* packed for n.                                                            *)
TakerOf(n, h) ==
  IF usnn[n].children = <<>> THEN 1 ELSE Taker(Len(InputsToPack(n)), h)

(* A link ends with the input at place h.                                   *)
EndsLink(n, h) ==
  \A i \in 1 .. Len(InputsToPack(n)) : h < i => TakerOf(n, h) < TakerOf(n, i)

(* When chunks end with a link: no unrolling, or one of the two fan-ins.    *)
Whole == max_fanin = INVALID_FANIN \/ WholeLinks

(* The neurons some cluster computes.                                       *)
Computed(m) == \E c \in Cid : m \in clusters[c].outputs

(* end[k] is the place of the last input in the last chunk that computed    *)
(* link k, 0 if there is none.  A link receives the inputs up to its place, *)
(* directly or by a link before it.                                         *)
Reaches(n, end) ==
  LET s == InputsToPack(n)
      L == LastLink(n)
  IN  /\ end \in [1 .. L -> 0 .. Len(s)]
      /\ \A k \in 1 .. L : Computed(Link(n, k)) => end[k] # 0
      /\ \A k \in 1 .. L : end[k] # 0 =>
           TakerOf(n, end[k]) = k /\ (Whole => EndsLink(n, end[k]))
      /\ \A k \in 1 .. L : \A h \in 1 .. end[k] :
           \/ s[h] \in InputsWith(Link(n, k))
           \/ \E j \in 1 .. k - 1 : Link(n, j) \in InputsWith(Link(n, k)) /\ h <= end[j]

(* What is pending: the inputs behind place i, and in front of them, if the *)
(* last chunk computed an intermediate link, that link (g is 1).            *)
Remains(n, end, i, g) ==
  LET s == InputsToPack(n)
      L == LastLink(n)
  IN  /\ \A k \in 1 .. L : end[k] <= i
      /\ Len(pending) = g + (Len(s) - i)
      /\ \A h \in i + 1 .. Len(s) : pending[g + (h - i)] = s[h]
      /\ IF g = 0 THEN end[L] = i
                  ELSE i # 0 /\ \E k \in 1 .. L - 1 : end[k] = i /\ pending[1] = Link(n, k)

(* A neuron that the loop has come to, and one that it has passed.          *)
Progress(n) ==
  \E end \in [1 .. LastLink(n) -> 0 .. Len(InputsToPack(n))] :
    /\ Reaches(n, end)
    /\ IF n = cur THEN \E i \in 0 .. Len(InputsToPack(n)), g \in {0, 1} : Remains(n, end, i, g)
                  ELSE end[LastLink(n)] = Len(InputsToPack(n))

(* Clusters compute links of neurons that the loop has come to; none before *)
(* unrolling is over.                                                       *)
Started ==
  /\ \A c \in Cid : \A o \in clusters[c].outputs \intersect Id :
       \E m \in Neuron \ todo : \E k \in 1 .. LastLink(m) : o = Link(m, k)
  /\ idx < NumNeurons =>
       phase = "pack" /\ todo = Neuron /\ \A c \in Cid : clusters[c].outputs = {}
  /\ pending # <<>> => cur \notin todo

(* The invariant of the packing.                                            *)
ProgressInv ==
  /\ ShapeInv /\ PackInv /\ Started /\ OneCluster
  /\ \A n \in Neuron \ todo : Progress(n)

-----------------------------------------------------------------------------
(* The order of the inputs that are packed.                                 *)
Ordered(n) ==
  LET s == InputsToPack(n)
      L == LastLink(n)
  IN  /\ s \in Seq(Neuron) /\ Len(s) \in Nat /\ DOMAIN s = 1 .. Len(s)
      /\ \A i, j \in 1 .. Len(s) : s[i] = s[j] => i = j
      /\ L \in Nat \ {0} /\ Link(n, L) = n
      /\ \A k \in 1 .. L - 1 : Link(n, k) \in Chain(n) /\ Link(n, k) \in Id \ Neuron
      /\ \A j, k \in 1 .. L : Link(n, j) = Link(n, k) => j = k
      /\ \A h \in 1 .. Len(s) : /\ TakerOf(n, h) \in 1 .. L
                                /\ Outs(n, s[h]) = {Link(n, TakerOf(n, h))}
      /\ \A h, i \in 1 .. Len(s) : h <= i => TakerOf(n, h) <= TakerOf(n, i)
      /\ Len(s) # 0 => TakerOf(n, Len(s)) = L

(* A neuron without a chain gives no more inputs than fit into a crossbar.  *)
LEMMA OneLink ==
  ASSUME ShapeInv, crossbar_size \in Nat, NEW n \in Neuron, usnn[n].children = <<>>
  PROVE  LET ins == Inputs(connection, n)
             s   == InputsToPack(n)
             z   == IF Len(ins) < crossbar_size THEN Len(ins) ELSE crossbar_size
         IN  /\ ins \in Seq(Neuron) /\ Len(ins) \in Nat /\ DOMAIN ins = 1 .. Len(ins)
             /\ usnn[n].inputs = ins
             /\ s \in Seq(Neuron) /\ Len(s) = z /\ DOMAIN s = 1 .. z /\ z \in Nat /\ z <= Len(ins)
             /\ \A i \in 1 .. z : s[i] = ins[i] /\ Outs(n, s[i]) = {n}
<1> DEFINE ins == Inputs(connection, n)
           s   == InputsToPack(n)
           z   == IF Len(ins) < crossbar_size THEN Len(ins) ELSE crossbar_size
<1>1. ins \in Seq(Neuron) /\ usnn[n].inputs = ins /\ connection \in Connections
  BY InputsRead DEF ShapeInv, LineInv, Shape
<1>2. ChainOK(n) /\ Neuron \subseteq Id /\ Chain(n) = {}
  BY UnrollAssumption, NoChain DEF ShapeInv, LineInv, ChainsOK, EdgeInv, UnrollInv, Neuron
<1>3. s = SubSeq(ins, 1, z)
  BY <1>1 DEF InputsToPack
<1> HIDE DEF ins
<1>4. Len(ins) \in Nat /\ DOMAIN ins = 1 .. Len(ins)
  BY <1>1
<1>5. z \in Nat /\ z <= Len(ins)
  BY <1>4
<1> HIDE DEF z
<1>6. \A i \in 1 .. z : ins[i] \in Neuron
  BY <1>1, <1>4, <1>5, ElementOfSeq
<1> HIDE DEF s
<1>7. /\ s \in Seq(Neuron) /\ Len(s) = z
      /\ \A i \in 1 .. z : s[i] = ins[i]
  BY <1>3, <1>5, <1>6, SubSeqProperties
<1>8. DOMAIN s = 1 .. z
  BY <1>7
<1>9. ASSUME NEW i \in 1 .. z
      PROVE  Outs(n, s[i]) = {n}
  <2>1. i \in DOMAIN ins
    BY <1>4, <1>5
  <2>2. ins[i] \in Elements(usnn[n].inputs) \ Chain(n)
    BY <1>1, <1>2, <2>1 DEF Elements
  <2>3. Outs(n, ins[i]) = {n}
    BY <1>2, <2>2, LinkAnswers
  <2> QED BY <1>7, <2>3
<1> QED BY <1>1, <1>4, <1>5, <1>7, <1>8, <1>9 DEF ins, s, z

(* The inputs to pack come link after link, each once.                      *)
LEMMA PlacesOrdered ==
  ASSUME ShapeInv, crossbar_size \in Nat, NEW n \in Neuron
  PROVE  Ordered(n)
<1> DEFINE s == InputsToPack(n)
           L == LastLink(n)
           ins == Inputs(connection, n)
<1>1. /\ ChainOK(n) /\ Line(n) /\ Neuron \subseteq Id /\ connection \in Connections /\ LineInv
      /\ max_fanin \in (Nat \ {0, 1}) \union {INVALID_FANIN}
  BY UnrollAssumption DEF ShapeInv, LineInv, ChainsOK, EdgeInv, UnrollInv, Neuron
<1>2. /\ L \in Nat \ {0} /\ Link(n, L) = n
      /\ \A k \in 1 .. L - 1 : Link(n, k) \in Chain(n)
  <2>1. /\ Len(usnn[n].children) \in Nat
        /\ \A k \in 1 .. Len(usnn[n].children) : Link(n, k) \in Chain(n)
        /\ Link(n, Len(usnn[n].children) + 1) = n
    BY <1>1, LinksOfChain
  <2>2. L - 1 = Len(usnn[n].children) /\ L \in Nat \ {0}
    BY <2>1 DEF LastLink
  <2> QED BY <2>1, <2>2 DEF LastLink
<1>3. \A k \in 1 .. L - 1 : Link(n, k) \in Id \ Neuron
  <2> SUFFICES ASSUME NEW k \in 1 .. L - 1 PROVE Link(n, k) \in Id \ Neuron
    OBVIOUS
  <2>1. k \in 1 .. Len(usnn[n].children) + 1 /\ k # Len(usnn[n].children) + 1
    <3>1. L = Len(usnn[n].children) + 1
      BY DEF LastLink
    <3> HIDE DEF L
    <3> QED BY <1>2, <3>1
  <2> QED BY <1>1, <2>1, LineMembers
<1>4. \A j, k \in 1 .. L : Link(n, j) = Link(n, k) => j = k
  BY <1>1 DEF Line, LastLink
<1>5. ins \in Seq(Neuron) /\ \A i, j \in DOMAIN ins : ins[i] = ins[j] => i = j
  BY <1>1, InputsRead
<1>6. CASE usnn[n].children = <<>>
  <2> DEFINE z == Len(s)
  <2>1. /\ s \in Seq(Neuron) /\ DOMAIN s = 1 .. z /\ z \in Nat /\ z <= Len(ins)
        /\ \A i \in 1 .. z : s[i] = ins[i] /\ Outs(n, s[i]) = {n}
        /\ Len(ins) \in Nat /\ DOMAIN ins = 1 .. Len(ins)
    BY <1>6, OneLink
  <2>2. L = 1 /\ \A h : TakerOf(n, h) = 1
    <3>1. Len(<<>>) = 0
      OBVIOUS
    <3> QED BY <1>6, <3>1 DEF TakerOf, LastLink
  <2> HIDE DEF s, ins, L
  <2>3. \A i, j \in 1 .. z : s[i] = s[j] => i = j
    <3>1. \A i \in 1 .. z : i \in DOMAIN ins
      BY <2>1
    <3> QED BY <1>5, <2>1, <3>1
  <2> QED BY <1>2, <1>3, <1>4, <2>1, <2>2, <2>3 DEF Ordered, s, L
<1>7. CASE usnn[n].children # <<>>
  <2> DEFINE S == Len(ins)
  <2>1. s = ins /\ \A i \in 1 .. S : Outs(n, ins[i]) = {Link(n, Taker(S, i))}
    BY <1>7, RawInOrder
  <2>2. max_fanin # INVALID_FANIN /\ S > max_fanin /\ L = NumInter(S)
    BY <1>7 DEF ShapeInv, Shape, LastLink
  <2>3. \A h : TakerOf(n, h) = Taker(S, h)
    BY <1>7, <2>1 DEF TakerOf
  <2> HIDE DEF s, ins
  <2>4. S \in Nat /\ DOMAIN ins = 1 .. S
    BY <1>5
  <2> HIDE DEF S
  <2>5. /\ \A h \in 1 .. S : Taker(S, h) \in 1 .. L
        /\ \A h, i \in 1 .. S : h <= i => Taker(S, h) <= Taker(S, i)
        /\ Taker(S, S) = L
    <3>1. max_fanin \in Nat \ {0, 1}
      BY <1>1, <2>2
    <3> HIDE DEF L
    <3> QED BY <2>2, <2>4, <3>1, TakersInOrder
  <2>6. Len(s) = S
    BY <2>1 DEF S
  <2> HIDE DEF L
  <2>7. /\ s \in Seq(Neuron) /\ Len(s) \in Nat /\ DOMAIN s = 1 .. Len(s)
        /\ \A i, j \in 1 .. Len(s) : s[i] = s[j] => i = j
    BY <1>5, <2>1, <2>4, <2>6
  <2>8. /\ \A h \in 1 .. Len(s) : TakerOf(n, h) \in 1 .. L /\ Outs(n, s[h]) = {Link(n, TakerOf(n, h))}
        /\ \A h, i \in 1 .. Len(s) : h <= i => TakerOf(n, h) <= TakerOf(n, i)
        /\ TakerOf(n, Len(s)) = L
    BY <2>1, <2>3, <2>5, <2>6
  <2> QED BY <1>2, <1>3, <1>4, <2>7, <2>8 DEF Ordered, s, L
<1> QED BY <1>6, <1>7

(* What is pending for the neuron at the turn, each input once.             *)
Waiting(n, i, g) ==
  LET s == InputsToPack(n) IN
  /\ Len(pending) = g + (Len(s) - i) /\ DOMAIN pending = 1 .. Len(pending)
  /\ \A j \in 1 .. Len(pending) : j > g => /\ i + (j - g) \in i + 1 .. Len(s)
                                           /\ pending[j] = s[i + (j - g)]
  /\ g = 1 => i \in 1 .. Len(s) - 1
  /\ \A j, l \in 1 .. Len(pending) : pending[j] = pending[l] => j = l

(* It is what the invariant says of place i and of the link in front.       *)
LEMMA PendingApart ==
  ASSUME NEW n \in Neuron, Ordered(n), NEW end, Reaches(n, end),
         NEW i \in 0 .. Len(InputsToPack(n)), NEW g \in {0, 1}, Remains(n, end, i, g),
         IsList(pending)
  PROVE  Waiting(n, i, g)
<1> DEFINE s == InputsToPack(n)
           S == Len(s)
           L == LastLink(n)
<1>1. /\ s \in Seq(Neuron) /\ S \in Nat /\ DOMAIN s = 1 .. S
      /\ \A j, l \in 1 .. S : s[j] = s[l] => j = l
      /\ L \in Nat \ {0}
      /\ \A k \in 1 .. L - 1 : Link(n, k) \notin Neuron
      /\ S # 0 => TakerOf(n, S) = L
  BY DEF Ordered
<1>2. /\ Len(pending) = g + (S - i)
      /\ \A h \in i + 1 .. S : pending[g + (h - i)] = s[h]
      /\ g # 0 => i # 0 /\ \E k \in 1 .. L - 1 : end[k] = i /\ pending[1] = Link(n, k)
  BY DEF Remains
<1>3. \A k \in 1 .. L : end[k] # 0 => TakerOf(n, end[k]) = k
  BY DEF Reaches
<1>4. DOMAIN pending = 1 .. Len(pending)
  BY DEF IsList
<1> HIDE DEF S, L, s
<1>5. ASSUME NEW j \in 1 .. Len(pending), j > g
      PROVE  i + (j - g) \in i + 1 .. S /\ pending[j] = s[i + (j - g)]
  <2> DEFINE h == i + (j - g)
  <2>1. h \in i + 1 .. S /\ g + (h - i) = j
    BY <1>1, <1>2, <1>5
  <2> HIDE DEF h
  <2>2. pending[j] = s[h]
    BY <1>2, <2>1
  <2> QED BY <2>1, <2>2 DEF h
<1>6. g = 1 => i \in 1 .. S - 1
  <2> SUFFICES ASSUME g = 1 PROVE i \in 1 .. S - 1
    OBVIOUS
  <2>1. PICK k \in 1 .. L - 1 : end[k] = i /\ i # 0
    BY <1>2
  <2>2. k \in 1 .. L /\ k # L
    BY <1>1
  <2>3. TakerOf(n, i) = k
    BY <1>3, <2>1, <2>2
  <2>4. i \in 0 .. S
    BY DEF S, s
  <2>5. i # S
    BY <1>1, <2>1, <2>2, <2>3
  <2> QED BY <1>1, <2>1, <2>4, <2>5
<1>7. ASSUME NEW j \in 1 .. Len(pending), NEW l \in 1 .. Len(pending), pending[j] = pending[l]
      PROVE  j = l
  <2>0. i \in 0 .. S
    BY DEF S, s
  <2>1. \A m \in 1 .. Len(pending) : m > g => pending[m] \in Neuron
    <3> SUFFICES ASSUME NEW m \in 1 .. Len(pending), m > g PROVE pending[m] \in Neuron
      OBVIOUS
    <3>1. PICK h \in i + 1 .. S : pending[m] = s[h]
      BY <1>5
    <3>2. h \in 1 .. S
      BY <1>1, <2>0
    <3> QED BY <1>1, <3>1, <3>2, ElementOfSeq
  <2>2. \A m \in 1 .. Len(pending) : ~(m > g) => m = 1 /\ pending[m] \notin Neuron
    <3> SUFFICES ASSUME NEW m \in 1 .. Len(pending), ~(m > g)
                 PROVE  m = 1 /\ pending[m] \notin Neuron
      OBVIOUS
    <3>1. m = 1 /\ g # 0
      BY <1>1, <1>2, <2>0
    <3> QED BY <1>1, <1>2, <3>1
  <2>3. CASE j > g /\ l > g
    <3>1. PICK a \in i + 1 .. S : a = i + (j - g) /\ pending[j] = s[a]
      BY <1>5, <2>3
    <3>2. PICK b \in i + 1 .. S : b = i + (l - g) /\ pending[l] = s[b]
      BY <1>5, <2>3
    <3>3. a \in 1 .. S /\ b \in 1 .. S
      BY <1>1, <2>0
    <3>4. a = b
      BY <1>1, <1>7, <3>1, <3>2, <3>3
    <3> QED BY <1>1, <1>2, <2>0, <3>1, <3>2, <3>4
  <2> QED BY <1>7, <2>1, <2>2, <2>3
<1> QED BY <1>2, <1>4, <1>5, <1>6, <1>7 DEF S, s, Waiting

(* The next chunk: its last input, the link it computes and what it takes.  *)
ChunkAt(n, i, g, c) ==
  LET s == InputsToPack(n)
      m == NumCanBePacked(c)
      e == i + (m - g)
  IN  /\ m \in 1 .. Len(pending) /\ e \in i + 1 .. Len(s)
      /\ ChunkOutput(c) = Link(n, TakerOf(n, e))
      /\ \A h \in i + 1 .. e : s[h] \in Packed(c).inputs
      /\ g = 1 => pending[1] \in Packed(c).inputs

(* A chunk leaves off at an input behind place i, and computes its link.    *)
LEMMA ChunkPlace ==
  ASSUME NEW n \in Neuron, Ordered(n), NEW end, Reaches(n, end),
         NEW i \in 0 .. Len(InputsToPack(n)), NEW g \in {0, 1}, Remains(n, end, i, g),
         cur = n, Packing(pending), Listed(cur, pending), cur \in Id, pending # <<>>,
         NEW c \in Crossbar, CanPack(c)
  PROVE  ChunkAt(n, i, g, c)
<1> DEFINE s == InputsToPack(n)
           S == Len(s)
           m == NumCanBePacked(c)
           e == i + (m - g)
<1>1. IsList(pending) /\ S \in Nat
  BY DEF Packing, IsList, Ordered
<1>2. /\ Len(pending) = g + (S - i)
      /\ \A j \in 1 .. Len(pending) : j > g => i + (j - g) \in i + 1 .. S /\ pending[j] = s[i + (j - g)]
      /\ g = 1 => i \in 1 .. S - 1
  <2>1. Waiting(n, i, g)
    BY <1>1, PendingApart
  <2> QED BY <2>1 DEF Waiting
<1>3. m \in 0 .. Len(pending) /\ m # 0 /\ (m > 1 \/ m = Len(pending))
  BY ChunkFits
<1>4. Outs(cur, pending[m]) = {ChunkOutput(c)}
  BY ChunkAnswered
<1>5. Packed(c).inputs = c.inputs \union { pending[j] : j \in 1 .. m }
  BY DEF Packed
<1>6. \A h \in 1 .. S : Outs(n, s[h]) = {Link(n, TakerOf(n, h))}
  BY DEF Ordered
<1>7. i \in 0 .. S
  OBVIOUS
<1> HIDE DEF m, s, S
<1>8. m \in 1 .. Len(pending) /\ m > g /\ e \in i + 1 .. S /\ e \in 1 .. S
  BY <1>1, <1>2, <1>3, <1>7
<1>9. pending[m] = s[e]
  BY <1>2, <1>8
<1>10. ChunkOutput(c) = Link(n, TakerOf(n, e))
  <2> HIDE DEF e
  <2>1. Outs(n, s[e]) = {Link(n, TakerOf(n, e))}
    BY <1>6, <1>8
  <2> QED BY <1>4, <1>9, <2>1
<1>11. ASSUME NEW h \in i + 1 .. e
       PROVE  s[h] \in Packed(c).inputs
  <2> DEFINE j == g + (h - i)
  <2>1. j \in 1 .. m /\ j \in 1 .. Len(pending) /\ j > g /\ i + (j - g) = h
    BY <1>1, <1>2, <1>7, <1>8
  <2> HIDE DEF j
  <2>2. pending[j] = s[h]
    BY <1>2, <2>1
  <2> QED BY <1>5, <2>1, <2>2
<1>12. pending[1] \in Packed(c).inputs
  <2>1. 1 \in 1 .. m
    BY <1>8
  <2> QED BY <1>5, <2>1
<1> QED BY <1>8, <1>10, <1>11, <1>12 DEF e, m, s, S, ChunkAt

-----------------------------------------------------------------------------
(* Where links end.                                                         *)

(* Of S inputs, the one at place i is the last of its link.                 *)
EndsAt(S, i) == \A h \in 1 .. S : i < h => Taker(S, i) < Taker(S, h)

(* The first link has max_fanin inputs.                                     *)
LEMMA EndsFirst ==
  ASSUME max_fanin \in Nat \ {0, 1}, NEW S \in Nat, S > max_fanin
  PROVE  EndsAt(S, max_fanin)
<1> DEFINE N == NumInter(S)
<1> SUFFICES ASSUME NEW h \in 1 .. S, max_fanin < h
             PROVE  Taker(S, max_fanin) < Taker(S, h)
  BY DEF EndsAt
<1>1. N \in Nat /\ N >= 2
  BY AtLeastTwoLinks
<1>2. First(0) = 1 /\ Last(0, S) = max_fanin
  <2>1. 0 # N - 1
    <3> HIDE DEF N
    <3> QED BY <1>1
  <2> QED BY <2>1 DEF First, Last, N
<1>3. max_fanin \in 1 .. S
  OBVIOUS
<1>4. /\ Taker(S, max_fanin) \in 1 .. N /\ Taker(S, h) \in 1 .. N
      /\ Taker(S, max_fanin) <= Taker(S, h)
      /\ h \in First(Taker(S, h) - 1) .. Last(Taker(S, h) - 1, S)
  BY <1>3, TakersInOrder
<1>5. \A j \in First(1 - 1) .. Last(1 - 1, S) : Taker(S, j) = 1
  <2>1. 1 \in 1 .. N
    <3> HIDE DEF N
    <3> QED BY <1>1
  <2> QED BY <2>1, TakersInOrder
<1>6. Taker(S, max_fanin) = 1
  BY <1>2, <1>3, <1>5
<1>7. Taker(S, h) # 1
  <2> SUFFICES ASSUME Taker(S, h) = 1 PROVE FALSE
    OBVIOUS
  <2>1. h \in 1 .. max_fanin
    BY <1>2, <1>4
  <2> QED BY <2>1
<1> HIDE DEF N
<1> QED BY <1>1, <1>4, <1>6, <1>7

(* The others have one less, but for the last, which may have fewer.        *)
LEMMA EndsNext ==
  ASSUME max_fanin \in Nat \ {0, 1}, NEW S \in Nat, S > max_fanin,
         NEW i \in 1 .. S, EndsAt(S, i), i + (max_fanin - 1) <= S
  PROVE  EndsAt(S, i + (max_fanin - 1))
<1> DEFINE N == NumInter(S)
           b == max_fanin - 1
           e == i + b
<1> SUFFICES ASSUME NEW h \in 1 .. S, e < h
             PROVE  Taker(S, e) < Taker(S, h)
  BY DEF EndsAt
<1>1. b \in Nat \ {0} /\ max_fanin = b + 1 /\ e \in 1 .. S /\ i < e /\ i < S /\ S \in 1 .. S
  OBVIOUS
<1>2. PICK k \in 1 .. N : k = Taker(S, i)
  BY TakersInOrder
<1>3. PICK t \in 1 .. N : t = Taker(S, e)
  BY <1>1, TakersInOrder
<1>4. PICK u \in 1 .. N : u = Taker(S, h)
  BY TakersInOrder
<1>5. N \in Nat /\ N >= 2
  BY AtLeastTwoLinks
<1>6. k < t /\ k < N
  <2>1. Taker(S, S) = N
    BY TakersInOrder
  <2> QED BY <1>1, <1>2, <1>3, <2>1 DEF EndsAt
<1>7. t <= u
  <2>1. e <= h
    BY <1>1
  <2> QED BY <1>1, <1>3, <1>4, <2>1, TakersInOrder
<1>8. /\ First(k - 1) \in Nat /\ Last(k - 1, S) \in Nat /\ Last(k - 1, S) <= S
      /\ \A j \in First(k - 1) .. Last(k - 1, S) : j \in 1 .. S /\ Taker(S, j) = k
      /\ i \in First(k - 1) .. Last(k - 1, S)
  BY <1>2, TakersInOrder
<1>9. Last(k - 1, S) = i
  <2> DEFINE z == Last(k - 1, S)
  <2>1. z \in First(k - 1) .. z /\ i <= z
    BY <1>8
  <2>2. z \in 1 .. S /\ Taker(S, z) = k
    BY <1>8, <2>1
  <2>3. ~(i < z)
    BY <1>2, <2>2 DEF EndsAt
  <2>4. z \in Int
    BY <1>8
  <2> HIDE DEF z
  <2>5. z = i
    BY <2>1, <2>3, <2>4
  <2> QED BY <2>5 DEF z
<1>10. k - 1 # N - 1 /\ k \in 0 .. N - 1 /\ k # 0 /\ k \in Nat
  <2> HIDE DEF N
  <2> QED BY <1>5, <1>6
<1>11. i = max_fanin + (k - 1) * b /\ First(k) = i + 1
  BY <1>9, <1>10 DEF Last, First
<1>12. First(k) \in Nat /\ Last(k, S) \in Nat /\ Last(k, S) - First(k) + 1 <= b
  BY <1>10, LinkLength
<1>13. Last(k, S) <= e
  <2> HIDE DEF b
  <2> QED BY <1>1, <1>11, <1>12
<1>14. k # N - 1 => Last(k, S) = e
  <2> SUFFICES ASSUME k # N - 1 PROVE Last(k, S) = e
    OBVIOUS
  <2>1. Last(k, S) = max_fanin + k * b
    BY <1>10 DEF Last
  <2> HIDE DEF b, N
  <2>2. (k - 1) * b = k * b - b /\ (k - 1) * b \in Int /\ k * b \in Int
    BY <1>1, <1>10
  <2> QED BY <1>1, <1>11, <2>1, <2>2
<1>15. /\ h \in First(u - 1) .. Last(u - 1, S) /\ e \in First(t - 1) .. Last(t - 1, S)
       /\ First(t - 1) \in Nat /\ Last(t - 1, S) \in Nat
  BY <1>1, <1>3, <1>4, TakersInOrder
<1>16. t # u
  <2> SUFFICES ASSUME t = u PROVE FALSE
    OBVIOUS
  <2>1. CASE t = k + 1
    <3>1. t - 1 = k
      BY <1>10, <2>1
    <3>2. h <= Last(k, S)
      BY <1>12, <1>15, <3>1
    <3> HIDE DEF e
    <3>3. e \in Int
      BY <1>1
    <3> QED BY <1>12, <1>13, <3>2, <3>3
  <2>2. CASE t # k + 1
    <3>1. t - 1 \in 0 .. N - 1 /\ k < t - 1 /\ k # N - 1
      <4> HIDE DEF N
      <4> QED BY <1>5, <1>6, <1>10, <2>2
    <3>2. Last(k, S) < First(t - 1)
      BY <1>10, <3>1, LinksApart
    <3>3. Last(k, S) = e
      BY <1>14, <3>1
    <3> HIDE DEF e
    <3>4. e \in Int
      BY <1>1
    <3> QED BY <1>15, <3>2, <3>3, <3>4
  <2> QED BY <2>1, <2>2
<1>17. t < u
  <2> HIDE DEF N
  <2> QED BY <1>5, <1>7, <1>16
<1> QED BY <1>3, <1>4, <1>17

(* With a fan-in of two, every link but the first has one input.            *)
LEMMA EndsOfTwo ==
  ASSUME max_fanin = 2, NEW S \in Nat, S > 2, NEW e \in 2 .. S
  PROVE  EndsAt(S, e)
<1> SUFFICES ASSUME NEW h \in 1 .. S, e < h
             PROVE  Taker(S, e) < Taker(S, h)
  BY DEF EndsAt
<1>1. max_fanin \in Nat \ {0, 1} /\ S > max_fanin /\ max_fanin - 1 = 1
  OBVIOUS
<1>2. PICK k \in 1 .. NumInter(S) : k = Taker(S, e) /\ e \in First(k - 1) .. Last(k - 1, S)
  BY <1>1, TakersInOrder
<1>3. PICK u \in 1 .. NumInter(S) : u = Taker(S, h) /\ h \in First(u - 1) .. Last(u - 1, S)
  BY <1>1, TakersInOrder
<1>4. k <= u
  BY <1>1, <1>2, <1>3, TakersInOrder
<1>5. NumInter(S) \in Nat /\ NumInter(S) >= 2
  BY <1>1, AtLeastTwoLinks
<1>6. k # u
  <2> SUFFICES ASSUME k = u PROVE FALSE
    OBVIOUS
  <2>1. CASE k = 1
    <3>1. Last(0, S) = 2
      <4>1. 0 # NumInter(S) - 1
        BY <1>5
      <4>2. Last(0, S) = max_fanin + 0 * (max_fanin - 1)
        BY <4>1 DEF Last
      <4> QED BY <4>2
    <3>2. h \in First(0) .. 2
      BY <1>3, <2>1, <3>1
    <3> QED BY <3>2
  <2>2. CASE k # 1
    <3>1. k - 1 \in 0 .. NumInter(S) - 1 /\ k - 1 # 0
      BY <1>5, <2>2
    <3>2. /\ First(k - 1) \in Nat /\ Last(k - 1, S) \in Nat
          /\ Last(k - 1, S) - First(k - 1) + 1 <= max_fanin - 1
      BY <1>1, <3>1, LinkLength
    <3> QED BY <1>1, <1>2, <1>3, <3>2
  <2> QED BY <2>1, <2>2
<1> QED BY <1>2, <1>3, <1>4, <1>5, <1>6

(* A chunk is no longer than a crossbar has rows.                           *)
LEMMA ChunkLength ==
  ASSUME PackInv, NEW n \in Neuron, Ordered(n), NEW end, Reaches(n, end),
         NEW i \in 0 .. Len(InputsToPack(n)), NEW g \in {0, 1}, Remains(n, end, i, g),
         cur = n, pending # <<>>, NEW c \in Crossbar, CanPack(c)
  PROVE  NumCanBePacked(c) \in 1 .. Len(pending) /\ NumCanBePacked(c) <= crossbar_size
<1> DEFINE m == NumCanBePacked(c)
           chunk == { pending[j] : j \in 1 .. m }
<1>1. /\ Packing(pending) /\ Listed(cur, pending) /\ cur \in Id /\ Id \subseteq Nat
      /\ IsList(pending) /\ crossbar_size \in Nat
  BY ReadyToPack DEF PackInv, Packing, IsList
<1>2. Waiting(n, i, g)
  BY <1>1, PendingApart
<1>3. m \in 1 .. Len(pending) /\ Len(pending) \in Nat
  BY <1>1, ChunkAnswered DEF IsList
<1>4. \A j, l \in 1 .. Len(pending) : pending[j] = pending[l] => j = l
  BY <1>2 DEF Waiting
<1>5. Cardinality(Packed(c).inputs) <= crossbar_size /\ Packed(c) \in Crossbar
  BY <1>1, PackedFits
<1>6. chunk \subseteq Packed(c).inputs
  BY DEF Packed
<1> HIDE DEF m
<1>7. m \in Nat /\ \A j, l \in 1 .. m : pending[j] = pending[l] => j = l
  BY <1>3, <1>4
<1>8. Cardinality(chunk) = m
  BY <1>7, Enumerated
<1> HIDE DEF chunk
<1>9. IsFiniteSet(Packed(c).inputs)
  BY <1>5 DEF Crossbar, FinNat
<1>10. chunk \in SUBSET Packed(c).inputs
  BY <1>6
<1>11. m <= Cardinality(Packed(c).inputs) /\ Cardinality(Packed(c).inputs) \in Nat
  <2>1. Cardinality(chunk) <= Cardinality(Packed(c).inputs)
    BY <1>9, <1>10, FS_Subset
  <2>2. Cardinality(Packed(c).inputs) \in Nat
    BY <1>9, FS_CardinalityType
  <2> QED BY <1>8, <2>1, <2>2
<1> QED BY <1>1, <1>3, <1>5, <1>7, <1>11 DEF m

(* When chunks end with links, a chunk ends a link.                         *)
LEMMA ChunkEnds ==
  ASSUME PackInv, ShapeInv, Started, Whole, NEW n \in Neuron, Ordered(n),
         NEW end, Reaches(n, end),
         NEW i \in 0 .. Len(InputsToPack(n)), NEW g \in {0, 1}, Remains(n, end, i, g),
         cur = n, pending # <<>>, NEW c \in Crossbar, CanPack(c)
  PROVE  EndsLink(n, i + (NumCanBePacked(c) - g))
<1> DEFINE s == InputsToPack(n)
           S == Len(s)
           L == LastLink(n)
           m == NumCanBePacked(c)
           e == i + (m - g)
           ins == Inputs(connection, n)
<1> SUFFICES EndsLink(n, e)
  OBVIOUS
<1>1. /\ Packing(pending) /\ Listed(cur, pending) /\ cur \in Id /\ IsList(pending)
  BY ReadyToPack DEF PackInv, Packing, IsList
<1>2. /\ crossbar_size \in Nat \ {0, 1} /\ max_fanin <= crossbar_size
      /\ max_fanin \in (Nat \ {0, 1}) \union {INVALID_FANIN}
      /\ ~(idx < NumNeurons) /\ idx \in Nat /\ NumNeurons \in Nat /\ FaninBounded
      /\ Neuron \subseteq Id
  BY UnrollAssumption DEF PackInv, PackTypes, EdgeInv, UnrollInv, Stages, Neuron
<1>3. m \in 1 .. Len(pending) /\ m <= crossbar_size
  BY ChunkLength
<1>4. ChunkAt(n, i, g, c)
  BY <1>1, ChunkPlace
<1>5. e \in i + 1 .. S
  BY <1>4 DEF ChunkAt
<1>6. Len(pending) = g + (S - i)
  BY DEF Remains
<1>7. S \in Nat /\ L \in Nat \ {0} /\ (S # 0 => TakerOf(n, S) = L)
      /\ \A h \in 1 .. S : TakerOf(n, h) \in 1 .. L
  BY DEF Ordered
<1>8. \A k \in 1 .. L : end[k] # 0 => TakerOf(n, end[k]) = k /\ EndsLink(n, end[k])
  BY DEF Reaches
<1>9. IF g = 0 THEN end[L] = i ELSE i # 0 /\ \E k \in 1 .. L - 1 : end[k] = i
  BY DEF Remains
<1>10. IF Len(pending) >= MIN_FANIN THEN m >= MIN_FANIN ELSE m = Len(pending)
  BY DEF CanPack
<1>11. i \in 0 .. S
  OBVIOUS
<1> HIDE DEF m, S, L, s
<1>12. e \in 1 .. S /\ i < S /\ m \in Nat /\ (e = S <=> m = Len(pending))
  BY <1>3, <1>5, <1>6, <1>7, <1>11
<1>13. i # 0 => EndsLink(n, i)
  <2>1. CASE g = 0
    <3>1. L \in 1 .. L
      BY <1>7
    <3> QED BY <1>8, <1>9, <2>1, <3>1
  <2>2. CASE g # 0
    <3>1. PICK k \in 1 .. L - 1 : end[k] = i
      BY <1>9, <2>2
    <3>2. k \in 1 .. L
      BY <1>7
    <3> QED BY <1>8, <1>9, <2>2, <3>1, <3>2
  <2> QED BY <2>1, <2>2
<1>14. i # 0 => g = 1
  <2> SUFFICES ASSUME i # 0, g = 0 PROVE FALSE
    OBVIOUS
  <2>1. TakerOf(n, i) = L
    <3>1. L \in 1 .. L
      BY <1>7
    <3> QED BY <1>8, <1>9, <3>1
  <2>2. TakerOf(n, i) < TakerOf(n, S)
    <3>1. S \in 1 .. S
      BY <1>12, <1>7
    <3> QED BY <1>12, <1>13, <3>1 DEF EndsLink, S, s
  <2> QED BY <1>7, <1>12, <2>1, <2>2
<1>15. i = 0 => g = 0
  BY <1>9
<1>16. e = S => EndsLink(n, e)
  <2> SUFFICES ASSUME e = S, NEW h \in 1 .. S, e < h PROVE FALSE
    BY DEF EndsLink, S, s
  <2> HIDE DEF e
  <2> QED BY <1>7
<1>17. CASE usnn[n].children = <<>>
  <2>1. i = 0 /\ g = 0
    <3>1. L = 1
      <4>1. Len(<<>>) = 0
        OBVIOUS
      <4> QED BY <1>17, <4>1 DEF L, LastLink
    <3>2. g = 0
      BY <1>9, <3>1
    <3> QED BY <1>14, <3>2
  <2>2. /\ Len(ins) \in Nat /\ usnn[n].inputs = ins /\ S <= Len(ins)
        /\ S = IF Len(ins) < crossbar_size THEN Len(ins) ELSE crossbar_size
    BY <1>2, <1>17, OneLink DEF S, s
  <2>3. S <= MIN_FANIN /\ MIN_FANIN \in Nat
    <3>1. CASE max_fanin = INVALID_FANIN
      BY <1>2, <2>2, <3>1 DEF MIN_FANIN
    <3>2. CASE max_fanin # INVALID_FANIN
      <4>1. n < idx /\ n \in Id
        BY <1>2 DEF Neuron
      <4>2. Len(usnn[n].inputs) <= max_fanin
        BY <1>2, <3>2, <4>1 DEF FaninBounded
      <4> HIDE DEF ins
      <4> QED BY <1>2, <1>7, <2>2, <3>2, <4>2 DEF MIN_FANIN
    <3> QED BY <3>1, <3>2
  <2>4. m = Len(pending)
    <3>1. Len(pending) = S
      BY <1>6, <1>7, <2>1
    <3>2. Len(pending) >= MIN_FANIN => Len(pending) = MIN_FANIN
      BY <1>7, <2>3, <3>1
    <3> QED BY <1>3, <1>7, <1>10, <1>12, <2>3, <3>1, <3>2
  <2> QED BY <1>12, <1>16, <2>4
<1>18. CASE usnn[n].children # <<>>
  <2>1. s = ins
    BY <1>18, RawInOrder DEF s
  <2>2. max_fanin # INVALID_FANIN /\ S > max_fanin
    BY <1>18, <2>1 DEF ShapeInv, Shape, S
  <2>3. \A h : TakerOf(n, h) = Taker(S, h)
    BY <1>18 DEF TakerOf, S, s
  <2>4. \A h : EndsLink(n, h) <=> EndsAt(S, h)
    BY <2>3 DEF EndsLink, EndsAt, S, s
  <2>5. max_fanin \in Nat \ {0, 1} /\ MIN_FANIN = max_fanin /\ WholeLinks
    BY <1>2, <2>2 DEF MIN_FANIN, Whole
  <2>6. IF Len(pending) >= max_fanin THEN m >= max_fanin ELSE m = Len(pending)
    BY <1>10, <2>5
  <2>7. CASE max_fanin = 2
    <3>1. e \in 2 .. S
      BY <1>3, <1>5, <1>6, <1>7, <1>11, <1>14, <1>15, <2>2, <2>6, <2>7
    <3> HIDE DEF e
    <3> QED BY <1>7, <2>2, <2>4, <2>7, <3>1, EndsOfTwo
  <2>8. CASE max_fanin = crossbar_size
    <3>1. m = Len(pending) \/ m = max_fanin
      BY <1>2, <1>3, <1>6, <1>7, <1>11, <2>5, <2>6, <2>8
    <3>2. CASE m = max_fanin /\ i = 0
      <4>1. e = max_fanin
        BY <1>15, <2>5, <3>2
      <4> HIDE DEF e
      <4> QED BY <1>7, <2>2, <2>4, <2>5, <4>1, EndsFirst
    <3>3. CASE m = max_fanin /\ i # 0
      <4>1. e = i + (max_fanin - 1) /\ i \in 1 .. S
        BY <1>11, <1>12, <1>14, <2>5, <3>3
      <4>2. EndsAt(S, i) /\ e <= S
        BY <1>12, <1>13, <2>4, <3>3
      <4> HIDE DEF e
      <4>3. EndsAt(S, i + (max_fanin - 1))
        BY <1>7, <2>2, <2>5, <4>1, <4>2, EndsNext
      <4> QED BY <2>4, <4>1, <4>3
    <3> QED BY <1>12, <1>16, <3>1, <3>2, <3>3
  <2> QED BY <2>5, <2>7, <2>8 DEF WholeLinks
<1> QED BY <1>17, <1>18

-----------------------------------------------------------------------------
(* The steps, and how far the packing has come.                             *)

(* The clusters that compute neuron m.                                      *)
Hosts(m) == { d \in Cid : m \in clusters[d].outputs }

(* No link is one of another neuron.                                        *)
LEMMA LinksOfOthers ==
  ASSUME LineInv, NEW n \in Neuron, NEW m \in Neuron, n # m,
         NEW j \in 1 .. LastLink(n), NEW k \in 1 .. LastLink(m)
  PROVE  Link(n, j) # Link(m, k)
<1>1. \A x \in Neuron : \A i \in 1 .. LastLink(x) :
        IF i = LastLink(x) THEN Link(x, i) = x
                           ELSE Link(x, i) \notin Neuron /\ usnn[Link(x, i)].parent = x
  <2> SUFFICES ASSUME NEW x \in Neuron, NEW i \in 1 .. LastLink(x)
               PROVE  IF i = LastLink(x) THEN Link(x, i) = x
                      ELSE Link(x, i) \notin Neuron /\ usnn[Link(x, i)].parent = x
    OBVIOUS
  <2>1. /\ i # LastLink(x) => Link(x, i) \notin Neuron
        /\ i = LastLink(x) => Link(x, i) = x
        /\ Line(x) /\ ChainOK(x) /\ Neuron \subseteq Id
    BY LineMembers DEF LastLink
  <2>2. LastLink(x) \in Nat
    BY <2>1, LinksOfChain DEF LastLink
  <2>3. i # LastLink(x) => i \in 1 .. LastLink(x) - 1
    BY <2>2
  <2>4. i # LastLink(x) => usnn[Link(x, i)].parent = x
    BY <2>1, <2>3 DEF Line, LastLink
  <2> QED BY <2>1, <2>4
<1> QED BY <1>1

(* The lists to pack do not change after unrolling.                         *)
LEMMA ListsKept ==
  ASSUME UNCHANGED unrollVars, crossbar_size' = crossbar_size
  PROVE  /\ \A n : InputsToPack(n)' = InputsToPack(n) /\ LastLink(n)' = LastLink(n)
         /\ \A n, k : Link(n, k)' = Link(n, k)
         /\ \A n, h : TakerOf(n, h)' = TakerOf(n, h)
         /\ Whole' = Whole /\ Id' = Id
<1>1. usnn' = usnn /\ max_fanin' = max_fanin /\ connection' = connection
  BY DEF unrollVars
<1>2. \A n, k : Link(n, k)' = Link(n, k)
  BY <1>1 DEF Link
<1>3. \A n : RawPlaces(n)' = RawPlaces(n)
  BY <1>1 DEF RawPlaces, Link, Chain
<1>4. \A n, p : RawInput(n, p)' = RawInput(n, p)
  BY <1>1 DEF RawInput, Link
<1>5. \A n : InputsToPack(n)' = InputsToPack(n)
  <2> SUFFICES ASSUME NEW n PROVE InputsToPack(n)' = InputsToPack(n)
    OBVIOUS
  <2> PICK at : at = RawPlaces(n)
    OBVIOUS
  <2> DEFINE place(i) == CHOOSE p \in at : Cardinality({ q \in at : NotAfter(q, p) }) = i
             whole == usnn[n].children = <<>>
             part == LET ins == usnn[n].inputs
                     IN  SubSeq(ins, 1, IF Len(ins) < crossbar_size THEN Len(ins) ELSE crossbar_size)
             raw == [i \in 1 .. Cardinality(at) |-> RawInput(n, place(i))]
  <2>1. InputsToPack(n) = IF whole THEN part ELSE raw
    BY DEF InputsToPack
  <2>2. RawPlaces(n)' = at
    BY <1>3
  <2>3. InputsToPack(n)' = IF whole' THEN part' ELSE [i \in 1 .. Cardinality(at) |-> RawInput(n, place(i))']
    BY <2>2 DEF InputsToPack, NotAfter
  <2>4. part' = part /\ whole' = whole
    BY <1>1
  <2>5. \A i : RawInput(n, place(i))' = RawInput(n, place(i))
    BY <1>4
  <2> HIDE DEF place, part, whole
  <2> QED BY <2>1, <2>3, <2>4, <2>5
<1>6. \A n : LastLink(n)' = LastLink(n)
  BY <1>1 DEF LastLink
<1>7. \A S, h : Taker(S, h)' = Taker(S, h)
  BY <1>1 DEF Taker, NumInter, First, Last
<1>8. \A n, h : TakerOf(n, h)' = TakerOf(n, h)
  BY <1>1, <1>5, <1>7 DEF TakerOf
<1>9. Whole' = Whole /\ Id' = Id
  BY <1>1 DEF Whole, WholeLinks, Id
<1> QED BY <1>2, <1>5, <1>6, <1>8, <1>9

(* What a neuron receives is not taken from it.                             *)
LEMMA ReachesKept ==
  ASSUME UNCHANGED unrollVars, crossbar_size' = crossbar_size,
         NEW n, NEW end, Reaches(n, end),
         \A k \in 1 .. LastLink(n) : /\ Computed(Link(n, k))' => Computed(Link(n, k))
                                     /\ InputsWith(Link(n, k)) \subseteq InputsWith(Link(n, k))'
  PROVE  Reaches(n, end)'
<1>1. /\ InputsToPack(n)' = InputsToPack(n) /\ LastLink(n)' = LastLink(n)
      /\ \A k : Link(n, k)' = Link(n, k)
      /\ \A h : TakerOf(n, h)' = TakerOf(n, h)
      /\ Whole' = Whole
  BY ListsKept
<1>2. \A h : EndsLink(n, h)' = EndsLink(n, h)
  BY <1>1 DEF EndsLink
<1> QED BY <1>1, <1>2 DEF Reaches

(* What is pending stays so, as long as no chunk is packed.                 *)
LEMMA RemainsKept ==
  ASSUME UNCHANGED unrollVars, crossbar_size' = crossbar_size, pending' = pending,
         NEW n, NEW end, NEW i, NEW g, Remains(n, end, i, g)
  PROVE  Remains(n, end, i, g)'
<1>1. /\ InputsToPack(n)' = InputsToPack(n) /\ LastLink(n)' = LastLink(n)
      /\ \A k : Link(n, k)' = Link(n, k)
  BY ListsKept
<1> QED BY <1>1 DEF Remains

(* A neuron that the loop has come to.                                      *)
LEMMA ProgressKept ==
  ASSUME UNCHANGED unrollVars, crossbar_size' = crossbar_size, NEW n, Progress(n),
         \A k \in 1 .. LastLink(n) : /\ Computed(Link(n, k))' => Computed(Link(n, k))
                                     /\ InputsWith(Link(n, k)) \subseteq InputsWith(Link(n, k))',
         cur' = cur, pending' = pending \/ n # cur
  PROVE  Progress(n)'
<1>1. PICK end \in [1 .. LastLink(n) -> 0 .. Len(InputsToPack(n))] :
        /\ Reaches(n, end)
        /\ IF n = cur THEN \E i \in 0 .. Len(InputsToPack(n)), g \in {0, 1} : Remains(n, end, i, g)
                      ELSE end[LastLink(n)] = Len(InputsToPack(n))
  BY DEF Progress
<1>2. InputsToPack(n)' = InputsToPack(n) /\ LastLink(n)' = LastLink(n)
  BY ListsKept
<1>3. Reaches(n, end)'
  BY <1>1, ReachesKept
<1>4. CASE n = cur
  <2>1. PICK i \in 0 .. Len(InputsToPack(n)), g \in {0, 1} : Remains(n, end, i, g)
    BY <1>1, <1>4
  <2>2. Remains(n, end, i, g)'
    BY <1>4, <2>1, RemainsKept
  <2> QED BY <1>2, <1>3, <1>4, <2>2 DEF Progress
<1>5. CASE n # cur
  BY <1>1, <1>2, <1>3, <1>5 DEF Progress
<1> QED BY <1>4, <1>5

(* Places in the rest, and those in front of the chunk.                     *)
LEMMA RestPlace ==
  ASSUME NEW i \in Nat, NEW e \in Nat, NEW S \in Nat, NEW z \in Nat, NEW m \in Nat,
         NEW f \in Nat, NEW g \in Nat, NEW h \in e + 1 .. S,
         i < e, e = i + (m - g), z - m = S - e
  PROVE  /\ f + (h - e) \in 1 .. f + (S - e) /\ ~(f + (h - e) <= f)
         /\ (f + (h - e)) - f = h - e /\ h - e \in 1 .. z - m
         /\ m + (h - e) \in 1 .. z /\ m + (h - e) > g /\ i + ((m + (h - e)) - g) = h
OBVIOUS

(* What is left after the chunk.                                            *)
LEMMA RestRemains ==
  ASSUME UNCHANGED <<unrollVars, cur>>, crossbar_size' = crossbar_size,
         PackInv, NEW n \in Neuron, Ordered(n), NEW end, Reaches(n, end),
         NEW i \in 0 .. Len(InputsToPack(n)), NEW g \in {0, 1}, Remains(n, end, i, g),
         cur = n, pending # <<>>, NEW c \in Crossbar, CanPack(c), pending' = Rest(c),
         NEW e, e = i + (NumCanBePacked(c) - g), NEW k, k = TakerOf(n, e)
  PROVE  Remains(n, [end EXCEPT ![k] = e], e, IF k = LastLink(n) THEN 0 ELSE 1)'
<1> DEFINE s == InputsToPack(n)
           S == Len(s)
           L == LastLink(n)
           m == NumCanBePacked(c)
           z == Len(pending)
           new == [end EXCEPT ![k] = e]
           f == IF k = L THEN 0 ELSE 1
           link == IF ChunkOutput(c) = cur THEN <<>> ELSE <<ChunkOutput(c)>>
           sub == SubSeq(pending, m + 1, z)
<1>1. /\ Packing(pending) /\ Listed(cur, pending) /\ cur \in Id /\ IsList(pending)
      /\ pending \in Seq(Id) /\ Neuron \subseteq Id
  BY ReadyToPack DEF PackInv, Packing, IsList, Listed
<1>2. ChunkAt(n, i, g, c) /\ Waiting(n, i, g)
  BY <1>1, ChunkPlace, PendingApart
<1>3. /\ m \in 1 .. z /\ e \in i + 1 .. S /\ ChunkOutput(c) = Link(n, k)
      /\ z = g + (S - i)
      /\ \A j \in 1 .. z : j > g => i + (j - g) \in i + 1 .. S /\ pending[j] = s[i + (j - g)]
  BY <1>2 DEF ChunkAt, Waiting
<1>4. /\ S \in Nat /\ L \in Nat \ {0} /\ Link(n, L) = n
      /\ \A j \in 1 .. L - 1 : Link(n, j) \in Id \ Neuron
      /\ \A h \in 1 .. S : TakerOf(n, h) \in 1 .. L
  BY DEF Ordered
<1>5. end \in [1 .. L -> 0 .. S] /\ \A j \in 1 .. L : end[j] <= i
  BY DEF Reaches, Remains
<1>6. /\ s' = s /\ L' = L /\ \A j : Link(n, j)' = Link(n, j)
  BY ListsKept
<1>7. pending' = link \o sub
  BY DEF Rest
<1>8. e \in 1 .. S /\ k \in 1 .. L
  <2>1. i \in 0 .. S
    OBVIOUS
  <2> HIDE DEF S, L, s
  <2>2. e \in 1 .. S
    BY <1>3, <1>4, <2>1
  <2> QED BY <1>4, <2>2
<1> HIDE DEF s, L, S
<1>9. (k = L <=> ChunkOutput(c) = cur) /\ (k # L => k \in 1 .. L - 1) /\ f \in {0, 1}
      /\ Link(n, k) \in Id
  <2>1. k # L => k \in 1 .. L - 1
    BY <1>4, <1>8
  <2> QED BY <1>1, <1>3, <1>4, <2>1
<1>10. link \in Seq(Id) /\ Len(link) = f /\ (f = 1 => link[1] = Link(n, k))
  <2>1. CASE k = L
    BY <1>9, <2>1
  <2>2. CASE k # L
    BY <1>3, <1>9, <2>2
  <2> QED BY <2>1, <2>2
<1> HIDE DEF link, m, f
<1>11. sub \in Seq(Id) /\ Len(sub) = z - m /\ \A j \in 1 .. z - m : sub[j] = pending[m + j]
  <2>1. m + 1 \in 1 .. z + 1 /\ z \in Nat
    BY <1>1, <1>3
  <2>2. \A j \in m + 1 .. z : pending[j] \in Id
    BY <1>1, <2>1, ElementOfSeq
  <2> HIDE DEF z
  <2>3. m \in Nat
    BY <2>1, <1>3
  <2> QED BY <1>1, <2>1, <2>2, <2>3, SubSeqProperties DEF z
<1> HIDE DEF sub, z
<1>12. z \in Nat /\ z - m = S - e /\ S - e \in Nat /\ i \in Nat /\ m \in Nat
  <2>1. i \in 0 .. S
    BY DEF S, s
  <2>2. e = i + (m - g)
    BY DEF m
  <2>3. i \in Nat /\ g \in Nat /\ z \in Nat /\ m \in Nat /\ e \in Nat /\ e <= S
    BY <1>3, <1>4, <2>1
  <2> QED BY <1>3, <1>4, <2>2, <2>3
<1>13. /\ Len(pending') = f + (S - e)
       /\ \A j \in 1 .. f + (S - e) : pending'[j] = IF j <= f THEN link[j] ELSE sub[j - f]
  <2>1. f \in Nat
    BY <1>9
  <2>0. S - e \in Nat /\ Len(sub) = S - e
    BY <1>11, <1>12
  <2>2. link \o sub \in Seq(Id) /\ Len(link \o sub) = f + (S - e)
        /\ \A j \in 1 .. f + (S - e) : (link \o sub)[j] = IF j <= f THEN link[j] ELSE sub[j - f]
    BY SMTT(30), <1>10, <1>11, <2>0, <2>1, Concatenated
  <2> QED BY <1>7, <2>2
<1>14. /\ i \in Nat /\ e \in Nat /\ S \in Nat /\ z \in Nat /\ m \in Nat /\ f \in Nat /\ g \in Nat
       /\ i < e /\ e = i + (m - g) /\ z - m = S - e
  <2>1. e = i + (m - g)
    BY DEF m
  <2>2. f \in Nat /\ g \in Nat
    BY <1>9
  <2>3. e \in Nat /\ i < e
    BY <1>3, <1>4, <1>8, <1>12
  <2> QED BY <1>4, <1>12, <2>1, <2>2, <2>3
<1>15. \A h \in e + 1 .. S : pending'[f + (h - e)] = s[h]
  <2> SUFFICES ASSUME NEW h \in e + 1 .. S PROVE pending'[f + (h - e)] = s[h]
    OBVIOUS
  <2>1. /\ f + (h - e) \in 1 .. f + (S - e) /\ ~(f + (h - e) <= f)
        /\ (f + (h - e)) - f = h - e /\ h - e \in 1 .. z - m
        /\ m + (h - e) \in 1 .. z /\ m + (h - e) > g /\ i + ((m + (h - e)) - g) = h
    BY ONLY <1>14, h \in e + 1 .. S, RestPlace
  <2>2. pending'[f + (h - e)] = pending[m + (h - e)]
    BY <1>11, <1>13, <2>1
  <2>4. pending[m + (h - e)] = s[h]
    BY <1>3, <2>1
  <2> QED BY <2>2, <2>4
<1>16. /\ \A j \in 1 .. L : new[j] = IF j = k THEN e ELSE end[j]
       /\ \A j \in 1 .. L : new[j] <= e
  <2>1. \A j \in 1 .. L : new[j] = IF j = k THEN e ELSE end[j]
    BY <1>5
  <2> HIDE DEF new
  <2>2. \A j \in 1 .. L : end[j] \in Int
    BY <1>5
  <2>3. i < e /\ i \in Int /\ e \in Int
    BY <1>3, <1>8, <1>12
  <2>4. \A j \in 1 .. L : end[j] <= e
    BY <1>5, <2>2, <2>3
  <2> QED BY <2>1, <2>3, <2>4
<1> HIDE DEF new
<1>17. IF f = 0 THEN new[L] = e
               ELSE e # 0 /\ \E j \in 1 .. L - 1 : new[j] = e /\ pending'[1] = Link(n, j)
  <2>1. CASE k = L
    BY <1>8, <1>16, <2>1 DEF f
  <2>2. CASE k # L
    <3>1. f = 1 /\ 1 \in 1 .. f + (S - e) /\ 1 <= f
      BY <1>12, <2>2 DEF f
    <3>2. pending'[1] = Link(n, k)
      BY <1>10, <1>13, <3>1
    <3>3. k \in 1 .. L - 1 /\ new[k] = e /\ e # 0
      BY <1>8, <1>9, <1>16, <2>2
    <3> QED BY <3>1, <3>2, <3>3
  <2> QED BY <2>1, <2>2
<1>18. S' = S
  BY <1>6 DEF S
<1>19. PICK d, r : d = new /\ r = f
  OBVIOUS
<1>20. Remains(n, d, e, r)'
  BY <1>6, <1>13, <1>15, <1>16, <1>17, <1>18, <1>19 DEF Remains, S, s, L
<1>21. [end EXCEPT ![k] = e] = d /\ (IF k = LastLink(n) THEN 0 ELSE 1) = r
  BY <1>19 DEF new, f, L
<1> QED BY <1>6, <1>20, <1>21 DEF L

(* The clusters after one of them, or the next, became p, which computes o  *)
(* besides.                                                                 *)
Extended(cs, c, p, o) ==
  /\ Cid = 1 .. Len(clusters) /\ Cid' = 1 .. Len(cs) /\ Cid \subseteq Cid' /\ c \in Cid'
  /\ \A d \in Cid' : IF d \in Cid THEN cs[d] = clusters[d] ELSE cs[d] = NoCluster
  /\ \A d \in Cid' : clusters'[d] = IF d = c THEN p ELSE cs[d]
  /\ p.outputs = cs[c].outputs \union {o}
  /\ cs[c].inputs \subseteq p.inputs

(* Packing one chunk adds one cluster to the hosts of one link at most.     *)
LEMMA HostsAfter ==
  ASSUME NEW cs, NEW c, NEW p, NEW o, Extended(cs, c, p, o)
  PROVE  /\ \A x : x # o => Hosts(x)' = Hosts(x)
         /\ Hosts(o)' = Hosts(o) \union {c}
         /\ \A x : InputsWith(x) \subseteq InputsWith(x)'
         /\ p.inputs \subseteq InputsWith(o)'
<1>1. Cid \subseteq Cid' /\ c \in Cid'
  BY DEF Extended
<1>2. \A d \in Cid' : /\ clusters'[d].outputs = IF d = c THEN cs[d].outputs \union {o} ELSE cs[d].outputs
                      /\ cs[d].inputs \subseteq clusters'[d].inputs
                      /\ d = c => clusters'[d].inputs = p.inputs
                      /\ d \in Cid => cs[d] = clusters[d]
                      /\ d \notin Cid => cs[d].outputs = {}
  <2> SUFFICES ASSUME NEW d \in Cid'
               PROVE  /\ clusters'[d].outputs = IF d = c THEN cs[d].outputs \union {o} ELSE cs[d].outputs
                      /\ cs[d].inputs \subseteq clusters'[d].inputs
                      /\ d = c => clusters'[d].inputs = p.inputs
                      /\ d \in Cid => cs[d] = clusters[d]
                      /\ d \notin Cid => cs[d].outputs = {}
    OBVIOUS
  <2>1. NoCluster.outputs = {}
    BY DEF NoCluster
  <2>2. /\ IF d \in Cid THEN cs[d] = clusters[d] ELSE cs[d] = NoCluster
        /\ clusters'[d] = IF d = c THEN p ELSE cs[d]
        /\ p.outputs = cs[c].outputs \union {o} /\ cs[c].inputs \subseteq p.inputs
    BY DEF Extended
  <2>3. CASE d = c
    BY <2>1, <2>2, <2>3
  <2>4. CASE d # c
    BY <2>1, <2>2, <2>4
  <2> QED BY <2>3, <2>4
<1>3. ASSUME NEW x PROVE \A d : d \in Hosts(x)' <=> d \in Hosts(x) \/ (x = o /\ d = c)
  BY <1>1, <1>2 DEF Hosts
<1>4. \A x : x # o => Hosts(x)' = Hosts(x)
  BY <1>3
<1>5. Hosts(o)' = Hosts(o) \union {c}
  BY <1>3
<1>6. \A x : InputsWith(x) = UNION { clusters[d].inputs : d \in Hosts(x) }
  BY DEF InputsWith, Hosts
<1>7. \A x : InputsWith(x)' = UNION { clusters'[d].inputs : d \in Hosts(x)' }
  BY DEF InputsWith, Hosts
<1>8. \A x : Hosts(x) \subseteq Cid /\ Hosts(x)' \subseteq Cid'
  BY DEF Hosts
<1>9. ASSUME NEW x PROVE InputsWith(x) \subseteq InputsWith(x)'
  <2>1. \A d \in Hosts(x) : d \in Hosts(x)' /\ clusters[d].inputs \subseteq clusters'[d].inputs
    BY <1>1, <1>2, <1>3, <1>8
  <2> QED BY <1>6, <1>7, <2>1
<1>10. p.inputs \subseteq InputsWith(o)'
  BY <1>1, <1>2, <1>5, <1>7
<1> QED BY <1>4, <1>5, <1>9, <1>10

(* A chunk is packed for the neuron at the turn: what its links receive.    *)
LEMMA ChunkReceived ==
  ASSUME UNCHANGED unrollVars, crossbar_size' = crossbar_size,
         NEW n \in Neuron, Ordered(n), NEW end, Reaches(n, end),
         NEW i \in 0 .. Len(InputsToPack(n)), NEW g \in {0, 1}, Remains(n, end, i, g),
         NEW e \in i + 1 .. Len(InputsToPack(n)), NEW k, k = TakerOf(n, e),
         Whole => EndsLink(n, e),
         NEW o, o = Link(n, k), NEW p,
         \A h \in i + 1 .. e : InputsToPack(n)[h] \in p.inputs, g = 1 => pending[1] \in p.inputs,
         NEW cs, NEW c, Extended(cs, c, p, o)
  PROVE  /\ Reaches(n, [end EXCEPT ![k] = e])'
         /\ [end EXCEPT ![k] = e] \in [1 .. LastLink(n) -> 0 .. Len(InputsToPack(n))]
<1> PICK s : s = InputsToPack(n)
  OBVIOUS
<1> PICK L : L = LastLink(n)
  OBVIOUS
<1> PICK S : S = Len(s)
  OBVIOUS
<1> PICK new : new = [end EXCEPT ![k] = e]
  OBVIOUS
<1> PICK link : link = [j \in 1 .. L |-> Link(n, j)]
  OBVIOUS
<1>1. /\ S \in Nat /\ L \in Nat \ {0} /\ (S # 0 => TakerOf(n, S) = L)
      /\ \A h \in 1 .. S : TakerOf(n, h) \in 1 .. L
      /\ \A h, j \in 1 .. S : h <= j => TakerOf(n, h) <= TakerOf(n, j)
      /\ \A h, j \in 1 .. L : link[h] = link[j] => h = j
  BY DEF Ordered
<1>2. \A j \in 1 .. L : Link(n, j) = link[j]
  OBVIOUS
<1>3. /\ end \in [1 .. L -> 0 .. S]
      /\ \A j \in 1 .. L : Computed(link[j]) => end[j] # 0
      /\ \A j \in 1 .. L : end[j] # 0 =>
           TakerOf(n, end[j]) = j /\ (Whole => EndsLink(n, end[j]))
  BY DEF Reaches
<1>4. \A j \in 1 .. L : \A h \in 1 .. end[j] :
            \/ s[h] \in InputsWith(link[j])
            \/ \E l \in 1 .. j - 1 : link[l] \in InputsWith(link[j]) /\ h <= end[l]
  <2> SUFFICES ASSUME NEW j \in 1 .. L, NEW h \in 1 .. end[j]
               PROVE  \/ s[h] \in InputsWith(link[j])
                      \/ \E l \in 1 .. j - 1 : link[l] \in InputsWith(link[j]) /\ h <= end[l]
    OBVIOUS
  <2>1. \/ s[h] \in InputsWith(Link(n, j))
        \/ \E l \in 1 .. j - 1 : Link(n, l) \in InputsWith(Link(n, j)) /\ h <= end[l]
    BY DEF Reaches
  <2>2. \A l \in 1 .. j - 1 : l \in 1 .. L
    BY <1>1
  <2> QED BY <1>2, <2>1, <2>2
<1>5. /\ \A j \in 1 .. L : end[j] <= i
      /\ IF g = 0 THEN end[L] = i
                  ELSE i # 0 /\ \E j \in 1 .. L - 1 : end[j] = i /\ pending[1] = Link(n, j)
  BY DEF Remains
<1>6. e \in 1 .. S /\ k \in 1 .. L /\ i < e /\ i \in 0 .. S
  <2>1. i \in 0 .. S /\ e \in i + 1 .. S
    OBVIOUS
  <2>2. e \in 1 .. S /\ i < e
    BY <1>1, <2>1
  <2> QED BY <1>1, <2>1, <2>2
<1>7. o = link[k]
  BY <1>2, <1>6
<1>8. /\ \A x : x # o => Hosts(x)' = Hosts(x)
      /\ \A x : InputsWith(x) \subseteq InputsWith(x)'
      /\ p.inputs \subseteq InputsWith(o)'
  BY HostsAfter
<1>9. \A x : (Computed(x) <=> Hosts(x) # {}) /\ (Computed(x)' <=> Hosts(x)' # {})
  BY DEF Computed, Hosts
<1>10. /\ \A j \in 1 .. L : new[j] = IF j = k THEN e ELSE end[j]
       /\ new \in [1 .. L -> 0 .. S]
  BY <1>3, <1>6
<1>11. \A j \in 1 .. L : end[j] <= new[j] /\ end[j] \in Int /\ new[j] \in Int
  BY <1>1, <1>3, <1>5, <1>6, <1>10
<1>12. /\ \A h \in i + 1 .. e : s[h] \in p.inputs
  OBVIOUS
(* Link k. *)
<1>13. ASSUME NEW h \in 1 .. e
       PROVE  \/ s[h] \in InputsWith(o)'
              \/ \E l \in 1 .. k - 1 : link[l] \in InputsWith(o)' /\ h <= new[l]
  <2>1. CASE i < h
    <3>1. h \in i + 1 .. e
      BY <1>6, <2>1
    <3> QED BY <1>8, <1>12, <3>1
  <2>2. CASE ~(i < h)
    <3>1. h \in 1 .. i /\ i # 0 /\ i \in 1 .. S
      BY <1>1, <1>6, <2>2
    <3>2. \A j \in 1 .. L : end[j] = i => j <= k
      <4> SUFFICES ASSUME NEW j \in 1 .. L, end[j] = i PROVE j <= k
        OBVIOUS
      <4>1. TakerOf(n, i) = j
        BY <1>3, <3>1
      <4>2. i <= e
        BY <1>1, <1>6, <3>1
      <4> QED BY <1>1, <1>6, <3>1, <4>1, <4>2
    <3>3. \E j \in 1 .. L : end[j] = i /\ (j = k \/ link[j] \in p.inputs)
      <4>1. CASE g = 0
        <5>1. L \in 1 .. L /\ end[L] = i
          BY <1>1, <1>5, <4>1
        <5>2. L <= k
          BY <3>2, <5>1
        <5>3. L = k
          BY <1>1, <1>6, <5>2
        <5> QED BY <5>1, <5>3
      <4>2. CASE g = 1
        <5>1. PICK j \in 1 .. L - 1 : end[j] = i /\ pending[1] = Link(n, j)
          BY <1>5, <4>2
        <5>2. j \in 1 .. L
          BY <1>1
        <5>3. link[j] = pending[1]
          BY <1>2, <5>1, <5>2
        <5> QED BY <4>2, <5>1, <5>2, <5>3
      <4> QED BY <4>1, <4>2
    <3>4. PICK j \in 1 .. L : end[j] = i /\ (j = k \/ link[j] \in p.inputs)
      BY <3>3
    <3>5. CASE j = k
      <4>1. \/ s[h] \in InputsWith(o)
            \/ \E l \in 1 .. k - 1 : link[l] \in InputsWith(o) /\ h <= end[l]
        BY <1>4, <1>7, <3>1, <3>4, <3>5
      <4>2. ASSUME NEW l \in 1 .. k - 1, link[l] \in InputsWith(o), h <= end[l]
            PROVE  link[l] \in InputsWith(o)' /\ h <= new[l]
        <5>1. l \in 1 .. L /\ l # k
          BY <1>1, <1>6
        <5> QED BY <1>8, <1>10, <4>2, <5>1
      <4>3. s[h] \in InputsWith(o) => s[h] \in InputsWith(o)'
        BY <1>8
      <4> QED BY <4>1, <4>2, <4>3
    <3>6. CASE j # k
      <4>1. j <= k
        BY <3>2, <3>4
      <4>2. j \in 1 .. k - 1
        BY <1>1, <1>6, <3>6, <4>1
      <4>3. link[j] \in InputsWith(o)'
        BY <1>8, <3>4, <3>6
      <4>4. h <= new[j]
        BY <1>10, <3>1, <3>4, <3>6
      <4> QED BY <4>2, <4>3, <4>4
    <3> QED BY <3>5, <3>6
  <2> QED BY <2>1, <2>2
(* The other links. *)
<1>14. ASSUME NEW j \in 1 .. L, NEW h \in 1 .. new[j]
       PROVE  \/ s[h] \in InputsWith(link[j])'
              \/ \E l \in 1 .. j - 1 : link[l] \in InputsWith(link[j])' /\ h <= new[l]
  <2> PICK x : x = link[j]
    OBVIOUS
  <2>0. InputsWith(link[j])' = InputsWith(x)'
    OBVIOUS
  <2>1. CASE j = k
    BY <1>7, <1>10, <1>13, <2>1
  <2>2. CASE j # k
    <3>1. \/ s[h] \in InputsWith(x)
          \/ \E l \in 1 .. j - 1 : link[l] \in InputsWith(x) /\ h <= end[l]
      BY <1>4, <1>10, <2>2
    <3>2. s[h] \in InputsWith(x) => s[h] \in InputsWith(x)'
      BY <1>8
    <3>3. ASSUME NEW l \in 1 .. j - 1, link[l] \in InputsWith(x), h <= end[l]
          PROVE  link[l] \in InputsWith(x)' /\ h <= new[l]
      <4>1. l \in 1 .. L
        BY <1>1
      <4>2. end[l] <= new[l] /\ end[l] \in Int /\ new[l] \in Int /\ h \in Int
        BY <1>11, <4>1
      <4>3. h <= new[l]
        BY <3>3, <4>2
      <4> QED BY <1>8, <3>3, <4>3
    <3> QED BY <2>0, <3>1, <3>2, <3>3
  <2> QED BY <2>1, <2>2
<1>15. \A j \in 1 .. L : Computed(link[j])' => new[j] # 0
  <2> SUFFICES ASSUME NEW j \in 1 .. L, Computed(link[j])' PROVE new[j] # 0
    OBVIOUS
  <2>1. CASE j = k
    BY <1>6, <1>10, <2>1
  <2>2. CASE j # k
    <3> PICK x : x = link[j]
      OBVIOUS
    <3>1. x # o
      BY <1>1, <1>6, <1>7, <2>2
    <3>2. Computed(x)
      BY <1>8, <1>9, <3>1
    <3> QED BY <1>3, <1>10, <2>2, <3>2
  <2> QED BY <2>1, <2>2
<1>16. \A j \in 1 .. L : new[j] # 0 => TakerOf(n, new[j]) = j /\ (Whole => EndsLink(n, new[j]))
  BY <1>3, <1>10
<1>17. /\ InputsToPack(n)' = s /\ LastLink(n)' = L /\ \A j \in 1 .. L : Link(n, j)' = link[j]
       /\ \A h : TakerOf(n, h)' = TakerOf(n, h) /\ EndsLink(n, h)' = EndsLink(n, h)
       /\ Whole' = Whole
  <2>1. /\ InputsToPack(n)' = s /\ LastLink(n)' = L /\ \A j : Link(n, j)' = Link(n, j)
        /\ \A h : TakerOf(n, h)' = TakerOf(n, h) /\ Whole' = Whole
    BY ListsKept
  <2>2. \A h : EndsLink(n, h)' = EndsLink(n, h)
    BY <2>1 DEF EndsLink
  <2> QED BY <1>2, <2>1, <2>2
<1>18. \A j \in 1 .. L : /\ Computed(Link(n, j))' => Computed(link[j])'
                         /\ InputsWith(Link(n, j))' = InputsWith(link[j])'
  <2> SUFFICES ASSUME NEW j \in 1 .. L
               PROVE  /\ Computed(Link(n, j))' => Computed(link[j])'
                      /\ InputsWith(Link(n, j))' = InputsWith(link[j])'
    OBVIOUS
  <2>1. Link(n, j)' = link[j]
    BY <1>17
  <2> QED BY <2>1 DEF Computed, InputsWith
<1>19. \A j \in 1 .. L : \A h \in 1 .. new[j] :
         \/ s[h] \in InputsWith(Link(n, j))'
         \/ \E l \in 1 .. j - 1 : Link(n, l)' \in InputsWith(Link(n, j))' /\ h <= new[l]
  <2> SUFFICES ASSUME NEW j \in 1 .. L, NEW h \in 1 .. new[j]
               PROVE  \/ s[h] \in InputsWith(Link(n, j))'
                      \/ \E l \in 1 .. j - 1 : Link(n, l)' \in InputsWith(Link(n, j))' /\ h <= new[l]
    OBVIOUS
  <2>1. \A l \in 1 .. j - 1 : l \in 1 .. L
    BY <1>1
  <2> QED BY <1>14, <1>17, <1>18, <2>1
<1>20. Reaches(n, new)'
  <2>1. \A j \in 1 .. L : Computed(Link(n, j))' => new[j] # 0
    BY <1>15, <1>18
  <2> QED BY <1>10, <1>16, <1>17, <1>19, <2>1 DEF Reaches
<1> QED BY <1>10, <1>20

(* Whatever the neurons the clusters are asked about: OneCluster, with the  *)
(* clusters that compute a neuron.                                          *)
LEMMA OneHost ==
  /\ OneCluster <=> (Whole => \A m \in Id : Cardinality(Hosts(m)) <= 1)
  /\ OneCluster' <=> (Whole' => \A m \in Id' : Cardinality(Hosts(m)') <= 1)
  BY DEF OneCluster, Whole, Hosts

(* One chunk is packed.                                                     *)
LEMMA ChunkProgress ==
  ASSUME ProgressInv, ShapeInv', PackInv', phase = "pack", phase' = phase, pending # <<>>,
         UNCHANGED <<unrollVars, crossbar_size, cur, todo>>,
         NEW cs, NEW c, c \in Cid', cs[c] \in Crossbar, CanPack(cs[c]), pending' = Rest(cs[c]),
         Cid = 1 .. Len(clusters), Cid' = 1 .. Len(cs), Cid \subseteq Cid',
         \A d \in Cid' : IF d \in Cid THEN cs[d] = clusters[d] ELSE cs[d] = NoCluster,
         \A d \in Cid' : clusters'[d] = IF d = c THEN Packed(cs[c]) ELSE cs[d]
  PROVE  ProgressInv'
<1>1. /\ cur \in Neuron /\ cur \notin todo /\ ShapeInv /\ PackInv /\ Started /\ OneCluster
      /\ crossbar_size \in Nat \ {0, 1} /\ LineInv
  BY DEF ProgressInv, PackInv, PackTypes, Started, ShapeInv
<1> PICK n \in Neuron : n = cur
  BY <1>1
<1>2. Ordered(n)
  BY <1>1, PlacesOrdered
<1>3. PICK end : /\ end \in [1 .. LastLink(n) -> 0 .. Len(InputsToPack(n))] /\ Reaches(n, end)
                 /\ \E i \in 0 .. Len(InputsToPack(n)), g \in {0, 1} : Remains(n, end, i, g)
  BY <1>1 DEF ProgressInv, Progress
<1>4. PICK i \in 0 .. Len(InputsToPack(n)), g \in {0, 1} : Remains(n, end, i, g)
  BY <1>3
<1> PICK e : e = i + (NumCanBePacked(cs[c]) - g)
  OBVIOUS
<1> PICK k : k = TakerOf(n, e)
  OBVIOUS
<1> PICK o : o = Link(n, k)
  OBVIOUS
<1> PICK p : p = Packed(cs[c])
  OBVIOUS
<1>5. /\ Packing(pending) /\ Listed(cur, pending) /\ cur \in Id
  BY <1>1, ReadyToPack DEF PackInv
<1>6. ChunkAt(n, i, g, cs[c])
  BY <1>1, <1>2, <1>3, <1>4, <1>5, ChunkPlace
<1>7. /\ e \in i + 1 .. Len(InputsToPack(n)) /\ ChunkOutput(cs[c]) = o
      /\ \A h \in i + 1 .. e : InputsToPack(n)[h] \in p.inputs
      /\ g = 1 => pending[1] \in p.inputs
  BY <1>6 DEF ChunkAt
<1>8. Whole => EndsLink(n, e)
  BY <1>1, <1>2, <1>3, <1>4, ChunkEnds
<1>9. Remains(n, [end EXCEPT ![k] = e], e, IF k = LastLink(n) THEN 0 ELSE 1)'
  BY <1>1, <1>2, <1>3, <1>4, RestRemains
<1>10. Extended(cs, c, p, o)
  <2>1. p.outputs = cs[c].outputs \union {o} /\ cs[c].inputs \subseteq p.inputs
    BY <1>7 DEF Packed
  <2> QED BY <2>1 DEF Extended
<1>11. /\ Reaches(n, [end EXCEPT ![k] = e])'
       /\ [end EXCEPT ![k] = e] \in [1 .. LastLink(n) -> 0 .. Len(InputsToPack(n))]
  <2>1. UNCHANGED unrollVars /\ crossbar_size' = crossbar_size
    OBVIOUS
  <2>2. Ordered(n) /\ Reaches(n, end) /\ Remains(n, end, i, g) /\ (Whole => EndsLink(n, e))
    BY <1>2, <1>3, <1>4, <1>8
  <2>3. e \in i + 1 .. Len(InputsToPack(n)) /\ k = TakerOf(n, e) /\ o = Link(n, k)
    BY <1>7
  <2>4. (\A h \in i + 1 .. e : InputsToPack(n)[h] \in p.inputs) /\ (g = 1 => pending[1] \in p.inputs)
    BY <1>7
  <2> QED BY ONLY <2>1, <2>2, <2>3, <2>4, <1>10, i \in 0 .. Len(InputsToPack(n)), g \in {0, 1}, n \in Neuron, ChunkReceived
<1>12. /\ \A x : InputsToPack(x)' = InputsToPack(x) /\ LastLink(x)' = LastLink(x)
       /\ \A x, j : Link(x, j)' = Link(x, j)
       /\ Whole' = Whole /\ Id' = Id
  BY ListsKept
<1>13. e \in 0 .. Len(InputsToPack(n))
  BY <1>2, <1>7 DEF Ordered
<1>14. Progress(n)'
  <2>1. n = cur'
    OBVIOUS
  <2> PICK new : new = [end EXCEPT ![k] = e]
    OBVIOUS
  <2> PICK f : f = IF k = LastLink(n) THEN 0 ELSE 1
    OBVIOUS
  <2>2. f \in {0, 1} /\ Remains(n, new, e, f)'
    BY <1>9, <1>12
  <2>3. Reaches(n, new)' /\ new \in [1 .. LastLink(n) -> 0 .. Len(InputsToPack(n))]
    BY <1>11
  <2> QED BY <1>12, <1>13, <2>1, <2>2, <2>3 DEF Progress
<1>15. /\ \A x : x # o => Hosts(x)' = Hosts(x)
       /\ Hosts(o)' = Hosts(o) \union {c}
       /\ \A x : InputsWith(x) \subseteq InputsWith(x)'
  BY <1>10, HostsAfter
<1>16. \A x : (Computed(x) <=> Hosts(x) # {}) /\ (Computed(x)' <=> Hosts(x)' # {})
  BY DEF Computed, Hosts
<1>17. k \in 1 .. LastLink(n) /\ e \in 1 .. Len(InputsToPack(n)) /\ i < e
  <2>1. Len(InputsToPack(n)) \in Nat
    BY <1>2 DEF Ordered
  <2>2. e \in 1 .. Len(InputsToPack(n)) /\ i < e
    BY <1>7, <2>1
  <2> QED BY <1>2, <2>2 DEF Ordered
<1>18. ASSUME NEW x \in Neuron \ todo PROVE Progress(x)'
  <2>1. CASE x = n
    BY <1>14, <2>1
  <2>2. CASE x # n
    <3>1. Progress(x)
      BY DEF ProgressInv
    <3>2. \A j \in 1 .. LastLink(x) : /\ Computed(Link(x, j))' => Computed(Link(x, j))
                                      /\ InputsWith(Link(x, j)) \subseteq InputsWith(Link(x, j))'
      <4> SUFFICES ASSUME NEW j \in 1 .. LastLink(x)
                   PROVE  /\ Computed(Link(x, j))' => Computed(Link(x, j))
                          /\ InputsWith(Link(x, j)) \subseteq InputsWith(Link(x, j))'
        OBVIOUS
      <4> PICK y : y = Link(x, j)
        OBVIOUS
      <4>1. y # o
        BY <1>1, <1>17, <2>2, LinksOfOthers
      <4>2. (Computed(y)' => Computed(y)) /\ InputsWith(y) \subseteq InputsWith(y)'
        BY <1>15, <1>16, <4>1
      <4>3. Link(x, j)' = y
        BY <1>12
      <4>4. (Computed(Link(x, j))' => Computed(y)') /\ InputsWith(Link(x, j))' = InputsWith(y)'
        BY <4>3 DEF Computed, InputsWith
      <4> QED BY <4>2, <4>4
    <3> QED BY <2>2, <3>1, <3>2, ProgressKept
  <2> QED BY <2>1, <2>2
<1>19. OneCluster'
  <2> SUFFICES ASSUME Whole, NEW m \in Id PROVE Cardinality(Hosts(m)') <= 1
    BY <1>12, OneHost
  <2>1. CASE m # o
    BY <1>1, <1>15, <2>1, OneHost
  <2>2. CASE m = o
    <3>1. Hosts(o) = {}
      <4> SUFFICES ASSUME Hosts(o) # {} PROVE FALSE
        OBVIOUS
      <4>1. Computed(Link(n, k))
        BY <1>16
      <4>2. end[k] # 0
        BY <1>3, <1>17, <4>1 DEF Reaches
      <4>3. TakerOf(n, end[k]) = k /\ EndsLink(n, end[k])
        BY <1>3, <1>17, <4>2 DEF Reaches
      <4>4. end[k] <= i /\ end[k] \in Int
        BY <1>3, <1>4, <1>17 DEF Remains
      <4>5. end[k] < e
        BY <1>17, <4>4
      <4>6. TakerOf(n, end[k]) < TakerOf(n, e)
        BY <1>17, <4>3, <4>5 DEF EndsLink
      <4>7. k < k /\ k \in Int
        BY <1>17, <4>3, <4>6
      <4> QED BY <4>7
    <3>2. Hosts(m)' = {c}
      BY <1>15, <2>2, <3>1
    <3>3. Cardinality({c}) = 1
      BY FS_Singleton
    <3> QED BY <3>2, <3>3
  <2> QED BY <2>1, <2>2
<1>20. Started'
  <2>1. ASSUME NEW d \in Cid', NEW x \in clusters'[d].outputs \intersect Id
        PROVE  \E m \in Neuron \ todo : \E j \in 1 .. LastLink(m) : x = Link(m, j)
    <3>1. d \in Hosts(x)'
      BY <2>1 DEF Hosts
    <3>2. CASE x = o
      BY <1>1, <1>17, <3>2
    <3>3. CASE x # o
      <4>1. d \in Hosts(x)
        BY <1>15, <3>1, <3>3
      <4>2. d \in Cid /\ x \in clusters[d].outputs \intersect Id
        BY <4>1 DEF Hosts
      <4> QED BY <1>1, <4>2 DEF Started
    <3> QED BY <3>2, <3>3
  <2>2. ~(idx < NumNeurons) /\ idx' = idx
    BY <1>1 DEF PackInv, Stages, unrollVars
  <2>3. cur' \notin todo'
    BY <1>1
  <2> QED BY <1>12, <2>1, <2>2, <2>3 DEF Started
<1> QED BY <1>18, <1>19, <1>20 DEF ProgressInv

(* Steps that pack nothing and compute no neuron of the network.            *)
LEMMA ProgressStays ==
  ASSUME ProgressInv, ShapeInv', PackInv',
         UNCHANGED <<unrollVars, crossbar_size, cur, pending, todo>>,
         Cid \subseteq Cid', \A d \in Cid : clusters[d].inputs \subseteq clusters'[d].inputs,
         \A d \in Cid' : \A x \in Id :
           x \in clusters'[d].outputs <=> d \in Cid /\ x \in clusters[d].outputs,
         idx < NumNeurons => phase' = "pack" /\ clusters' = clusters
  PROVE  ProgressInv'
<1>1. /\ ShapeInv /\ PackInv /\ Started /\ OneCluster /\ LineInv
      /\ todo \subseteq Neuron
  BY DEF ProgressInv, PackInv, PackTypes, ShapeInv
<1>2. /\ \A x : LastLink(x)' = LastLink(x)
      /\ \A x, j : Link(x, j)' = Link(x, j)
      /\ Whole' = Whole /\ Id' = Id
  BY ListsKept
<1>3. \A x \in Id : Hosts(x)' = Hosts(x)
  BY DEF Hosts
<1>4. \A x : (Computed(x) <=> Hosts(x) # {}) /\ (Computed(x)' <=> Hosts(x)' # {})
  BY DEF Computed, Hosts
<1>5. \A x \in Id : InputsWith(x) \subseteq InputsWith(x)'
  <2> SUFFICES ASSUME NEW x \in Id PROVE InputsWith(x) \subseteq InputsWith(x)'
    OBVIOUS
  <2>1. InputsWith(x) = UNION { clusters[d].inputs : d \in Hosts(x) }
    BY DEF InputsWith, Hosts
  <2>2. InputsWith(x)' = UNION { clusters'[d].inputs : d \in Hosts(x)' }
    BY DEF InputsWith, Hosts
  <2>3. \A d \in Hosts(x) : clusters[d].inputs \subseteq clusters'[d].inputs
    BY DEF Hosts
  <2> QED BY <1>3, <2>1, <2>2, <2>3
<1>6. ASSUME NEW n \in Neuron \ todo PROVE Progress(n)'
  <2>1. Progress(n)
    BY DEF ProgressInv
  <2>2. \A j \in 1 .. LastLink(n) : /\ Computed(Link(n, j))' => Computed(Link(n, j))
                                    /\ InputsWith(Link(n, j)) \subseteq InputsWith(Link(n, j))'
    <3> SUFFICES ASSUME NEW j \in 1 .. LastLink(n)
                 PROVE  /\ Computed(Link(n, j))' => Computed(Link(n, j))
                        /\ InputsWith(Link(n, j)) \subseteq InputsWith(Link(n, j))'
      OBVIOUS
    <3> PICK y : y = Link(n, j)
      OBVIOUS
    <3>1. y \in Id
      BY <1>1, LineMembers DEF LastLink
    <3>2. (Computed(y)' => Computed(y)) /\ InputsWith(y) \subseteq InputsWith(y)'
      BY <1>3, <1>4, <1>5, <3>1
    <3>3. Link(n, j)' = y
      BY <1>2
    <3>4. (Computed(Link(n, j))' => Computed(y)') /\ InputsWith(Link(n, j))' = InputsWith(y)'
      BY <3>3 DEF Computed, InputsWith
    <3> QED BY <3>2, <3>4
  <2> QED BY <2>1, <2>2, ProgressKept
<1>7. OneCluster'
  <2> SUFFICES ASSUME Whole, NEW m \in Id PROVE Cardinality(Hosts(m)') <= 1
    BY <1>2, OneHost
  <2> QED BY <1>1, <1>3, OneHost
<1>8. Started'
  <2>1. idx' = idx /\ cur' = cur /\ pending' = pending /\ todo' = todo
    BY DEF unrollVars
  <2>2. \A d \in Cid' : \A x \in clusters'[d].outputs \intersect Id :
          \E m \in Neuron \ todo : \E j \in 1 .. LastLink(m) : x = Link(m, j)
    BY <1>1 DEF Started
  <2>3. idx < NumNeurons =>
          phase' = "pack" /\ todo = Neuron /\ \A d \in Cid' : clusters'[d].outputs = {}
    <3>1. clusters' = clusters => Cid' = Cid
      BY DEF Cid
    <3> QED BY <1>1, <3>1 DEF Started
  <2>4. pending # <<>> => cur \notin todo
    BY <1>1 DEF Started
  <2> QED BY <1>2, <2>1, <2>2, <2>3, <2>4 DEF Started
<1>9. \A n \in Neuron \ todo' : Progress(n)'
  BY <1>6
<1> QED BY <1>7, <1>8, <1>9 DEF ProgressInv

(* A cluster, or the next one, is tried.                                    *)
LEMMA PackedProgress ==
  ASSUME ProgressInv, ShapeInv', PackInv', phase = "pack", phase' = phase, pending # <<>>,
         UNCHANGED <<unrollVars, crossbar_size, cur, todo>>,
         NEW cs \in Seq(Crossbar), NEW c \in 1 .. Len(cs), PackInto(c, cs),
         Cid = 1 .. Len(clusters), 1 .. Len(clusters) \subseteq 1 .. Len(cs),
         \A d \in 1 .. Len(cs) : IF d \in Cid THEN cs[d] = clusters[d] ELSE cs[d] = NoCluster
  PROVE  ProgressInv'
<1>1. Len(cs) \in Nat /\ DOMAIN cs = 1 .. Len(cs) /\ cs[c] \in Crossbar
  BY ElementOfSeq
<1>2. CASE CanPack(cs[c])
  <2>1. clusters' = [cs EXCEPT ![c] = Packed(cs[c])] /\ pending' = Rest(cs[c])
    BY <1>2 DEF PackInto
  <2> HIDE DEF PackInto
  <2>2. Cid' = 1 .. Len(cs) /\ \A d \in Cid' : clusters'[d] = IF d = c THEN Packed(cs[c]) ELSE cs[d]
    BY <1>1, <2>1 DEF Cid
  <2> QED BY <1>1, <1>2, <2>1, <2>2, ChunkProgress
<1>3. CASE ~CanPack(cs[c])
  <2>1. clusters' = cs /\ pending' = pending
    BY <1>3 DEF PackInto
  <2>2. Cid' = 1 .. Len(cs) /\ NoCluster.outputs = {}
    BY <1>1, <2>1 DEF Cid, NoCluster
  <2>3. ~(idx < NumNeurons)
    BY DEF ProgressInv, PackInv, Stages
  <2>4. \A d \in Cid : d \in Cid' /\ clusters'[d] = clusters[d]
    BY <2>1, <2>2
  <2>5. \A d \in Cid' : \A x \in Id :
           x \in clusters'[d].outputs <=> d \in Cid /\ x \in clusters[d].outputs
    BY <2>1, <2>2
  <2> QED BY <2>1, <2>3, <2>4, <2>5, ProgressStays
<1> QED BY <1>2, <1>3

(* A chunk packed in a cluster that has room for it.                        *)
LEMMA TryProgress ==
  ASSUME ProgressInv, ShapeInv', PackInv', NEW c \in left, TryCluster(c)
  PROVE  ProgressInv'
<1>1. /\ phase = "pack" /\ pending # <<>> /\ PackInto(c, clusters)
      /\ UNCHANGED <<unrollVars, crossbar_size, cur, todo>> /\ phase' = phase
  BY DEF TryCluster, connectVars
<1>2. /\ clusters \in Seq(Crossbar) /\ Len(clusters) \in Nat /\ Cid = 1 .. Len(clusters)
  BY <1>1, ClustersAreOK DEF ProgressInv
<1>3. c \in 1 .. Len(clusters)
  BY <1>2 DEF ProgressInv, PackInv, PackTypes
<1>4. \A d \in 1 .. Len(clusters) : IF d \in Cid THEN clusters[d] = clusters[d] ELSE clusters[d] = NoCluster
  BY <1>2
<1> QED BY <1>1, <1>2, <1>3, <1>4, PackedProgress

(* A chunk packed in a new cluster.                                         *)
LEMMA NewProgress ==
  ASSUME ProgressInv, ShapeInv', PackInv', NewCluster
  PROVE  ProgressInv'
<1> PICK cs : cs = Append(clusters, NoCluster)
  OBVIOUS
<1>1. /\ phase = "pack" /\ pending # <<>> /\ PackInto(Len(clusters) + 1, cs)
      /\ UNCHANGED <<unrollVars, crossbar_size, cur, todo>> /\ phase' = phase
  BY DEF NewCluster, connectVars
<1>2. /\ clusters \in Seq(Crossbar) /\ Len(clusters) \in Nat /\ Cid = 1 .. Len(clusters)
  BY <1>1, ClustersAreOK DEF ProgressInv
<1>3. /\ cs \in Seq(Crossbar) /\ Len(cs) = Len(clusters) + 1 /\ cs[Len(clusters) + 1] = NoCluster
      /\ \A d \in 1 .. Len(clusters) : cs[d] = clusters[d]
  BY <1>2, NoClusterFits, AppendProperties
<1>4. /\ Len(clusters) + 1 \in 1 .. Len(cs) /\ 1 .. Len(clusters) \subseteq 1 .. Len(cs)
      /\ \A d \in 1 .. Len(cs) : d \in 1 .. Len(clusters) \/ d = Len(clusters) + 1
      /\ Len(clusters) + 1 \notin 1 .. Len(clusters)
  BY <1>2, <1>3
<1>5. \A d \in 1 .. Len(cs) : IF d \in Cid THEN cs[d] = clusters[d] ELSE cs[d] = NoCluster
  BY <1>2, <1>3, <1>4
<1> QED BY <1>1, <1>2, <1>3, <1>4, <1>5, PackedProgress

(* Joining two components adds a neuron that is no link of any chain.       *)
LEMMA ConnectProgress ==
  ASSUME ProgressInv, ShapeInv', PackInv', Connect
  PROVE  ProgressInv'
<1> PICK cs : cs = IF num_new % crossbar_size = 0 THEN Append(clusters, NoCluster) ELSE clusters
  OBVIOUS
<1> PICK n : n = Len(cs)
  OBVIOUS
<1> PICK h : h = Head(AtFront)
  OBVIOUS
<1>1. /\ PackInv /\ Started /\ crossbar_size \in Nat \ {0, 1} /\ num_new \in Nat
      /\ clusters \in Seq(Crossbar) /\ Len(clusters) \in Nat /\ Cid = 1 .. Len(clusters)
  BY ReadyToPack DEF ProgressInv, PackInv, PackTypes
<1>2. /\ phase = "connect" /\ phase' = phase /\ UNCHANGED <<unrollVars, crossbar_size, cur, pending, todo>>
      /\ clusters' = [cs EXCEPT ![n] = [inputs  |-> cs[n].inputs \union {h},
                                        outputs |-> cs[n].outputs \union {NewId}]]
  BY DEF Connect
<1>3. NewId \notin Id
  BY <1>1 DEF NewId, PackInv, EdgeInv, UnrollInv
<1>4. cs \in Seq(Crossbar) /\ n \in Nat /\ n \in 1 .. n /\ Len(clusters) <= n
      /\ \A d \in 1 .. n : IF d \in Cid THEN cs[d] = clusters[d] ELSE cs[d] = NoCluster
  <2>1. CASE num_new % crossbar_size = 0
    <3>1. /\ cs \in Seq(Crossbar) /\ n = Len(clusters) + 1 /\ cs[n] = NoCluster
          /\ \A d \in 1 .. Len(clusters) : cs[d] = clusters[d]
      BY <1>1, <2>1, NoClusterFits, AppendProperties
    <3>2. /\ n \in Nat /\ n \in 1 .. n /\ Len(clusters) <= n /\ n \notin Cid
          /\ \A d \in 1 .. n : d \in Cid \/ d = n
      BY <1>1, <3>1
    <3> QED BY <1>1, <3>1, <3>2
  <2>2. CASE num_new % crossbar_size # 0
    <3>1. num_new # 0
      BY <1>1, <2>2, Remainder
    <3>2. clusters # <<>> /\ cs = clusters
      BY <1>1, <2>2, <3>1 DEF PackInv, Filling
    <3>3. n # 0
      BY <1>1, <3>2, EmptySeq
    <3> QED BY <1>1, <3>2, <3>3
  <2> QED BY <2>1, <2>2
<1>5. Cid' = 1 .. n /\ \A d \in 1 .. n :
         clusters'[d] = IF d = n THEN [inputs  |-> cs[n].inputs \union {h},
                                       outputs |-> cs[n].outputs \union {NewId}] ELSE cs[d]
  <2> PICK last : last = [inputs  |-> cs[n].inputs \union {h},
                          outputs |-> cs[n].outputs \union {NewId}]
    OBVIOUS
  <2>1. DOMAIN cs = 1 .. n
    BY <1>2, <1>4, LenProperties
  <2>2. clusters' = [cs EXCEPT ![n] = last]
    BY <1>2
  <2>3. DOMAIN clusters' = 1 .. n /\ \A d \in 1 .. n : clusters'[d] = IF d = n THEN last ELSE cs[d]
    BY <1>4, <2>1, <2>2
  <2>4. Cid' = 1 .. n
    BY <1>2, <1>4, <2>3 DEF Cid
  <2> QED BY <2>3, <2>4
<1>6. Cid \subseteq Cid'
  BY <1>1, <1>4, <1>5
<1>7. \A d \in Cid : clusters[d].inputs \subseteq clusters'[d].inputs
  BY <1>4, <1>5, <1>6
<1>8. NoCluster.outputs = {}
  BY DEF NoCluster
<1>9. ASSUME NEW d \in Cid', NEW x \in Id
      PROVE  x \in clusters'[d].outputs <=> d \in Cid /\ x \in clusters[d].outputs
  <2>1. x \in clusters'[d].outputs <=> x \in cs[d].outputs
    BY <1>3, <1>5
  <2>2. IF d \in Cid THEN cs[d] = clusters[d] ELSE cs[d] = NoCluster
    BY <1>4, <1>5
  <2> QED BY <1>8, <2>1, <2>2
<1>10. ~(idx < NumNeurons)
  BY <1>1, <1>2 DEF Started
<1> QED BY <1>2, <1>6, <1>7, <1>9, <1>10, ProgressStays

(* The loop comes to the next neuron: the one before has nothing pending.   *)
LEMMA StartProgress ==
  ASSUME ProgressInv, ShapeInv', PackInv', NEW n \in todo, StartNeuron(n)
  PROVE  ProgressInv'
<1>1. /\ ShapeInv /\ PackInv /\ Started /\ OneCluster /\ LineInv
      /\ todo \subseteq Neuron /\ n \in Neuron /\ crossbar_size \in Nat
  BY DEF ProgressInv, PackInv, PackTypes, ShapeInv
<1>2. /\ UNCHANGED unrollVars /\ crossbar_size' = crossbar_size /\ clusters' = clusters
      /\ phase' = phase /\ idx' = idx /\ idx = NumNeurons /\ cur' = n /\ pending = <<>>
      /\ pending' = InputsToPack(n) /\ todo' = todo \ {n} /\ Cid' = Cid
  BY DEF StartNeuron, connectVars, unrollVars, Cid
<1>3. /\ \A x : InputsToPack(x)' = InputsToPack(x) /\ LastLink(x)' = LastLink(x)
      /\ \A x, j : Link(x, j)' = Link(x, j)
      /\ Whole' = Whole /\ Id' = Id
  BY <1>2, ListsKept
<1>4. \A x : Hosts(x)' = Hosts(x) /\ InputsWith(x)' = InputsWith(x) /\ Computed(x)' = Computed(x)
  BY <1>2 DEF Hosts, InputsWith, Computed
<1>5. OneCluster'
  BY <1>1, <1>3, <1>4, OneHost
<1>6. NumNeurons \in Nat
  BY UnrollAssumption
<1>7. Started'
  <2>1. ~(idx < NumNeurons)
    BY <1>2, <1>6
  <2> QED BY <1>1, <1>2, <1>3, <2>1 DEF Started
<1>8. ASSUME NEW x \in Neuron \ todo PROVE Progress(x)'
  <2>1. PICK end \in [1 .. LastLink(x) -> 0 .. Len(InputsToPack(x))] :
          /\ Reaches(x, end)
          /\ IF x = cur THEN \E i \in 0 .. Len(InputsToPack(x)), g \in {0, 1} : Remains(x, end, i, g)
                        ELSE end[LastLink(x)] = Len(InputsToPack(x))
    BY DEF ProgressInv, Progress
  <2>2. Ordered(x)
    BY <1>1, PlacesOrdered
  <2>3. end[LastLink(x)] = Len(InputsToPack(x))
    <3>1. CASE x # cur
      BY <2>1, <3>1
    <3>2. CASE x = cur
      <4>1. PICK i \in 0 .. Len(InputsToPack(x)), g \in {0, 1} : Remains(x, end, i, g)
        BY <2>1, <3>2
      <4>2. Len(<<>>) = 0
        OBVIOUS
      <4>3. 0 = g + (Len(InputsToPack(x)) - i) /\ (g = 0 => end[LastLink(x)] = i)
        BY <1>2, <4>1, <4>2 DEF Remains
      <4>4. Len(InputsToPack(x)) \in Nat
        BY <2>2 DEF Ordered
      <4> QED BY <4>3, <4>4
    <3> QED BY <3>1, <3>2
  <2>4. Reaches(x, end)'
    <3>1. \A k \in 1 .. LastLink(x) : /\ Computed(Link(x, k))' => Computed(Link(x, k))
                                      /\ InputsWith(Link(x, k)) \subseteq InputsWith(Link(x, k))'
      BY <1>2, <1>3 DEF Computed, InputsWith
    <3> QED BY <1>2, <2>1, <3>1, ReachesKept
  <2>5. x # cur'
    BY <1>2, <1>8
  <2> QED BY <1>3, <2>1, <2>3, <2>4, <2>5 DEF Progress
<1>9. Progress(n)'
  <2> PICK s : s = InputsToPack(n)
    OBVIOUS
  <2> PICK L : L = LastLink(n)
    OBVIOUS
  <2> PICK end : end = [k \in 1 .. L |-> 0]
    OBVIOUS
  <2>1. /\ s \in Seq(Neuron) /\ Len(s) \in Nat /\ L \in Nat \ {0}
    BY <1>1, PlacesOrdered DEF Ordered
  <2>2. end \in [1 .. L -> 0 .. Len(s)] /\ \A k \in 1 .. L : end[k] = 0
    BY <2>1
  <2>3. \A k \in 1 .. L : ~Computed(Link(n, k))
    <3> SUFFICES ASSUME NEW k \in 1 .. L, Computed(Link(n, k)) PROVE FALSE
      OBVIOUS
    <3>1. PICK c \in Cid : Link(n, k) \in clusters[c].outputs
      BY DEF Computed
    <3>2. Link(n, k) \in Id
      BY <1>1, LineMembers DEF LastLink
    <3>3. PICK m \in Neuron \ todo : \E j \in 1 .. LastLink(m) : Link(n, k) = Link(m, j)
      BY <1>1, <3>1, <3>2 DEF Started
    <3> QED BY <1>1, <3>3, LinksOfOthers
  <2>4. Reaches(n, end)
    BY <2>2, <2>3 DEF Reaches
  <2>5. Reaches(n, end)'
    <3>1. \A k \in 1 .. LastLink(n) : /\ Computed(Link(n, k))' => Computed(Link(n, k))
                                      /\ InputsWith(Link(n, k)) \subseteq InputsWith(Link(n, k))'
      BY <1>2, <1>3 DEF Computed, InputsWith
    <3> QED BY <1>2, <2>4, <3>1, ReachesKept
  <2>6. Remains(n, end, 0, 0)'
    <3>1. \A h \in 0 + 1 .. Len(s) : s[0 + (h - 0)] = s[h]
      <4> SUFFICES ASSUME NEW h \in 0 + 1 .. Len(s) PROVE s[0 + (h - 0)] = s[h]
        OBVIOUS
      <4>1. 0 + (h - 0) = h
        BY <2>1
      <4> QED BY <4>1
    <3>2. Len(s) = 0 + (Len(s) - 0)
      BY <2>1
    <3>3. end[L] = 0 /\ \A k \in 1 .. L : end[k] <= 0
      BY <2>1, <2>2
    <3> QED BY <1>2, <1>3, <3>1, <3>2, <3>3 DEF Remains
  <2>7. 0 \in 0 .. Len(s) /\ 0 \in {0, 1}
    BY <2>1
  <2> QED BY <1>2, <1>3, <2>2, <2>5, <2>6, <2>7 DEF Progress
<1>10. \A x \in Neuron \ todo' : Progress(x)'
  BY <1>2, <1>8, <1>9
<1> QED BY <1>5, <1>7, <1>10 DEF ProgressInv

(* Nothing is packed while neurons are unrolled.                            *)
LEMMA NothingPacked ==
  ASSUME ShapeInv, PackInv, todo = Neuron, pending = <<>>, phase = "pack",
         \A c \in Cid : clusters[c].outputs = {}
  PROVE  ProgressInv
<1>1. Started
  BY DEF Started
<1>2. OneCluster
  <2>1. \A m : Hosts(m) = {}
    BY DEF Hosts
  <2>2. Cardinality({}) = 0
    BY FS_EmptySet
  <2>3. ASSUME NEW m PROVE Cardinality(Hosts(m)) <= 1
    <3>1. Cardinality(Hosts(m)) = 0
      BY <2>1, <2>2, Zenon
    <3> QED BY <3>1
  <2> QED BY <2>3, OneHost
<1> QED BY <1>1, <1>2 DEF ProgressInv

(* Unrolling: nothing is packed yet.                                        *)
LEMMA UnrollProgress ==
  ASSUME ProgressInv, ShapeInv', PackInv', UnrollNeuron,
         UNCHANGED <<mode, crossbar_size, packVars, todo, connectVars>>
  PROVE  ProgressInv'
<1>1. idx < NumNeurons /\ Started /\ PackInv
  BY DEF ProgressInv, UnrollNeuron
<1>2. /\ todo' = Neuron /\ pending' = <<>> /\ phase' = "pack"
      /\ \A c \in Cid' : clusters'[c].outputs = {}
  BY <1>1 DEF Started, PackInv, Stages, packVars, connectVars, Cid
<1>3. Started'
  BY <1>2 DEF Started
<1>4. OneCluster'
  <2>1. \A m : Hosts(m)' = {}
    BY <1>2 DEF Hosts
  <2>2. Cardinality({}) = 0
    BY FS_EmptySet
  <2>3. \A m : Cardinality(Hosts(m)') <= 1
    BY <2>1, <2>2
  <2> QED BY <2>3, OneHost
<1> QED BY <1>2, <1>3, <1>4 DEF ProgressInv

(* At first nothing is packed.                                              *)
LEMMA ProgressInitial == Init => ProgressInv
<1> SUFFICES ASSUME Init PROVE ProgressInv
  OBVIOUS
<1>1. /\ todo = Neuron /\ pending = <<>> /\ phase = "pack"
      /\ clusters = IF mode = "min-clusters" THEN <<>> ELSE <<NoCluster>>
  BY DEF Init
<1>2. \A c \in Cid : clusters[c].outputs = {}
  BY <1>1 DEF Cid, NoCluster
<1> QED BY <1>1, <1>2, ShapesInitial, PackInitial, NothingPacked

(* Every step.                                                              *)
LEMMA ProgressStep == ProgressInv /\ [Next]_vars => ProgressInv'
<1> SUFFICES ASSUME ProgressInv, [Next]_vars
             PROVE  ProgressInv'
  OBVIOUS
<1>0. ShapeInv' /\ PackInv'
  BY ShapesKept, PackKept DEF ProgressInv
<1>1. CASE UnrollNeuron /\ UNCHANGED <<mode, crossbar_size, packVars, todo, connectVars>>
  BY <1>0, <1>1, UnrollProgress
<1>2. CASE \E n \in todo : StartNeuron(n)
  BY <1>0, <1>2, StartProgress
<1>3. CASE \E c \in left : TryCluster(c)
  BY <1>0, <1>3, TryProgress
<1>4. CASE NewCluster
  BY <1>0, <1>4, NewProgress
<1>5. CASE Connect
  BY <1>0, <1>5, ConnectProgress
<1>6. CASE FindComponents \/ Finish \/ UNCHANGED vars
  <2>1. UNCHANGED <<unrollVars, crossbar_size, cur, pending, todo>> /\ clusters' = clusters /\ Cid' = Cid
    BY <1>6 DEF FindComponents, Finish, vars, packVars, connectVars, Cid
  <2>2. idx < NumNeurons => phase' = "pack"
    <3>1. NumNeurons \in Nat
      BY UnrollAssumption
    <3> QED BY <1>6, <3>1 DEF ProgressInv, Started, FindComponents, Finish, vars, connectVars
  <2> QED BY <1>0, <2>1, <2>2, ProgressStays
<1> QED BY <1>1, <1>2, <1>3, <1>4, <1>5, <1>6 DEF Next

(* The invariant of the packing.                                            *)
THEOREM PackingProgresses == Spec => []ProgressInv
BY ProgressInitial, ProgressStep, PTL DEF Spec

(* With fan-in two, with a fan-in as large as the crossbar, or without      *)
(* unrolling, no neuron is computed by two clusters.                        *)
THEOREM NeuronsStayTogether == Spec => []OneCluster
<1>1. ProgressInv => OneCluster
  BY DEF ProgressInv
<1> QED BY <1>1, PackingProgresses, PTL

-----------------------------------------------------------------------------
(* What a neuron that the loop has passed receives.                         *)

(* One step back through the clusters from a set of neurons.                *)
BackTo(n, o, S) ==
  UNION { {m} \union (IF m \in Chain(n) \union {o} THEN InputsWith(m) ELSE {}) : m \in S }

(* R lists N steps back from o.                                             *)
StepsFrom(n, o, N, R) == R = [i \in 0 .. N |-> IF i = 0 THEN {o} ELSE BackTo(n, o, R[i - 1])]

(* The steps back are defined, however many.                                *)
LEMMA StepsBack ==
  ASSUME NEW n, NEW o, NEW N \in Nat
  PROVE  \E R : StepsFrom(n, o, N, R)
<1> DEFINE Steps(j) == \E R : StepsFrom(n, o, j, R)
           S == { j \in Nat : ~Steps(j) }
<1> SUFFICES ASSUME S # {} PROVE FALSE
  <2> QED BY DEF S
<1>1. PICK j \in S : \A i \in S : j <= i
  <2>1. S \in SUBSET Nat
    OBVIOUS
  <2> HIDE DEF S
  <2> QED BY <2>1, LeastOf
<1>2. j \in Nat /\ ~Steps(j)
  OBVIOUS
<1>3. j # 0
  <2> SUFFICES ASSUME j = 0 PROVE FALSE
    OBVIOUS
  <2> DEFINE R == [i \in 0 .. j |-> {o}]
  <2>1. R = [i \in 0 .. j |-> IF i = 0 THEN {o} ELSE BackTo(n, o, R[i - 1])]
    <3>1. \A i \in 0 .. j : i = 0
      BY <1>2
    <3> QED BY <3>1
  <2> HIDE DEF R
  <2> QED BY <1>2, <2>1 DEF StepsFrom
<1>4. j - 1 \in Nat /\ ~(j <= j - 1)
  BY <1>2, <1>3
<1>5. Steps(j - 1)
  <2> HIDE DEF Steps
  <2> QED BY <1>1, <1>4
<1>6. PICK R : R = [i \in 0 .. j - 1 |-> IF i = 0 THEN {o} ELSE BackTo(n, o, R[i - 1])]
  BY <1>5 DEF StepsFrom
<1>7. \A i \in 0 .. j - 1 : R[i] = IF i = 0 THEN {o} ELSE BackTo(n, o, R[i - 1])
  BY <1>6
<1> DEFINE Q == [i \in 0 .. j |-> IF i = j THEN BackTo(n, o, R[j - 1]) ELSE R[i]]
<1>8. Q = [i \in 0 .. j |-> IF i = 0 THEN {o} ELSE BackTo(n, o, Q[i - 1])]
  <2>1. \A i \in 0 .. j : i # 0 => i - 1 \in 0 .. j /\ i - 1 # j
    BY <1>2
  <2>2. \A i \in 0 .. j : i # j => i \in 0 .. j - 1
    BY <1>2
  <2>3. \A i \in 0 .. j : i # 0 => Q[i - 1] = R[i - 1]
    BY <2>1
  <2>4. \A i \in 0 .. j : Q[i] = IF i = 0 THEN {o} ELSE BackTo(n, o, Q[i - 1])
    <3> SUFFICES ASSUME NEW i \in 0 .. j PROVE Q[i] = IF i = 0 THEN {o} ELSE BackTo(n, o, Q[i - 1])
      OBVIOUS
    <3>1. CASE i = j
      <4>1. Q[i] = BackTo(n, o, R[i - 1])
        BY <3>1
      <4> HIDE DEF Q
      <4> QED BY <1>3, <2>3, <3>1, <4>1
    <3>2. CASE i # j
      <4>1. Q[i] = R[i]
        BY <3>2
      <4>2. R[i] = IF i = 0 THEN {o} ELSE BackTo(n, o, R[i - 1])
        BY <1>7, <2>2, <3>2
      <4> HIDE DEF Q
      <4> QED BY <2>3, <4>1, <4>2
    <3> QED BY <3>1, <3>2
  <2>5. Q = [i \in 0 .. j |-> Q[i]]
    OBVIOUS
  <2> HIDE DEF Q
  <2> QED BY <2>4, <2>5
<1> HIDE DEF Q
<1> QED BY <1>2, <1>8 DEF StepsFrom

(* All inputs up to the place of a link are gathered for it.                *)
LEMMA GatheredUpTo ==
  ASSUME NEW n \in Neuron, Neuron \subseteq Id, ChainOK(n), Line(n),
         NEW end, Reaches(n, end), NEW k \in 1 .. LastLink(n)
  PROVE  \A h \in 1 .. end[k] : InputsToPack(n)[h] \in Gathered(n, Link(n, k))
<1> DEFINE s == InputsToPack(n)
           L == LastLink(n)
           C == Cardinality(Chain(n))
           o == Link(n, k)
<1>1. L \in Nat /\ C + 1 = L /\ k \in 1 .. L /\ Link(n, L) = n
      /\ \A j \in 1 .. L - 1 : Link(n, j) \in Chain(n)
  <2>1. /\ Len(usnn[n].children) \in Nat /\ C = Len(usnn[n].children)
        /\ \A j \in 1 .. Len(usnn[n].children) : Link(n, j) \in Chain(n)
        /\ Link(n, Len(usnn[n].children) + 1) = n
    BY LinksOfChain, ChainLength
  <2> HIDE DEF C
  <2>2. L - 1 = Len(usnn[n].children)
    BY <2>1 DEF LastLink
  <2> QED BY <2>1, <2>2 DEF LastLink
<1>2. /\ end \in [1 .. L -> 0 .. Len(s)]
      /\ \A i \in 1 .. L : \A h \in 1 .. end[i] :
           \/ s[h] \in InputsWith(Link(n, i))
           \/ \E j \in 1 .. i - 1 : Link(n, j) \in InputsWith(Link(n, i)) /\ h <= end[j]
  BY DEF Reaches
<1>3. PICK R : /\ R = [i \in 0 .. L |-> IF i = 0 THEN {o} ELSE BackTo(n, o, R[i - 1])]
               /\ Gathered(n, o) = R[L]
  <2>1. \E W : StepsFrom(n, o, L, W)
    <3> HIDE DEF L, o
    <3> QED BY <1>1, StepsBack
  <2>2. \E W : W = [i \in 0 .. C + 1 |-> IF i = 0 THEN {o} ELSE BackTo(n, o, W[i - 1])]
    BY <1>1, <2>1 DEF StepsFrom
  <2>3. C + 1 = L
    BY <1>1
  <2>4. \E W : /\ W = [i \in 0 .. C + 1 |-> IF i = 0 THEN {o} ELSE BackTo(n, o, W[i - 1])]
               /\ Gathered(n, o) = W[C + 1]
    BY <2>2 DEF Gathered, BackTo
  <2> HIDE DEF L, C
  <2> QED BY <2>3, <2>4
<1>4. R[0] = {o} /\ \A i \in 1 .. L : R[i] = BackTo(n, o, R[i - 1])
  <2> HIDE DEF L, C, o
  <2>1. 0 \in 0 .. L /\ \A i \in 1 .. L : i \in 0 .. L /\ i # 0
    BY <1>1
  <2> QED BY <1>3, <2>1
<1> HIDE DEF C
<1>5. \A i \in 1 .. L : /\ R[i - 1] \subseteq R[i]
                       /\ \A m \in R[i - 1] : m \in Chain(n) \union {o} => InputsWith(m) \subseteq R[i]
  <2> HIDE DEF L, o
  <2> QED BY <1>4 DEF BackTo
<1>6. \A i \in 0 .. L : R[i] \subseteq R[L]
  <2> DEFINE S == { d \in 0 .. L : ~(R[L - d] \subseteq R[L]) }
  <2> HIDE DEF L, o
  <2>1. S = {}
    <3> SUFFICES ASSUME S # {} PROVE FALSE
      OBVIOUS
    <3>1. PICK d \in S : \A y \in S : d <= y
      <4>1. S \in SUBSET Nat
        BY <1>1
      <4> HIDE DEF S
      <4> QED BY <4>1, LeastOf
    <3>2. d # 0
      <4>1. L - 0 = L
        BY <1>1
      <4> QED BY <4>1
    <3>3. d \in 1 .. L /\ d - 1 \in 0 .. L /\ ~(d <= d - 1) /\ L - d = L - (d - 1) - 1
          /\ L - (d - 1) \in 1 .. L
      BY <1>1, <3>2
    <3>4. R[L - (d - 1)] \subseteq R[L]
      BY <3>1, <3>3
    <3>5. R[L - (d - 1) - 1] \subseteq R[L - (d - 1)]
      BY <1>5, <3>3
    <3> QED BY <3>3, <3>4, <3>5
  <2>2. ASSUME NEW i \in 0 .. L PROVE R[i] \subseteq R[L]
    <3>1. L - i \in 0 .. L /\ L - (L - i) = i
      BY <1>1
    <3> QED BY <2>1, <3>1
  <2> QED BY <2>2
<1> DEFINE Reached(i) == \A d \in 0 .. k - i : Link(n, i) \in R[d] =>
                           \A h \in 1 .. end[i] : s[h] \in R[L]
           B == { i \in 1 .. k : ~Reached(i) }
<1>7. B = {}
  <2> SUFFICES ASSUME B # {} PROVE FALSE
    OBVIOUS
  <2>1. PICK i \in B : \A y \in B : i <= y
    <3>1. B \in SUBSET Nat
      <4> HIDE DEF L, Reached
      <4> QED BY <1>1
    <3> HIDE DEF B
    <3> QED BY <3>1, LeastOf
  <2>2. PICK d \in 0 .. k - i : Link(n, i) \in R[d] /\ \E h \in 1 .. end[i] : s[h] \notin R[L]
    <3> HIDE DEF s, L
    <3> QED BY <2>1
  <2>3. PICK h \in 1 .. end[i] : s[h] \notin R[L]
    BY <2>2
  <2> HIDE DEF s, L, Reached, o
  <2>4. /\ i \in 1 .. k /\ i \in 1 .. L /\ d + 1 \in 1 .. L /\ d \in 0 .. L /\ d + 1 - 1 = d
        /\ d + 1 \in 0 .. L
    BY <1>1
  <2>5. Link(n, i) \in Chain(n) \union {o}
    <3>1. CASE i = k
      BY <3>1 DEF o
    <3>2. CASE i # k
      <4>1. i \in 1 .. L - 1
        BY <1>1, <3>2
      <4> QED BY <1>1, <4>1
    <3> QED BY <3>1, <3>2
  <2>6. InputsWith(Link(n, i)) \subseteq R[d + 1]
    <3>1. \A m \in R[d + 1 - 1] : m \in Chain(n) \union {o} => InputsWith(m) \subseteq R[d + 1]
      BY <1>5, <2>4
    <3> QED BY <2>2, <2>4, <2>5, <3>1
  <2>7. s[h] \notin InputsWith(Link(n, i))
    BY <1>6, <2>3, <2>4, <2>6
  <2>8. PICK j \in 1 .. i - 1 : Link(n, j) \in InputsWith(Link(n, i)) /\ h <= end[j]
    BY <1>2, <2>3, <2>4, <2>7
  <2>9. j \in 1 .. k /\ ~(i <= j) /\ d + 1 \in 0 .. k - j /\ j \in 1 .. L
    BY <1>1, <2>4
  <2>10. Reached(j)
    <3>1. j \notin B
      <4> HIDE DEF B
      <4> QED BY <2>1, <2>9
    <3> QED BY <2>9, <3>1
  <2>11. Link(n, j) \in R[d + 1]
    BY <2>6, <2>8
  <2>12. \A x \in 1 .. end[j] : s[x] \in R[L]
    BY <2>9, <2>10, <2>11 DEF Reached
  <2>13. h \in 1 .. end[j]
    <3>1. end[i] \in Nat /\ end[j] \in Nat
      <4>1. \A x : x \in 0 .. Len(s) => x \in Nat
        <5>1. Len(s) \in Nat \/ Len(s) \notin Nat
          OBVIOUS
        <5> QED BY <5>1
      <4> QED BY <1>2, <2>4, <2>9, <4>1
    <3> QED BY <2>8, <3>1
  <2> QED BY <2>3, <2>12, <2>13
<1>8. Reached(k)
  <2> HIDE DEF Reached, L, o, s
  <2>1. k \in 1 .. k
    BY <1>1
  <2> QED BY <1>7, <2>1
<1>9. 0 \in 0 .. k - k /\ Link(n, k) \in R[0]
  <2> HIDE DEF L
  <2> QED BY <1>1, <1>4 DEF o
<1>10. \A h \in 1 .. end[k] : s[h] \in R[L]
  <2> HIDE DEF L, o, s
  <2> QED BY <1>8, <1>9 DEF Reached
<1> QED BY <1>3, <1>10

(* The inputs packed for a neuron are all it had, if those fit.             *)
LEMMA AllPacked ==
  ASSUME ProgressInv, NEW n \in Neuron \ todo,
         max_fanin = INVALID_FANIN => Cardinality(Original(n)) <= crossbar_size
  PROVE  InputsToPack(n) = Inputs(connection, n)
<1> DEFINE ins == Inputs(connection, n)
           s   == InputsToPack(n)
<1>1. /\ ShapeInv /\ PackInv /\ Started /\ LineInv /\ UnrollInv /\ idx = NumNeurons
      /\ crossbar_size \in Nat \ {0, 1} /\ max_fanin <= crossbar_size
      /\ max_fanin \in (Nat \ {0, 1}) \union {INVALID_FANIN} /\ connection \in Connections
  <2>1. /\ ShapeInv /\ PackInv /\ Started /\ LineInv /\ UnrollInv
        /\ crossbar_size \in Nat \ {0, 1} /\ max_fanin <= crossbar_size /\ connection \in Connections
        /\ max_fanin \in (Nat \ {0, 1}) \union {INVALID_FANIN} /\ idx \in 0 .. NumNeurons
    BY DEF ProgressInv, PackInv, PackTypes, ShapeInv, LineInv, EdgeInv, UnrollInv
  <2>2. ~(idx < NumNeurons)
    BY <2>1 DEF Started
  <2> QED BY <2>1, <2>2, UnrollAssumption
<1>2. CASE usnn[n].children # <<>>
  BY <1>1, <1>2, RawInOrder
<1>3. CASE usnn[n].children = <<>>
  <2> DEFINE z == IF Len(ins) < crossbar_size THEN Len(ins) ELSE crossbar_size
  <2>1. /\ ins \in Seq(Neuron) /\ Len(ins) \in Nat /\ DOMAIN ins = 1 .. Len(ins)
        /\ usnn[n].inputs = ins
        /\ s \in Seq(Neuron) /\ Len(s) = z /\ DOMAIN s = 1 .. z /\ z \in Nat /\ z <= Len(ins)
        /\ \A i \in 1 .. z : s[i] = ins[i]
    BY <1>1, <1>3, OneLink
  <2>2. Len(ins) <= crossbar_size
    <3>1. CASE max_fanin = INVALID_FANIN
      <4>1. Cardinality(Original(n)) = Len(ins)
        <5>1. \A i, j \in 1 .. Len(ins) : ins[i] = ins[j] => i = j
          BY <1>1, <2>1, InputsRead
        <5>2. ins \in Bijection(1 .. Len(ins), Original(n))
          <6>1. ins \in [1 .. Len(ins) -> Original(n)]
            BY <2>1 DEF Original, Elements
          <6>2. \A x \in Original(n) : \E i \in 1 .. Len(ins) : ins[i] = x
            BY <2>1 DEF Original, Elements
          <6> HIDE DEF ins
          <6> QED BY <5>1, <6>1, <6>2 DEF Bijection, Injection, Surjection, IsInjective
        <5>3. IsFiniteSet(1 .. Len(ins)) /\ Cardinality(1 .. Len(ins)) = Len(ins)
          <6> PICK N : N = Len(ins)
            OBVIOUS
          <6>1. N \in Nat
            BY <2>1
          <6>2. IsFiniteSet(1 .. N) /\ Cardinality(1 .. N) = N
            <7> QED BY ONLY <6>1, FS_Interval
          <6> QED BY <6>2
        <5> HIDE DEF ins
        <5>4. ExistsBijection(1 .. Len(ins), Original(n))
          BY <5>2 DEF ExistsBijection
        <5> QED BY <5>3, <5>4, FS_Bijection
      <4> HIDE DEF ins
      <4> QED BY <3>1, <4>1
    <3>2. CASE max_fanin # INVALID_FANIN
      <4>1. n \in Id /\ n < idx
        BY <1>1, UnrollAssumption DEF UnrollInv, Neuron
      <4>2. Len(usnn[n].inputs) <= max_fanin
        BY <1>1, <3>2, <4>1 DEF UnrollInv, FaninBounded
      <4> HIDE DEF ins
      <4> QED BY <1>1, <2>1, <3>2, <4>2
    <3> QED BY <3>1, <3>2
  <2> HIDE DEF s, ins
  <2>3. z = Len(ins)
    BY <1>1, <2>1, <2>2
  <2> HIDE DEF z
  <2>4. s = ins
    BY <2>1, <2>3
  <2> QED BY <2>4 DEF s, ins
<1> QED BY <1>2, <1>3

(* What a neuron that the loop has passed has of its own inputs behind the  *)
(* last chunk: nothing.                                                     *)
LEMMA NothingLeft ==
  ASSUME ProgressInv, NEW n \in Neuron \ todo, n # cur \/ pending = <<>>
  PROVE  \E end : Reaches(n, end) /\ end[LastLink(n)] = Len(InputsToPack(n))
<1>1. PICK end : /\ Reaches(n, end)
                 /\ IF n = cur
                    THEN \E i \in 0 .. Len(InputsToPack(n)), g \in {0, 1} : Remains(n, end, i, g)
                    ELSE end[LastLink(n)] = Len(InputsToPack(n))
  BY DEF ProgressInv, Progress
<1>2. CASE n # cur
  BY <1>1, <1>2
<1>3. CASE n = cur
  <2>1. PICK i \in 0 .. Len(InputsToPack(n)), g \in {0, 1} : Remains(n, end, i, g)
    BY <1>1, <1>3
  <2>2. pending = <<>> /\ Len(pending) = 0
    <3>1. pending = <<>>
      BY <1>3
    <3> QED BY <3>1
  <2>3. Len(InputsToPack(n)) \in Nat
    BY PlacesOrdered DEF ProgressInv, PackInv, PackTypes, Ordered
  <2>4. 0 = g + (Len(InputsToPack(n)) - i)
    BY <2>1, <2>2 DEF Remains
  <2>5. g = 0 /\ i = Len(InputsToPack(n))
    BY <2>3, <2>4
  <2>6. end[LastLink(n)] = i
    BY <2>1, <2>5 DEF Remains
  <2> QED BY <1>1, <2>5, <2>6
<1> QED BY <1>2, <1>3

(* Each input of a link has a place among those that are packed.            *)
LEMMA PlaceOfOwn ==
  ASSUME LineInv, NEW n \in Neuron, Ordered(n), InputsToPack(n) = Inputs(connection, n),
         NEW k \in 1 .. LastLink(n), NEW x \in Own(n, k)
  PROVE  \E h \in 1 .. Len(InputsToPack(n)) : InputsToPack(n)[h] = x /\ TakerOf(n, h) = k
<1> DEFINE s == InputsToPack(n)
           L == LastLink(n)
<1>1. /\ L \in Nat \ {0} /\ DOMAIN s = 1 .. Len(s) /\ Link(n, L) = n
      /\ \A j \in 1 .. L - 1 : Link(n, j) \in Chain(n)
      /\ \A i, j \in 1 .. L : Link(n, i) = Link(n, j) => i = j
      /\ \A h \in 1 .. Len(s) : TakerOf(n, h) \in 1 .. L /\ Outs(n, s[h]) = {Link(n, TakerOf(n, h))}
  BY DEF Ordered
<1>2. x \in Elements(s)
  <2>1. /\ ChainOK(n) /\ Line(n)
    BY DEF LineInv, ChainsOK
  <2>2. OwnUpTo(n, L) = Elements(Inputs(connection, n))
    BY <2>1 DEF Line, LastLink
  <2> HIDE DEF L, s
  <2> QED BY <2>2 DEF OwnUpTo, L, s
<1>3. PICK h \in 1 .. Len(s) : s[h] = x
  BY <1>1, <1>2 DEF Elements
<1>4. Link(n, k) \in Chain(n) \union {n}
  <2> HIDE DEF L
  <2>1. k = L \/ k \in 1 .. L - 1
    BY <1>1 DEF L
  <2> QED BY <1>1, <2>1
<1>5. Link(n, k) \in Outs(n, s[h])
  BY <1>3, <1>4 DEF Outs, Own
<1>6. k = TakerOf(n, h)
  BY <1>1, <1>5
<1> QED BY <1>3, <1>6

(* The inputs of all links up to k are gathered for a link o, if those up   *)
(* to its place are, and k is a link before it or its place ends it.        *)
LEMMA OwnGathered ==
  ASSUME LineInv, NEW n \in Neuron, Ordered(n), InputsToPack(n) = Inputs(connection, n),
         NEW k \in 1 .. LastLink(n), NEW e \in 1 .. Len(InputsToPack(n)), NEW G,
         \A h \in 1 .. e : InputsToPack(n)[h] \in G,
         k < TakerOf(n, e) \/ (k = TakerOf(n, e) /\ EndsLink(n, e))
  PROVE  OwnUpTo(n, k) \subseteq G
<1> SUFFICES ASSUME NEW x \in OwnUpTo(n, k) PROVE x \in G
  OBVIOUS
<1>1. LastLink(n) \in Nat /\ Len(InputsToPack(n)) \in Nat
  BY DEF Ordered
<1>2. PICK j \in 1 .. k : x \in Own(n, j)
  BY DEF OwnUpTo
<1>3. j \in 1 .. LastLink(n) /\ j <= k /\ k \in Nat /\ j \in Nat
  BY <1>1
<1>4. PICK h \in 1 .. Len(InputsToPack(n)) : InputsToPack(n)[h] = x /\ TakerOf(n, h) = j
  BY <1>2, <1>3, PlaceOfOwn
<1>5. h <= e
  <2> SUFFICES ASSUME e < h PROVE FALSE
    BY <1>1
  <2>1. TakerOf(n, e) <= TakerOf(n, h) /\ TakerOf(n, e) \in Nat
    <3>1. e <= h
      BY <1>1
    <3> QED BY <1>1, <3>1 DEF Ordered
  <2>2. CASE k < TakerOf(n, e)
    BY <1>3, <1>4, <2>1, <2>2
  <2>3. CASE k = TakerOf(n, e) /\ EndsLink(n, e)
    <3>1. TakerOf(n, e) < TakerOf(n, h)
      BY <2>3 DEF EndsLink
    <3> QED BY <1>3, <1>4, <2>1, <2>3, <3>1
  <2> QED BY <2>2, <2>3
<1>6. h \in 1 .. e
  BY <1>1, <1>5
<1> QED BY <1>4, <1>6

(* A neuron that the loop has passed receives, over the clusters that       *)
(* compute its links, all the inputs it had, and each computed link those   *)
(* of the links before it.                                                  *)
THEOREM NeuronsGather == Spec => []EveryInputGathered
<1>1. ProgressInv => EveryInputGathered
  <2> SUFFICES ASSUME ProgressInv, NEW n \in Neuron \ todo, n # cur \/ pending = <<>>,
                      max_fanin = INVALID_FANIN => Cardinality(Original(n)) <= crossbar_size
               PROVE  /\ Original(n) \subseteq Gathered(n, n)
                      /\ \A c \in Cid : \A o \in clusters[c].outputs \intersect Chain(n) :
                           \A l \in (Elements(usnn[o].inputs) \intersect Chain(n))
                                       \union { m \in {o} : WholeLinks } :
                             Upstream(n, l) \ Chain(n) \subseteq Gathered(n, o)
    BY DEF EveryInputGathered
  <2> DEFINE s == InputsToPack(n)
             L == LastLink(n)
  <2>1. /\ ShapeInv /\ LineInv /\ n \in Neuron /\ Neuron \subseteq Id /\ ChainOK(n) /\ Line(n)
        /\ Ordered(n)
    <3>1. ShapeInv /\ LineInv /\ crossbar_size \in Nat
      BY DEF ProgressInv, ShapeInv, PackInv, PackTypes
    <3>2. ChainOK(n) /\ Line(n) /\ Neuron \subseteq Id
      BY <3>1, UnrollAssumption DEF LineInv, ChainsOK, EdgeInv, UnrollInv, Neuron
    <3> QED BY <3>1, <3>2, PlacesOrdered
  <2>2. s = Inputs(connection, n)
    BY AllPacked
  <2>3. PICK end : Reaches(n, end) /\ end[L] = Len(s)
    BY NothingLeft
  <2>4. \A k \in 1 .. L : \A h \in 1 .. end[k] : s[h] \in Gathered(n, Link(n, k))
    BY <2>1, <2>3, GatheredUpTo
  <2>5. /\ L \in Nat \ {0} /\ Link(n, L) = n /\ DOMAIN s = 1 .. Len(s) /\ Len(s) \in Nat
        /\ end \in [1 .. L -> 0 .. Len(s)]
        /\ \A k \in 1 .. L : Computed(Link(n, k)) => end[k] # 0
        /\ \A k \in 1 .. L : end[k] # 0 => /\ TakerOf(n, end[k]) = k
                                           /\ WholeLinks => EndsLink(n, end[k])
    BY <2>1, <2>3 DEF Ordered, Reaches, Whole
  <2>6. Original(n) \subseteq Gathered(n, n)
    <3>1. \A h \in 1 .. Len(s) : s[h] \in Gathered(n, n)
      <4> HIDE DEF s, L
      <4>1. L \in 1 .. L
        BY <2>5
      <4> QED BY <2>3, <2>4, <2>5, <4>1
    <3>2. Original(n) = { s[h] : h \in 1 .. Len(s) }
      BY <2>2, <2>5 DEF Original, Elements
    <3> QED BY <3>1, <3>2
  <2>7. ASSUME NEW c \in Cid, NEW o \in clusters[c].outputs \intersect Chain(n),
               NEW l \in (Elements(usnn[o].inputs) \intersect Chain(n))
                            \union { m \in {o} : WholeLinks }
        PROVE  Upstream(n, l) \ Chain(n) \subseteq Gathered(n, o)
    <3>1. PICK k \in 1 .. L - 1 : o = Link(n, k)
      <4>1. /\ Len(usnn[n].children) \in Nat
            /\ DOMAIN usnn[n].children = 1 .. Len(usnn[n].children)
        BY <2>1, LinksOfChain
      <4>2. L - 1 = Len(usnn[n].children)
        BY <4>1 DEF LastLink
      <4> HIDE DEF L
      <4> QED BY <4>1, <4>2 DEF Chain, Elements, Link
    <3> HIDE DEF s, L
    <3>2. k \in 1 .. L /\ Computed(o)
      BY <2>5, <3>1 DEF Computed
    <3>3. /\ end[k] \in 1 .. Len(s) /\ TakerOf(n, end[k]) = k
          /\ WholeLinks => EndsLink(n, end[k])
      <4>1. end[k] # 0 /\ end[k] \in 0 .. Len(s)
        BY <2>5, <3>1, <3>2
      <4> QED BY <2>5, <3>2, <4>1
    <3>4. PICK j \in 1 .. L : l = Link(n, j) /\ (j < k \/ (j = k /\ WholeLinks))
      <4>1. CASE l = o /\ WholeLinks
        BY <3>1, <3>2, <4>1
      <4>2. CASE l \in Elements(usnn[o].inputs) \intersect Chain(n)
        <5>1. Elements(usnn[Link(n, k)].inputs) \intersect Chain(n)
                = IF k = 1 THEN {} ELSE {Link(n, k - 1)}
          BY <2>1, <3>2 DEF Line, L, LastLink
        <5>2. k # 1 /\ l = Link(n, k - 1)
          BY <3>1, <4>2, <5>1
        <5>3. k - 1 \in 1 .. L /\ k - 1 < k
          BY <2>5, <3>2, <5>2
        <5> QED BY <5>2, <5>3
      <4> QED BY <4>1, <4>2
    <3>5. \A h \in 1 .. end[k] : s[h] \in Gathered(n, o)
      BY <2>4, <3>1, <3>2
    <3>6. OwnUpTo(n, j) \subseteq Gathered(n, o)
      <4>1. j < TakerOf(n, end[k]) \/ (j = TakerOf(n, end[k]) /\ EndsLink(n, end[k]))
        BY <3>3, <3>4
      <4> QED BY <2>1, <2>2, <3>3, <3>5, <4>1, OwnGathered DEF s, L
    <3>7. Upstream(n, l) = OwnUpTo(n, j) \union { Link(n, i) : i \in 1 .. j - 1 }
      BY <2>1, <3>4, UpstreamOf DEF L, LastLink
    <3>8. { Link(n, i) : i \in 1 .. j - 1 } \subseteq Chain(n)
      <4>1. \A i \in 1 .. L - 1 : Link(n, i) \in Chain(n)
        BY <2>1 DEF Ordered, L
      <4>2. \A i \in 1 .. j - 1 : i \in 1 .. L - 1
        BY <2>5
      <4> QED BY <4>1, <4>2
    <3> QED BY <3>6, <3>7, <3>8
  <2> QED BY <2>6, <2>7
<1> QED BY <1>1, PackingProgresses, PTL

-----------------------------------------------------------------------------
(* Components.                                                              *)

(* One step from a set of clusters, and R lists N steps from c.             *)
Around(S) == UNION { {d} \union Neighbors(d) : d \in S }
Search(c, N, R) == R = [k \in 0 .. N |-> IF k = 0 THEN {c} ELSE Around(R[k - 1])]

(* Steps are defined, however many.                                         *)
LEMMA SearchDefined ==
  ASSUME NEW c, NEW N \in Nat
  PROVE  \E R : Search(c, N, R)
<1> DEFINE Steps(j) == \E R : Search(c, j, R)
           S == { j \in Nat : ~Steps(j) }
<1> SUFFICES ASSUME S # {} PROVE FALSE
  <2> QED BY DEF S
<1>1. PICK j \in S : \A i \in S : j <= i
  <2>1. S \in SUBSET Nat
    OBVIOUS
  <2> HIDE DEF S
  <2> QED BY <2>1, LeastOf
<1>2. j \in Nat /\ ~Steps(j)
  OBVIOUS
<1>3. j # 0
  <2> SUFFICES ASSUME j = 0 PROVE FALSE
    OBVIOUS
  <2> DEFINE R == [i \in 0 .. j |-> {c}]
  <2>1. R = [i \in 0 .. j |-> IF i = 0 THEN {c} ELSE Around(R[i - 1])]
    <3>1. \A i \in 0 .. j : i = 0
      BY <1>2
    <3> QED BY <3>1
  <2> HIDE DEF R
  <2> QED BY <1>2, <2>1 DEF Search
<1>4. j - 1 \in Nat /\ ~(j <= j - 1)
  BY <1>2, <1>3
<1>5. Steps(j - 1)
  <2> HIDE DEF Steps
  <2> QED BY <1>1, <1>4
<1>6. PICK R : R = [i \in 0 .. j - 1 |-> IF i = 0 THEN {c} ELSE Around(R[i - 1])]
  BY <1>5 DEF Search
<1>7. \A i \in 0 .. j - 1 : R[i] = IF i = 0 THEN {c} ELSE Around(R[i - 1])
  BY <1>6
<1> DEFINE Q == [i \in 0 .. j |-> IF i = j THEN Around(R[j - 1]) ELSE R[i]]
<1>8. Q = [i \in 0 .. j |-> IF i = 0 THEN {c} ELSE Around(Q[i - 1])]
  <2>1. \A i \in 0 .. j : i # 0 => i - 1 \in 0 .. j /\ i - 1 # j
    BY <1>2
  <2>2. \A i \in 0 .. j : i # j => i \in 0 .. j - 1
    BY <1>2
  <2>3. \A i \in 0 .. j : i # 0 => Q[i - 1] = R[i - 1]
    BY <2>1
  <2>4. \A i \in 0 .. j : Q[i] = IF i = 0 THEN {c} ELSE Around(Q[i - 1])
    <3> SUFFICES ASSUME NEW i \in 0 .. j PROVE Q[i] = IF i = 0 THEN {c} ELSE Around(Q[i - 1])
      OBVIOUS
    <3>1. CASE i = j
      <4>1. Q[i] = Around(R[i - 1])
        BY <3>1
      <4> HIDE DEF Q
      <4> QED BY <1>3, <2>3, <3>1, <4>1
    <3>2. CASE i # j
      <4>1. Q[i] = R[i]
        BY <3>2
      <4>2. R[i] = IF i = 0 THEN {c} ELSE Around(R[i - 1])
        BY <1>7, <2>2, <3>2
      <4> HIDE DEF Q
      <4> QED BY <2>3, <4>1, <4>2
    <3> QED BY <3>1, <3>2
  <2>5. Q = [i \in 0 .. j |-> Q[i]]
    OBVIOUS
  <2> HIDE DEF Q
  <2> QED BY <2>4, <2>5
<1> HIDE DEF Q
<1> QED BY <1>2, <1>8 DEF Search

(* What holds of the first step and is kept by each holds of all.           *)
LEMMA UpFromZero ==
  ASSUME NEW N \in Nat, NEW T \in SUBSET (0 .. N), 0 \in T,
         \A k \in 0 .. N : k # 0 /\ k - 1 \in T => k \in T
  PROVE  T = 0 .. N
<1> DEFINE S == (0 .. N) \ T
<1> SUFFICES ASSUME S # {} PROVE FALSE
  OBVIOUS
<1>1. S \in SUBSET Nat
  OBVIOUS
<1>2. PICK k \in S : \A i \in S : k <= i
  <2> HIDE DEF S
  <2> QED BY <1>1, LeastOf
<1>3. k \in 0 .. N /\ k \notin T /\ k # 0
  OBVIOUS
<1>4. k - 1 \in 0 .. N /\ ~(k <= k - 1)
  BY <1>3
<1>5. k - 1 \in T
  BY <1>2, <1>4
<1> QED BY <1>3, <1>5

(* Neighbours are clusters, and each other's.                               *)
LEMMA NeighborsOf ==
  /\ \A c : Neighbors(c) \subseteq Cid
  /\ \A c, d \in Cid : d \in Neighbors(c) => c \in Neighbors(d)
<1>1. \A c : ConnectedOut(c) \subseteq Cid
  BY DEF ConnectedOut, Connected
<1> QED BY <1>1 DEF Neighbors

(* The search of a cluster visits it and all that are connected to what it  *)
(* has visited, and nothing else.                                           *)
LEMMA SearchClosed ==
  ASSUME clusters \in Seq(Crossbar), NEW c \in Cid
  PROVE  /\ c \in Component(c) /\ Component(c) \subseteq Cid
         /\ \A d \in Component(c) : Neighbors(d) \subseteq Component(c)
         /\ \A S : c \in S /\ (\A d \in S : Neighbors(d) \subseteq S) => Component(c) \subseteq S
<1> DEFINE N == Len(clusters)
<1>1. N \in Nat /\ Cid = 1 .. N /\ N \in 0 .. N /\ 0 \in 0 .. N
  BY DEF Cid
<1>2. PICK R : /\ R = [k \in 0 .. N |-> IF k = 0 THEN {c} ELSE Around(R[k - 1])]
               /\ Component(c) = R[N]
  <2> DEFINE P(R) == R = [k \in 0 .. N |-> IF k = 0 THEN {c} ELSE Around(R[k - 1])]
             X == CHOOSE R : P(R)
  <2>1. Component(c) = X[N]
    BY DEF Component, Around
  <2>2. \E R : P(R)
    BY <1>1, SearchDefined DEF Search
  <2>3. P(X)
    BY <2>2
  <2> QED BY <2>1, <2>3
<1> HIDE DEF N
<1>3. /\ R[0] = {c}
      /\ \A k \in 0 .. N : k # 0 => R[k] = Around(R[k - 1]) /\ k - 1 \in 0 .. N
  <2>1. \A k \in 0 .. N : R[k] = IF k = 0 THEN {c} ELSE Around(R[k - 1])
    <3> HIDE DEF Around
    <3>1. R = [k \in 0 .. N |-> IF k = 0 THEN {c} ELSE Around(R[k - 1])]
      BY <1>2
    <3> QED BY <3>1
  <2>2. \A k \in 0 .. N : k # 0 => k - 1 \in 0 .. N
    BY <1>1
  <2>3. R[0] = {c}
    BY <1>1, <2>1
  <2> QED BY <2>1, <2>2, <2>3
<1>4. \A S : S \subseteq Around(S)
  BY DEF Around
<1>5. \A k \in 0 .. N : R[k] \subseteq Cid /\ c \in R[k]
  <2> DEFINE T == { k \in 0 .. N : R[k] \subseteq Cid /\ c \in R[k] }
  <2>1. 0 \in T
    BY <1>1, <1>3
  <2>2. \A k \in 0 .. N : k # 0 /\ k - 1 \in T => k \in T
    <3> SUFFICES ASSUME NEW k \in 0 .. N, k # 0, k - 1 \in T PROVE k \in T
      OBVIOUS
    <3>1. R[k] = Around(R[k - 1]) /\ R[k - 1] \subseteq Cid /\ c \in R[k - 1]
      BY <1>3
    <3>2. Around(R[k - 1]) \subseteq Cid
      BY <3>1, NeighborsOf DEF Around
    <3> QED BY <1>4, <3>1, <3>2
  <2>3. T = 0 .. N
    <3>1. T \in SUBSET (0 .. N)
      OBVIOUS
    <3> HIDE DEF T
    <3> QED BY <1>1, <2>1, <2>2, <3>1, UpFromZero
  <2> QED BY <2>3
<1>6. ASSUME NEW S, c \in S, \A d \in S : Neighbors(d) \subseteq S
      PROVE  R[N] \subseteq S
  <2> DEFINE T == { k \in 0 .. N : R[k] \subseteq S }
  <2>1. 0 \in T
    BY <1>1, <1>3, <1>6
  <2>2. \A k \in 0 .. N : k # 0 /\ k - 1 \in T => k \in T
    <3> SUFFICES ASSUME NEW k \in 0 .. N, k # 0, k - 1 \in T PROVE k \in T
      OBVIOUS
    <3>1. R[k] = Around(R[k - 1]) /\ R[k - 1] \subseteq S
      BY <1>3
    <3>2. Around(R[k - 1]) \subseteq S
      BY <1>6, <3>1 DEF Around
    <3> QED BY <3>1, <3>2
  <2>3. T = 0 .. N
    <3>1. T \in SUBSET (0 .. N)
      OBVIOUS
    <3> HIDE DEF T
    <3> QED BY <1>1, <2>1, <2>2, <3>1, UpFromZero
  <2> QED BY <1>1, <2>3
(* If every step visited another cluster there would be too many of them.   *)
<1>7. PICK k \in 0 .. N : Around(R[k]) \subseteq R[k]
  <2> SUFFICES ASSUME \A k \in 0 .. N : ~(Around(R[k]) \subseteq R[k]) PROVE FALSE
    OBVIOUS
  <2>1. IsFiniteSet(Cid) /\ Cardinality(Cid) = N
    BY <1>1, FS_Interval
  <2>2. \A k \in 0 .. N : IsFiniteSet(R[k]) /\ Cardinality(R[k]) \in Nat /\ Cardinality(R[k]) <= N
    BY <1>5, <2>1, FS_Subset, FS_CardinalityType
  <2> DEFINE T == { k \in 0 .. N : Cardinality(R[k]) > k }
  <2>3. 0 \in T
    <3>1. Cardinality(R[0]) = 1
      BY <1>3, FS_Singleton
    <3> QED BY <1>1, <3>1
  <2>4. \A k \in 0 .. N : k # 0 /\ k - 1 \in T => k \in T
    <3> SUFFICES ASSUME NEW k \in 0 .. N, k # 0, k - 1 \in T PROVE k \in T
      OBVIOUS
    <3>1. k - 1 \in 0 .. N /\ R[k] = Around(R[k - 1]) /\ Cardinality(R[k - 1]) > k - 1
      BY <1>3
    <3>2. R[k - 1] \subseteq R[k] /\ R[k - 1] # R[k]
      BY <1>4, <3>1
    <3>3. Cardinality(R[k - 1]) < Cardinality(R[k])
      BY <2>2, <3>2, FS_Subset
    <3>4. Cardinality(R[k]) \in Nat /\ Cardinality(R[k - 1]) \in Nat
      BY <2>2, <3>1
    <3>5. Cardinality(R[k]) > k
      BY <1>1, <3>1, <3>3, <3>4
    <3> QED BY <3>5
  <2>5. T = 0 .. N
    <3>1. T \in SUBSET (0 .. N)
      OBVIOUS
    <3> HIDE DEF T
    <3> QED BY <1>1, <2>3, <2>4, <3>1, UpFromZero
  <2>6. Cardinality(R[N]) > N /\ Cardinality(R[N]) <= N /\ Cardinality(R[N]) \in Nat
    BY <1>1, <2>2, <2>5
  <2> QED BY <1>1, <2>6
(* From then on they stay the same.                                         *)
<1>8. R[N] = R[k]
  <2> DEFINE T == { j \in 0 .. N : j >= k => R[j] = R[k] }
  <2>1. 0 \in T
    BY <1>1
  <2>2. \A j \in 0 .. N : j # 0 /\ j - 1 \in T => j \in T
    <3> SUFFICES ASSUME NEW j \in 0 .. N, j # 0, j - 1 \in T, j >= k, j # k PROVE R[j] = R[k]
      OBVIOUS
    <3>1. j - 1 >= k
      BY <1>1
    <3>2. R[j] = Around(R[j - 1]) /\ R[j - 1] = R[k]
      BY <1>3, <3>1
    <3> QED BY <1>4, <1>7, <3>2
  <2>3. T = 0 .. N
    <3>1. T \in SUBSET (0 .. N)
      OBVIOUS
    <3> HIDE DEF T
    <3> QED BY <1>1, <2>1, <2>2, <3>1, UpFromZero
  <2>4. N >= k
    BY <1>1
  <2> QED BY <1>1, <2>3, <2>4
<1>9. \A d \in R[N] : Neighbors(d) \subseteq R[N]
  BY <1>7, <1>8 DEF Around
<1> QED BY <1>1, <1>2, <1>5, <1>6, <1>9

(* So components are what they are called: being in one another's is an     *)
(* equivalence, neighbours are in one, and each is the least such set.      *)
ComponentFacts ==
  clusters \in Seq(Crossbar) =>
    \A c \in Cid :
      /\ c \in Component(c) /\ Component(c) \subseteq Cid
      /\ \A d \in Component(c) : Neighbors(d) \subseteq Component(c)
      /\ \A d \in Component(c) : Component(d) = Component(c)
      /\ \A S : c \in S /\ (\A d \in S : Neighbors(d) \subseteq S) => Component(c) \subseteq S

(* They are.                                                                *)
LEMMA ComponentsAre == ComponentFacts
<1> SUFFICES ASSUME clusters \in Seq(Crossbar)
             PROVE  \A c \in Cid : \A d \in Component(c) : Component(d) = Component(c)
  BY SearchClosed DEF ComponentFacts
<1>1. ASSUME NEW c \in Cid, NEW d \in Component(c)
      PROVE  d \in Cid /\ Component(d) \subseteq Component(c)
  <2>1. d \in Cid /\ \A e \in Component(c) : Neighbors(e) \subseteq Component(c)
    BY SearchClosed
  <2> QED BY <2>1, SearchClosed
<1>2. ASSUME NEW c \in Cid, NEW d \in Component(c)
      PROVE  c \in Component(d)
  <2> DEFINE S == { e \in Cid : c \in Component(e) }
  <2>1. c \in S
    BY SearchClosed
  <2>2. ASSUME NEW e \in S, NEW f \in Neighbors(e)
        PROVE  f \in S
    <3>1. e \in Cid /\ f \in Cid /\ e \in Neighbors(f) /\ c \in Component(e)
      BY NeighborsOf
    <3>2. f \in Component(f) /\ Neighbors(f) \subseteq Component(f)
      BY <3>1, SearchClosed
    <3>3. c \in Component(f)
      BY <1>1, <3>1, <3>2
    <3> QED BY <3>1, <3>3
  <2>3. Component(c) \subseteq S
    <3> HIDE DEF S
    <3>1. \A e \in S : Neighbors(e) \subseteq S
      BY <2>2
    <3> QED BY <2>1, <3>1, SearchClosed
  <2> QED BY <2>3
<1> QED BY <1>1, <1>2

(* Also after a step.                                                       *)
LEMMA ComponentsStayThat == ComponentFacts'
BY ComponentsAre, PTL

(* The clusters of a step grow.                                             *)
Growing ==
  /\ clusters \in Seq(Crossbar) /\ clusters' \in Seq(Crossbar)
  /\ Cid \subseteq Cid'
  /\ \A d \in Cid : /\ clusters[d].inputs \subseteq clusters'[d].inputs
                    /\ clusters[d].outputs \subseteq clusters'[d].outputs

(* Then so do the components, and no cluster becomes a sink.                *)
LEMMA ComponentsGrow ==
  ASSUME Growing
  PROVE  \A c \in Cid : /\ Neighbors(c) \subseteq Neighbors(c)'
                        /\ Component(c) \subseteq Component(c)'
                        /\ Sink(c)' => Sink(c)
<1>1. \A o : Connected(o) \subseteq Connected(o)'
  BY DEF Connected, Growing
<1>2. \A c \in Cid : ConnectedOut(c) \subseteq ConnectedOut(c)'
  <2> SUFFICES ASSUME NEW c \in Cid, NEW o \in clusters[c].outputs
               PROVE  Connected(o) \subseteq ConnectedOut(c)'
    BY DEF ConnectedOut
  <2>1. o \in clusters'[c].outputs
    BY DEF Growing
  <2> QED BY <1>1, <2>1 DEF ConnectedOut
<1>3. \A c \in Cid : Neighbors(c) \subseteq Neighbors(c)'
  BY <1>2 DEF Neighbors, Growing
<1>4. \A c \in Cid : Sink(c)' => Sink(c)
  BY <1>2 DEF Sink
<1>5. \A c \in Cid : Component(c) \subseteq Component(c)'
  <2> SUFFICES ASSUME NEW c \in Cid PROVE Component(c) \subseteq Component(c)'
    OBVIOUS
  <2> DEFINE S == Component(c)' \intersect Cid
  <2>1. /\ c \in Component(c)'
        /\ \A d \in Component(c)' : Neighbors(d)' \subseteq Component(c)'
    BY ComponentsStayThat DEF ComponentFacts, Growing
  <2>2. \A d \in S : Neighbors(d) \subseteq S
    BY <1>3, <2>1, NeighborsOf
  <2>3. Component(c) \subseteq S
    <3>1. c \in S
      BY <2>1
    <3> HIDE DEF S
    <3> QED BY <2>2, <3>1, ComponentsAre DEF ComponentFacts, Growing
  <2> QED BY <2>3
<1> QED BY <1>3, <1>4, <1>5

(* Without new connections the components stay as they are.                 *)
LEMMA ComponentsStay ==
  ASSUME clusters \in Seq(Crossbar), clusters' = clusters
  PROVE  /\ Cid' = Cid /\ Components' = Components
         /\ \A c \in Cid : Component(c)' = Component(c) /\ (Sink(c)' <=> Sink(c))
<1>1. Cid' = Cid
  BY DEF Cid
<1>2. /\ \A c : Neighbors(c)' = Neighbors(c)
      /\ \A c : Sink(c)' <=> Sink(c)
  BY <1>1 DEF Neighbors, Sink, ConnectedOut, Connected
<1>3. Growing
  BY <1>1 DEF Growing
<1>4. \A c \in Cid : Component(c)' \subseteq Component(c)
  <2> SUFFICES ASSUME NEW c \in Cid PROVE Component(c)' \subseteq Component(c)
    OBVIOUS
  <2>1. c \in Component(c) /\ \A d \in Component(c) : Neighbors(d)' \subseteq Component(c)
    BY <1>2, ComponentsAre DEF ComponentFacts
  <2>2. c \in Cid' /\ clusters' \in Seq(Crossbar)
    BY <1>1
  <2> DEFINE S == Component(c)
  <2>3. c \in S /\ \A d \in S : Neighbors(d)' \subseteq S
    BY <2>1
  <2> HIDE DEF S
  <2>4. Component(c)' \subseteq S
    BY <2>2, <2>3, ComponentsStayThat DEF ComponentFacts
  <2> QED BY <2>4 DEF S
<1>5. \A c \in Cid : Component(c)' = Component(c)
  BY <1>3, <1>4, ComponentsGrow
<1>6. Components' = Components
  BY <1>1, <1>5 DEF Components
<1> QED BY <1>1, <1>2, <1>5, <1>6

-----------------------------------------------------------------------------
(* Connecting them.                                                         *)

(* The clusters that connect others: they have an added neuron.             *)
Connecting == { c \in Cid : \E o \in clusters[c].outputs : o \notin Id }

(* The component of c has one, or a cluster that is still to be connected.  *)
Joins(c) ==
  \E d \in Component(c) :
    d \in Connecting \/ \E o \in clusters[d].outputs : o \in Elements(to_connect)

(* Connecting clusters are connected to each other, and every sink to them, *)
(* or it will be.  A component without a sink is left alone.                *)
JoinInv ==
  /\ phase # "pack" => idx = NumNeurons
  /\ num_new # 0 => Len(clusters) \in Connecting
  /\ \A c, d \in Connecting : d \in Component(c)
  /\ phase = "connect" => \A c \in Cid : Sink(c) => Joins(c)
  /\ phase = "done" =>
       \/ Cardinality(Components) <= 1
       \/ to_connect = <<>> /\ \A c \in Cid : Sink(c) => Joins(c)

(* While packing there is nothing to connect.                               *)
NothingJoined == PackInv /\ num_new = 0 => Connecting = {}

(* Which is an invariant,                                                    *)
LEMMA NoneConnecting == NothingJoined
BY DEF NothingJoined, PackInv, Members, Connecting

(* also after a step.                                                       *)
LEMMA NoneConnectingNext == NothingJoined'
BY NoneConnecting, PTL

(* One output of every chosen sink is to be connected.                      *)
LEMMA ChosenListed ==
  ASSUME PackInv, phase = "pack", \A c \in Cid : clusters[c].outputs # {},
         NEW chosen \in SUBSET Cid, NEW d \in chosen,
         \A e \in chosen \intersect Component(d) : e = d
  PROVE  \E o \in clusters[d].outputs : o \in Elements(FirstOutputs(chosen))
<1> DEFINE roots == Roots(chosen)
           root(k) == CHOOSE r \in roots : Rank(roots, r) = k
           sole(r) == CHOOSE c \in chosen : c \in Component(r)
           n == Cardinality(roots)
<1>1. FirstOutputs(chosen) = [k \in 1 .. n |-> Smallest(clusters[sole(root(k))].outputs)]
  BY DEF FirstOutputs, Rank
<1>2. /\ Cid = 1 .. Len(clusters) /\ Len(clusters) \in Nat /\ clusters \in Seq(Crossbar)
      /\ d \in Cid /\ clusters[d] \in Crossbar
  BY ReadyToPack DEF PackInv, PackTypes
<1>3. /\ d \in Component(d) /\ Component(d) \subseteq Cid
      /\ \A r \in Component(d) : Component(r) = Component(d)
  BY <1>2, ComponentsAre DEF ComponentFacts
<1>4. PICK r \in Component(d) : \A e \in Component(d) : r <= e
  <2>1. Component(d) \in SUBSET Nat /\ Component(d) # {}
    BY <1>2, <1>3
  <2> QED BY <2>1, LeastOf
<1>5. r \in roots /\ Component(r) = Component(d)
  BY <1>3, <1>4 DEF Roots
<1>6. IsFiniteSet(roots) /\ roots \in SUBSET Int
  <2>1. roots \subseteq Cid
    BY DEF Roots
  <2>2. IsFiniteSet(Cid) /\ Cid \subseteq Int
    BY <1>2, FS_Interval
  <2> HIDE DEF roots
  <2> QED BY <2>1, <2>2, FS_Subset
<1>7. sole(r) = d
  BY <1>3, <1>5
<1> HIDE DEF roots, sole
<1>8. PICK k \in 1 .. n : Rank(roots, r) = k
  BY <1>5, <1>6, Ranks
<1>9. root(k) = r
  BY <1>5, <1>6, <1>8, Ranks
<1> HIDE DEF root
<1>10. FirstOutputs(chosen)[k] = Smallest(clusters[d].outputs) /\ k \in DOMAIN FirstOutputs(chosen)
  BY <1>1, <1>7, <1>8, <1>9
<1>11. Smallest(clusters[d].outputs) \in clusters[d].outputs
  <2>1. clusters[d].outputs \in SUBSET Nat /\ clusters[d].outputs # {}
    BY <1>2 DEF Crossbar, FinNat
  <2> QED BY <2>1, SmallestOf
<1> QED BY <1>10, <1>11 DEF Elements

(* What the loop does to the clusters: it connects one neuron to the last,  *)
(* n, which it may have added, and gives that one a new neuron.  It takes   *)
(* the neuron from those to connect, or from the cluster that is full.      *)
Extends(n) ==
  /\ Growing /\ n \in Nat /\ Cid' = 1 .. n /\ Len(clusters') = n /\ n \in Cid'
  /\ \A d \in Cid' : d # n => d \in Cid /\ clusters'[d] = clusters[d]
  /\ Head(AtFront) \in clusters'[n].inputs /\ NewId \in clusters'[n].outputs
  /\ IF num_new % crossbar_size = 0 /\ num_new > 0
     THEN /\ Head(AtFront) \in clusters[Len(clusters)].outputs
          /\ Len(clusters) \in Cid /\ to_connect' = to_connect
     ELSE /\ Head(AtFront) = Head(to_connect) /\ to_connect' = Tail(to_connect)
          /\ num_new # 0 => n = Len(clusters)

(* Such a cluster there is.                                                 *)
LEMMA ConnectExtends ==
  ASSUME PackInv, Connect
  PROVE  \E n : Extends(n)
<1> DEFINE s == crossbar_size
           full == num_new % s = 0
           cs == IF full THEN Append(clusters, NoCluster) ELSE clusters
           n == Len(cs)
           h == Head(AtFront)
           last == [inputs |-> cs[n].inputs \union {h}, outputs |-> cs[n].outputs \union {NewId}]
<1>1. /\ s \in Nat \ {0, 1} /\ num_new \in Nat /\ to_connect \in Seq(Nat)
      /\ clusters \in Seq(Crossbar) /\ Len(clusters) \in Nat /\ Cid = 1 .. Len(clusters)
      /\ phase = "connect" /\ to_connect' = Tail(AtFront)
      /\ \A c \in Cid : clusters[c] \in Crossbar /\ clusters[c].outputs # {}
  <2>1. phase = "connect" /\ to_connect' = Tail(AtFront)
    BY DEF Connect
  <2>2. \A c \in Cid : clusters[c].outputs # {}
    BY <2>1 DEF PackInv, ClustersUsed
  <2> QED BY <2>1, <2>2, ReadyToPack DEF PackInv, PackTypes
<1>2. clusters' = [cs EXCEPT ![n] = [inputs |-> cs[n].inputs \union {h},
                                     outputs |-> cs[n].outputs \union {NewId}]]
  BY DEF Connect
<1>3. clusters' \in Seq(Crossbar)
  BY ConnectPacks DEF PackInv, PackTypes
<1>4. num_new # 0 => Len(clusters) \in Cid
  <2> SUFFICES ASSUME num_new # 0 PROVE Len(clusters) \in 1 .. Len(clusters)
    BY <1>1
  <2>1. clusters # <<>>
    BY DEF PackInv, Filling
  <2> QED BY <1>1, <2>1, EmptySeq
<1>5. /\ cs \in Seq(Crossbar) /\ n \in 1 .. n /\ n \in Nat /\ Len(clusters) <= n
      /\ \A d \in 1 .. n : d = n \/ d \in Cid
      /\ \A d \in Cid : cs[d] = clusters[d] /\ d \in 1 .. n
      /\ ~full => n = Len(clusters)
  <2>1. CASE full
    <3>1. /\ cs \in Seq(Crossbar) /\ n = Len(clusters) + 1
          /\ \A d \in 1 .. Len(clusters) : cs[d] = clusters[d]
      BY <1>1, <2>1, NoClusterFits, AppendProperties
    <3> HIDE DEF cs, full
    <3> QED BY <1>1, <2>1, <3>1
  <2>2. CASE ~full
    <3>1. num_new # 0
      <4>1. 0 % s = 0
        BY <1>1, Remainder
      <4> QED BY <2>2, <4>1
    <3>2. Len(clusters) \in 1 .. Len(clusters)
      BY <1>1, <1>4, <3>1
    <3>3. cs = clusters
      BY <2>2
    <3> HIDE DEF cs, full
    <3> QED BY <1>1, <2>2, <3>2, <3>3
  <2> QED BY <2>1, <2>2
<1>6. IF full /\ num_new > 0
      THEN Len(clusters) \in Cid /\ h \in clusters[Len(clusters)].outputs /\ to_connect' = to_connect
      ELSE h = Head(to_connect) /\ to_connect' = Tail(to_connect)
  <2>1. CASE ~(full /\ num_new > 0)
    <3>1. AtFront = to_connect
      BY <2>1 DEF AtFront
    <3> QED BY <1>1, <2>1, <3>1
  <2>2. CASE full /\ num_new > 0
    <3> DEFINE m == Smallest(clusters[Len(clusters)].outputs)
    <3>1. AtFront = <<m>> \o to_connect
      BY <2>2 DEF AtFront
    <3>2. Len(clusters) \in Cid
      BY <1>1, <1>4, <2>2
    <3>3. m \in clusters[Len(clusters)].outputs /\ m \in Nat
      <4>1. clusters[Len(clusters)].outputs \in SUBSET Nat /\ clusters[Len(clusters)].outputs # {}
        BY <1>1, <3>2 DEF Crossbar, FinNat
      <4> QED BY <4>1, SmallestOf
    <3> HIDE DEF m
    <3>4. Head(<<m>> \o to_connect) = m /\ Tail(<<m>> \o to_connect) = to_connect
      BY <1>1, <3>3
    <3> QED BY <1>1, <2>2, <3>1, <3>2, <3>3, <3>4
  <2> QED BY <2>1, <2>2
<1> HIDE DEF cs, n, h
<1>7. last.inputs = cs[n].inputs \union {h} /\ last.outputs = cs[n].outputs \union {NewId}
      /\ clusters' = [cs EXCEPT ![n] = last]
  BY <1>2
<1> HIDE DEF last
<1>8. /\ Len(clusters') = n /\ Cid' = 1 .. n /\ clusters'[n] = last
      /\ \A d \in 1 .. n : clusters'[d] = IF d = n THEN last ELSE cs[d]
  <2>1. DOMAIN cs = 1 .. n
    BY <1>5 DEF n
  <2>2. DOMAIN clusters' = 1 .. n /\ \A d \in 1 .. n : clusters'[d] = IF d = n THEN last ELSE cs[d]
    BY <1>7, <2>1
  <2>3. Len(clusters') = n
    BY <1>3, <1>5, <2>2
  <2> QED BY <1>5, <2>2, <2>3 DEF Cid
<1>9. Growing
  <2>1. Cid \subseteq Cid'
    BY <1>5, <1>8
  <2>2. ASSUME NEW d \in Cid
        PROVE  /\ clusters[d].inputs \subseteq clusters'[d].inputs
               /\ clusters[d].outputs \subseteq clusters'[d].outputs
    <3>1. cs[d] = clusters[d] /\ d \in 1 .. n
      BY <1>5
    <3>2. CASE d = n
      <4>1. clusters'[d] = last /\ cs[n] = clusters[d]
        BY <1>8, <3>1, <3>2
      <4> QED BY <1>7, <4>1
    <3>3. CASE d # n
      <4>1. clusters'[d] = clusters[d]
        BY <1>8, <3>1, <3>3
      <4> QED BY <4>1
    <3> QED BY <3>2, <3>3
  <2> QED BY <1>1, <1>3, <2>1, <2>2 DEF Growing
<1>10. h \in clusters'[n].inputs /\ NewId \in clusters'[n].outputs
  BY <1>7, <1>8
<1>11. ~(full /\ num_new > 0) /\ num_new # 0 => n = Len(clusters)
  BY <1>1, <1>5
<1>12. IF full /\ num_new > 0
       THEN h \in clusters[Len(clusters)].outputs /\ Len(clusters) \in Cid /\ to_connect' = to_connect
       ELSE h = Head(to_connect) /\ to_connect' = Tail(to_connect) /\ (num_new # 0 => n = Len(clusters))
  <2> HIDE DEF full
  <2> QED BY <1>6, <1>11
<1>13. \A d \in Cid' : d # n => d \in Cid /\ clusters'[d] = clusters[d]
  BY <1>5, <1>8
<1>14. n \in Nat /\ n \in Cid'
  BY <1>5, <1>8
<1>15. Extends(n)
  BY <1>8, <1>9, <1>10, <1>12, <1>13, <1>14 DEF Extends, h
<1> QED BY <1>15

(* Added neurons have numbers of their own.                                 *)
LEMMA AddedNeuron ==
  ASSUME PackInv
  PROVE  NewId \notin Id
<1>1. Cardinality(Id) \in Nat /\ Id = 0 .. Cardinality(Id) - 1 /\ num_new \in Nat
  BY DEF PackInv, PackTypes, EdgeInv, UnrollInv
<1> QED BY <1>1 DEF NewId

(* An element of a sequence is its first or one of the rest.                *)
LEMMA HeadOrTail ==
  ASSUME NEW T, NEW s \in Seq(T), s # <<>>, NEW x \in Elements(s), x \notin Elements(Tail(s))
  PROVE  x = Head(s)
<1>1. PICK i \in 1 .. Len(s) : x = s[i]
  BY DEF Elements
<1>2. Len(s) \in Nat /\ Len(Tail(s)) = Len(s) - 1 /\ Head(s) = s[1]
      /\ \A j \in 1 .. Len(s) - 1 : Tail(s)[j] = s[j + 1]
  OBVIOUS
<1>3. DOMAIN Tail(s) = 1 .. Len(s) - 1
  BY <1>2
<1>4. i # 1 => i - 1 \in 1 .. Len(s) - 1 /\ (i - 1) + 1 = i
  BY <1>2
<1>5. i # 1 => Tail(s)[i - 1] = x
  BY <1>1, <1>2, <1>4
<1>6. i # 1 => x \in Elements(Tail(s))
  BY <1>3, <1>4, <1>5 DEF Elements
<1> QED BY <1>1, <1>2, <1>6

(* Connecting connects.                                                     *)
LEMMA ConnectJoins ==
  ASSUME PackInv, JoinInv, Connect
  PROVE  JoinInv'
<1>1. PICK n : Extends(n)
  BY ConnectExtends
<1>2. /\ phase = "connect" /\ phase' = phase /\ Id' = Id /\ to_connect # <<>>
      /\ num_new' = num_new + 1 /\ num_new \in Nat /\ to_connect \in Seq(Nat) /\ idx' = idx
  BY DEF Connect, PackInv, PackTypes, unrollVars, Id
<1>3. /\ Growing /\ n \in Cid' /\ Len(clusters') = n
      /\ \A d \in Cid' : d # n => d \in Cid /\ clusters'[d] = clusters[d]
      /\ Head(AtFront) \in clusters'[n].inputs
  BY <1>1 DEF Extends
<1>4. n \in Connecting'
  <2>1. NewId \in clusters'[n].outputs /\ NewId \notin Id'
    BY <1>1, <1>2, AddedNeuron DEF Extends
  <2> QED BY <1>3, <2>1 DEF Connecting
<1>5. \A d \in Connecting : d \in Connecting'
  BY <1>2, <1>3 DEF Connecting, Growing
<1>6. \A d \in Connecting' : d = n \/ d \in Connecting
  BY <1>2, <1>3 DEF Connecting
<1>7. /\ \A c \in Cid : c \in Cid' /\ Component(c) \subseteq Component(c)' /\ (Sink(c)' => Sink(c))
      /\ \A c \in Cid' : /\ c \in Component(c)'
                        /\ \A d \in Component(c)' : /\ Neighbors(d)' \subseteq Component(c)'
                                                   /\ Component(d)' = Component(c)'
  <2>1. clusters' \in Seq(Crossbar) /\ Cid \subseteq Cid'
    BY <1>3 DEF Growing
  <2>2. \A c \in Cid' : /\ c \in Component(c)'
                       /\ \A d \in Component(c)' : /\ Neighbors(d)' \subseteq Component(c)'
                                                  /\ Component(d)' = Component(c)'
    BY <2>1, ComponentsStayThat DEF ComponentFacts
  <2>3. \A c \in Cid : Component(c) \subseteq Component(c)' /\ (Sink(c)' => Sink(c))
    BY <1>3, ComponentsGrow
  <2> QED BY <2>1, <2>2, <2>3
<1>8. ASSUME NEW d \in Cid, Head(AtFront) \in clusters[d].outputs
      PROVE  n \in Neighbors(d)'
  <2>1. PICK o : o = Head(AtFront)
    OBVIOUS
  <2>2. o \in clusters'[d].outputs /\ o \in clusters'[n].inputs
    BY <1>3, <1>8, <2>1 DEF Growing
  <2>3. n \in { c \in Cid' : o \in clusters'[c].inputs }
    BY <1>3, <2>2
  <2>4. n \in ConnectedOut(d)'
    BY <2>2, <2>3 DEF ConnectedOut, Connected
  <2> QED BY <2>4 DEF Neighbors
<1>9. \A d \in Connecting' : d \in Component(n)'
  <2> SUFFICES ASSUME NEW d \in Connecting PROVE d \in Component(n)'
    BY <1>3, <1>6, <1>7
  <2>1. num_new # 0
    BY NoneConnecting DEF NothingJoined
  <2> PICK l : l = Len(clusters)
    OBVIOUS
  <2>2. l \in Connecting /\ l \in Cid /\ d \in Component(l)
    BY <2>1 DEF JoinInv, Connecting
  <2>3. d \in Component(l)' /\ l \in Cid'
    BY <1>7, <2>2
  <2>4. CASE n = l
    BY <2>3, <2>4
  <2>5. CASE n # l
    <3>1. Head(AtFront) \in clusters[l].outputs
      BY <1>1, <1>2, <2>1, <2>5 DEF Extends
    <3>2. n \in Neighbors(l)'
      BY <1>8, <2>2, <3>1
    <3>3. n \in Component(l)'
      BY <1>7, <2>3, <3>2
    <3>4. Component(n)' = Component(l)'
      BY <1>7, <2>3, <3>3
    <3> QED BY <2>3, <3>4
  <2> QED BY <2>4, <2>5
<1>10. ASSUME NEW c \in Connecting', NEW d \in Connecting'
       PROVE  d \in Component(c)'
  <2>1. Component(c)' = Component(n)'
    BY <1>3, <1>7, <1>9
  <2> QED BY <1>9, <2>1
<1>11. ASSUME NEW c \in Cid', Sink(c)'
       PROVE  Joins(c)'
  <2>1. CASE c = n
    BY <1>3, <1>4, <1>7, <2>1 DEF Joins
  <2>2. CASE c # n
    <3>1. c \in Cid /\ Sink(c)
      BY <1>3, <1>7, <1>11, <2>2
    <3>2. PICK d \in Component(c) : d \in Connecting \/ \E o \in clusters[d].outputs : o \in Elements(to_connect)
      BY <1>2, <3>1 DEF JoinInv, Joins
    <3>3. d \in Component(c)' /\ d \in Cid
      BY <1>3, <1>7, <3>1, <3>2, ComponentsAre DEF ComponentFacts, Growing
    <3>4. CASE d \in Connecting
      BY <1>5, <3>3, <3>4 DEF Joins
    <3>5. CASE \E o \in clusters[d].outputs : o \in Elements(to_connect)
      <4>1. PICK o \in clusters[d].outputs : o \in Elements(to_connect)
        BY <3>5
      <4>2. CASE o \in Elements(to_connect')
        <5>1. o \in clusters'[d].outputs
          BY <1>3, <3>3 DEF Growing
        <5>2. \E e \in Component(c)' : \E q \in clusters'[e].outputs : q \in Elements(to_connect')
          BY <3>3, <4>2, <5>1
        <5> QED BY <5>2 DEF Joins, Elements
      <4>3. CASE o \notin Elements(to_connect')
        <5>1. Head(AtFront) = Head(to_connect) /\ to_connect' = Tail(to_connect)
          BY <1>1, <4>1, <4>3 DEF Extends
        <5>2. o = Head(to_connect)
          BY <1>2, <4>1, <4>3, <5>1, HeadOrTail
        <5>3. n \in Component(c)'
          BY <1>7, <1>8, <3>1, <3>3, <4>1, <5>1, <5>2
        <5> QED BY <1>4, <5>3 DEF Joins
      <4> QED BY <4>2, <4>3
    <3> QED BY <3>2, <3>4, <3>5
  <2> QED BY <2>1, <2>2
<1> QED BY <1>2, <1>3, <1>4, <1>10, <1>11 DEF JoinInv

(* The neurons to connect are chosen: one sink in each component that has   *)
(* one.                                                                     *)
LEMMA FindJoins ==
  ASSUME PackInv, PackInv', FindComponents
  PROVE  JoinInv'
<1>1. /\ phase = "pack" /\ clusters' = clusters /\ num_new' = num_new /\ num_new = 0
      /\ clusters \in Seq(Crossbar) /\ idx' = NumNeurons
  BY DEF FindComponents, packVars, unrollVars, PackInv, Stages, PackTypes
<1>2. Connecting' = {}
  BY <1>1, NoneConnectingNext DEF NothingJoined
<1>3. /\ Cid' = Cid /\ Components' = Components
      /\ \A c \in Cid : Component(c)' = Component(c) /\ (Sink(c)' <=> Sink(c))
  BY <1>1, ComponentsStay
<1>4. CASE Cardinality(Components) <= 1
  <2>1. phase' = "done"
    BY <1>4 DEF FindComponents
  <2> QED BY <1>1, <1>2, <1>3, <1>4, <2>1 DEF JoinInv
<1>5. CASE ~(Cardinality(Components) <= 1)
  <2> DEFINE sinks == { c \in Cid : Sink(c) }
  <2>1. /\ phase' = "connect"
        /\ \E chosen \in SUBSET sinks :
             /\ \A comp \in Components : comp \intersect sinks # {} =>
                  Cardinality(chosen \intersect comp) = 1
             /\ to_connect' = FirstOutputs(chosen)
    BY <1>5 DEF FindComponents
  <2>2. PICK chosen \in SUBSET sinks :
          /\ \A comp \in Components : comp \intersect sinks # {} =>
               Cardinality(chosen \intersect comp) = 1
          /\ to_connect' = FirstOutputs(chosen)
    BY <2>1
  <2>3. \A c \in Cid : clusters[c].outputs # {}
    BY <1>1, <1>3, <2>1 DEF PackInv, ClustersUsed
  <2>4. ASSUME NEW c \in Cid, Sink(c)
        PROVE  Joins(c)'
    <3>1. c \in Component(c) /\ Component(c) \subseteq Cid
          /\ \A d \in Component(c) : Component(d) = Component(c)
      BY <1>1, ComponentsAre DEF ComponentFacts
    <3>2. Cardinality(chosen \intersect Component(c)) = 1
      BY <2>2, <2>4, <3>1 DEF Components
    <3>3. PICK d : chosen \intersect Component(c) = {d}
      <4>1. IsFiniteSet(chosen \intersect Component(c))
        <5>1. IsFiniteSet(Cid)
          <6>1. Cid = 1 .. Len(clusters) /\ Len(clusters) \in Nat
            BY <1>1 DEF Cid
          <6> QED BY <6>1, FS_Interval
        <5> QED BY <3>1, <5>1, FS_Subset
      <4> QED BY <3>2, <4>1, FS_Singleton
    <3>4. d \in chosen /\ d \in Component(c) /\ Component(d) = Component(c)
      BY <3>1, <3>3
    <3>5. \A e \in chosen \intersect Component(d) : e = d
      BY <3>3, <3>4
    <3>6. chosen \in SUBSET Cid
      OBVIOUS
    <3>7. PICK o \in clusters[d].outputs : o \in Elements(FirstOutputs(chosen))
      BY <1>1, <2>3, <3>4, <3>5, <3>6, ChosenListed
    <3>8. /\ d \in Component(c)' /\ o \in clusters'[d].outputs
          /\ o \in { to_connect'[j] : j \in DOMAIN to_connect' }
      BY <1>1, <1>3, <2>2, <3>4, <3>7 DEF Elements
    <3> QED BY <3>8 DEF Joins, Elements
  <2> QED BY <1>1, <1>2, <1>3, <2>1, <2>4 DEF JoinInv
<1> QED BY <1>4, <1>5

(* The steps that leave the components alone.                               *)
LEMMA StandingJoins ==
  ASSUME PackInv, JoinInv, UNCHANGED <<clusters, usnn, idx, num_new, to_connect>>,
         phase' = phase \/ Finish
  PROVE  JoinInv'
<1>1. clusters \in Seq(Crossbar)
  BY DEF PackInv, PackTypes
<1>2. /\ Cid' = Cid /\ Components' = Components
      /\ \A c \in Cid : Component(c)' = Component(c) /\ (Sink(c)' <=> Sink(c))
  BY <1>1, ComponentsStay
<1>3. Connecting' = Connecting
  BY <1>2 DEF Connecting, Id
<1>4. Elements(to_connect') = Elements(to_connect) /\ Connecting \subseteq Cid
  BY DEF Elements, Connecting
<1>5. \A c \in Cid : Joins(c) => Joins(c)'
  <2> SUFFICES ASSUME NEW c \in Cid, Joins(c) PROVE Joins(c)'
    OBVIOUS
  <2>1. PICK d \in Component(c) : d \in Connecting \/ \E o \in clusters[d].outputs : o \in Elements(to_connect)
    BY DEF Joins
  <2>2. /\ d \in Component(c)'
        /\ d \in Connecting' \/ \E o \in clusters'[d].outputs : o \in { to_connect'[j] : j \in DOMAIN to_connect' }
    BY <1>2, <1>3, <2>1 DEF Elements
  <2> QED BY <2>2 DEF Joins, Elements
<1>6. CASE phase' = phase
  BY <1>2, <1>3, <1>4, <1>5, <1>6 DEF JoinInv
<1>7. CASE Finish
  <2>1. phase = "connect" /\ phase' = "done" /\ to_connect = <<>>
    BY <1>7 DEF Finish
  <2> QED BY <1>2, <1>3, <1>4, <1>5, <2>1 DEF JoinInv
<1> QED BY <1>6, <1>7

(* Every step.                                                              *)
LEMMA JoinKept ==
  PackInv /\ JoinInv /\ [Next]_vars => JoinInv'
<1> SUFFICES ASSUME PackInv, JoinInv, [Next]_vars PROVE JoinInv'
  OBVIOUS
<1>1. PackInv'
  BY PackKept
<1>2. ASSUME phase = "pack", phase' = phase
      PROVE  JoinInv'
  <2>1. num_new' = 0
    BY <1>1, <1>2 DEF PackInv, Stages
  <2>2. Connecting' = {}
    BY <1>1, <2>1, NoneConnectingNext DEF NothingJoined
  <2> QED BY <1>2, <2>1, <2>2 DEF JoinInv
<1>3. CASE UnrollNeuron /\ UNCHANGED <<mode, crossbar_size, packVars, todo, connectVars>>
  <2>1. idx \in Int /\ idx < NumNeurons /\ phase' = phase
    BY <1>3 DEF UnrollNeuron, connectVars, PackInv, EdgeInv, UnrollInv
  <2>2. phase = "pack"
    <3>1. idx # NumNeurons
      BY <2>1
    <3> QED BY <3>1 DEF JoinInv
  <2> QED BY <1>2, <2>1, <2>2
<1>4. CASE \E n \in todo : StartNeuron(n)
  BY <1>2, <1>4 DEF StartNeuron, connectVars
<1>5. CASE \E c \in left : TryCluster(c)
  BY <1>2, <1>5 DEF TryCluster, connectVars
<1>6. CASE NewCluster
  BY <1>2, <1>6 DEF NewCluster, connectVars
<1>7. CASE FindComponents
  BY <1>1, <1>7, FindJoins
<1>8. CASE Connect
  BY <1>8, ConnectJoins
<1>9. CASE Finish \/ UNCHANGED vars
  <2>1. UNCHANGED <<clusters, usnn, idx, num_new, to_connect>> /\ (phase' = phase \/ Finish)
    BY <1>9 DEF Finish, vars, packVars, connectVars, unrollVars
  <2> QED BY <2>1, StandingJoins
<1> QED BY <1>3, <1>4, <1>5, <1>6, <1>7, <1>8, <1>9 DEF Next

(* For every application, crossbar and algorithm: once components have been *)
(* connected all clusters are, if each component has a cluster that feeds no*)
(* other (connectedComponents).                                             *)
THEOREM ComponentsAreConnected == Spec => []ConnectedIfSinks
<1>1. Init => PackInv /\ JoinInv
  <2> SUFFICES ASSUME Init PROVE PackInv /\ JoinInv
    OBVIOUS
  <2>1. PackInv
    BY PackInitial
  <2>2. num_new = 0 /\ phase = "pack"
    BY DEF Init
  <2>3. Connecting = {}
    BY <2>1, <2>2, NoneConnecting DEF NothingJoined
  <2> QED BY <2>1, <2>2, <2>3 DEF JoinInv
<1>2. (PackInv /\ JoinInv) /\ [Next]_vars => (PackInv /\ JoinInv)'
  <2> HIDE DEF PackInv, JoinInv
  <2> QED BY PackKept, JoinKept
<1>3. PackInv /\ JoinInv => ConnectedIfSinks
  <2> SUFFICES ASSUME PackInv, JoinInv, phase = "done",
                      \A comp \in Components : \E c \in comp : Sink(c),
                      ~(Cardinality(Components) <= 1)
               PROVE  FALSE
    BY DEF ConnectedIfSinks
  <2>1. /\ to_connect = <<>> /\ \A c \in Cid : Sink(c) => Joins(c)
        /\ \A c, d \in Connecting : d \in Component(c)
        /\ clusters \in Seq(Crossbar) /\ Connecting \subseteq Cid
    BY DEF JoinInv, PackInv, PackTypes, Connecting
  <2>2. \A c \in Cid : /\ Component(c) \in Components /\ Component(c) \subseteq Cid
                       /\ \A d \in Component(c) : Component(d) = Component(c)
    BY <2>1, ComponentsAre DEF ComponentFacts, Components
  <2>3. ASSUME NEW c \in Cid
        PROVE  \E d \in Connecting : Component(d) = Component(c)
    <3>1. PICK s \in Component(c) : Sink(s)
      BY <2>2
    <3>2. s \in Cid /\ Component(s) = Component(c) /\ Joins(s)
      BY <2>1, <2>2, <3>1
    <3>3. PICK d \in Component(s) : d \in Connecting
      BY <2>1, <3>2 DEF Joins, Elements
    <3> QED BY <2>2, <3>2, <3>3
  <2>4. \A c, d \in Connecting : Component(c) = Component(d)
    BY <2>1, <2>2
  <2>5. \A c, d \in Cid : Component(c) = Component(d)
    BY <2>3, <2>4
  <2>6. CASE Components = {}
    BY <2>6, FS_EmptySet
  <2>7. CASE Components # {}
    <3>1. PICK x : Components = {x}
      BY <2>5, <2>7 DEF Components
    <3> QED BY <3>1, FS_Singleton
  <2> QED BY <2>6, <2>7
<1> HIDE DEF PackInv, JoinInv
<1> QED BY <1>1, <1>2, <1>3, PTL DEF Spec

-----------------------------------------------------------------------------
(* Why the partitioner comes to an end.                                     *)

(* What is still to be done, what weighs most first: the neurons to unroll, *)
(* to start and to pack, the clusters to try; the stage; the neurons to     *)
(* connect, and whether the next one begins a cluster.                      *)
Work == << NumNeurons - idx, Cardinality(todo), Len(pending), Cardinality(left),
           IF phase = "pack" THEN 2 ELSE IF phase = "connect" THEN 1 ELSE 0,
           Len(to_connect), IF num_new % crossbar_size = 0 THEN 1 ELSE 0 >>

(* The lexicographic order on seven numbers, which is well-founded.         *)
Works == [1 .. 7 -> Nat]
Less(v, w) == \E i \in 1 .. 7 : v[i] < w[i] /\ \A j \in 1 .. i - 1 : v[j] = w[j]

(* Every part of the work is a number. *)
LEMMA WorkCounts == PackInv => Work \in Works
<1> SUFFICES ASSUME PackInv
             PROVE  Work \in Works
  OBVIOUS
<1>1. NumNeurons - idx \in Nat
  BY UnrollAssumption DEF PackInv, EdgeInv, UnrollInv
<1>2. IsFiniteSet(todo) /\ Cardinality(todo) \in Nat
  <2>1. IsFiniteSet(0 .. NumNeurons - 1)
    BY UnrollAssumption, FS_Interval
  <2>2. todo \subseteq 0 .. NumNeurons - 1
    BY DEF PackInv, PackTypes, Neuron
  <2> QED BY <2>1, <2>2, FS_Subset, FS_CardinalityType
<1>3. IsFiniteSet(left) /\ Cardinality(left) \in Nat
  <2>1. Cid = 1 .. Len(clusters) /\ Len(clusters) \in Nat
    BY ReadyToPack
  <2>2. left \subseteq 1 .. Len(clusters)
    BY <2>1 DEF PackInv, PackTypes
  <2>3. IsFiniteSet(1 .. Len(clusters))
    BY <2>1, FS_Interval
  <2> QED BY <2>2, <2>3, FS_Subset, FS_CardinalityType
<1>4. Len(pending) \in Nat /\ Len(to_connect) \in Nat
  BY DEF PackInv, PackTypes, Listed
<1> QED BY <1>1, <1>2, <1>3, <1>4 DEF Work, Works

(* One less of something finite is fewer. *)
LEMMA Fewer ==
  ASSUME NEW S, IsFiniteSet(S), NEW T \in SUBSET S, NEW x \in S \ T
  PROVE  Cardinality(T) < Cardinality(S)
<1>1. T \subseteq S \ {x} /\ IsFiniteSet(S \ {x}) /\ Cardinality(S \ {x}) = Cardinality(S) - 1
  BY FS_RemoveElement
<1>2. IsFiniteSet(T) /\ Cardinality(T) <= Cardinality(S \ {x})
  BY <1>1, FS_Subset
<1>3. Cardinality(S) \in Nat /\ Cardinality(T) \in Nat
  BY <1>2, FS_CardinalityType
<1> QED BY <1>1, <1>2, <1>3

(* What is left after a chunk is shorter: the link that comes back stands   *)
(* for at least two inputs, and after the last input nothing comes back.    *)
LEMMA RestShorter ==
  ASSUME Packing(pending), Listed(cur, pending), cur \in Id, pending # <<>>,
         NEW c \in Crossbar, CanPack(c)
  PROVE  Len(Rest(c)) < Len(pending)
<1> DEFINE n == Len(pending)
           k == NumCanBePacked(c)
           m == ChunkOutput(c)
           sub == SubSeq(pending, k + 1, n)
           link == IF m = cur THEN <<>> ELSE <<m>>
           h == IF m = cur THEN 0 ELSE 1
<1>1. /\ k \in 1 .. n /\ m \in Id /\ (k = n => m = cur)
      /\ pending \in Seq(Id) /\ n \in Nat
  BY ChunkAnswered DEF Listed
<1>2. k > 1 \/ k = n
  BY ChunkFits
<1>3. Rest(c) = link \o sub
  BY DEF Rest
<1> HIDE DEF k, m, n
<1>4. sub \in Seq(Id) /\ Len(sub) = n - k
  <2>1. k + 1 \in 1 .. n + 1 /\ n = Len(pending)
    BY <1>1 DEF n
  <2>2. \A i \in k + 1 .. n : pending[i] \in Id
    BY <1>1, <2>1, ElementOfSeq
  <2> QED BY <1>1, <2>1, <2>2, SubSeqProperties
<1>5. link \in Seq(Id) /\ Len(link) = h /\ h \in {0, 1} /\ (k = n => h = 0)
  BY <1>1
<1> HIDE DEF link, sub, h
<1>6. Len(link \o sub) = h + (n - k)
  BY <1>4, <1>5, ConcatProperties
<1>7. h + (n - k) < n
  BY <1>1, <1>2, <1>5
<1> QED BY <1>3, <1>6, <1>7 DEF n

(* After a multiple of s comes none. *)
LEMMA NotTwice ==
  ASSUME NEW s \in Nat \ {0, 1}, NEW n \in Nat, n % s = 0
  PROVE  (n + 1) % s # 0
<1> SUFFICES ASSUME (n + 1) % s = 0
             PROVE  FALSE
  OBVIOUS
<1> DEFINE q == n \div s
           p == (n + 1) \div s
<1>1. /\ q \in Int /\ n = s * q + (n % s)
      /\ p \in Int /\ n + 1 = s * p + ((n + 1) % s)
  OBVIOUS
<1>2. \A d \in Int : d >= 1 => s * d >= s
  OBVIOUS
<1>3. p - q \in Int /\ s * (p - q) = s * p - s * q /\ s * q \in Int /\ s * p \in Int
  BY <1>1
<1> HIDE DEF p, q
<1>4. s * (p - q) = 1
  BY <1>1, <1>3
<1>5. p - q >= 1
  BY <1>3, <1>4
<1> QED BY <1>2, <1>3, <1>4, <1>5

(* packToCluster leaves less, if it packs. *)
LEMMA PackingShrinks ==
  ASSUME PackInv, pending # <<>>, NEW cs \in Seq(Crossbar), NEW c \in 1 .. Len(cs),
         PackInto(c, cs)
  PROVE  IF CanPack(cs[c]) THEN Len(pending') < Len(pending) ELSE pending' = pending
<1>1. Packing(pending) /\ Listed(cur, pending) /\ cur \in Id /\ cs[c] \in Crossbar
  BY ReadyToPack, ElementOfSeq DEF PackInv
<1>2. CanPack(cs[c]) => Len(Rest(cs[c])) < Len(pending)
  BY <1>1, RestShorter
<1> QED BY <1>2 DEF PackInto

(* Every step leaves less work: no choice of neurons, chunks or clusters,   *)
(* and no order of the loops, goes on for ever (unroll, minClusters,        *)
(* minComm, random, connectedComponents).  In particular a new cluster      *)
(* always takes inputs, and connecting goes round at most once more for     *)
(* every cluster it fills.                                                  *)
THEOREM WorkDecreases == Spec => [](Work \in Works) /\ [][Less(Work', Work)]_vars
<1>1. ASSUME PackInv, PackInv', Next
      PROVE  Less(Work', Work)
  <2> DEFINE rank == IF phase = "pack" THEN 2 ELSE IF phase = "connect" THEN 1 ELSE 0
             room == IF num_new % crossbar_size = 0 THEN 1 ELSE 0
  <2>1. /\ Work[1] = NumNeurons - idx /\ Work[2] = Cardinality(todo) /\ Work[3] = Len(pending)
        /\ Work[4] = Cardinality(left) /\ Work[5] = rank
        /\ Work[6] = Len(to_connect) /\ Work[7] = room
    BY DEF Work
  <2>2. /\ Work'[1] = (NumNeurons - idx)' /\ Work'[2] = Cardinality(todo)'
        /\ Work'[3] = Len(pending)' /\ Work'[4] = Cardinality(left)' /\ Work'[5] = rank'
        /\ Work'[6] = Len(to_connect)' /\ Work'[7] = room'
    BY DEF Work
  <2>3. /\ Work'[1] < Work[1] => Less(Work', Work)
        /\ Work'[1] = Work[1] /\ Work'[2] < Work[2] => Less(Work', Work)
        /\ Work'[1] = Work[1] /\ Work'[2] = Work[2] /\ Work'[3] < Work[3] => Less(Work', Work)
        /\ Work'[1] = Work[1] /\ Work'[2] = Work[2] /\ Work'[3] = Work[3] /\ Work'[4] < Work[4]
             => Less(Work', Work)
    <3> DEFINE P(i) == Work'[i] < Work[i] /\ \A j \in 1 .. i - 1 : Work'[j] = Work[j]
    <3>1. \A i \in 1 .. 7 : P(i) => Less(Work', Work)
      BY DEF Less
    <3>2. 1 .. 0 = {} /\ 1 .. 1 = {1} /\ 1 .. 2 = {1, 2} /\ 1 .. 3 = {1, 2, 3}
      OBVIOUS
    <3> HIDE DEF Work, Less
    <3> QED BY <3>1, <3>2
  <2>4. ASSUME \A j \in 1 .. 4 : Work'[j] = Work[j]
        PROVE  /\ Work'[5] < Work[5] => Less(Work', Work)
               /\ Work'[5] = Work[5] /\ Work'[6] < Work[6] => Less(Work', Work)
               /\ Work'[5] = Work[5] /\ Work'[6] = Work[6] /\ Work'[7] < Work[7] => Less(Work', Work)
    <3> DEFINE P(i) == Work'[i] < Work[i] /\ \A j \in 1 .. i - 1 : Work'[j] = Work[j]
    <3>1. \A i \in 1 .. 7 : P(i) => Less(Work', Work)
      BY DEF Less
    <3>2. /\ \A j \in 1 .. 5 - 1 : j \in 1 .. 4
          /\ \A j \in 1 .. 6 - 1 : j \in 1 .. 4 \/ j = 5
          /\ \A j \in 1 .. 7 - 1 : j \in 1 .. 4 \/ j = 5 \/ j = 6
      OBVIOUS
    <3> HIDE DEF Work, Less
    <3> QED BY <2>4, <3>1, <3>2
  <2>5. CASE UnrollNeuron
    <3>1. idx' = idx + 1 /\ idx \in Int /\ NumNeurons \in Int
      BY <1>1, <2>5, UnrollAssumption DEF UnrollNeuron, PackInv, EdgeInv, UnrollInv
    <3>2. (NumNeurons - idx)' < NumNeurons - idx
      BY <3>1
    <3> QED BY <2>1, <2>2, <2>3, <3>2
  <2>6. CASE \E n \in todo : StartNeuron(n)
    <3>1. PICK n \in todo : StartNeuron(n)
      BY <2>6
    <3>2. idx' = idx /\ todo' = todo \ {n}
      BY <3>1 DEF StartNeuron, unrollVars
    <3>3. IsFiniteSet(todo)
      <4>1. IsFiniteSet(0 .. NumNeurons - 1)
        BY UnrollAssumption, FS_Interval
      <4>2. todo \subseteq 0 .. NumNeurons - 1
        BY <1>1 DEF PackInv, PackTypes, Neuron
      <4> QED BY <4>1, <4>2, FS_Subset
    <3>4. Cardinality(todo') < Cardinality(todo)
      <4>1. todo' \in SUBSET todo /\ n \in todo \ todo'
        BY <3>2
      <4> QED BY <3>3, <4>1, Fewer
    <3> QED BY <2>1, <2>2, <2>3, <3>2, <3>4
  <2>7. CASE \E c \in left : TryCluster(c)
    <3>1. PICK c \in left : TryCluster(c)
      BY <2>7
    <3>2. /\ phase = "pack" /\ pending # <<>> /\ PackInto(c, clusters)
          /\ idx' = idx /\ todo' = todo /\ left' \in SUBSET left /\ c \in left \ left'
      BY <3>1 DEF TryCluster, unrollVars
    <3>3. /\ clusters \in Seq(Crossbar) /\ Len(clusters) \in Nat /\ Cid = 1 .. Len(clusters)
          /\ left \subseteq 1 .. Len(clusters)
      BY <1>1, <3>2, ClustersAreOK DEF PackInv, PackTypes
    <3>4. IF CanPack(clusters[c]) THEN Len(pending') < Len(pending) ELSE pending' = pending
      BY <1>1, <3>2, <3>3, PackingShrinks
    <3>5. Cardinality(left') < Cardinality(left)
      <4>1. IsFiniteSet(1 .. Len(clusters))
        BY <3>3, FS_Interval
      <4>2. IsFiniteSet(left)
        BY <3>3, <4>1, FS_Subset
      <4> QED BY <3>2, <4>2, Fewer
    <3>6. Len(pending') < Len(pending) \/ pending' = pending
      BY <3>4
    <3> QED BY <2>1, <2>2, <2>3, <3>2, <3>5, <3>6
  <2>8. CASE NewCluster
    <3> DEFINE n  == Len(clusters) + 1
               cs == Append(clusters, NoCluster)
    <3>1. /\ phase = "pack" /\ pending # <<>> /\ PackInto(n, cs)
          /\ idx' = idx /\ todo' = todo
      BY <2>8 DEF NewCluster, unrollVars
    <3>2. clusters \in Seq(Crossbar) /\ Len(clusters) \in Nat
      BY <1>1, <3>1, ClustersAreOK
    <3>3. cs \in Seq(Crossbar) /\ Len(cs) = n /\ n \in 1 .. Len(cs) /\ cs[n] = NoCluster
      BY <3>2, NoClusterFits, AppendProperties
    <3> HIDE DEF n, cs
    <3>4. CanPack(cs[n])
      BY <1>1, <3>1, <3>3, ReadyToPack, NewFits
    <3>5. Len(pending') < Len(pending)
      BY <1>1, <3>1, <3>3, <3>4, PackingShrinks
    <3> QED BY <2>1, <2>2, <2>3, <3>1, <3>5
  <2>9. ASSUME UNCHANGED <<idx, todo, pending, left>>
        PROVE  \A j \in 1 .. 4 : Work'[j] = Work[j]
    <3>1. \A j \in 1 .. 4 : j = 1 \/ j = 2 \/ j = 3 \/ j = 4
      OBVIOUS
    <3> HIDE DEF Work
    <3> QED BY <2>1, <2>2, <2>9, <3>1
  <2>10. CASE FindComponents \/ Finish
    <3>1. /\ UNCHANGED <<idx, todo, pending, left>>
          /\ rank' < rank
      BY <2>10 DEF FindComponents, Finish, unrollVars, packVars
    <3> QED BY <2>1, <2>2, <2>4, <2>9, <3>1
  <2>11. CASE Connect
    <3> DEFINE full == num_new % crossbar_size = 0
    <3>1. /\ UNCHANGED <<idx, todo, pending, left>> /\ phase' = phase
          /\ crossbar_size' = crossbar_size /\ num_new' = num_new + 1
          /\ to_connect' = Tail(AtFront) /\ to_connect # <<>>
      BY <2>11 DEF Connect, unrollVars
    <3>2. /\ crossbar_size \in Nat \ {0, 1} /\ num_new \in Nat
          /\ to_connect \in Seq(Nat) /\ to_connect' \in Seq(Nat)
      BY <1>1 DEF PackInv, PackTypes
    <3>3. rank' = rank
      BY <3>1
    <3>4. CASE full /\ num_new > 0
      <4>1. PICK x : AtFront = <<x>> \o to_connect
        BY <3>4 DEF AtFront
      <4>2. to_connect' = to_connect
        BY <3>1, <3>2, <4>1
      <4>3. ~full'
        BY <3>1, <3>2, <3>4, NotTwice
      <4>4. room' < room
        BY <3>4, <4>3
      <4> QED BY <2>1, <2>2, <2>4, <2>9, <3>1, <3>3, <4>2, <4>4
    <3>5. CASE ~(full /\ num_new > 0)
      <4>1. AtFront = to_connect
        BY <3>5 DEF AtFront
      <4>2. Len(to_connect') < Len(to_connect)
        BY <3>1, <3>2, <4>1
      <4> QED BY <2>1, <2>2, <2>4, <2>9, <3>1, <3>3, <4>2
    <3> QED BY <3>4, <3>5
  <2> QED BY <1>1, <2>5, <2>6, <2>7, <2>8, <2>10, <2>11 DEF Next
<1>2. PackInv /\ PackInv' /\ [Next]_vars => [Less(Work', Work)]_vars
  BY <1>1
<1> QED BY <1>2, WorkCounts, PackInvariance, PTL DEF Spec
=============================================================================
