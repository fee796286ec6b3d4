---------------------------- MODULE Workers_proofs ----------------------------
(***************************************************************************)
(* Counting workers: what the bounds that hold up to the number of threads *)
(* rest on.                                                                *)
(***************************************************************************)
EXTENDS Workers, Integers, FiniteSetTheorems, TLAPS

\* A server has finitely many workers, and one at least.
LEMMA WorkersCounted ==
  ASSUME workers \in WorkerSets
  PROVE  /\ IsFiniteSet(workers) /\ workers \subseteq Worker
         /\ Cardinality(workers) \in Nat /\ Cardinality(workers) >= 1
<1>1. IsFiniteSet(workers) /\ workers # {} /\ workers \subseteq Worker
  BY WorkersAssumption DEF Worker
<1>2. Cardinality(workers) \in Nat /\ Cardinality(workers) # 0
  BY <1>1, FS_CardinalityType, FS_EmptySet
<1>3. QED BY <1>1, <1>2

\* No more workers are at a step than there are.
LEMMA SomeWorkers ==
  ASSUME workers \in WorkerSets, NEW S \in SUBSET workers
  PROVE  /\ IsFiniteSet(S) /\ Cardinality(S) \in Nat
         /\ Cardinality(S) <= Cardinality(workers)
<1>1. IsFiniteSet(workers)
  BY WorkersCounted
<1>2. IsFiniteSet(S) /\ Cardinality(S) <= Cardinality(workers)
  BY <1>1, FS_Subset
<1>3. QED BY <1>2, FS_CardinalityType

\* One that leaves a step.
LEMMA OneLess ==
  ASSUME NEW S, IsFiniteSet(S), NEW x \in S, NEW T, T \subseteq S, x \notin T
  PROVE  IsFiniteSet(T) /\ Cardinality(T) \in Nat /\ Cardinality(T) + 1 <= Cardinality(S)
<1>1. IsFiniteSet(S \ {x}) /\ Cardinality(S \ {x}) = Cardinality(S) - 1
  BY FS_RemoveElement
<1>2. T \subseteq S \ {x}
  OBVIOUS
<1>3. IsFiniteSet(T) /\ Cardinality(T) <= Cardinality(S \ {x})
  BY <1>1, <1>2, FS_Subset
<1>4. Cardinality(T) \in Nat /\ Cardinality(S) \in Nat
  BY <1>3, FS_CardinalityType
<1>5. QED BY <1>1, <1>3, <1>4

\* One that comes in.
LEMMA OneMore ==
  ASSUME NEW S, IsFiniteSet(S), NEW x, NEW T, T \subseteq S \cup {x}
  PROVE  IsFiniteSet(T) /\ Cardinality(T) \in Nat /\ Cardinality(T) <= Cardinality(S) + 1
<1>1. IsFiniteSet(S \cup {x})
      /\ Cardinality(S \cup {x}) = IF x \in S THEN Cardinality(S) ELSE Cardinality(S) + 1
  BY FS_AddElement
<1>2. IsFiniteSet(T) /\ Cardinality(T) <= Cardinality(S \cup {x})
  BY <1>1, FS_Subset
<1>3. Cardinality(T) \in Nat /\ Cardinality(S) \in Nat
  BY <1>2, FS_CardinalityType
<1>4. QED BY <1>1, <1>2, <1>3

\* Fewer elements in a smaller set.
LEMMA NoMore ==
  ASSUME NEW S, IsFiniteSet(S), NEW T, T \subseteq S
  PROVE  IsFiniteSet(T) /\ Cardinality(T) \in Nat /\ Cardinality(S) \in Nat
         /\ Cardinality(T) <= Cardinality(S)
<1>1. IsFiniteSet(T) /\ Cardinality(T) <= Cardinality(S)
  BY FS_Subset
<1>2. QED BY <1>1, FS_CardinalityType

\* A server with one worker has no other.
LEMMA Alone ==
  ASSUME workers \in WorkerSets, Serial, NEW q \in workers, NEW r \in workers
  PROVE  q = r
<1>1. IsFiniteSet(workers)
  BY WorkersCounted
<1>2. SUFFICES ASSUME q # r PROVE FALSE
  OBVIOUS
<1>3. IsFiniteSet({}) /\ {} \subseteq workers \ {q} /\ r \in workers \ {q}
  BY <1>2, FS_EmptySet
<1>4. IsFiniteSet(workers \ {q}) /\ Cardinality(workers \ {q}) = 0
  BY <1>1, FS_RemoveElement DEF Serial
<1>5. QED BY <1>3, <1>4, FS_EmptySet
=============================================================================
