----------------------- MODULE VaultDeploymentProofs -----------------------
(***************************************************************************)
(* The facts about the vault that are sums.  As long as no pool is set the  *)
(* claims add up to the cash.  In a deployment whose pool only the vault    *)
(* trades with, the books of the two contracts describe one position, the   *)
(* swap trail explains it, and the vault's own trades yield nothing.  For   *)
(* any finite set of addresses and any number of swaps: a sum is reasoned   *)
(* about by induction over the naturals, from their being well founded.     *)
(***************************************************************************)
EXTENDS VaultDeployment, ContractProofs, FiniteSetTheorems

-----------------------------------------------------------------------------
(* Sums over finite sets. *)

\* Induction over the naturals, for a set instead of a predicate.
LEMMA SetInduction ==
    ASSUME NEW P, 0 \in P, \A n \in Nat : n \in P => n + 1 \in P
    PROVE  Nat \subseteq P
<1> DEFINE less == {p \in Nat \X Nat : p[1] < p[2]}
           T == Nat \ P
<1>1. IsWellFoundedOn(less, Nat)
  BY NatLessThanWellFounded DEF OpToRel
<1>2. SUFFICES ASSUME T # {} PROVE FALSE
  OBVIOUS
<1>3. PICK n \in T : \A m \in T : <<m, n>> \notin less
  <2> HIDE DEF less
  <2> QED BY <1>1, <1>2, WFMin
<1>4. n \in Nat /\ n \notin P /\ n # 0
  OBVIOUS
<1>5. n - 1 \in Nat /\ <<n - 1, n>> \in less
  BY <1>4
<1>6. n - 1 \in P
  BY <1>3, <1>5
<1> QED BY <1>4, <1>5, <1>6

\* What the fold behind SumFunctionOnSet(f, S) chooses.
First(s) == CHOOSE x \in s : TRUE
Unfolds(it, f, S) ==
    it = [s \in SUBSET S |-> IF s = {} THEN 0 ELSE f[First(s)] + it[s \ {First(s)}]]
Partial(f, S) == CHOOSE it : Unfolds(it, f, S)

\* SumFunctionOnSet(f, S) is that fold, at S.
LEMMA SumIsPartial ==
    ASSUME NEW f, NEW S
    PROVE  SumFunctionOnSet(f, S) = Partial(f, S)[S]
  BY DEF SumFunctionOnSet, FoldFunctionOnSet, MapThenFoldSet, Partial, Unfolds, First

\* The fold is well defined on finite sets.
LEMMA FoldExists ==
    ASSUME NEW f, NEW S, IsFiniteSet(S)
    PROVE  Unfolds(Partial(f, S), f, S)
<1> DEFINE Small(n) == {s \in SUBSET S : Cardinality(s) <= n}
           Sums(it, n) == it = [s \in Small(n) |-> IF s = {} THEN 0
                                     ELSE f[First(s)] + it[s \ {First(s)}]]
           P == {n \in Nat : \E it : Sums(it, n)}
<1>0. \A s \in SUBSET S : /\ IsFiniteSet(s) /\ Cardinality(s) \in Nat
                          /\ Cardinality(s) <= Cardinality(S)
                          /\ s # {} => /\ First(s) \in s
                                       /\ Cardinality(s \ {First(s)}) = Cardinality(s) - 1
                                       /\ s \ {First(s)} \in SUBSET S
  <2> TAKE s \in SUBSET S
  <2>1. IsFiniteSet(s) /\ Cardinality(s) \in Nat /\ Cardinality(s) <= Cardinality(S)
    BY FS_Subset, FS_CardinalityType
  <2>2. ASSUME s # {} PROVE First(s) \in s
    BY <2>2 DEF First
  <2> HIDE DEF First
  <2> QED BY <2>1, <2>2, FS_RemoveElement
<1> HIDE DEF First
<1>1. 0 \in P
  <2>1. \A s \in Small(0) : s = {}
    <3> TAKE s \in Small(0)
    <3>1. IsFiniteSet(s) /\ Cardinality(s) \in Nat /\ Cardinality(s) <= 0
      BY <1>0
    <3> QED BY <3>1, FS_EmptySet
  <2>2. Sums([s \in Small(0) |-> 0], 0)
    BY <2>1
  <2> QED BY <2>2
<1>2. \A n \in Nat : n \in P => n + 1 \in P
  <2> SUFFICES ASSUME NEW n \in Nat, n \in P PROVE n + 1 \in P
    OBVIOUS
  <2> PICK it : Sums(it, n)
    OBVIOUS
  <2> DEFINE new == [s \in Small(n + 1) |-> IF s = {} THEN 0
                         ELSE f[First(s)] + it[s \ {First(s)}]]
  <2>1. \A s \in Small(n) : s \in Small(n + 1) /\ new[s] = it[s]
    <3> TAKE s \in Small(n)
    <3>1. s \in Small(n + 1)
      <4>1. Cardinality(s) \in Nat /\ Cardinality(s) <= n /\ s \in SUBSET S
        BY <1>0
      <4> QED BY <4>1
    <3>2. it[s] = IF s = {} THEN 0 ELSE f[First(s)] + it[s \ {First(s)}]
      OBVIOUS
    <3> QED BY <3>1, <3>2
  <2>2. \A s \in Small(n + 1) : s # {} => s \ {First(s)} \in Small(n)
    BY <1>0
  <2>3. \A s \in Small(n + 1) : new[s] = IF s = {} THEN 0
                                         ELSE f[First(s)] + new[s \ {First(s)}]
    BY <2>1, <2>2
  <2>4. Sums(new, n + 1)
    BY <2>3
  <2>5. n + 1 \in Nat /\ \E x : Sums(x, n + 1)
    <3> HIDE DEF new, Sums
    <3> QED BY <2>4
  <2> HIDE DEF Sums
  <2> QED BY <2>5
<1>3. PICK it : Sums(it, Cardinality(S))
  <2>1. Cardinality(S) \in Nat
    BY FS_CardinalityType
  <2>2. Nat \subseteq P
    <3> HIDE DEF P
    <3> QED BY <1>1, <1>2, SetInduction
  <2> QED BY <2>1, <2>2
<1>4. Small(Cardinality(S)) = SUBSET S
  BY <1>0
<1>5. Unfolds(it, f, S)
  BY <1>3, <1>4 DEF Unfolds
<1> QED BY <1>5 DEF Partial

\* One step of the sum: the chosen element apart.
LEMMA PartialStep ==
    ASSUME NEW f, NEW S, IsFiniteSet(S), NEW U \in SUBSET S
    PROVE  Partial(f, S)[U] = IF U = {} THEN 0
                              ELSE f[First(U)] + Partial(f, S)[U \ {First(U)}]
<1>1. Unfolds(Partial(f, S), f, S)
  BY FoldExists
<1> DEFINE it == Partial(f, S)
<1> HIDE DEF it
<1>2. it = [s \in SUBSET S |-> IF s = {} THEN 0 ELSE f[First(s)] + it[s \ {First(s)}]]
  BY <1>1 DEF Unfolds, it
<1>3. it[U] = IF U = {} THEN 0 ELSE f[First(U)] + it[U \ {First(U)}]
  BY <1>2
<1> QED BY <1>3 DEF it

\* An element taken out of a finite set.
LEMMA TakeOut ==
    ASSUME NEW T, IsFiniteSet(T), NEW n \in Nat, Cardinality(T) = n + 1
    PROVE  /\ T # {} /\ First(T) \in T
           /\ \A x \in T : IsFiniteSet(T \ {x}) /\ Cardinality(T \ {x}) = n
<1>1. T # {}
  BY FS_EmptySet
<1>2. First(T) \in T
  BY <1>1 DEF First
<1>3. ASSUME NEW x \in T PROVE IsFiniteSet(T \ {x}) /\ Cardinality(T \ {x}) = n
  <2>1. Cardinality(T \ {x}) = Cardinality(T) - 1 /\ IsFiniteSet(T \ {x})
    BY FS_RemoveElement
  <2> QED BY <2>1
<1> QED BY <1>1, <1>2, <1>3

\* The sum of a set does not depend on the set the fold was started for.
LEMMA PartialRestricts ==
    ASSUME NEW f, NEW S, IsFiniteSet(S), NEW U \in SUBSET S
    PROVE  Partial(f, S)[U] = Partial(f, U)[U]
<1> DEFINE Same(n) == \A S1, S2, V :
             (/\ IsFiniteSet(S1) /\ IsFiniteSet(S2) /\ V \in SUBSET S1 /\ V \in SUBSET S2
              /\ Cardinality(V) = n) => Partial(f, S1)[V] = Partial(f, S2)[V]
           P == {n \in Nat : Same(n)}
<1>1. 0 \in P
  <2> SUFFICES ASSUME NEW S1, NEW S2, NEW V, IsFiniteSet(S1), IsFiniteSet(S2),
                      V \in SUBSET S1, V \in SUBSET S2, Cardinality(V) = 0
               PROVE  Partial(f, S1)[V] = Partial(f, S2)[V]
    OBVIOUS
  <2>1. V = {}
    BY FS_Subset, FS_EmptySet
  <2> QED BY <2>1, PartialStep
<1>2. \A n \in Nat : n \in P => n + 1 \in P
  <2> SUFFICES ASSUME NEW n \in Nat, Same(n),
                      NEW S1, NEW S2, NEW V, IsFiniteSet(S1), IsFiniteSet(S2),
                      V \in SUBSET S1, V \in SUBSET S2, Cardinality(V) = n + 1
               PROVE  Partial(f, S1)[V] = Partial(f, S2)[V]
    OBVIOUS
  <2> DEFINE W == V \ {First(V)}
  <2>1. V # {} /\ Cardinality(W) = n
    BY FS_Subset, TakeOut
  <2>2. Partial(f, S1)[W] = Partial(f, S2)[W]
    <3>1. W \in SUBSET S1 /\ W \in SUBSET S2
      OBVIOUS
    <3> HIDE DEF W
    <3> QED BY <2>1, <3>1
  <2>3. /\ Partial(f, S1)[V] = f[First(V)] + Partial(f, S1)[W]
        /\ Partial(f, S2)[V] = f[First(V)] + Partial(f, S2)[W]
    <3>1. /\ Partial(f, S1)[V] = IF V = {} THEN 0 ELSE f[First(V)] + Partial(f, S1)[W]
          /\ Partial(f, S2)[V] = IF V = {} THEN 0 ELSE f[First(V)] + Partial(f, S2)[W]
      BY PartialStep
    <3> HIDE DEF W
    <3> QED BY <2>1, <3>1
  <2> QED BY <2>2, <2>3
<1>3. Nat \subseteq P
  <2> HIDE DEF P
  <2> QED BY <1>1, <1>2, SetInduction
<1>4. Cardinality(U) \in Nat /\ IsFiniteSet(U)
  BY FS_Subset, FS_CardinalityType
<1> QED BY <1>3, <1>4

-----------------------------------------------------------------------------
\* The two equations a sum is defined by, for a chosen element.
LEMMA SumStep ==
    ASSUME NEW f, NEW T, IsFiniteSet(T)
    PROVE  /\ SumFunctionOnSet(f, {}) = 0
           /\ T # {} => SumFunctionOnSet(f, T) =
                          f[First(T)] + SumFunctionOnSet(f, T \ {First(T)})
<1>1. SumFunctionOnSet(f, {}) = 0
  <2>1. IsFiniteSet({})
    BY FS_EmptySet
  <2> QED BY <2>1, PartialStep, SumIsPartial
<1>2. ASSUME T # {}
      PROVE  SumFunctionOnSet(f, T) = f[First(T)] + SumFunctionOnSet(f, T \ {First(T)})
  <2>1. Partial(f, T)[T] = f[First(T)] + Partial(f, T)[T \ {First(T)}]
    BY <1>2, PartialStep
  <2>2. Partial(f, T)[T \ {First(T)}] = Partial(f, T \ {First(T)})[T \ {First(T)}]
    BY PartialRestricts
  <2> QED BY <2>1, <2>2, SumIsPartial
<1> QED BY <1>1, <1>2

\* A sum of integers is an integer, one of naturals a natural.
LEMMA SumType ==
    ASSUME NEW f, NEW T, IsFiniteSet(T), \A x \in T : f[x] \in Int
    PROVE  /\ SumFunctionOnSet(f, T) \in Int
           /\ (\A x \in T : f[x] \in Nat) => SumFunctionOnSet(f, T) \in Nat
<1> DEFINE Typed(n) == \A V \in SUBSET T : Cardinality(V) = n =>
             /\ SumFunctionOnSet(f, V) \in Int
             /\ (\A x \in V : f[x] \in Nat) => SumFunctionOnSet(f, V) \in Nat
           P == {n \in Nat : Typed(n)}
<1>1. 0 \in P
  <2>1. \A V \in SUBSET T : Cardinality(V) = 0 => V = {}
    BY FS_Subset, FS_EmptySet
  <2>2. SumFunctionOnSet(f, {}) = 0
    BY SumStep
  <2>3. Typed(0)
    BY <2>1, <2>2
  <2> HIDE DEF Typed
  <2> QED BY <2>3
<1>2. \A n \in Nat : n \in P => n + 1 \in P
  <2> SUFFICES ASSUME NEW n \in Nat, Typed(n), NEW V \in SUBSET T, Cardinality(V) = n + 1
               PROVE  /\ SumFunctionOnSet(f, V) \in Int
                      /\ (\A x \in V : f[x] \in Nat) => SumFunctionOnSet(f, V) \in Nat
    OBVIOUS
  <2> DEFINE W == V \ {First(V)}
  <2>0. IsFiniteSet(V)
    BY FS_Subset
  <2>1. V # {} /\ First(V) \in V /\ Cardinality(W) = n
    BY <2>0, TakeOut
  <2>2. W \in SUBSET T /\ W \subseteq V
    OBVIOUS
  <2>3. SumFunctionOnSet(f, V) = f[First(V)] + SumFunctionOnSet(f, W)
    BY <2>0, <2>1, SumStep
  <2> HIDE DEF W
  <2>4. /\ SumFunctionOnSet(f, W) \in Int
        /\ (\A x \in W : f[x] \in Nat) => SumFunctionOnSet(f, W) \in Nat
    BY <2>1, <2>2
  <2> QED BY <2>1, <2>2, <2>3, <2>4
<1>3. Nat \subseteq P
  <2> HIDE DEF P
  <2> QED BY <1>1, <1>2, SetInduction
<1>4. Cardinality(T) \in Nat
  BY FS_CardinalityType
<1> QED BY <1>3, <1>4

\* Any element may be taken apart, not only the chosen one.
LEMMA SumTakeAny ==
    ASSUME NEW f, NEW T, IsFiniteSet(T), \A y \in T : f[y] \in Int, NEW x \in T
    PROVE  SumFunctionOnSet(f, T) = f[x] + SumFunctionOnSet(f, T \ {x})
<1> DEFINE Any(n) == \A V \in SUBSET T : Cardinality(V) = n =>
             \A y \in V : SumFunctionOnSet(f, V) = f[y] + SumFunctionOnSet(f, V \ {y})
           P == {n \in Nat : Any(n)}
<1>1. 0 \in P
  <2>1. \A V \in SUBSET T : Cardinality(V) = 0 => V = {}
    BY FS_Subset, FS_EmptySet
  <2> QED BY <2>1
<1>2. \A n \in Nat : n \in P => n + 1 \in P
  <2> SUFFICES ASSUME NEW n \in Nat, Any(n), NEW V \in SUBSET T, Cardinality(V) = n + 1,
                      NEW y \in V
               PROVE  SumFunctionOnSet(f, V) = f[y] + SumFunctionOnSet(f, V \ {y})
    OBVIOUS
  <2> DEFINE z == First(V)
  <2>0. IsFiniteSet(V)
    BY FS_Subset
  <2>1. /\ V # {} /\ z \in V
        /\ \A v \in V : IsFiniteSet(V \ {v}) /\ Cardinality(V \ {v}) = n
    BY <2>0, TakeOut
  <2>2. SumFunctionOnSet(f, V) = f[z] + SumFunctionOnSet(f, V \ {z})
    BY <2>0, <2>1, SumStep
  <2> HIDE DEF z
  <2>3. CASE y = z
    BY <2>2, <2>3
  <2>4. CASE y # z
    <3>1. y \in V \ {z} /\ z \in V \ {y}
      BY <2>1, <2>4
    <3>2. SumFunctionOnSet(f, V \ {z}) = f[y] + SumFunctionOnSet(f, (V \ {z}) \ {y})
      BY <2>1, <3>1
    <3>3. SumFunctionOnSet(f, V \ {y}) = f[z] + SumFunctionOnSet(f, (V \ {y}) \ {z})
      BY <2>1, <3>1
    <3>4. (V \ {z}) \ {y} = (V \ {y}) \ {z}
      OBVIOUS
    <3>5. IsFiniteSet((V \ {y}) \ {z}) /\ (V \ {y}) \ {z} \subseteq T
      BY <2>1, <3>1, FS_RemoveElement
    <3> DEFINE rest == SumFunctionOnSet(f, (V \ {y}) \ {z})
    <3>6. rest \in Int /\ f[y] \in Int /\ f[z] \in Int
      BY <2>1, <3>5, SumType
    <3>7. SumFunctionOnSet(f, V \ {z}) = f[y] + rest
      BY <3>2, <3>4
    <3> HIDE DEF rest
    <3>8. SumFunctionOnSet(f, V \ {y}) = f[z] + rest
      BY <3>3 DEF rest
    <3> QED BY <2>2, <3>6, <3>7, <3>8
  <2> QED BY <2>3, <2>4
<1>3. Nat \subseteq P
  <2> HIDE DEF P
  <2> QED BY <1>1, <1>2, SetInduction
<1>4. Cardinality(T) \in Nat
  BY FS_CardinalityType
<1> QED BY <1>3, <1>4

\* A sum depends on the values at its elements only, and zeros add nothing.
LEMMA SumCongruence ==
    ASSUME NEW f, NEW g, NEW T, IsFiniteSet(T), \A x \in T : f[x] = g[x]
    PROVE  SumFunctionOnSet(f, T) = SumFunctionOnSet(g, T)
<1> DEFINE Same(n) == \A V \in SUBSET T :
             Cardinality(V) = n => SumFunctionOnSet(f, V) = SumFunctionOnSet(g, V)
           P == {n \in Nat : Same(n)}
<1>1. 0 \in P
  <2>1. \A V \in SUBSET T : Cardinality(V) = 0 => V = {}
    BY FS_Subset, FS_EmptySet
  <2> QED BY <2>1, SumStep
<1>2. \A n \in Nat : n \in P => n + 1 \in P
  <2> SUFFICES ASSUME NEW n \in Nat, Same(n), NEW V \in SUBSET T, Cardinality(V) = n + 1
               PROVE  SumFunctionOnSet(f, V) = SumFunctionOnSet(g, V)
    OBVIOUS
  <2>0. IsFiniteSet(V)
    BY FS_Subset
  <2>1. V # {} /\ First(V) \in V /\ Cardinality(V \ {First(V)}) = n
    BY <2>0, TakeOut
  <2>2. SumFunctionOnSet(f, V \ {First(V)}) = SumFunctionOnSet(g, V \ {First(V)})
    BY <2>1
  <2> QED BY <2>0, <2>1, <2>2, SumStep
<1>3. Nat \subseteq P
  <2> HIDE DEF P
  <2> QED BY <1>1, <1>2, SetInduction
<1>4. Cardinality(T) \in Nat
  BY FS_CardinalityType
<1> QED BY <1>3, <1>4

\* Two functions that agree but at one element have sums that differ there.
LEMMA SumChange ==
    ASSUME NEW f, NEW g, NEW T, IsFiniteSet(T), NEW a \in T,
           \A x \in T : f[x] \in Int /\ g[x] \in Int,
           \A x \in T \ {a} : f[x] = g[x]
    PROVE  SumFunctionOnSet(g, T) = SumFunctionOnSet(f, T) + g[a] - f[a]
<1>1. IsFiniteSet(T \ {a})
  BY FS_RemoveElement
<1>2. SumFunctionOnSet(f, T \ {a}) = SumFunctionOnSet(g, T \ {a})
  BY <1>1, SumCongruence
<1>3. SumFunctionOnSet(f, T \ {a}) \in Int
  BY <1>1, SumType
<1> QED BY <1>2, <1>3, SumTakeAny

\* Nothing but zeros sums to zero.
LEMMA SumOfZeros ==
    ASSUME NEW f, NEW T, IsFiniteSet(T), \A x \in T : f[x] = 0
    PROVE  SumFunctionOnSet(f, T) = 0
<1> DEFINE Zero(n) == \A V \in SUBSET T : Cardinality(V) = n => SumFunctionOnSet(f, V) = 0
           P == {n \in Nat : Zero(n)}
<1>1. 0 \in P
  <2>1. \A V \in SUBSET T : Cardinality(V) = 0 => V = {}
    BY FS_Subset, FS_EmptySet
  <2> QED BY <2>1, SumStep
<1>2. \A n \in Nat : n \in P => n + 1 \in P
  <2> SUFFICES ASSUME NEW n \in Nat, Zero(n), NEW V \in SUBSET T, Cardinality(V) = n + 1
               PROVE  SumFunctionOnSet(f, V) = 0
    OBVIOUS
  <2>0. IsFiniteSet(V)
    BY FS_Subset
  <2>1. V # {} /\ First(V) \in V /\ Cardinality(V \ {First(V)}) = n
    BY <2>0, TakeOut
  <2>2. SumFunctionOnSet(f, V \ {First(V)}) = 0
    BY <2>1
  <2> QED BY <2>0, <2>1, <2>2, SumStep
<1>3. Nat \subseteq P
  <2> HIDE DEF P
  <2> QED BY <1>1, <1>2, SetInduction
<1>4. Cardinality(T) \in Nat
  BY FS_CardinalityType
<1> QED BY <1>3, <1>4

\* A sum over a set that gains one element.
LEMMA SumGains ==
    ASSUME NEW f, NEW g, NEW T, IsFiniteSet(T), NEW a, a \notin T,
           \A x \in T : f[x] \in Int /\ g[x] = f[x], g[a] \in Int
    PROVE  SumFunctionOnSet(g, T \cup {a}) = SumFunctionOnSet(f, T) + g[a]
<1>1. IsFiniteSet(T \cup {a}) /\ (T \cup {a}) \ {a} = T
  BY FS_AddElement
<1>2. SumFunctionOnSet(g, T \cup {a}) = g[a] + SumFunctionOnSet(g, T)
  BY <1>1, SumTakeAny
<1>3. SumFunctionOnSet(g, T) = SumFunctionOnSet(f, T) /\ SumFunctionOnSet(f, T) \in Int
  BY SumCongruence, SumType
<1> QED BY <1>2, <1>3

-----------------------------------------------------------------------------
(* The vault while no pool is set. *)

\* A deposit and a withdrawal change the sum of the claims by what they change
\* the booked cash by.
LEMMA ClaimsMoveWithCash ==
    ASSUME VaultInv, NEW caller \in Accounts, NEW amount \in Amounts,
           Deposit(caller, amount) \/ Withdraw(caller, amount), VaultInv'
    PROVE  /\ SumFunction(balances) \in Int /\ SumFunction(balances)' \in Int
           /\ SumFunction(balances)' - SumFunction(balances) = total_locked' - total_locked
           /\ UNCHANGED <<scspr_balance, poolVars, swapVars, pool_address>>
<1>1. /\ caller \in Addresses /\ amount \in Nat /\ IsFiniteSet(Addresses)
      /\ total_locked \in Int /\ balances[caller] \in Int
      /\ balances \in [Addresses -> U512] /\ balances' \in [Addresses -> U512]
      /\ U512 \subseteq Int
  BY PoolConstants, VaultAssumption DEF VaultInv, TypeOK, U512
<1>2. /\ SumFunction(balances) = SumFunctionOnSet(balances, Addresses)
      /\ SumFunction(balances)' = SumFunctionOnSet(balances', Addresses)
  BY <1>1 DEF SumFunction
<1>3. /\ balances'[caller] - balances[caller] = total_locked' - total_locked
      /\ \A x \in Addresses \ {caller} : balances[x] = balances'[x]
  <2>1. CASE Deposit(caller, amount)
    <3>1. /\ balances' = [balances EXCEPT ![caller] = @ + amount]
          /\ total_locked' = total_locked + amount
      BY <2>1 DEF Deposit
    <3> QED BY <1>1, <3>1
  <2>2. CASE Withdraw(caller, amount)
    <3>1. /\ balances' = [balances EXCEPT ![caller] = @ - amount]
          /\ total_locked' = total_locked - amount
      BY <2>2 DEF Withdraw
    <3> QED BY <1>1, <3>1
  <2> QED BY <2>1, <2>2
<1>4. SumFunctionOnSet(balances', Addresses) =
        SumFunctionOnSet(balances, Addresses) + balances'[caller] - balances[caller]
  BY <1>1, <1>3, SumChange
<1>5. /\ SumFunctionOnSet(balances, Addresses) \in Int
      /\ SumFunctionOnSet(balances', Addresses) \in Int
      /\ balances'[caller] \in Int
  BY <1>1, SumType
<1>6. UNCHANGED <<scspr_balance, poolVars, swapVars, pool_address>>
  BY DEF Deposit, Withdraw, roleVars
<1> QED BY <1>1, <1>2, <1>3, <1>4, <1>5, <1>6

\* Before anything is deposited the claims sum to zero.
LEMMA NoClaimsAtFirst ==
    ASSUME VaultFresh
    PROVE  SumFunction(balances) = 0
<1>1. DOMAIN balances = Addresses /\ \A a \in Addresses : balances[a] = 0
  BY DEF VaultFresh
<1> QED BY <1>1, VaultAssumption, SumOfZeros DEF SumFunction

\* A vault in which no pool is set holds what it owes: a step that is neither a
\* deposit nor a withdrawal moves no cash, because every swap that does needs a
\* pool, and no pool that was set is ever unset.
LEMMA WholeIsInductive ==
    ASSUME VaultInv, VaultInv', WholeUntilPooled, [AnyNext]_vars
    PROVE  WholeUntilPooled'
<1> SUFFICES ASSUME pool_address' = None
             PROVE  SumFunction(balances)' = total_locked'
  BY DEF WholeUntilPooled
<1>1. CASE UNCHANGED <<balances, total_locked, pool_address>>
  BY <1>1 DEF WholeUntilPooled
<1>2. CASE PoolNext /\ UNCHANGED vaultVars
  BY <1>1, <1>2 DEF vaultVars, fundVars, roleVars
<1>3. CASE AnyCall
  <2>1. PICK caller \in Accounts : CallBy(caller)
    BY <1>3 DEF AnyCall
  <2>2. CASE \E amount \in Amounts : Deposit(caller, amount) \/ Withdraw(caller, amount)
    <3>1. PICK amount \in Amounts : Deposit(caller, amount) \/ Withdraw(caller, amount)
      BY <2>2
    <3>2. /\ SumFunction(balances) \in Int /\ SumFunction(balances)' \in Int
          /\ SumFunction(balances)' - SumFunction(balances) = total_locked' - total_locked
          /\ pool_address' = pool_address
      BY <3>1, ClaimsMoveWithCash
    <3>3. total_locked \in Int /\ total_locked' \in Int
      BY PoolConstants DEF VaultInv, TypeOK, U512
    <3> QED BY <3>2, <3>3 DEF WholeUntilPooled
  <2>3. CASE \E text, params \in Texts : LogAction(caller, text, params)
    BY <1>1, <2>3 DEF LogAction, fundVars, roleVars
  <2>4. CASE \E token_in, token_out \in Texts, amount_in \in Nat :
               /\ pool_address \in Pools
               /\ \/ SwapForward(caller, token_in, token_out, amount_in)
                  \/ SwapReverse(caller, token_in, token_out, amount_in)
    <3>1. pool_address' = pool_address
      BY <2>4 DEF SwapForward, SwapReverse, RecordSwap, roleVars
    <3> QED BY <2>4, <3>1, VaultConstants, PoolConstants
  <2>5. CASE \E token_in, token_out \in Texts, amount_in, amount_out \in Nat :
               ExecuteSwapAuditOnly(caller, token_in, token_out, amount_in, amount_out)
    BY <1>1, <2>5 DEF ExecuteSwapAuditOnly, RecordSwap, roleVars
  <2>6. CASE AdminNext(caller)
    <3>1. UNCHANGED <<balances, total_locked>>
      BY <2>6 DEF AdminNext, SetPaused, SetAgent, SetPool, TransferOwnership, fundVars
    <3>2. pool_address' = pool_address \/ pool_address' \in Addresses
      BY <2>6, VaultConstants
         DEF AdminNext, SetPaused, SetAgent, SetPool, TransferOwnership, roleVars
    <3> QED BY <1>1, <3>1, <3>2, VaultConstants
  <2> QED BY <2>1, <2>2, <2>3, <2>4, <2>5, <2>6 DEF CallBy
<1>4. CASE UNCHANGED vars
  BY <1>1, <1>4 DEF vars, vaultVars, fundVars, roleVars
<1> QED BY <1>2, <1>3, <1>4 DEF AnyNext

\* Until a pool is set the vault is a plain deposit box.
THEOREM WholeUntilPooledHolds == Spec => []WholeUntilPooled
<1>1. Init => WholeUntilPooled
  BY NoClaimsAtFirst DEF Init, VaultInit, VaultFresh, WholeUntilPooled
<1>2. VaultInv /\ VaultInv' /\ WholeUntilPooled /\ [Next]_vars => WholeUntilPooled'
  BY NextIsAny, WholeIsInductive
<1> QED BY <1>1, <1>2, VaultSafe, PTL DEF Spec, VaultInv

-----------------------------------------------------------------------------
(* The deployment. *)

\* Nobody sets the vault to another pool than the deployed one.
OnePool == PoolChoices \cap Pools \subseteq {DeployedPool}

\* What is known of the position: the books of the two contracts agree, x*y has
\* not dropped since the seed, and so the pool holds its seed at least.
PositionInv ==
    /\ pool_address # None
    /\ pool_address \in Pools => pool_address = DeployedPool
    /\ BooksAgree
    /\ SeedAmount * InitialReserve <= cspr_reserve[DeployedPool] * scspr_reserve[DeployedPool]
    /\ SeedAmount <= cspr_reserve[DeployedPool]

\* A swap that is recorded.
RecordAdded(token_in, amount_in, amount_out) ==
    /\ amount_in \in Nat /\ amount_out \in Nat
    /\ swap_count < MAX_SWAPS
    /\ swap_count' = swap_count + 1
    /\ \A i \in SwapIds \ {swap_count} : swaps'[i] = swaps[i]
    /\ swaps'[swap_count].token_in = token_in
    /\ swaps'[swap_count].amount_in = amount_in
    /\ swaps'[swap_count].amount_out = amount_out

\* The three things a step of the vault does to the position.
PositionUntouched ==
    /\ Claims' - Claims = total_locked' - total_locked
    /\ UNCHANGED <<scspr_balance, cspr_reserve, scspr_reserve, swapVars>>

PositionBought(amount_in) ==
    LET out == ForwardOut(DeployedPool, amount_in) IN
    /\ IsLiquid(DeployedPool)
    /\ amount_in # 0
    /\ UNCHANGED balances
    /\ total_locked' = total_locked - amount_in
    /\ scspr_balance' = scspr_balance + out
    /\ cspr_reserve'[DeployedPool] = cspr_reserve[DeployedPool] + amount_in
    /\ scspr_reserve'[DeployedPool] = scspr_reserve[DeployedPool] - out
    /\ RecordAdded(CSPR, amount_in, out)

PositionSold(token_in, amount_in) ==
    LET out == ReverseOut(DeployedPool, amount_in) IN
    /\ IsLiquid(DeployedPool)
    /\ token_in # CSPR
    /\ UNCHANGED balances
    /\ total_locked' = total_locked + out
    /\ scspr_balance' = scspr_balance - amount_in
    /\ cspr_reserve'[DeployedPool] = cspr_reserve[DeployedPool] - out
    /\ scspr_reserve'[DeployedPool] = scspr_reserve[DeployedPool] + amount_in
    /\ RecordAdded(token_in, amount_in, out)

\* Balances sum to a natural number.
LEMMA ClaimsType ==
    ASSUME NEW books \in [Addresses -> U512]
    PROVE  SumFunction(books) \in Nat
<1>1. IsFiniteSet(Addresses) /\ DOMAIN books = Addresses
      /\ \A a \in Addresses : books[a] \in Nat
  BY VaultAssumption, PoolConstants DEF U512
<1> QED BY <1>1, SumType DEF SumFunction

\* Every step of the vault is one of the three.
LEMMA PositionStep ==
    ASSUME OnePool, VaultInv, VaultInv', PositionInv, AnyCall
    PROVE  /\ \/ PositionUntouched
              \/ \E amount_in \in Nat : PositionBought(amount_in)
              \/ \E token_in \in Texts, amount_in \in Nat : PositionSold(token_in, amount_in)
           /\ pool_address' # None
           /\ pool_address' \in Pools => pool_address' = DeployedPool
<1>0. /\ cspr_reserve \in [Pools -> U512] /\ scspr_reserve \in [Pools -> U512]
      /\ swaps \in [SwapIds -> SwapRecord \cup {None}]
      /\ swap_count \in 0..MAX_SWAPS /\ MAX_SWAPS \in Nat
      /\ total_locked \in Int
      /\ Claims \in Int
      /\ Amounts \subseteq Nat
      /\ DeployedPool \in Pools
      /\ pool_address # None /\ (pool_address \in Pools => pool_address = DeployedPool)
  BY ClaimsType, VaultConstants, PoolConstants, DeploymentAssumption
     DEF VaultInv, TypeOK, PoolTypeOK, U512, PositionInv, Claims
<1>1. PICK caller \in Accounts : CallBy(caller)
  BY DEF AnyCall
<1>2. ASSUME NEW token_in \in Texts, NEW token_out \in Texts, NEW amount_in \in Nat,
             NEW amount_out \in Nat, swap_count < MAX_SWAPS,
             RecordSwap(caller, token_in, token_out, amount_in, amount_out)
      PROVE  /\ RecordAdded(token_in, amount_in, amount_out)
             /\ UNCHANGED <<balances, pool_address>>
  <2>1. swap_count \in SwapIds
    BY <1>0, <1>2 DEF SwapIds
  <2> QED BY <1>0, <1>2, <2>1 DEF RecordSwap, RecordAdded, roleVars
<1>3. CASE \E amount \in Amounts : Deposit(caller, amount) \/ Withdraw(caller, amount)
  <2>1. PICK amount \in Amounts : Deposit(caller, amount) \/ Withdraw(caller, amount)
    BY <1>3
  <2>2. /\ Claims' - Claims = total_locked' - total_locked
        /\ UNCHANGED <<scspr_balance, poolVars, swapVars, pool_address>>
    BY <2>1, ClaimsMoveWithCash DEF Claims
  <2>3. PositionUntouched
    BY <2>2 DEF PositionUntouched, poolVars
  <2> QED BY <1>0, <2>2, <2>3
<1>4. CASE \E text, params \in Texts : LogAction(caller, text, params)
  <2>1. UNCHANGED <<balances, total_locked, scspr_balance, cspr_reserve, scspr_reserve,
                    swapVars, pool_address>>
    BY <1>4 DEF LogAction, fundVars, poolVars, roleVars
  <2>2. PositionUntouched
    BY <1>0, <2>1 DEF PositionUntouched, Claims
  <2> QED BY <1>0, <2>1, <2>2
<1>5. CASE \E token_in, token_out \in Texts, amount_in, amount_out \in Nat :
             /\ SwapAllowed(caller, token_in, token_out, amount_in, amount_out)
             /\ pool_address \in Pools
             /\ SwapForward(caller, token_in, token_out, amount_in)
  <2>1. PICK token_in \in Texts, token_out \in Texts, amount_in \in Nat,
             amount_out \in Nat :
             /\ SwapAllowed(caller, token_in, token_out, amount_in, amount_out)
             /\ pool_address \in Pools
             /\ SwapForward(caller, token_in, token_out, amount_in)
    BY <1>5
  <2> DEFINE out == ForwardOut(DeployedPool, amount_in)
  <2>2. out \in Nat
    <3>1. cspr_reserve[DeployedPool] \in Nat \ {0} /\ scspr_reserve[DeployedPool] \in Nat
      BY <1>0, <2>1, PoolConstants DEF SwapForward, SwapCsprForScspr, IsLiquid, U512
    <3> QED BY <1>0, <3>1, AmountOutIsFloor DEF ForwardOut
  <2>3. RecordAdded(CSPR, amount_in, out) /\ UNCHANGED <<balances, pool_address>>
    BY <1>0, <1>2, <2>1, <2>2 DEF SwapForward, SwapAllowed
  <2>4. PositionBought(amount_in)
    BY <1>0, <2>1, <2>3 DEF SwapForward, SwapCsprForScspr, PositionBought
  <2> QED BY <1>0, <2>3, <2>4
<1>6. CASE \E token_in, token_out \in Texts, amount_in, amount_out \in Nat :
             /\ SwapAllowed(caller, token_in, token_out, amount_in, amount_out)
             /\ pool_address \in Pools
             /\ SwapReverse(caller, token_in, token_out, amount_in)
  <2>1. PICK token_in \in Texts, token_out \in Texts, amount_in \in Nat,
             amount_out \in Nat :
             /\ SwapAllowed(caller, token_in, token_out, amount_in, amount_out)
             /\ pool_address \in Pools
             /\ SwapReverse(caller, token_in, token_out, amount_in)
    BY <1>6
  <2> DEFINE out == ReverseOut(DeployedPool, amount_in)
  <2>2. out \in Nat
    <3>1. scspr_reserve[DeployedPool] \in Nat \ {0} /\ cspr_reserve[DeployedPool] \in Nat
      BY <1>0, <2>1, PoolConstants DEF SwapReverse, SwapScsprForCspr, IsLiquid, U512
    <3> QED BY <1>0, <3>1, AmountOutIsFloor DEF ReverseOut
  <2>3. RecordAdded(token_in, amount_in, out) /\ UNCHANGED <<balances, pool_address>>
    BY <1>0, <1>2, <2>1, <2>2 DEF SwapReverse, SwapAllowed
  <2>4. PositionSold(token_in, amount_in)
    BY <1>0, <2>1, <2>3 DEF SwapReverse, SwapScsprForCspr, PositionSold
  <2> QED BY <1>0, <2>3, <2>4
<1>7. CASE \E token_in, token_out \in Texts, amount_in, amount_out \in Nat :
             ExecuteSwapAuditOnly(caller, token_in, token_out, amount_in, amount_out)
  BY <1>0, <1>7 DEF ExecuteSwapAuditOnly
<1>8. CASE AdminNext(caller)
  <2>1. UNCHANGED <<balances, total_locked, scspr_balance, cspr_reserve, scspr_reserve,
                    swapVars>>
    BY <1>8 DEF AdminNext, SetPaused, SetAgent, SetPool, TransferOwnership, fundVars, poolVars
  <2>2. pool_address' = pool_address \/ pool_address' \in PoolChoices
    BY <1>8 DEF AdminNext, SetPaused, SetAgent, SetPool, TransferOwnership, roleVars
  <2>3. PositionUntouched
    BY <1>0, <2>1 DEF PositionUntouched, Claims
  <2> QED BY <1>0, <2>2, <2>3, VaultConstants DEF OnePool
<1> QED BY <1>1, <1>3, <1>4, <1>5, <1>6, <1>7, <1>8 DEF CallBy

\* The books and the product are inductive.
LEMMA PositionIsInductive ==
    ASSUME OnePool, VaultInv, VaultInv', PositionInv, [AnyCall]_vars
    PROVE  PositionInv'
<1> DEFINE x == cspr_reserve[DeployedPool]
           y == scspr_reserve[DeployedPool]
<1>0. /\ x \in Nat /\ y \in Nat /\ x' \in Nat /\ y' \in Nat
      /\ SeedAmount \in Nat /\ InitialReserve \in Nat
      /\ total_locked \in Nat /\ total_locked' \in Nat
      /\ scspr_balance \in Nat /\ scspr_balance' \in Nat
      /\ Claims \in Nat /\ Claims' \in Nat
  <2>1. Claims \in Nat /\ Claims' \in Nat
    BY ClaimsType DEF VaultInv, TypeOK, Claims
  <2> QED BY <2>1, PoolConstants, DeploymentAssumption DEF VaultInv, TypeOK, PoolTypeOK, U512
<1>1. /\ Claims - total_locked = x - SeedAmount
      /\ scspr_balance = InitialReserve - y
      /\ SeedAmount <= x
  BY DEF PositionInv, BooksAgree
<1> DEFINE k == SeedAmount * InitialReserve
<1>k. /\ k <= x * y
      /\ k \in Nat /\ x * y \in Nat /\ x' * y' \in Nat
  BY <1>0, TimesMonotone DEF PositionInv
<1>2. SUFFICES ASSUME AnyCall PROVE PositionInv'
  <2>1. CASE UNCHANGED vars
    <3>1. /\ UNCHANGED <<pool_address, cspr_reserve, scspr_reserve>>
          /\ UNCHANGED <<total_locked, scspr_balance>>
          /\ Claims' = Claims
      BY <2>1 DEF vars, vaultVars, fundVars, roleVars, poolVars, Claims
    <3> QED BY <3>1 DEF PositionInv, BooksAgree
  <2> QED BY <2>1
<1>3. /\ \/ PositionUntouched
         \/ \E amount_in \in Nat : PositionBought(amount_in)
         \/ \E token_in \in Texts, amount_in \in Nat : PositionSold(token_in, amount_in)
      /\ pool_address' # None
      /\ pool_address' \in Pools => pool_address' = DeployedPool
  BY <1>2, PositionStep
<1>4. CASE PositionUntouched
  <2>1. x' = x /\ y' = y /\ scspr_balance' = scspr_balance
        /\ Claims' - Claims = total_locked' - total_locked
    BY <1>4 DEF PositionUntouched
  <2>2. Claims' - total_locked' = x' - SeedAmount
    <3>1. Claims' = Claims + (total_locked' - total_locked)
      BY <1>0, <2>1
    <3> QED BY <1>0, <1>1, <2>1, <3>1
  <2> QED BY <1>1, <1>k, <1>3, <2>1, <2>2 DEF PositionInv, BooksAgree
<1>5. CASE \E amount_in \in Nat : PositionBought(amount_in)
  <2>1. PICK amount_in \in Nat : PositionBought(amount_in)
    BY <1>5
  <2> DEFINE out == AmountOut(amount_in, x, y)
  <2>2. /\ x # 0 /\ y # 0
        /\ Claims' = Claims
        /\ total_locked' = total_locked - amount_in
        /\ scspr_balance' = scspr_balance + out
        /\ x' = x + amount_in
        /\ y' = y - out
    BY <2>1 DEF PositionBought, IsLiquid, ForwardOut, Claims
  <2>3. out \in Nat /\ x * y <= (x + amount_in) * (y - out)
    <3>1. x \in Nat \ {0} /\ y \in Nat \ {0}
      BY <1>0, <2>2
    <3> HIDE DEF x, y
    <3> QED BY <3>1, AmountOutBelowReserve, ProductGrows
  <2> HIDE DEF out, x, y
  <2>4. /\ Claims' - total_locked' = x' - SeedAmount
        /\ scspr_balance' = InitialReserve - y'
        /\ SeedAmount <= x'
    BY <1>0, <1>1, <2>2, <2>3
  <2>5. x * y <= x' * y'
    BY <2>2, <2>3
  <2>6. k <= x' * y'
    <3> HIDE DEF k
    <3> QED BY <1>k, <2>5
  <2> QED BY <1>3, <2>4, <2>6 DEF PositionInv, BooksAgree, x, y
<1>6. CASE \E token_in \in Texts, amount_in \in Nat : PositionSold(token_in, amount_in)
  <2>1. PICK token_in \in Texts, amount_in \in Nat : PositionSold(token_in, amount_in)
    BY <1>6
  <2> DEFINE out == AmountOut(amount_in, y, x)
  <2>2. /\ x # 0 /\ y # 0
        /\ Claims' = Claims
        /\ total_locked' = total_locked + out
        /\ scspr_balance' = scspr_balance - amount_in
        /\ x' = x - out
        /\ y' = y + amount_in
    BY <2>1 DEF PositionSold, IsLiquid, ReverseOut, Claims
  <2>3. out \in Nat /\ y * x <= (y + amount_in) * (x - out)
    <3>1. x \in Nat \ {0} /\ y \in Nat \ {0}
      BY <1>0, <2>2
    <3> HIDE DEF x, y
    <3> QED BY <3>1, AmountOutBelowReserve, ProductGrows
  <2> HIDE DEF out, x, y
  <2>4. /\ Claims' - total_locked' = x' - SeedAmount
        /\ scspr_balance' = InitialReserve - y'
    BY <1>0, <1>1, <2>2, <2>3
  <2>5. x * y <= x' * y'
    BY <1>0, <2>2, <2>3
  <2>6. k <= x' * y'
    <3> HIDE DEF k
    <3> QED BY <1>k, <2>5
  <2>7. SeedAmount <= x'
    <3>1. InitialReserve \in Nat \ {0} /\ y' <= InitialReserve
      BY <1>0, <1>1, <2>2, <2>4
    <3>2. y' # 0
      BY <1>0, <2>2
    <3> HIDE DEF x, y
    <3> QED BY <1>0, <2>6, <3>1, <3>2, ProductBoundsFactor DEF k
  <2> QED BY <1>3, <2>4, <2>6, <2>7 DEF PositionInv, BooksAgree, x, y
<1> QED BY <1>3, <1>4, <1>5, <1>6

\* A deployment starts in the invariant of the vault.
LEMMA DeployedGivesInv ==
    ASSUME DeployedInit
    PROVE  VaultInv /\ PositionInv /\ TrailInv
<1>0. /\ DeployedPool \in Pools /\ DeployedPool \in Addresses /\ DeployedPool \notin Accounts
      /\ Vault \in Addresses /\ Vault \notin Accounts /\ Vault # DeployedPool
      /\ None \notin Addresses
      /\ Accounts \subseteq Addresses /\ Pools \subseteq Addresses
      /\ \A p \in Pools : p \notin Accounts
      /\ 0 \in U512 /\ InitialReserve \in U512 /\ SeedAmount \in U512 /\ U512 \subseteq Nat
      /\ 0 \in 0..MAX_ACTIONS /\ 0 \in 0..MAX_SWAPS
  BY PoolConstants, VaultAssumption, DeploymentAssumption DEF U512
<1>1. /\ purse \in [Addresses -> Nat]
      /\ purse[Vault] = 0
      /\ purse[DeployedPool] = SeedAmount
      /\ \A p \in Pools : p # DeployedPool => purse[p] = 0
  BY <1>0, PoolConstants DEF DeployedInit
<1>2. PoolTypeOK
  BY <1>0, <1>1 DEF DeployedInit, PoolTypeOK
<1>3. ReserveBacked
  BY <1>0, <1>1 DEF DeployedInit, ReserveBacked
<1>4. TypeOK
  BY <1>0, <1>2 DEF DeployedInit, VaultFresh, TypeOK
<1>5. VaultSolvent
  BY <1>1 DEF DeployedInit, VaultFresh, VaultSolvent
<1>6. PositionInv
  <2>1. Claims = 0 /\ total_locked = 0 /\ scspr_balance = 0
    BY NoClaimsAtFirst DEF DeployedInit, VaultFresh, Claims
  <2>2. cspr_reserve[DeployedPool] = SeedAmount /\ scspr_reserve[DeployedPool] = InitialReserve
    BY <1>0 DEF DeployedInit
  <2>3. SeedAmount * InitialReserve \in Nat
    BY <1>0
  <2> QED BY <1>0, <2>1, <2>2, <2>3 DEF PositionInv, BooksAgree, DeployedInit
<1>7. TrailInv
  BY VaultConstants DEF DeployedInit, VaultFresh, TrailInv, ActionIds, SwapIds
<1> QED BY <1>3, <1>4, <1>5, <1>6, <1>7 DEF VaultInv

\* Alone the vault does nothing it does not do among strangers.
LEMMA CallIsNext == [AnyCall]_vars => [AnyNext]_vars
  BY DEF AnyNext

LEMMA VaultNextIsCall == [VaultNext]_vars => [AnyCall]_vars
  BY VaultStepCases

\* Everything the vault is known for holds of a deployment nobody else trades
\* with, and so does the invariant of its position.
THEOREM DeploymentSafe ==
    ASSUME OnePool
    PROVE  PrivateSpec => [](VaultInv /\ TrailInv /\ PositionInv)
<1>1. DeployedInit => VaultInv /\ PositionInv /\ TrailInv
  BY DeployedGivesInv
<1>2. VaultInv /\ [VaultNext]_vars => VaultInv'
  BY VaultNextIsCall, CallIsNext, NextKeepsInv, StutterKeepsInv
<1>3. VaultInv /\ TrailInv /\ [VaultNext]_vars => TrailInv'
  BY VaultNextIsCall, CallIsNext, TrailInvIsInductive
<1>4. VaultInv /\ VaultInv' /\ PositionInv /\ [VaultNext]_vars => PositionInv'
  BY VaultNextIsCall, PositionIsInductive
<1> QED BY <1>1, <1>2, <1>3, <1>4, PTL DEF PrivateSpec

\* The two contracts' books describe the same position.
THEOREM BooksAgreeHold ==
    ASSUME OnePool
    PROVE  PrivateSpec => []BooksAgree
<1>1. PositionInv => BooksAgree
  BY DEF PositionInv
<1> QED BY <1>1, DeploymentSafe, PTL

\* Without other traders no cash beyond the claims: the pool holds its seed at
\* least, and what it holds beyond it is what the vault misses.
LEMMA BooksForbidYield ==
    ASSUME VaultInv, PositionInv
    PROVE  NoYieldFromOwnTrades
<1>1. /\ cspr_reserve[DeployedPool] \in Nat /\ SeedAmount \in Nat /\ total_locked \in Nat
      /\ Claims \in Nat
  BY ClaimsType, PoolConstants, DeploymentAssumption
     DEF VaultInv, TypeOK, PoolTypeOK, U512, Claims
<1> QED BY <1>1 DEF PositionInv, BooksAgree, NoYieldFromOwnTrades

\* The vault's own trades yield nothing.
THEOREM NoYieldFromOwnTradesHolds ==
    ASSUME OnePool
    PROVE  PrivateSpec => []NoYieldFromOwnTrades
  BY BooksForbidYield, DeploymentSafe, PTL

-----------------------------------------------------------------------------
\* The swaps on record by direction, and what they bought and sold.
BoughtIds == {i \in 0..(swap_count - 1) : swaps[i].token_in = CSPR}
SoldIds == (0..(swap_count - 1)) \ BoughtIds
AmountsBought == [i \in BoughtIds |-> swaps[i].amount_out]
AmountsSold == [i \in SoldIds |-> swaps[i].amount_in]

\* The property, in the sums the lemmas above are about.
LEMMA TrailAsSums ==
    SwapTrailExplainsPosition <=>
      scspr_balance = SumFunctionOnSet(AmountsBought, BoughtIds)
                        - SumFunctionOnSet(AmountsSold, SoldIds)
<1>1. MapThenSumSet(LAMBDA i : swaps[i].amount_out, BoughtIds)
        = SumFunctionOnSet(AmountsBought, BoughtIds)
  BY DEF MapThenSumSet, MapThenFoldSet, SumFunctionOnSet, FoldFunctionOnSet, AmountsBought
<1>2. MapThenSumSet(LAMBDA i : swaps[i].amount_in, SoldIds)
        = SumFunctionOnSet(AmountsSold, SoldIds)
  BY DEF MapThenSumSet, MapThenFoldSet, SumFunctionOnSet, FoldFunctionOnSet, AmountsSold
<1> QED BY <1>1, <1>2 DEF SwapTrailExplainsPosition, BoughtIds, SoldIds

\* The same of the next state.
LEMMA TrailAsSumsAfter ==
    SwapTrailExplainsPosition' <=>
      scspr_balance' = SumFunctionOnSet(AmountsBought', BoughtIds')
                        - SumFunctionOnSet(AmountsSold', SoldIds')
<1>1. (SwapTrailExplainsPosition <=>
        scspr_balance = SumFunctionOnSet(AmountsBought, BoughtIds)
                          - SumFunctionOnSet(AmountsSold, SoldIds))'
  BY TrailAsSums, PTL
<1> QED BY <1>1

\* The explanation is inductive: a swap adds its record to one of the two sums.
LEMMA ExplanationIsInductive ==
    ASSUME OnePool, VaultInv, VaultInv', TrailInv, PositionInv,
           SwapTrailExplainsPosition, [AnyCall]_vars
    PROVE  SwapTrailExplainsPosition'
<1> DEFINE n == swap_count
           B == SumFunctionOnSet(AmountsBought, BoughtIds)
           S == SumFunctionOnSet(AmountsSold, SoldIds)
<1>1. /\ n \in 0..MAX_SWAPS /\ MAX_SWAPS \in Nat
      /\ \A i \in 0..(n - 1) : i \in SwapIds /\ swaps[i] \in SwapRecord
      /\ scspr_balance \in Int
  BY VaultConstants, PoolConstants DEF VaultInv, TypeOK, TrailInv, SwapIds, U512
<1>2. /\ IsFiniteSet(BoughtIds) /\ IsFiniteSet(SoldIds)
      /\ n \notin BoughtIds /\ n \notin SoldIds
      /\ \A i \in BoughtIds : AmountsBought[i] = swaps[i].amount_out /\ AmountsBought[i] \in Int
      /\ \A i \in SoldIds : AmountsSold[i] = swaps[i].amount_in /\ AmountsSold[i] \in Int
  <2>1. IsFiniteSet(0..(n - 1)) /\ n \notin 0..(n - 1)
    BY <1>1, FS_Interval
  <2>2. BoughtIds \subseteq 0..(n - 1) /\ SoldIds \subseteq 0..(n - 1)
    BY DEF BoughtIds, SoldIds
  <2>3. IsFiniteSet(BoughtIds) /\ IsFiniteSet(SoldIds)
    BY <2>1, <2>2, FS_Subset
  <2>4. /\ \A i \in BoughtIds : AmountsBought[i] = swaps[i].amount_out
        /\ \A i \in SoldIds : AmountsSold[i] = swaps[i].amount_in
    BY DEF AmountsBought, AmountsSold
  <2>5. \A i \in 0..(n - 1) : swaps[i].amount_out \in Int /\ swaps[i].amount_in \in Int
    BY <1>1 DEF SwapRecord
  <2> QED BY <2>1, <2>2, <2>3, <2>4, <2>5
<1>3. B \in Int /\ S \in Int /\ scspr_balance = B - S
  BY <1>2, SumType, TrailAsSums
<1> HIDE DEF B, S
<1>4. CASE UNCHANGED <<scspr_balance, swapVars>>
  <2>1. UNCHANGED <<BoughtIds, SoldIds, AmountsBought, AmountsSold>>
    BY <1>4 DEF BoughtIds, SoldIds, AmountsBought, AmountsSold, swapVars
  <2> QED BY <1>3, <1>4, <2>1, TrailAsSumsAfter DEF B, S
<1>5. ASSUME NEW token_in, NEW amount_in, NEW amount_out,
             RecordAdded(token_in, amount_in, amount_out)
      PROVE  /\ token_in = CSPR => BoughtIds' = BoughtIds \cup {n} /\ SoldIds' = SoldIds
             /\ token_in # CSPR => BoughtIds' = BoughtIds /\ SoldIds' = SoldIds \cup {n}
             /\ \A i \in 0..(n - 1) : swaps'[i] = swaps[i]
  <2>1. /\ 0..(n' - 1) = (0..(n - 1)) \cup {n}
        /\ \A i \in 0..(n - 1) : i \in SwapIds \ {n} /\ swaps'[i] = swaps[i]
        /\ swaps'[n].token_in = token_in
        /\ n \notin 0..(n - 1)
    BY <1>1, <1>5 DEF RecordAdded
  <2> QED BY <2>1 DEF BoughtIds, SoldIds
<1>6. BoughtIds \subseteq 0..(n - 1) /\ SoldIds \subseteq 0..(n - 1)
  BY DEF BoughtIds, SoldIds
<1>7. CASE \E amount_in \in Nat : PositionBought(amount_in)
  <2>1. PICK amount_in \in Nat : PositionBought(amount_in)
    BY <1>7
  <2> DEFINE out == ForwardOut(DeployedPool, amount_in)
  <2>2. scspr_balance' = scspr_balance + out /\ RecordAdded(CSPR, amount_in, out)
    BY <2>1 DEF PositionBought
  <2> HIDE DEF out
  <2>3. /\ BoughtIds' = BoughtIds \cup {n} /\ SoldIds' = SoldIds
        /\ \A i \in 0..(n - 1) : swaps'[i] = swaps[i]
        /\ swaps'[n].amount_out = out /\ out \in Int
    BY <1>5, <2>2 DEF RecordAdded
  <2>4. /\ \A i \in BoughtIds : AmountsBought'[i] = AmountsBought[i]
        /\ AmountsBought'[n] = out
    BY <1>2, <1>6, <2>3 DEF AmountsBought
  <2>5. AmountsSold' = AmountsSold
    BY <1>6, <2>3 DEF AmountsSold
  <2>6. SumFunctionOnSet(AmountsBought', BoughtIds') = B + out
    BY <1>2, <2>3, <2>4, SumGains DEF B
  <2>7. SumFunctionOnSet(AmountsSold', SoldIds') = S
    BY <2>3, <2>5 DEF S
  <2>8. scspr_balance' = (B + out) - S
    BY <1>1, <1>3, <2>2, <2>3
  <2> QED BY <2>6, <2>7, <2>8, TrailAsSumsAfter
<1>8. CASE \E token_in \in Texts, amount_in \in Nat : PositionSold(token_in, amount_in)
  <2>1. PICK token_in \in Texts, amount_in \in Nat : PositionSold(token_in, amount_in)
    BY <1>8
  <2> DEFINE out == ReverseOut(DeployedPool, amount_in)
  <2>2. /\ scspr_balance' = scspr_balance - amount_in
        /\ RecordAdded(token_in, amount_in, out) /\ token_in # CSPR
    BY <2>1 DEF PositionSold
  <2> HIDE DEF out
  <2>3. /\ BoughtIds' = BoughtIds /\ SoldIds' = SoldIds \cup {n}
        /\ \A i \in 0..(n - 1) : swaps'[i] = swaps[i]
        /\ swaps'[n].amount_in = amount_in /\ amount_in \in Int
    BY <1>5, <2>2 DEF RecordAdded
  <2>4. /\ \A i \in SoldIds : AmountsSold'[i] = AmountsSold[i]
        /\ AmountsSold'[n] = amount_in
    BY <1>2, <1>6, <2>3 DEF AmountsSold
  <2>5. AmountsBought' = AmountsBought
    BY <1>6, <2>3 DEF AmountsBought
  <2>6. SumFunctionOnSet(AmountsSold', SoldIds') = S + amount_in
    BY <1>2, <2>3, <2>4, SumGains DEF S
  <2>7. SumFunctionOnSet(AmountsBought', BoughtIds') = B
    BY <2>3, <2>5 DEF B
  <2>8. scspr_balance' = B - (S + amount_in)
    BY <1>1, <1>3, <2>2, <2>3
  <2> QED BY <2>6, <2>7, <2>8, TrailAsSumsAfter
<1>9. CASE PositionUntouched
  BY <1>4, <1>9 DEF PositionUntouched
<1>10. CASE UNCHANGED vars
  BY <1>4, <1>10 DEF vars, vaultVars, fundVars
<1> QED BY <1>7, <1>8, <1>9, <1>10, PositionStep

\* Without a record there is no position.
LEMMA ExplainedAtFirst ==
    ASSUME DeployedInit
    PROVE  SwapTrailExplainsPosition
<1>1. swap_count = 0 /\ scspr_balance = 0
  BY DEF DeployedInit, VaultFresh
<1>2. BoughtIds = {} /\ SoldIds = {}
  BY <1>1 DEF BoughtIds, SoldIds
<1>3. IsFiniteSet({})
  BY FS_EmptySet
<1>4. /\ SumFunctionOnSet(AmountsBought, BoughtIds) = 0
      /\ SumFunctionOnSet(AmountsSold, SoldIds) = 0
  BY <1>2, <1>3, SumStep
<1> QED BY <1>1, <1>4, TrailAsSums

\* The record of every swap adds up to the position.
THEOREM SwapTrailExplainsPositionHolds ==
    ASSUME OnePool
    PROVE  PrivateSpec => []SwapTrailExplainsPosition
<1>1. DeployedInit => SwapTrailExplainsPosition
  BY ExplainedAtFirst
<1>2. /\ VaultInv /\ VaultInv' /\ TrailInv /\ PositionInv
      /\ SwapTrailExplainsPosition /\ [VaultNext]_vars
      => SwapTrailExplainsPosition'
  BY VaultNextIsCall, ExplanationIsInductive
<1> QED BY <1>1, <1>2, DeploymentSafe, PTL DEF PrivateSpec

\* What a swap of CSPR records, at the reserves it found, is within the quote.
LEMMA RecordWithinQuote ==
    ASSUME OnePool, VaultInv, VaultInv', PositionInv, AnyCall,
           swap_count' > swap_count, swaps'[swap_count].token_in = CSPR
    PROVE  swaps'[swap_count].amount_out <=
             AmmQuote(swaps'[swap_count].amount_in,
                      cspr_reserve[DeployedPool], scspr_reserve[DeployedPool])
<1>1. swap_count \in Int
  BY VaultConstants DEF VaultInv, TypeOK
<1>2. ~ PositionUntouched
  BY <1>1 DEF PositionUntouched, swapVars
<1>3. \A token_in \in Texts, amount_in \in Nat : ~ PositionSold(token_in, amount_in)
  BY DEF PositionSold, RecordAdded
<1>4. PICK amount_in \in Nat : PositionBought(amount_in)
  BY <1>2, <1>3, PositionStep
<1>5. /\ swaps'[swap_count].amount_in = amount_in
      /\ swaps'[swap_count].amount_out =
           AmountOut(amount_in, cspr_reserve[DeployedPool], scspr_reserve[DeployedPool])
      /\ amount_in # 0
      /\ cspr_reserve[DeployedPool] # 0 /\ scspr_reserve[DeployedPool] # 0
  BY <1>4 DEF PositionBought, RecordAdded, ForwardOut, IsLiquid
<1>6. cspr_reserve[DeployedPool] \in Nat /\ scspr_reserve[DeployedPool] \in Nat
  BY PoolConstants, DeploymentAssumption DEF VaultInv, TypeOK, PoolTypeOK, U512
<1> QED BY <1>5, <1>6, QuoteBoundsSettlement

\* No record of a forward swap beats the agent's own quote.
THEOREM RecordNeverBeatsQuoteHolds ==
    ASSUME OnePool
    PROVE  PrivateSpec => RecordNeverBeatsQuote
<1>1. VaultInv /\ VaultInv' /\ PositionInv /\ [VaultNext]_vars =>
        [(swap_count' > swap_count /\ swaps'[swap_count].token_in = CSPR) =>
           swaps'[swap_count].amount_out <=
             AmmQuote(swaps'[swap_count].amount_in,
                      cspr_reserve[DeployedPool], scspr_reserve[DeployedPool])]_vars
  BY VaultNextIsCall, RecordWithinQuote
<1> QED BY <1>1, DeploymentSafe, PTL DEF PrivateSpec, RecordNeverBeatsQuote

=============================================================================
