---------------------------- MODULE LedgerProofs ----------------------------
(***************************************************************************)
(* What the inductive invariant of LedgerInvariant gives: theorems about   *)
(* the ledger for every set of requests, calls and faults, every opening   *)
(* database, every width of the integers and every size of the pool.       *)
(***************************************************************************)
EXTENDS LedgerInvariant, WellFoundedInduction

\* The invariant holds in every reachable state.
THEOREM Invariance == Spec => []IInv
<1>1. Init => IInv
  BY InitIInv
<1>2. IInv /\ [Next]_vars => IInv'
  BY NextIInv
<1>. QED
  BY <1>1, <1>2, PTL DEF Spec

\* Type correctness: rows, cache and handlers keep their shape, balances stay
\* within BIGINT and versions within INTEGER, because update_account_balance
\* fails when a column would overflow and the cache saturates.
THEOREM TypeCorrectness == Spec => []TypeOK
<1>1. IInv => TypeOK
  BY DEF IInv
<1>. QED
  BY <1>1, Invariance, PTL

\* The version guard of update_account_balance never fires: the row locks alone
\* keep two handlers apart, whatever the requests, crashes and cancellations.
THEOREM VersionGuardNeverFires == Spec => []NoVersionConflict
<1>1. IInv => NoVersionConflict
  BY DEF IInv
<1>. QED
  BY <1>1, Invariance, PTL

\* Idempotency: one key is one transaction, and an authorize that is answered Ok
\* names the transaction of its own key.
THEOREM KeysAreUnique == Spec => []OneTransactionPerKey
<1>1. IInv => OneTransactionPerKey
  BY DEF IInv
<1>. QED
  BY <1>1, Invariance, PTL

-----------------------------------------------------------------------------
(* No deadlock. *)

\* A bounded, nonempty set of natural numbers has a largest element.
LEMMA LargestElement ==
  ASSUME NEW W \in SUBSET Nat, W # {}, NEW N \in Nat, \A a \in W : a < N
  PROVE  \E a \in W : \A b \in W : ~(a < b)
<1>. DEFINE T == {N - a : a \in W}
<1>1. T \subseteq Nat /\ T # {}
  <2>1. \A a \in W : N - a \in Nat
    OBVIOUS
  <2>2. PICK a \in W : TRUE
    BY Zenon
  <2>3. N - a \in T
    BY <2>2, Zenon
  <2>. QED
    BY <2>1, <2>3, Zenon
<1>2. PICK x \in T : \A y \in T : ~(<<y, x>> \in OpToRel(<, Nat))
  <2>. HIDE DEF T
  <2>. QED
    BY <1>1, NatLessThanWellFounded, WFMin, Zenon
<1>3. \A y \in T : ~(y < x)
  BY <1>1, <1>2, Zenon DEF OpToRel
<1>4. PICK a \in W : x = N - a
  OBVIOUS
<1>5. ASSUME NEW b \in W, a < b
      PROVE  FALSE
  <2>1. N - b \in T
    BY Zenon
  <2>2. N - b < N - a
    <3>. HIDE DEF T
    <3>. QED
      BY <1>5
  <2>. QED
    BY <1>3, <1>4, <2>1, <2>2, Zenon
<1>. QED
  BY <1>4, <1>5

\* Handlers past the lock loop, past the INSERT or at any other statement wait
\* for nobody.
LEMMA OnlyThreePlacesWait ==
  ASSUME NEW h, NEW g, WaitsFor(h, g)
  PROVE  pc[h] \in {"lock", "create", "begin"}
BY DEF WaitsFor

\* README, "sorted lock acquisition to prevent deadlocks": in every state
\* of the invariant some member of every group of handlers waits for none of the
\* group.  The accounts that lock loops wait for only grow along a chain of
\* waits, since every lock a handler holds is on a smaller id than the one it
\* wants, and they are bounded by the id sequence; the wait for a unique key ends
\* at a handler that waits for nothing, and who waits for a connection holds
\* nothing.
LEMMA WaitsAreAcyclic == IInv => NoCircularWait
<1>. SUFFICES ASSUME IInv, NEW S \in SUBSET Requests, S # {},
                     \A h \in S : \E g \in S : WaitsFor(h, g)
              PROVE  FALSE
  BY Zenon DEF NoCircularWait
<1>. USE DEF IInv
<1>1. \A h \in S : pc[h] \in {"lock", "create", "begin"}
  BY OnlyThreePlacesWait
<1>2. \A h \in S : pc[h] # "create"
  BY <1>1 DEF WaitsFor, Inserted
<1>3. \A h \in S : pc[h] = "lock" =>
        \E g \in S : g # h /\ \E a \in Touched(h) : NextToLock(h, a) /\ a \in DOMAIN seen[g]
  BY DEF WaitsFor
<1>4. \A g \in S : DOMAIN seen[g] # {} => pc[g] = "lock"
  BY <1>1, <1>2 DEF LockDiscipline
<1>5. \E h \in S : pc[h] = "lock"
  <2>1. PICK h \in S : TRUE
    OBVIOUS
  <2>2. CASE pc[h] = "begin"
    <3>1. PICK g \in S : pc[g] \in Connected
      BY <2>2 DEF WaitsFor
    <3>. QED
      BY <1>1, <1>2, <3>1 DEF Connected
  <2>. QED
    BY <1>1, <1>2, <2>1, <2>2
<1>. DEFINE Wanted == {a \in AccountIds : \E h, g \in S : /\ pc[h] = "lock" /\ NextToLock(h, a)
                                                          /\ a \in DOMAIN seen[g]}
<1>6. ASSUME NEW h \in S, pc[h] = "lock"
      PROVE  \E a \in Wanted : NextToLock(h, a)
  <2>1. PICK g \in S, a \in Touched(h) : NextToLock(h, a) /\ a \in DOMAIN seen[g]
    BY <1>3, <1>6
  <2>2. a \in AccountIds
    BY TouchedType
  <2>. QED
    BY <1>6, <2>1, <2>2
<1>7. Wanted # {}
  <2>. HIDE DEF Wanted
  <2>. QED
    BY <1>5, <1>6, Zenon
<1>8. \A a \in Wanted : a < nextAccountId
  BY DEF TypeOK, UncommittedRows
<1>9. \A a \in Wanted : \E b \in Wanted : a < b
  <2>. SUFFICES ASSUME NEW a \in Wanted PROVE \E b \in Wanted : a < b
    OBVIOUS
  <2>1. PICK g \in S : a \in DOMAIN seen[g]
    OBVIOUS
  <2>2. pc[g] = "lock"
    BY <1>4, <2>1
  <2>3. PICK b \in Wanted : NextToLock(g, b)
    BY <1>6, <2>2
  <2>4. b \in Touched(g) \ DOMAIN seen[g]
    BY <2>3 DEF NextToLock
  <2>. QED
    BY <2>1, <2>2, <2>4 DEF LocksAscend
<1>10. Wanted \in SUBSET Nat /\ nextAccountId \in Nat
  BY DEF TypeOK, AccountIds
<1>. HIDE DEF Wanted
<1>. QED
  BY <1>7, <1>8, <1>9, <1>10, LargestElement, Zenon

\* No deadlock, ever: row locks, the unique index and the pool together.
THEOREM NoDeadlock == Spec => []NoCircularWait
<1>1. IInv => NoCircularWait
  BY WaitsAreAcyclic
<1>. QED
  BY <1>1, Invariance, PTL
=============================================================================
