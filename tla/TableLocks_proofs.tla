------------------------- MODULE TableLocks_proofs -------------------------
(***************************************************************************)
(* Proofs about TableLocks, for any set of handles, any number of tables   *)
(* and any catalogs: type correctness, mutual exclusion, that a statement  *)
(* runs with all its locks, and absence of deadlock.                        *)
(***************************************************************************)
EXTENDS TableLocks, WellFoundedInduction, TLAPS

\* Strcmp order: a handle holds no lock that comes after one it waits for.
LockOrder == \A h \in Handle : \A t \in held[h], u \in todo[h] : t < u

\* What the loop of catalog_lock_tables keeps true of its array.
Accounted ==
    \A h \in Handle :
        /\ held[h] \subseteq Entries[h]
        /\ phase[h] = "locking" => held[h] \cup todo[h] = want[h]
        /\ phase[h] = "locked" => held[h] = want[h]
        /\ phase[h] # "locking" => todo[h] = {}

LocksInv == TypeOK /\ Exclusion /\ LockOrder /\ Accounted

\* The step facts every case of the invariance proof starts from.
LEMMA InitLocksInv == Init => LocksInv
BY LocksAssumption DEF Init, LocksInv, TypeOK, Exclusion, LockOrder, Accounted, Phase, Mode, Table

LEMMA NextLocksInv == LocksInv /\ [Next]_vars => LocksInv'
<1> SUFFICES ASSUME LocksInv, [Next]_vars PROVE LocksInv'
    OBVIOUS
<1> USE LocksAssumption DEF LocksInv, TypeOK, Exclusion, LockOrder, Accounted, Phase, Mode, Table
<1>1. ASSUME NEW h \in Handle, NEW names \in SUBSET Table, NEW m \in Mode,
             BeginLocking(h, names, m)
      PROVE  LocksInv'
    BY <1>1 DEF BeginLocking
<1>2. ASSUME NEW h \in Handle, NEW t \in Table, Acquire(h, t)
      PROVE  LocksInv'
    BY <1>2 DEF Acquire, IsFirst, Grantable
<1>3. ASSUME NEW h \in Handle, NEW t \in Table, GiveUp(h, t)
      PROVE  LocksInv'
    BY <1>3 DEF GiveUp
<1>4. ASSUME NEW h \in Handle, NEW t \in Table, Release(h, t)
      PROVE  LocksInv'
    BY <1>4 DEF Release
<1>5. ASSUME NEW h \in Handle, AllLocked(h)
      PROVE  LocksInv'
    <2>1. held[h] = want[h]
        BY <1>5 DEF AllLocked
    <2>2. TypeOK' /\ Exclusion' /\ LockOrder'
        BY <1>5 DEF AllLocked
    <2>3. Accounted'
        BY <1>5, <2>1 DEF AllLocked
    <2>4. QED
        BY <2>2, <2>3
<1>6. ASSUME NEW h \in Handle, Finish(h)
      PROVE  LocksInv'
    BY <1>6 DEF Finish
<1>7. ASSUME NEW h \in Handle, AllReleased(h)
      PROVE  LocksInv'
    BY <1>7 DEF AllReleased
<1>8. ASSUME NEW h \in Handle, Crash(h)
      PROVE  LocksInv'
    BY <1>8 DEF Crash
<1>9. ASSUME NEW h \in Handle, Restart(h)
      PROVE  LocksInv'
    BY <1>9 DEF Restart
<1>10. CASE UNCHANGED vars
    BY <1>10 DEF vars
<1>11. QED
    BY <1>1, <1>2, <1>3, <1>4, <1>5, <1>6, <1>7, <1>8, <1>9, <1>10
    DEF Next, Begin, Progress, Fault, NoSuchTable, LockError

\* The invariant the others follow from.
THEOREM LocksInvariant == Spec => []LocksInv
<1>1. Init => LocksInv
    BY InitLocksInv
<1>2. LocksInv /\ [Next]_vars => LocksInv'
    BY NextLocksInv
<1>3. QED
    BY <1>1, <1>2, PTL DEF Spec

\* Every variable keeps its type, and a statement holds only what it asked for.
THEOREM TypeCorrect == Spec => []TypeOK
<1>1. LocksInv => TypeOK
    BY DEF LocksInv
<1>2. QED
    BY <1>1, LocksInvariant, PTL

\* Mutual exclusion of flock()-protected tables, for any number of handles.
THEOREM MutualExclusion == Spec => []Exclusion
<1>1. LocksInv => Exclusion
    BY DEF LocksInv
<1>2. QED
    BY <1>1, LocksInvariant, PTL

\* A statement that runs holds every table it asked for, all of them known.
THEOREM RunsLocked == Spec => []LockedAll
<1>1. LocksInv => LockedAll
    BY DEF LocksInv, Accounted, LockedAll
<1>2. QED
    BY <1>1, LocksInvariant, PTL
----------------------------------------------------------------------------
\* A nonempty set of natural numbers has a least element.
LEMMA LeastElement ==
    ASSUME NEW S \in SUBSET Nat, S # {}
    PROVE  \E x \in S : \A y \in S : x <= y
<1>1. PICK x \in S : \A y \in S : ~ (<<y, x>> \in OpToRel(<, Nat))
    BY NatLessThanWellFounded, WFMin
<1>2. \A y \in S : ~ (y < x)
    BY <1>1 DEF OpToRel
<1>3. QED
    BY <1>2

\* A nonempty set of table ranks has a greatest element: the least of its
\* upper bounds is a member of it.
LEMMA GreatestTable ==
    ASSUME NEW S \in SUBSET Table, S # {}
    PROVE  \E x \in S : \A y \in S : y <= x
<1> DEFINE Bounds == {k \in Nat : \A y \in S : y <= k}
<1>1. NumTables \in Bounds
    BY LocksAssumption DEF Table
<1>2. PICK b \in Bounds : \A k \in Bounds : b <= k
    <2> HIDE DEF Bounds
    <2>1. Bounds \in SUBSET Nat
        BY DEF Bounds
    <2>2. QED
        BY <1>1, <2>1, LeastElement
<1>3. b \in S
    <2>1. SUFFICES ASSUME b \notin S PROVE FALSE
        OBVIOUS
    <2>2. \A y \in S : y \in Int /\ y >= 1 /\ y <= b - 1
        BY <1>2, <2>1, LocksAssumption DEF Table
    <2>3. b - 1 \in Bounds
        BY <1>2, <2>2
    <2>4. QED
        BY <1>2, <2>3
<1>4. QED
    BY <1>2, <1>3

\* No deadlock.  Were every running statement blocked, each would wait for a
\* table held by another blocked one; the latter waits for a later table than
\* any it holds, so the one waiting for the greatest table waits for a greater.
LEMMA LocksInvNoDeadlock == LocksInv => NoDeadlock
<1> SUFFICES ASSUME LocksInv,
                    NEW r \in Handle, Running(r),
                    \A h \in Handle : Running(h) => ~ CanMove(h)
             PROVE  FALSE
    BY DEF NoDeadlock
<1> DEFINE WaitsFor(h, t) == /\ phase[h] = "locking"
                             /\ IsFirst(t, todo[h])
                             /\ ~ Grantable(h, t)
           Awaited == {t \in Table : \E h \in Handle : WaitsFor(h, t)}
<1>1. \A h \in Handle : Running(h) => \E t \in Table : WaitsFor(h, t)
    BY DEF Running, CanMove
<1>2. Awaited # {}
    BY <1>1
<1>3. PICK t \in Awaited : \A u \in Awaited : u <= t
    <2> HIDE DEF Awaited
    <2>1. Awaited \in SUBSET Table
        BY DEF Awaited
    <2>2. QED
        BY <1>2, <2>1, GreatestTable
<1>4. PICK h \in Handle : WaitsFor(h, t)
    OBVIOUS
<1>5. PICK g \in Handle : t \in held[g]
    BY <1>4 DEF Grantable
<1>6. Running(g)
    BY <1>5 DEF LocksInv, TypeOK, Phase, Running
<1>7. PICK u \in Table : WaitsFor(g, u)
    BY <1>1, <1>6
<1>8. u \in todo[g]
    BY <1>7 DEF IsFirst
<1>9. t < u
    BY <1>5, <1>8 DEF LocksInv, LockOrder
<1>10. u <= t
    BY <1>3, <1>7
<1>11. QED
    BY <1>9, <1>10, LocksAssumption DEF Table

\* Sorted locking never deadlocks, whatever the statements and the tables.
THEOREM DeadlockFree == Spec => []NoDeadlock
BY LocksInvariant, LocksInvNoDeadlock, PTL
============================================================================
