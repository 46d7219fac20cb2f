---------------------------- MODULE TableLocks ----------------------------
(***************************************************************************)
(* The table locks of csv-db: lock.c (flock() on <table>.csv.lock) and     *)
(* catalog_lock_tables / catalog_unlock_tables of catalog.c, as used by    *)
(* every INSERT, UPDATE, DELETE and SELECT of executor.c.                   *)
(*                                                                         *)
(* A handle is one open CsvDb.  It runs one statement at a time: it locks  *)
(* every table the statement needs, one blocking flock() after another in  *)
(* strcmp order, works, and releases the locks one by one.  A table is     *)
(* represented by the rank of its name in strcmp order.  Lock files are    *)
(* neither created nor unlinked here (DROP TABLE is modelled in Ddl).      *)
(***************************************************************************)
EXTENDS Integers

CONSTANTS Handle,       \* the open database handles
          NumTables,    \* how many table names there are
          Entries,      \* Entries[h]: the tables listed in h's catalog
          MaxStatements \* bound: statements one handle starts in a behaviour

Table == 1 .. NumTables

ASSUME LocksAssumption == /\ NumTables \in Nat
                          /\ Entries \in [Handle -> SUBSET Table]
                          /\ MaxStatements \in Nat

VARIABLES phase, \* what each handle is doing
          mode,  \* its statement's LOCK_SHARED or LOCK_EXCLUSIVE, "SH" outside one
          want,  \* the distinct tables the statement asked to lock
          todo,  \* those it has not reached in its sorted array
          held,  \* the locks it holds (out_locks[0 .. locked - 1])
          left   \* statements it may still start (the bound MaxStatements)

vars == <<phase, mode, want, todo, held, left>>

Phase == {"idle", "locking", "locked", "unlocking", "down"}
Mode == {"SH", "EX"}

\* Each variable has its type, a statement holds or awaits only tables it
\* asked for, and a handle outside a statement holds nothing.
TypeOK == /\ phase \in [Handle -> Phase]
          /\ mode \in [Handle -> Mode]
          /\ want \in [Handle -> SUBSET Table]
          /\ todo \in [Handle -> SUBSET Table]
          /\ held \in [Handle -> SUBSET Table]
          /\ left \in [Handle -> 0 .. MaxStatements]
          /\ \A h \in Handle : held[h] \cup todo[h] \subseteq want[h]
          /\ \A h \in Handle : phase[h] \in {"idle", "down"} => want[h] = {}

Init == /\ phase = [h \in Handle |-> "idle"]
        /\ mode = [h \in Handle |-> "SH"]
        /\ want = [h \in Handle |-> {}]
        /\ todo = [h \in Handle |-> {}]
        /\ held = [h \in Handle |-> {}]
        /\ left = [h \in Handle |-> MaxStatements]
---------------------------------------------------------------------------
\* Mutant: without the qsort of catalog_lock_tables names are taken as given.
UnsortedIsFirst(t, S) == t \in S

\* t is the smallest name of S: the one a sorted array of S has first.
IsFirst(t, S) == t \in S /\ \A u \in S : t <= u

\* Mutant: only the lock already taken counts (LOCK_EX asked for as LOCK_SH).
LaxGrantable(h, t) ==
    \A g \in Handle \ {h} : t \in held[g] => mode[g] = "SH"

\* flock() on t would not block h: locks belong to the open file, shared
\* ones coexist, an exclusive one excludes every other holder.
Grantable(h, t) ==
    \A g \in Handle \ {h} : t \in held[g] => mode[h] = "SH" /\ mode[g] = "SH"

\* A statement enters catalog_lock_tables.  Duplicate names (a self-join, a
\* foreign key to the table itself) are skipped by the loop, so the sorted
\* array stands for the set of its names.
BeginLocking(h, names, m) ==
    /\ phase[h] = "idle"
    /\ left[h] > 0
    /\ names # {}
    /\ phase' = [phase EXCEPT ![h] = "locking"]
    /\ mode' = [mode EXCEPT ![h] = m]
    /\ want' = [want EXCEPT ![h] = names]
    /\ todo' = [todo EXCEPT ![h] = names]
    /\ left' = [left EXCEPT ![h] = @ - 1]
    /\ UNCHANGED held

\* lock_acquire on the next name succeeds (the flock() call returns).
Acquire(h, t) ==
    /\ phase[h] = "locking"
    /\ IsFirst(t, todo[h])
    /\ t \in Entries[h]
    /\ Grantable(h, t)
    /\ held' = [held EXCEPT ![h] = @ \cup {t}]
    /\ todo' = [todo EXCEPT ![h] = @ \ {t}]
    /\ UNCHANGED <<phase, mode, want, left>>

\* Mutant: catalog_lock_tables breaks out of its loop but reports success.
CarelessGiveUp(h, t) ==
    /\ phase[h] = "locking"
    /\ IsFirst(t, todo[h])
    /\ phase' = [phase EXCEPT ![h] = "locked"]
    /\ todo' = [todo EXCEPT ![h] = {}]
    /\ UNCHANGED <<mode, want, held, left>>

\* Mutant: the failing statement returns without unlocking what it locked.
LeakyGiveUp(h, t) ==
    /\ phase[h] = "locking"
    /\ IsFirst(t, todo[h])
    /\ phase' = [phase EXCEPT ![h] = "idle"]
    /\ todo' = [todo EXCEPT ![h] = {}]
    /\ want' = [want EXCEPT ![h] = {}]
    /\ UNCHANGED <<mode, held, left>>

\* The loop stops at name t and everything locked so far is to be released.
GiveUp(h, t) ==
    /\ phase[h] = "locking"
    /\ IsFirst(t, todo[h])
    /\ phase' = [phase EXCEPT ![h] = "unlocking"]
    /\ todo' = [todo EXCEPT ![h] = {}]
    /\ UNCHANGED <<mode, want, held, left>>

\* The next name is not in this handle's catalog.
NoSuchTable(h, t) == t \notin Entries[h] /\ GiveUp(h, t)

\* open() or flock() fails (no descriptor left, an I/O error, a signal).
LockError(h, t) == t \in Entries[h] /\ GiveUp(h, t)

\* The loop is over: the statement runs with its locks.
AllLocked(h) ==
    /\ phase[h] = "locking"
    /\ todo[h] = {}
    /\ phase' = [phase EXCEPT ![h] = "locked"]
    /\ UNCHANGED <<mode, want, todo, held, left>>

\* The statement's work is done, well or badly: catalog_unlock_tables starts.
Finish(h) ==
    /\ phase[h] = "locked"
    /\ phase' = [phase EXCEPT ![h] = "unlocking"]
    /\ UNCHANGED <<mode, want, todo, held, left>>

\* lock_release of the next element of the array.
Release(h, t) ==
    /\ phase[h] = "unlocking"
    /\ IsFirst(t, held[h])
    /\ held' = [held EXCEPT ![h] = @ \ {t}]
    /\ UNCHANGED <<phase, mode, want, todo, left>>

\* Every lock is released: the statement returns to its caller.
AllReleased(h) ==
    /\ phase[h] = "unlocking"
    /\ held[h] = {}
    /\ phase' = [phase EXCEPT ![h] = "idle"]
    /\ mode' = [mode EXCEPT ![h] = "SH"]
    /\ want' = [want EXCEPT ![h] = {}]
    /\ UNCHANGED <<todo, held, left>>

\* The process dies; the kernel closes its descriptors, which drops its locks.
Crash(h) ==
    /\ phase[h] # "down"
    /\ phase' = [phase EXCEPT ![h] = "down"]
    /\ mode' = [mode EXCEPT ![h] = "SH"]
    /\ want' = [want EXCEPT ![h] = {}]
    /\ todo' = [todo EXCEPT ![h] = {}]
    /\ held' = [held EXCEPT ![h] = {}]
    /\ UNCHANGED left

Restart(h) ==
    /\ phase[h] = "down"
    /\ phase' = [phase EXCEPT ![h] = "idle"]
    /\ UNCHANGED <<mode, want, todo, held, left>>

\* The steps a running statement takes by itself.
Progress(h) == \/ \E t \in Table : Acquire(h, t) \/ NoSuchTable(h, t) \/ Release(h, t)
               \/ AllLocked(h)
               \/ Finish(h)
               \/ AllReleased(h)

Begin(h) == \E names \in SUBSET Table, m \in Mode : BeginLocking(h, names, m)

Fault(h) == Crash(h) \/ \E t \in Table : LockError(h, t)

Next == \E h \in Handle : Begin(h) \/ Progress(h) \/ Fault(h) \/ Restart(h)

Spec == Init /\ [][Next]_vars
FairSpec == Spec /\ \A h \in Handle : WF_vars(Progress(h))
---------------------------------------------------------------------------
\* Mutual exclusion, what lock.c exists for: a table held under an exclusive
\* lock is held by nobody else, shared or exclusive.
Exclusion ==
    \A g, h \in Handle : \A t \in held[g] \cap held[h] :
        g # h => mode[g] = "SH" /\ mode[h] = "SH"

\* A statement works on its tables only once catalog_lock_tables has locked
\* every one of them, and only tables its catalog knows.
LockedAll ==
    \A h \in Handle : phase[h] = "locked" => held[h] = want[h] /\ held[h] \subseteq Entries[h]

\* h is inside a statement; it is not blocked in flock().
Running(h) == phase[h] \in {"locking", "locked", "unlocking"}
CanMove(h) ==
    \/ phase[h] \in {"locked", "unlocking"}
    \/ /\ phase[h] = "locking"
       /\ \A t \in Table : IsFirst(t, todo[h]) /\ t \in Entries[h] => Grantable(h, t)

\* No deadlock: whatever statements are running and whatever tables they
\* share, some one of them is not blocked on a lock (catalog_lock_tables'
\* comment promises it for joins, foreign keys and self-joins).
NoDeadlock ==
    (\E h \in Handle : Running(h)) => \E h \in Handle : Running(h) /\ CanMove(h)

\* With finitely many statements to run, each one that starts comes to its
\* end unless its process dies: no deadlock and no lock left behind.
StatementsEnd ==
    \A h \in Handle : phase[h] = "locking" ~> phase[h] \in {"idle", "down"}
===========================================================================
