------------------------------ MODULE Migration -----------------------------
(***************************************************************************)
(* pkg/migration: a Runner goes through the databases in the order of      *)
(* their names and migrates those that are registered and enabled, each    *)
(* under a lock, a row in a table of the database itself.  Runners of      *)
(* several processes may be at work; one may stop at any point, and every  *)
(* call to a database may fail, executed or not.                           *)
(***************************************************************************)
EXTENDS Naturals, Sequences

CONSTANTS Runner,
          DbOrder,   \* dbs.Names()
          Eligible,  \* the databases that are in the registry and shouldRun
          Nobody

ASSUME NobodyAssumption == Nobody \notin Runner

VARIABLES lock,   \* lock[d]: whose row is in the lock table of d
          mpc,    \* "idle", "next", "init", "lock", "op", "unlock" or "end"
          mat,    \* the place in DbOrder
          failed, \* the operation has returned an error
          mres    \* what run has returned: "none", "ok", "error", "lost" after a call
          \* without an answer; or "crash"

mvars == <<lock, mpc, mat, failed, mres>>

MigrationInit ==
    /\ lock = [d \in Eligible |-> Nobody]
    /\ mpc = [r \in Runner |-> "idle"]
    /\ mat = [r \in Runner |-> 1]
    /\ failed = [r \in Runner |-> FALSE]
    /\ mres = [r \in Runner |-> "none"]

DbAt(r) == DbOrder[mat[r]]
Goes(r, from, to) == mpc[r] = from /\ mpc' = [mpc EXCEPT ![r] = to]
Returns(r, res) == /\ mpc' = [mpc EXCEPT ![r] = "end"]
                   /\ mres' = [mres EXCEPT ![r] = res]
-----------------------------------------------------------------------------
\* Init, Up and Down all call run, and differ in the operation only.
Run(r) == Goes(r, "idle", "next") /\ UNCHANGED <<lock, mat, failed, mres>>

\* The next database, if there is one.
Skip(r) == /\ mpc[r] = "next" /\ mat[r] <= Len(DbOrder)
           /\ DbAt(r) \notin Eligible
           /\ mat' = [mat EXCEPT ![r] = @ + 1]
           /\ UNCHANGED <<lock, mpc, failed, mres>>
Begin(r) == /\ mat[r] <= Len(DbOrder) /\ DbAt(r) \in Eligible
            /\ Goes(r, "next", "init")
            /\ UNCHANGED <<lock, mat, failed, mres>>
Finish(r) == /\ mpc[r] = "next" /\ mat[r] > Len(DbOrder)
             /\ Returns(r, "ok")
             /\ UNCHANGED <<lock, mat, failed>>

\* runOne: Init creates the tables if they are not there.
InitTables(r) == Goes(r, "init", "lock") /\ UNCHANGED <<lock, mat, failed, mres>>
InitTablesFails(r) == /\ mpc[r] = "init"
                      /\ Returns(r, "error")
                      /\ UNCHANGED <<lock, mat, failed>>

\* The row is inserted.
Lock(r) == /\ Goes(r, "lock", "op")
           /\ lock[DbAt(r)] = Nobody
           /\ lock' = [lock EXCEPT ![DbAt(r)] = r]
           /\ UNCHANGED <<mat, failed, mres>>

\* Mutant of LockFails: runOne unlocks whether or not it has the lock.
LockFailsUnlock(r) == /\ mpc[r] = "lock"
                      /\ lock' = [lock EXCEPT ![DbAt(r)] = Nobody]
                      /\ Returns(r, "error")
                      /\ UNCHANGED <<mat, failed>>

\* The row is there already, or the call fails.
LockFails(r) == /\ mpc[r] = "lock"
                /\ Returns(r, "error")
                /\ UNCHANGED <<lock, mat, failed>>

\* The row is inserted and the answer lost: nobody removes it.
LockAnswerLost(r) == /\ mpc[r] = "lock" /\ lock[DbAt(r)] = Nobody
                     /\ lock' = [lock EXCEPT ![DbAt(r)] = r]
                     /\ Returns(r, "lost")
                     /\ UNCHANGED <<mat, failed>>

\* runOp
Operate(r) == /\ Goes(r, "op", "unlock")
              /\ \E e \in BOOLEAN : failed' = [failed EXCEPT ![r] = e]
              /\ UNCHANGED <<lock, mat, mres>>

\* The row is deleted, and run goes on unless the operation has failed.
Unlock(r) == /\ mpc[r] = "unlock"
             /\ lock' = [lock EXCEPT ![DbAt(r)] = Nobody]
             /\ IF failed[r] THEN Returns(r, "error") /\ UNCHANGED mat
                ELSE /\ Goes(r, "unlock", "next")
                     /\ mat' = [mat EXCEPT ![r] = @ + 1]
                     /\ UNCHANGED mres
             /\ UNCHANGED failed

\* The row stays, or the answer is lost.
UnlockFails(r) == /\ mpc[r] = "unlock"
                  /\ Returns(r, "lost")
                  /\ \E o \in {r, Nobody} : lock' = [lock EXCEPT ![DbAt(r)] = o]
                  /\ UNCHANGED <<mat, failed>>

Crash(r) == /\ mpc[r] \in {"next", "init", "lock", "op", "unlock"}
            /\ Returns(r, "crash")
            /\ UNCHANGED <<lock, mat, failed>>

Moves(r) == \/ Skip(r) \/ Begin(r) \/ Finish(r)
            \/ InitTables(r) \/ InitTablesFails(r)
            \/ Lock(r) \/ LockFails(r) \/ LockAnswerLost(r)
            \/ Operate(r) \/ Unlock(r) \/ UnlockFails(r)
-----------------------------------------------------------------------------
Operating(r, d) == mpc[r] \in {"op", "unlock"} /\ DbAt(r) = d

\* A database is operated on under its lock, by one runner at a time, and the
\* lock of a runner that has returned is left behind only if a call to the
\* database was not answered or the process has ended (runner.go:134-139).
LockExact ==
    \A d \in Eligible :
        /\ \A r \in Runner : Operating(r, d) => lock[d] = r
        /\ lock[d] # Nobody =>
              Operating(lock[d], d) \/ mres[lock[d]] \in {"lost", "crash"}
=============================================================================
