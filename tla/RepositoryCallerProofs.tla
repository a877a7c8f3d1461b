----------------------- MODULE RepositoryCallerProofs -----------------------
(***************************************************************************)
(* What the callers of the cached repository may rely on, whoever else is  *)
(* using it: CallerInv is an invariant, and what one step does to an id    *)
(* that is public, settled or published.                                   *)
(***************************************************************************)
EXTENDS CachedRepositoryProofs

(* One round trip, seen from outside: it advances one call, on one id, and *)
(* what it does to the id's row, cache entry and excuses.                  *)
LEMMA StepEffect ==
    ASSUME RepoInv, NEW p \in Procs, RepositoryStep(p),
           NEW id, id = call[p].id
    PROVE  /\ id \in Ids
           /\ call[p].step \notin {"idle", "done"}
           /\ call'[p].op = call[p].op /\ call'[p].id = id
           /\ call'[p].step \in {"dbGet", "cacheSet", "cacheDel", "done"}
           /\ \A q \in Procs \ {p} : call'[q] = call[q]
           /\ \A i \in Ids \ {id} :
                 db'[i] = db[i] /\ cache'[i] = cache[i] /\ excuse'[i] = excuse[i]
           /\ excuse[id] # {} => excuse'[id] # {}
           /\ \/ db'[id] = db[id]
              \/ /\ call[p].step = "dbInsert"
                 /\ db[id] = NoRow /\ db'[id] = NewRow
              \/ /\ call[p].step = "dbUpdate"
                 /\ db[id] # NoRow /\ db'[id] = call[p].row
              \/ /\ call[p].step = "dbCancel"
                 /\ db[id] # NoRow /\ db'[id] = Cancelled(db[id])
           /\ \/ cache'[id] \in {cache[id], NoRow}
              \/ call[p].step = "cacheSet" /\ cache'[id] = call[p].row
           /\ call[p].step = "cacheDel" => cache'[id] = NoRow \/ excuse'[id] # {}
           /\ call'[p].step = "cacheDel" =>
                 /\ call[p].step \in {"dbUpdate", "dbCancel"}
                 /\ Settled(db'[id])
           /\ call'[p].step = "done" /\ call'[p].res = "ok" =>
                 \/ call[p].step = "cacheDel"
                 \/ call[p].op \in {"Save", "GetByID"} /\ call'[p].row \in Rows
           /\ call[p].op = "GetByID" =>
                 ReadRow(p)' \in {NoRow, cache[id], db[id], ReadRow(p)}
<1> USE DEF RepoInv
<1>a. id \in Ids
    BY DEF RepoTypeOK, RepositoryStep, CacheHit, CacheMiss, DbGet, CacheSet,
           DbInsert, DbUpdate, DbCancel, CacheDel
<1>1. CASE CacheHit(p)
  <2> USE <1>1 DEF CacheHit
  <2>1. Finish(p, "ok", cache[id]) /\ cache[id] \in Rows /\ call[p].op = "GetByID"
      BY <1>a DEF RepoTypeOK
  <2>2. /\ call'[p].op = call[p].op /\ call'[p].id = id
        /\ call'[p].step = "done" /\ call'[p].row = cache[id]
        /\ \A q \in Procs \ {p} : call'[q] = call[q]
      BY <2>1, AdvanceType DEF Finish, RepoTypeOK, Steps, Results
  <2> QED BY <1>a, <2>1, <2>2 DEF ReadRow
<1>2. CASE CacheMiss(p)
  <2> USE <1>2 DEF CacheMiss
  <2>2. /\ call'[p].op = call[p].op /\ call'[p].id = id
        /\ call'[p].step = "dbGet"
        /\ \A q \in Procs \ {p} : call'[q] = call[q]
      BY AdvanceType DEF GoTo, RepoTypeOK, Steps, Results
  <2> QED BY <1>a, <2>2 DEF ReadRow
<1>3. CASE DbGet(p)
  <2> USE <1>3 DEF DbGet
  <2>1. \/ GoTo(p, "cacheSet", db[id]) /\ db[id] \in Rows
        \/ Finish(p, "notFound", NoRow)
        \/ Finish(p, "error", NoRow)
      BY <1>a DEF RepoTypeOK
  <2>2. /\ call'[p].op = call[p].op /\ call'[p].id = id
        /\ \/ call'[p].step = "cacheSet" /\ call'[p].row = db[id]
           \/ call'[p].step = "done" /\ call'[p].row = NoRow /\ call'[p].res # "ok"
        /\ \A q \in Procs \ {p} : call'[q] = call[q]
      BY <2>1 DEF GoTo, Finish, Advance, RepoTypeOK, Calls
  <2> QED BY <1>a, <2>2 DEF ReadRow
<1>4. CASE CacheSet(p)
  <2> USE <1>4 DEF CacheSet
  <2>1. /\ Finish(p, "ok", call[p].row) /\ call[p].row \in Rows
        /\ call[p].op \in {"Save", "GetByID"}
      BY DEF RepoTypeOK
  <2>2. /\ call'[p].op = call[p].op /\ call'[p].id = id
        /\ call'[p].step = "done" /\ call'[p].row = call[p].row
        /\ \A q \in Procs \ {p} : call'[q] = call[q]
      BY <2>1, AdvanceType DEF Finish, RepoTypeOK, Steps, Results
  <2>3. cache' \in {cache, [cache EXCEPT ![id] = call[p].row]}
      OBVIOUS
  <2>4. cache'[id] \in {cache[id], call[p].row}
        /\ \A i \in Ids \ {id} : cache'[i] = cache[i]
      BY <1>a, <2>3 DEF RepoTypeOK
  <2> QED BY <1>a, <2>1, <2>2, <2>4 DEF ReadRow
<1>5. CASE DbInsert(p)
  <2> USE <1>5 DEF DbInsert
  <2>1. db[id] = NoRow /\ call[p].op = "Save" /\ call[p].row = NewRow
      BY <1>a DEF InsertIsFresh, RepoTypeOK
  <2>2. /\ call'[p].op = call[p].op /\ call'[p].id = id
        /\ \/ call'[p].step = "cacheSet"
           \/ call'[p].step = "done" /\ call'[p].res # "ok"
        /\ \A q \in Procs \ {p} : call'[q] = call[q]
      BY <2>1 DEF GoTo, Finish, Advance, RepoTypeOK, Calls
  <2>3. UNCHANGED <<db, excuse>> \/ Commit(id, NewRow, {})
      BY <2>1
  <2>4. /\ db'[id] \in {db[id], NewRow}
        /\ excuse[id] # {} => excuse'[id] # {}
        /\ \A i \in Ids \ {id} : db'[i] = db[i] /\ excuse'[i] = excuse[i]
      BY <1>a, <2>3 DEF Commit, RepoTypeOK
  <2> QED BY <1>a, <2>1, <2>2, <2>4
<1>6. ASSUME NEW row, WriteRow(p, row), db[id] # NoRow => Settled(row),
             call[p].step \in {"dbUpdate", "dbCancel"}
      PROVE  /\ call'[p].op = call[p].op /\ call'[p].id = id
             /\ \/ call'[p].step = "cacheDel" /\ Settled(db'[id])
                \/ call'[p].step = "done" /\ call'[p].res # "ok"
             /\ call'[p].row = NoRow
             /\ \A q \in Procs \ {p} : call'[q] = call[q]
             /\ db'[id] = db[id] \/ (db[id] # NoRow /\ db'[id] = row)
             /\ excuse[id] # {} => excuse'[id] # {}
             /\ \A i \in Ids \ {id} : db'[i] = db[i] /\ excuse'[i] = excuse[i]
             /\ UNCHANGED cache
  <2> USE <1>6 DEF WriteRow
  <2>1. /\ call'[p].op = call[p].op /\ call'[p].id = id
        /\ call'[p].row = NoRow
        /\ \/ /\ call'[p].step = "cacheDel"
              /\ db[id] # NoRow /\ Commit(id, row, {})
           \/ call'[p].step = "done" /\ call'[p].res # "ok"
        /\ \A q \in Procs \ {p} : call'[q] = call[q]
      BY DEF GoTo, Finish, Advance, RepoTypeOK, Calls
  <2>2. \/ UNCHANGED <<db, excuse>>
        \/ db[id] # NoRow /\ (Commit(id, row, {}) \/ Commit(id, row, {"lostDel"}))
      OBVIOUS
  <2>3. /\ db'[id] = db[id] \/ (db[id] # NoRow /\ db'[id] = row)
        /\ Commit(id, row, {}) => db'[id] = row
        /\ excuse[id] # {} => excuse'[id] # {}
        /\ \A i \in Ids \ {id} : db'[i] = db[i] /\ excuse'[i] = excuse[i]
      BY SMTT(30), <1>a, <2>2 DEF Commit, RepoTypeOK
  <2> QED BY <2>1, <2>3
<1>7. CASE DbUpdate(p)
  <2>1. WriteRow(p, call[p].row) /\ call[p].step = "dbUpdate"
        /\ Settled(call[p].row)
      BY <1>7, RowFacts DEF DbUpdate, RepoTypeOK
  <2> QED BY <1>a, <1>6, <2>1 DEF ReadRow
<1>8. CASE DbCancel(p)
  <2>1. WriteRow(p, Cancelled(db[id])) /\ call[p].step = "dbCancel"
        /\ (db[id] # NoRow => Settled(Cancelled(db[id])))
      BY <1>a, <1>8, RowFacts DEF DbCancel, RepoTypeOK
  <2> QED BY <1>a, <1>6, <2>1 DEF ReadRow
<1>9. CASE CacheDel(p)
  <2> USE <1>9 DEF CacheDel
  <2>1. /\ call'[p].op = call[p].op /\ call'[p].id = id
        /\ call'[p].step = "done" /\ call'[p].row = NoRow
        /\ \A q \in Procs \ {p} : call'[q] = call[q]
      BY AdvanceType DEF Finish, RepoTypeOK, Steps, Results
  <2>2. \/ cache' = [cache EXCEPT ![id] = NoRow] /\ UNCHANGED excuse
        \/ /\ cache' = cache \/ cache' = [cache EXCEPT ![id] = NoRow]
           /\ excuse' = [excuse EXCEPT ![id] = @ \cup {"lostDel"}]
      OBVIOUS
  <2>3. /\ cache'[id] \in {cache[id], NoRow}
        /\ UNCHANGED excuse \/ "lostDel" \in excuse'[id]
        /\ cache'[id] = NoRow \/ "lostDel" \in excuse'[id]
        /\ \A i \in Ids \ {id} : cache'[i] = cache[i] /\ excuse'[i] = excuse[i]
      BY <1>a, <2>2 DEF RepoTypeOK
  <2> QED BY <1>a, <2>1, <2>3 DEF ReadRow
<1> QED BY <1>1, <1>2, <1>3, <1>4, <1>5, <1>7, <1>8, <1>9 DEF RepositoryStep

(* Steps that are not round trips leave rows and entries alone; they begin *)
(* calls and end them.                                                     *)
Begun(c) ==
    \/ c.op = "Save" /\ c.step = "dbInsert"
    \/ c.op = "GetByID" /\ c.step = "cacheGet"
    \/ c.op = "Update" /\ c.step = "dbUpdate"
    \/ c.op = "Delete" /\ c.step = "dbCancel"
Quiet ==
    /\ UNCHANGED <<db, cache>>
    /\ \A i \in Ids : excuse[i] # {} => excuse'[i] # {}
    /\ \A p \in Procs :
          \/ call'[p] = call[p]
          \/ call'[p] = NoCall
          \/ /\ Begun(call'[p])
             /\ call'[p].op = "Save" => /\ db[call'[p].id] = NoRow
                                       /\ \A q \in Procs \ {p} :
                                             /\ call'[q] = call[q]
                                             /\ call[q].id # call'[p].id

LEMMA OtherEffect ==
    ASSUME RepoInv, [RepoNext]_<<repoVars, faults>>,
           ~ \E p \in Procs : RepositoryStep(p),
           ~ \E id \in Ids : CacheExpire(id)
    PROVE  Quiet
<1> USE DEF RepoInv
<1>1. ASSUME NEW p \in Procs, ClientCalls(p) PROVE Quiet
  <2>1. PICK id \in Ids, op \in {"Save", "GetByID", "Update", "Delete"},
             row \in Rows \cup {NoRow},
             step \in {"dbInsert", "cacheGet", "dbUpdate", "dbCancel"} :
          /\ Begin(p, op, id, row, step)
          /\ op = "Save" => /\ db[id] = NoRow
                            /\ \A q \in Procs : call[q].id # id
          /\ Begun([op |-> op, id |-> id, step |-> step, row |-> row, res |-> "none"])
      BY <1>1, RowFacts DEF ClientCalls, CallSave, CallGetByID, CallUpdate,
                            CallDelete, Begun
  <2>2. /\ call'[p] = [op |-> op, id |-> id, step |-> step, row |-> row, res |-> "none"]
        /\ \A q \in Procs \ {p} : call'[q] = call[q]
      BY <2>1 DEF Begin, RepoTypeOK
  <2> QED BY <1>1, <2>1, <2>2 DEF Quiet, ClientCalls
<1>2. ASSUME NEW p \in Procs, ClientReturns(p) PROVE Quiet
  <2>1. /\ call'[p] = NoCall
        /\ \A q \in Procs \ {p} : call'[q] = call[q]
      BY <1>2 DEF ClientReturns, Return, RepoTypeOK
  <2> QED BY <1>2, <2>1 DEF Quiet, ClientReturns
<1>3. ASSUME NEW P \in SUBSET Procs,
             ContextsDone(P) \/ CacheCloses(P) \/ StoresClose(P)
      PROVE  Quiet
    BY <1>3 DEF Quiet, ContextsDone, CacheCloses, StoresClose, SetContexts
<1>4. ASSUME NEW P \in SUBSET Procs, CrashCalls(P) PROVE Quiet
  <2>1. \A q \in Procs : call'[q] = call[q] \/ call'[q] = NoCall
      BY <1>4 DEF CrashCalls
  <2>2. \A i \in Ids : excuse[i] # {} => excuse'[i] # {}
      BY <1>4 DEF CrashCalls
  <2> QED BY <1>4, <2>1, <2>2 DEF Quiet, CrashCalls
<1>5. CASE UNCHANGED repoVars
    BY <1>5 DEF Quiet, repoVars
<1> QED BY <1>1, <1>2, <1>3, <1>4, <1>5 DEF RepoNext

-----------------------------------------------------------------------------
(* What is said of an id stays true: that it is public, that it has an     *)
(* outcome, that readers find it, that a stale entry is excused.           *)

Stable(i) ==
    /\ Public(i) => Public(i)'
    /\ Settled(db[i]) => Settled(db'[i])
    /\ Published(i) => Published(i)'
    /\ excuse[i] # {} => excuse'[i] # {}

LEMMA StepIsStable ==
    ASSUME RepoInv, NEW p \in Procs, RepositoryStep(p), NEW i \in Ids
    PROVE  Stable(i)
<1>1. PICK id \in Ids : id = call[p].id
    BY StepEffect
<1>2. RepoTypeOK /\ FillIsCurrent
    BY DEF RepoInv
<1>3. Settled(db[i]) => Settled(db'[i])
    BY <1>1, <1>2, StepEffect, RowFacts DEF RepoTypeOK
<1>4. excuse[i] # {} => excuse'[i] # {}
    BY <1>1, StepEffect
<1>5. Public(i) => Public(i)'
  <2>1. db[i] # NoRow => db'[i] # NoRow
      BY <1>1, <1>2, StepEffect, RowFacts DEF RepoTypeOK
  <2>2. \A q \in Procs : call'[q].op = call[q].op /\ call'[q].id = call[q].id
      BY <1>1, StepEffect
  <2> QED BY <2>1, <2>2 DEF Public
<1>6. ASSUME Published(i) PROVE Published(i)'
  <2>1. i # id => Published(i)'
      BY <1>1, <1>6, StepEffect DEF Published
  <2>2. CASE i = id
    <3>1. cache'[id] \in {cache[id], NoRow} => Published(id)'
        BY <1>3, <1>4, <1>6, <2>2 DEF Published
    <3>2. CASE call[p].step = "cacheSet" /\ cache'[id] = call[p].row
        BY <1>1, <1>2, <1>3, <1>4, <1>6, <2>2, <3>2 DEF FillIsCurrent, Published
    <3> QED BY <1>1, <2>2, <3>1, <3>2, StepEffect
  <2> QED BY <2>1, <2>2
<1> QED BY <1>3, <1>4, <1>5, <1>6 DEF Stable

LEMMA IdsAreStable ==
    ASSUME RepoInv, [RepoNext]_<<repoVars, faults>>, NEW i \in Ids
    PROVE  Stable(i)
<1>1. ASSUME NEW id \in Ids, CacheExpire(id) PROVE Stable(i)
  <2>1. cache'[i] \in {cache[i], NoRow}
      BY <1>1 DEF CacheExpire, RepoInv, RepoTypeOK
  <2> QED BY <1>1, <2>1 DEF CacheExpire, Stable, Public, Published
<1>2. CASE Quiet
  <2>1. Public(i) => Public(i)'
      BY <1>2 DEF Quiet, Begun, Public, NoCall
  <2> QED BY <1>2, <2>1 DEF Quiet, Stable, Published
<1> QED BY <1>1, <1>2, StepIsStable, OtherEffect

-----------------------------------------------------------------------------
(* CallerInv is an invariant of the repository.                            *)

LEMMA CallerInvInit == RepoInit => CallerInv
BY DEF RepoInit, NoCall, CallerInv, SaveIsAlone, ResultsHold, DeleteIsPublished

LEMMA CallerInvStep ==
    ASSUME RepoInv, CallerInv, NEW p \in Procs, RepositoryStep(p)
    PROVE  CallerInv'
<1>1. PICK id \in Ids : id = call[p].id
    BY StepEffect
<1>2. RepoTypeOK
    BY DEF RepoInv
<1>3. SaveIsAlone'
    BY <1>1, StepEffect DEF CallerInv, SaveIsAlone
<1>4. \A i \in Ids : Settled(db[i]) => Settled(db'[i])
    BY StepIsStable DEF Stable
<1>5. ResultsHold'
  <2>1. ASSUME NEW q \in Procs \ {p}
        PROVE  call'[q] = call[q] /\ (call[q].step # "idle" => call[q].id \in Ids)
      BY <1>1, <1>2, StepEffect DEF RepoTypeOK
  <2>2. ASSUME NEW q \in Procs \ {p},
               call[q].step = "cacheDel" \/ (call[q].step = "done" /\ Succeeded(q)),
               call[q].op \in {"Update", "Delete"}
        PROVE  Settled(db'[call[q].id])
      BY <1>4, <2>1, <2>2 DEF CallerInv, ResultsHold
  <2>3. CASE call[p].step = "cacheDel"
      BY <1>1, <1>4, <2>1, <2>2, <2>3, StepEffect DEF CallerInv, ResultsHold, Succeeded
  <2>4. CASE call[p].step # "cacheDel"
    <3>1. /\ call'[p].step = "cacheDel" =>
                call'[p].op \in {"Update", "Delete"} /\ Settled(db'[id])
          /\ call'[p].step = "done" /\ call'[p].res = "ok" =>
                call'[p].op \in {"Save", "GetByID"} /\ call'[p].row \in Rows
        BY <1>1, <2>4, StepEffect DEF CallerInv, ResultsHold
    <3> QED BY <1>1, <2>1, <2>2, <3>1, StepEffect
            DEF CallerInv, ResultsHold, Succeeded
  <2> QED BY <2>3, <2>4
<1>6. DeleteIsPublished'
  <2>1. call'[p].op = "Delete" /\ call'[p].step = "done" /\ call'[p].res = "ok"
            => Published(id)'
    <3>1. ASSUME call'[p].op = "Delete", call'[p].step = "done", call'[p].res = "ok"
          PROVE  call[p].step = "cacheDel" /\ call[p].op = "Delete"
        BY <1>1, <3>1, StepEffect
    <3>2. ASSUME call[p].step = "cacheDel", call[p].op = "Delete"
          PROVE  Settled(db'[id]) /\ (cache'[id] = NoRow \/ excuse'[id] # {})
        BY <1>1, <1>4, <3>2, StepEffect DEF CallerInv, ResultsHold
    <3> QED BY <3>1, <3>2 DEF Published
  <2>2. ASSUME NEW q \in Procs \ {p}
        PROVE  call'[q] = call[q] /\ (call[q].step # "idle" => call[q].id \in Ids)
      BY <1>1, <1>2, StepEffect DEF RepoTypeOK
  <2> QED BY <1>1, <2>1, <2>2, StepEffect, StepIsStable
          DEF Stable, CallerInv, DeleteIsPublished, Succeeded
<1> QED BY <1>3, <1>5, <1>6 DEF CallerInv

(* Another entry's expiry, or a step that is not a round trip.             *)
LEMMA CallerInvExpire ==
    ASSUME RepoInv, CallerInv, NEW id \in Ids, CacheExpire(id)
    PROVE  CallerInv'
<1>1. \A i \in Ids : Published(i) => Published(i)'
    BY IdsAreStable DEF RepoNext, Stable
<1>2. UNCHANGED <<db, call>>
    BY DEF CacheExpire
<1>3. SaveIsAlone' /\ ResultsHold'
    BY <1>2 DEF CallerInv, SaveIsAlone, ResultsHold, Succeeded
<1>4. DeleteIsPublished'
    BY <1>1, <1>2 DEF CallerInv, DeleteIsPublished, Succeeded, RepoInv, RepoTypeOK
<1> QED BY <1>3, <1>4 DEF CallerInv

LEMMA CallerInvQuiet ==
    ASSUME RepoInv, CallerInv, Quiet
    PROVE  CallerInv'
<1>1. SaveIsAlone'
    BY DEF Quiet, Begun, CallerInv, SaveIsAlone, NoCall
<1>2. ResultsHold'
    BY DEF Quiet, Begun, CallerInv, ResultsHold, Succeeded, NoCall
<1>3. DeleteIsPublished'
  <2>1. \A i \in Ids : Published(i) => Published(i)'
      BY DEF Quiet, Published
  <2> QED BY <2>1 DEF Quiet, Begun, CallerInv, DeleteIsPublished, Succeeded,
                      NoCall, RepoInv, RepoTypeOK
<1> QED BY <1>1, <1>2, <1>3 DEF CallerInv

LEMMA CallerInvNext ==
    ASSUME RepoInv, CallerInv, [RepoNext]_<<repoVars, faults>>
    PROVE  CallerInv'
BY OtherEffect, CallerInvStep, CallerInvExpire, CallerInvQuiet

(* What the repository's callers rely on holds under arbitrary clients: an *)
(* id being inserted is one Save's, GetByID returns real rows, and when    *)
(* Update or Delete return nil the row has an outcome.                     *)
THEOREM CallersAreServed == RepoSpec => []CallerInv
<1>1. RepoInit => RepoInv /\ CallerInv
    BY InitInv, CallerInvInit
<1>2. RepoInv /\ CallerInv /\ [RepoNext]_<<repoVars, faults>>
          => (RepoInv /\ CallerInv)'
    BY NextInv, CallerInvNext
<1> QED BY <1>1, <1>2, PTL DEF RepoSpec
=============================================================================
