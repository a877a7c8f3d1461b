----------------------- MODULE CachedRepositoryProofs -----------------------
(***************************************************************************)
(* What holds of the cached repository for any number of ids, processes,   *)
(* retries and faults.  RepoInv is inductive; each action is taken in turn.*)
(***************************************************************************)
EXTENDS CachedRepository, TLAPS

(* A row with an outcome is a row; the row INSERT writes has none.         *)
LEMMA RowFacts ==
    /\ NewRow \in Rows
    /\ NoRow \notin Rows
    /\ ~ Settled(NewRow)
    /\ ~ Settled(NoRow)
    /\ ConsumerRows \subseteq Rows
    /\ \A row \in ConsumerRows : Settled(row)
    /\ \A row \in Rows : Cancelled(row) \in Rows /\ Settled(Cancelled(row))
<1>1. NewRow \in Rows /\ NoRow \notin Rows /\ ~ Settled(NewRow) /\ ~ Settled(NoRow)
    BY MaxRetriesAssumption DEF NewRow, NoRow, Rows, Statuses, Outcomes, Settled
<1>2. \A row \in ConsumerRows : row \in Rows /\ Settled(row)
  <2>1. ASSUME NEW a \in 0 .. MaxRetries - 1
        PROVE  SentRow(a) \in Rows /\ Settled(SentRow(a))
      BY <2>1, MaxRetriesAssumption
      DEF SentRow, Rows, Statuses, Outcomes, Settled
  <2>2. FailedRow(MaxRetries) \in Rows /\ Settled(FailedRow(MaxRetries))
      BY MaxRetriesAssumption DEF FailedRow, Rows, Statuses, Outcomes, Settled
  <2> QED BY <2>1, <2>2 DEF ConsumerRows
<1>3. \A row \in Rows : Cancelled(row) \in Rows /\ Settled(Cancelled(row))
    BY DEF Cancelled, Rows, Statuses, Outcomes, Settled
<1> QED BY <1>1, <1>2, <1>3

LEMMA FaultType ==
    ASSUME NEW kind, faults \in 0 .. MaxFaults, Fault(kind)
    PROVE  faults' \in 0 .. MaxFaults
BY MaxFaultsAssumption DEF Fault

LEMMA InitInv == RepoInit => RepoInv
<1> SUFFICES ASSUME RepoInit PROVE RepoInv
    OBVIOUS
<1> USE DEF RepoInit, NoCall
<1>1. RepoTypeOK
    BY MaxFaultsAssumption DEF RepoTypeOK, Calls, Operations, Steps, Results, Contexts
<1>2. InsertIsFresh /\ FillIsCurrent /\ StaleHasCause
    BY DEF InsertIsFresh, FillIsCurrent, StaleHasCause
<1>3. CacheNeverAhead
    BY RowFacts DEF CacheNeverAhead, ReadRow
<1> QED BY <1>1, <1>2, <1>3 DEF RepoInv

-----------------------------------------------------------------------------
(* Steps of one call.  In each, p is the process whose call it is.         *)

(* What a round trip does to the calls.                                    *)
LEMMA AdvanceType ==
    ASSUME call \in [Procs -> Calls], NEW p \in Procs,
           NEW step \in Steps, NEW row \in Rows \cup {NoRow}, NEW res \in Results,
           Advance(p, step, row, res)
    PROVE  /\ call' \in [Procs -> Calls]
           /\ call'[p].op = call[p].op /\ call'[p].id = call[p].id
           /\ call'[p].step = step /\ call'[p].row = row
           /\ \A q \in Procs \ {p} : call'[q] = call[q]
BY DEF Advance, Calls

LEMMA CacheHitInv ==
    ASSUME RepoInv, NEW p \in Procs, CacheHit(p), UNCHANGED ctx
    PROVE  RepoInv'
<1> USE DEF RepoInv, CacheHit, RoundTrip, RoundTripFails, GoTo, Finish
<1>1. RepoTypeOK'
    BY RowFacts, FaultType DEF RepoTypeOK, Advance, Calls, Steps, Results
<1>2. InsertIsFresh'
    BY RowFacts DEF Advance, RepoTypeOK, Calls, InsertIsFresh
<1>3. FillIsCurrent'
    BY RowFacts DEF Advance, RepoTypeOK, Calls, FillIsCurrent
<1>4. CacheNeverAhead'
    BY RowFacts DEF Advance, RepoTypeOK, Calls, CacheNeverAhead, ReadRow
<1>5. StaleHasCause'
    BY RowFacts DEF Advance, RepoTypeOK, Calls, StaleHasCause, FillIsCurrent
<1> QED BY <1>1, <1>2, <1>3, <1>4, <1>5

LEMMA CacheMissInv ==
    ASSUME RepoInv, NEW p \in Procs, CacheMiss(p), UNCHANGED ctx
    PROVE  RepoInv'
<1> USE DEF RepoInv, CacheMiss, RoundTrip, RoundTripFails, GoTo, Finish
<1>1. RepoTypeOK'
    BY RowFacts, FaultType DEF RepoTypeOK, Advance, Calls, Steps, Results
<1>2. InsertIsFresh'
    BY RowFacts DEF Advance, RepoTypeOK, Calls, InsertIsFresh
<1>3. FillIsCurrent'
    BY RowFacts DEF Advance, RepoTypeOK, Calls, FillIsCurrent
<1>4. CacheNeverAhead'
    BY RowFacts DEF Advance, RepoTypeOK, Calls, CacheNeverAhead, ReadRow
<1>5. StaleHasCause'
    BY RowFacts DEF Advance, RepoTypeOK, Calls, StaleHasCause, FillIsCurrent
<1> QED BY <1>1, <1>2, <1>3, <1>4, <1>5

LEMMA DbGetInv ==
    ASSUME RepoInv, NEW p \in Procs, DbGet(p), UNCHANGED ctx
    PROVE  RepoInv'
<1> USE DEF RepoInv
<1>1. CASE RoundTrip(p) /\ db[call[p].id] # NoRow
           /\ GoTo(p, "cacheSet", db[call[p].id])
  <2> USE <1>1 DEF DbGet, RoundTrip
  <2>1. /\ call' \in [Procs -> Calls]
        /\ call'[p].op = "GetByID" /\ call'[p].id = call[p].id
        /\ call'[p].step = "cacheSet" /\ call'[p].row = db[call[p].id]
        /\ \A q \in Procs \ {p} : call'[q] = call[q]
      BY AdvanceType DEF GoTo, RepoTypeOK, Steps, Results
  <2>2. RepoTypeOK'
      BY <2>1 DEF RepoTypeOK
  <2>3. InsertIsFresh' /\ FillIsCurrent'
      BY <2>1 DEF InsertIsFresh, FillIsCurrent
  <2>4. CacheNeverAhead'
      BY <2>1 DEF CacheNeverAhead, ReadRow
  <2>5. StaleHasCause'
      BY <2>1 DEF StaleHasCause
  <2> QED BY <2>2, <2>3, <2>4, <2>5
<1>2. CASE \/ RoundTrip(p) /\ Finish(p, "notFound", NoRow)
           \/ RoundTripFails(p) /\ Finish(p, "error", NoRow)
  <2> USE <1>2 DEF DbGet
  <2>1. /\ call' \in [Procs -> Calls]
        /\ call'[p].op = "GetByID" /\ call'[p].id = call[p].id
        /\ call'[p].step = "done" /\ call'[p].row = NoRow
        /\ \A q \in Procs \ {p} : call'[q] = call[q]
      BY AdvanceType DEF Finish, RepoTypeOK, Steps, Results
  <2>2. RepoTypeOK'
      BY <2>1, FaultType DEF RepoTypeOK, RoundTrip, RoundTripFails
  <2>3. InsertIsFresh' /\ FillIsCurrent'
      BY <2>1 DEF InsertIsFresh, FillIsCurrent
  <2>4. CacheNeverAhead'
      BY <2>1 DEF CacheNeverAhead, ReadRow
  <2>5. StaleHasCause'
      BY <2>1 DEF StaleHasCause
  <2> QED BY <2>2, <2>3, <2>4, <2>5
<1> QED BY <1>1, <1>2 DEF DbGet

LEMMA CacheSetInv ==
    ASSUME RepoInv, NEW p \in Procs, CacheSet(p), UNCHANGED ctx
    PROVE  RepoInv'
<1> USE DEF RepoInv, CacheSet, RoundTrip, RoundTripFails, Finish
<1>1. RepoTypeOK'
    BY RowFacts, FaultType DEF RepoTypeOK, Advance, Calls, Steps, Results
<1>2. InsertIsFresh'
    BY RowFacts DEF Advance, RepoTypeOK, Calls, InsertIsFresh
<1>3. FillIsCurrent'
    BY RowFacts DEF Advance, RepoTypeOK, Calls, FillIsCurrent
<1>4. CacheNeverAhead'
    BY RowFacts DEF Advance, RepoTypeOK, Calls, CacheNeverAhead, ReadRow
<1>5. StaleHasCause'
    BY RowFacts DEF Advance, RepoTypeOK, Calls, StaleHasCause, FillIsCurrent
<1> QED BY <1>1, <1>2, <1>3, <1>4, <1>5

LEMMA CacheDelInv ==
    ASSUME RepoInv, NEW p \in Procs, CacheDel(p), UNCHANGED ctx
    PROVE  RepoInv'
<1> DEFINE id == call[p].id
<1> USE DEF RepoInv, CacheDel
<1>1. /\ call' \in [Procs -> Calls]
      /\ call'[p].op = call[p].op /\ call'[p].id = id
      /\ call'[p].step = "done" /\ call'[p].row = NoRow
      /\ \A q \in Procs \ {p} : call'[q] = call[q]
    BY AdvanceType DEF Finish, RepoTypeOK, Steps, Results
<1>2. /\ id \in Ids
      /\ \A i \in Ids : cache'[i] = cache[i] \/ (i = id /\ cache'[i] = NoRow)
      /\ \A i \in Ids : i # id => excuse'[i] = excuse[i]
      /\ cache'[id] = NoRow \/ excuse'[id] # {}
      /\ excuse[id] # {} => excuse'[id] # {}
  <2>1. id \in Ids
      BY DEF RepoTypeOK
  <2>2. \/ cache' = [cache EXCEPT ![id] = NoRow] /\ UNCHANGED excuse
        \/ /\ cache' = cache \/ cache' = [cache EXCEPT ![id] = NoRow]
           /\ excuse' = [excuse EXCEPT ![id] = @ \cup {"lostDel"}]
      OBVIOUS
  <2>3. \A i \in Ids : cache'[i] = cache[i] \/ (i = id /\ cache'[i] = NoRow)
      BY <2>1, <2>2 DEF RepoTypeOK
  <2>4. \A i \in Ids : i # id => excuse'[i] = excuse[i]
      BY <2>1, <2>2 DEF RepoTypeOK
  <2>5. UNCHANGED excuse \/ "lostDel" \in excuse'[id]
      BY <2>1, <2>2 DEF RepoTypeOK
  <2>6. cache'[id] = NoRow \/ "lostDel" \in excuse'[id]
      BY <2>1, <2>2 DEF RepoTypeOK
  <2> QED BY <2>1, <2>3, <2>4, <2>5, <2>6
<1>3. RepoTypeOK'
    BY <1>1, FaultType DEF RepoTypeOK, RoundTrip, RoundTripFails
<1>4. InsertIsFresh' /\ FillIsCurrent'
    BY <1>1, <1>2 DEF InsertIsFresh, FillIsCurrent, RepoTypeOK
<1>5. CacheNeverAhead'
    BY <1>1, <1>2, RowFacts DEF CacheNeverAhead, ReadRow
<1>6. StaleHasCause'
    BY <1>1, <1>2 DEF StaleHasCause
<1> QED BY <1>3, <1>4, <1>5, <1>6

LEMMA DbInsertInv ==
    ASSUME RepoInv, NEW p \in Procs, DbInsert(p), UNCHANGED ctx
    PROVE  RepoInv'
<1> DEFINE id == call[p].id
<1> USE DEF RepoInv, DbInsert
<1>1. /\ id \in Ids /\ db[id] = NoRow /\ cache[id] = NoRow
      /\ call[p].op = "Save" /\ call[p].row = NewRow
      /\ \A q \in Procs : call[q].id = id => ReadRow(q) = NoRow
    BY DEF RepoTypeOK, InsertIsFresh, CacheNeverAhead
<1>2. /\ call' \in [Procs -> Calls]
      /\ call'[p].op = "Save" /\ call'[p].id = id
      /\ \A q \in Procs \ {p} : call'[q] = call[q]
      /\ \/ call'[p].step = "cacheSet" /\ call'[p].row = NewRow
            /\ Commit(id, NewRow, {})
         \/ call'[p].step = "done" /\ call'[p].row = NoRow
            /\ (UNCHANGED <<db, excuse>> \/ Commit(id, NewRow, {}))
    BY SMTT(30), <1>1, AdvanceType, RowFacts DEF GoTo, Finish, RepoTypeOK, Steps, Results
<1>3. /\ \A i \in Ids \ {id} : db'[i] = db[i] /\ excuse'[i] = excuse[i]
      /\ db'[id] \in {NoRow, NewRow} /\ db' \in [Ids -> Rows \cup {NoRow}]
      /\ excuse' \in [Ids -> SUBSET {"straddle", "lostDel"}]
      /\ call'[p].step = "cacheSet" => db'[id] = NewRow
      /\ \A q \in Procs :
            call[q].step = "cacheSet" /\ call[q].id = id =>
                \/ excuse'[id] # {}
                \/ db'[id] = db[id] /\ excuse'[id] = excuse[id]
  <2>1. CASE UNCHANGED <<db, excuse>> /\ call'[p].step # "cacheSet"
      BY <1>1, <2>1 DEF RepoTypeOK
  <2>2. CASE Commit(id, NewRow, {})
    <3>1. /\ db' = [db EXCEPT ![id] = NewRow]
          /\ \A i \in Ids \ {id} : excuse'[i] = excuse[i]
          /\ excuse' \in [Ids -> SUBSET {"straddle", "lostDel"}]
        BY <1>1, <2>2 DEF Commit, RepoTypeOK
    <3>2. Filling(id) => "straddle" \in excuse'[id]
        BY <1>1, <2>2 DEF Commit, RepoTypeOK
    <3>3. db' \in [Ids -> Rows \cup {NoRow}] /\ db'[id] = NewRow
          /\ \A i \in Ids \ {id} : db'[i] = db[i]
        BY <1>1, <3>1, RowFacts DEF RepoTypeOK
    <3>4. \A q \in Procs : call[q].step = "cacheSet" /\ call[q].id = id =>
                excuse'[id] # {}
        BY <3>2 DEF Filling
    <3> QED BY <3>1, <3>3, <3>4
  <2> QED BY <1>2, <2>1, <2>2
<1>4. RepoTypeOK'
    BY <1>1, <1>2, <1>3, FaultType, RowFacts
    DEF RepoTypeOK, RoundTrip, RoundTripFails
<1>5. InsertIsFresh'
    BY <1>1, <1>2, <1>3 DEF InsertIsFresh, RepoTypeOK
<1>6. FillIsCurrent'
    BY <1>1, <1>2, <1>3 DEF FillIsCurrent, RepoTypeOK
<1>7. CacheNeverAhead'
  <2>1. \A i \in Ids : /\ cache'[i] # NoRow => db'[i] # NoRow
                       /\ Settled(cache'[i]) => Settled(db'[i])
      BY <1>1, <1>3, RowFacts DEF CacheNeverAhead
  <2>2. ASSUME NEW q \in Procs, ReadRow(q)' # NoRow
        PROVE  /\ db'[call'[q].id] # NoRow
               /\ Settled(ReadRow(q)') => Settled(db'[call'[q].id])
    <3>1. CASE q = p
        BY <1>1, <1>2, <1>3, <2>2, <3>1, RowFacts DEF ReadRow
    <3>2. CASE q # p
        BY <1>1, <1>2, <1>3, <2>2, <3>2 DEF ReadRow, CacheNeverAhead, RepoTypeOK
    <3> QED BY <3>1, <3>2
  <2> QED BY <2>1, <2>2 DEF CacheNeverAhead
<1>8. StaleHasCause'
    BY <1>1, <1>2, <1>3 DEF StaleHasCause
<1> QED BY <1>4, <1>5, <1>6, <1>7, <1>8

(* Both UPDATE statements: what they write has an outcome.                 *)
LEMMA WriteRowInv ==
    ASSUME RepoInv, NEW p \in Procs, call[p].step \in {"dbUpdate", "dbCancel"},
           NEW row, db[call[p].id] # NoRow => row \in Rows /\ Settled(row),
           WriteRow(p, row), UNCHANGED ctx
    PROVE  RepoInv'
<1> DEFINE id == call[p].id
<1> USE DEF RepoInv, WriteRow
<1>1. id \in Ids /\ UNCHANGED cache
    BY DEF RepoTypeOK
<1>2. /\ call' \in [Procs -> Calls]
      /\ call'[p].op = call[p].op /\ call'[p].id = id
      /\ call'[p].step \in {"cacheDel", "done"} /\ call'[p].row = NoRow
      /\ \A q \in Procs \ {p} : call'[q] = call[q]
    BY <1>1, AdvanceType DEF GoTo, Finish, RepoTypeOK, Steps, Results
<1>3. \/ UNCHANGED <<db, excuse>>
      \/ /\ db[id] # NoRow
         /\ Commit(id, row, {}) \/ Commit(id, row, {"lostDel"})
         /\ call'[p].step = "cacheDel" \/ Commit(id, row, {"lostDel"})
    BY <1>1, AdvanceType DEF GoTo, RepoTypeOK, Steps, Results
<1>4. /\ db' \in [Ids -> Rows \cup {NoRow}]
      /\ excuse' \in [Ids -> SUBSET {"straddle", "lostDel"}]
      /\ \A i \in Ids \ {id} : db'[i] = db[i] /\ excuse'[i] = excuse[i]
      /\ excuse[id] # {} => excuse'[id] # {}
      /\ \/ db'[id] = db[id]
         \/ /\ db[id] # NoRow /\ db'[id] \in Rows /\ Settled(db'[id])
            /\ Filling(id) => excuse'[id] # {}
            /\ call'[p].step = "cacheDel" \/ excuse'[id] # {}
  <2>1. CASE UNCHANGED <<db, excuse>>
      BY <2>1 DEF RepoTypeOK
  <2>2. ASSUME NEW why \in SUBSET {"straddle", "lostDel"}, db[id] # NoRow,
               Commit(id, row, why)
        PROVE  /\ db' \in [Ids -> Rows \cup {NoRow}]
               /\ excuse' \in [Ids -> SUBSET {"straddle", "lostDel"}]
               /\ \A i \in Ids \ {id} : db'[i] = db[i] /\ excuse'[i] = excuse[i]
               /\ db'[id] = row
               /\ why \subseteq excuse'[id] /\ excuse[id] \subseteq excuse'[id]
               /\ Filling(id) => "straddle" \in excuse'[id]
      BY <1>1, <2>2 DEF Commit, RepoTypeOK
  <2>3. CASE db[id] # NoRow /\ Commit(id, row, {"lostDel"})
      BY <1>1, <2>2, <2>3
  <2>4. CASE db[id] # NoRow /\ Commit(id, row, {}) /\ call'[p].step = "cacheDel"
      BY <1>1, <2>2, <2>4
  <2> QED BY <1>3, <2>1, <2>3, <2>4
<1>5. RepoTypeOK'
    BY <1>1, <1>2, <1>4, FaultType DEF RepoTypeOK, RoundTrip, RoundTripFails
<1>6. InsertIsFresh'
    BY <1>1, <1>2, <1>4 DEF InsertIsFresh, RepoTypeOK
<1>7. FillIsCurrent'
    BY <1>1, <1>2, <1>4 DEF FillIsCurrent, RepoTypeOK, Filling
<1>8. CacheNeverAhead'
    BY <1>1, <1>2, <1>4, RowFacts DEF CacheNeverAhead, ReadRow, RepoTypeOK
<1>9. StaleHasCause'
    BY <1>1, <1>2, <1>4 DEF StaleHasCause
<1> QED BY <1>5, <1>6, <1>7, <1>8, <1>9

LEMMA RepositoryStepInv ==
    ASSUME RepoInv, NEW p \in Procs, RepositoryStep(p)
    PROVE  RepoInv'
<1>1. CASE DbUpdate(p)
  <2>1. call[p].row \in Rows /\ Settled(call[p].row)
      BY <1>1, RowFacts DEF DbUpdate, RepoInv, RepoTypeOK
  <2> QED BY <1>1, <2>1, WriteRowInv DEF DbUpdate, RepositoryStep
<1>2. CASE DbCancel(p)
  <2>1. db[call[p].id] # NoRow => db[call[p].id] \in Rows
      BY <1>2 DEF DbCancel, RepoInv, RepoTypeOK
  <2> QED BY <1>2, <2>1, RowFacts, WriteRowInv DEF DbCancel, RepositoryStep
<1> QED BY <1>1, <1>2, CacheHitInv, CacheMissInv, DbGetInv, CacheSetInv,
           DbInsertInv, CacheDelInv DEF RepositoryStep

-----------------------------------------------------------------------------
(* The other steps.                                                        *)

LEMMA ClientCallsInv ==
    ASSUME RepoInv, NEW p \in Procs, ClientCalls(p)
    PROVE  RepoInv'
<1> USE DEF RepoInv, ClientCalls
<1>1. PICK id \in Ids, op \in {"Save", "GetByID", "Update", "Delete"},
           row \in Rows \cup {NoRow},
           step \in {"dbInsert", "cacheGet", "dbUpdate", "dbCancel"} :
        /\ Begin(p, op, id, row, step)
        /\ step = "dbInsert" => /\ op = "Save" /\ row = NewRow /\ db[id] = NoRow
                                /\ \A q \in Procs : call[q].id # id
        /\ step = "cacheGet" => op = "GetByID"
        /\ step = "dbUpdate" => row \in ConsumerRows
    BY RowFacts DEF CallSave, CallGetByID, CallUpdate, CallDelete
<1>2. /\ call' \in [Procs -> Calls]
      /\ call'[p].op = op /\ call'[p].id = id
      /\ call'[p].step = step /\ call'[p].row = row
      /\ \A q \in Procs \ {p} : call'[q] = call[q]
    BY <1>1 DEF Begin, RepoTypeOK, Calls, Operations, Steps, Results
<1>3. RepoTypeOK'
    BY <1>1, <1>2 DEF RepoTypeOK
<1>4. InsertIsFresh' /\ FillIsCurrent'
    BY <1>1, <1>2 DEF InsertIsFresh, FillIsCurrent
<1>5. CacheNeverAhead'
    BY <1>1, <1>2 DEF CacheNeverAhead, ReadRow
<1>6. StaleHasCause'
    BY <1>1, <1>2 DEF StaleHasCause, Begin
<1> QED BY <1>3, <1>4, <1>5, <1>6

LEMMA ElsewhereInv ==
    ASSUME faults \in 0 .. MaxFaults, Elsewhere
    PROVE  faults' \in 0 .. MaxFaults
BY FaultType DEF Elsewhere

LEMMA ClientReturnsInv ==
    ASSUME RepoInv, NEW p \in Procs, ClientReturns(p)
    PROVE  RepoInv'
<1> USE DEF RepoInv, ClientReturns
<1>1. /\ call' \in [Procs -> Calls]
      /\ call'[p] = NoCall
      /\ \A q \in Procs \ {p} : call'[q] = call[q]
    BY DEF Return, RepoTypeOK, Calls, NoCall, Operations, Steps, Results
<1>2. ctx' \in [Procs -> Contexts]
    BY DEF RepoTypeOK, Contexts
<1>3. RepoTypeOK'
    BY <1>1, <1>2, ElsewhereInv DEF RepoTypeOK, NoCall
<1>4. InsertIsFresh' /\ FillIsCurrent' /\ StaleHasCause'
    BY <1>1 DEF InsertIsFresh, FillIsCurrent, StaleHasCause, NoCall
<1>5. CacheNeverAhead'
    BY <1>1 DEF CacheNeverAhead, ReadRow, NoCall
<1> QED BY <1>3, <1>4, <1>5

LEMMA SetContextsInv ==
    ASSUME RepoInv, NEW P \in SUBSET Procs, NEW value \in Contexts,
           SetContexts(P, value), faults' \in 0 .. MaxFaults
    PROVE  RepoInv'
<1> USE DEF RepoInv, SetContexts
<1>1. RepoTypeOK'
    BY DEF RepoTypeOK
<1>2. InsertIsFresh' /\ FillIsCurrent' /\ StaleHasCause' /\ CacheNeverAhead'
    BY DEF InsertIsFresh, FillIsCurrent, StaleHasCause, CacheNeverAhead, ReadRow
<1> QED BY <1>1, <1>2

(* A context ends, or a stop closes the clients.                           *)
LEMMA ContextsInv ==
    ASSUME RepoInv, NEW P \in SUBSET Procs,
           \/ ContextsDone(P) /\ Elsewhere
           \/ CacheCloses(P) \/ StoresClose(P)
    PROVE  RepoInv'
<1>1. {"done", "cacheClosed", "closed"} \subseteq Contexts
    BY DEF Contexts
<1>2. faults \in 0 .. MaxFaults
    BY DEF RepoInv, RepoTypeOK
<1>3. CASE ContextsDone(P) /\ Elsewhere
    BY <1>1, <1>2, <1>3, ElsewhereInv, SetContextsInv DEF ContextsDone
<1>4. CASE CacheCloses(P)
    BY <1>1, <1>2, <1>4, FaultType, SetContextsInv DEF CacheCloses
<1>5. CASE StoresClose(P)
    BY <1>1, <1>2, <1>5, SetContextsInv DEF StoresClose
<1> QED BY <1>3, <1>4, <1>5

LEMMA CrashCallsInv ==
    ASSUME RepoInv, NEW P \in SUBSET Procs, CrashCalls(P)
    PROVE  RepoInv'
<1> USE DEF RepoInv, CrashCalls
<1>1. /\ call' \in [Procs -> Calls]
      /\ \A q \in Procs : call'[q] = NoCall \/ (q \notin P /\ call'[q] = call[q])
    BY DEF RepoTypeOK, Calls, NoCall, Operations, Steps, Results
<1>2. /\ excuse' \in [Ids -> SUBSET {"straddle", "lostDel"}]
      /\ \A i \in Ids : /\ excuse[i] # {} => excuse'[i] # {}
                        /\ \A p \in P : call[p].step = "cacheDel" /\ call[p].id = i
                                            => excuse'[i] # {}
    BY DEF RepoTypeOK
<1>3. RepoTypeOK'
    BY <1>1, <1>2, FaultType DEF RepoTypeOK, NoCall, Contexts
<1>4. InsertIsFresh'
    BY <1>1 DEF InsertIsFresh, NoCall
<1>5. FillIsCurrent'
    BY <1>1, <1>2 DEF FillIsCurrent, RepoTypeOK, NoCall
<1>6. CacheNeverAhead'
    BY <1>1 DEF CacheNeverAhead, ReadRow, NoCall
<1>7. StaleHasCause'
    BY <1>1, <1>2 DEF StaleHasCause
<1> QED BY <1>3, <1>4, <1>5, <1>6, <1>7

LEMMA CacheExpireInv ==
    ASSUME RepoInv, NEW id \in Ids, CacheExpire(id)
    PROVE  RepoInv'
<1> USE DEF RepoInv, CacheExpire
<1>1. RepoTypeOK'
    BY DEF RepoTypeOK
<1>2. InsertIsFresh' /\ FillIsCurrent' /\ StaleHasCause'
    BY DEF RepoTypeOK, InsertIsFresh, FillIsCurrent, StaleHasCause
<1>3. CacheNeverAhead'
    BY RowFacts DEF RepoTypeOK, CacheNeverAhead, ReadRow
<1> QED BY <1>1, <1>2, <1>3

LEMMA NextInv == RepoInv /\ [RepoNext]_<<repoVars, faults>> => RepoInv'
<1> SUFFICES ASSUME RepoInv, [RepoNext]_<<repoVars, faults>> PROVE RepoInv'
    OBVIOUS
<1>1. CASE Elsewhere /\ UNCHANGED repoVars
  <2>1. RepoTypeOK'
      BY <1>1, ElsewhereInv DEF RepoInv, RepoTypeOK, repoVars
  <2>2. InsertIsFresh' /\ FillIsCurrent' /\ StaleHasCause' /\ CacheNeverAhead'
      BY <1>1 DEF RepoInv, InsertIsFresh, FillIsCurrent, StaleHasCause,
                  CacheNeverAhead, ReadRow, repoVars
  <2> QED BY <2>1, <2>2 DEF RepoInv
<1>2. CASE UNCHANGED <<repoVars, faults>>
    BY <1>1, <1>2 DEF Elsewhere
<1> QED BY <1>1, <1>2, ClientCallsInv, RepositoryStepInv, ClientReturnsInv,
           ContextsInv, CrashCallsInv, CacheExpireInv DEF RepoNext

-----------------------------------------------------------------------------
(* RepoInv is an invariant of the repository under arbitrary clients.      *)
THEOREM RepositoryInvariant == RepoSpec => []RepoInv
BY InitInv, NextInv, PTL DEF RepoSpec

(* The state keeps its type.                                               *)
THEOREM RepositoryTypeCorrect == RepoSpec => []RepoTypeOK
<1>1. RepoInv => RepoTypeOK
    BY DEF RepoInv
<1> QED BY <1>1, RepositoryInvariant, PTL

(* An outcome found in the cache, or read through it, is backed by a row   *)
(* of the table that has one: CachedNotificationRepository never reports a *)
(* notification over that may still be sent.                               *)
THEOREM CacheIsNeverAhead == RepoSpec => []CacheNeverAhead
<1>1. RepoInv => CacheNeverAhead
    BY DEF RepoInv
<1> QED BY <1>1, RepositoryInvariant, PTL

(* A cached row that differs from the table's is about to be deleted, or   *)
(* goes back to a fill that straddled a write or to an invalidation that   *)
(* was never made.                                                         *)
THEOREM StalenessHasCause == RepoSpec => []StaleHasCause
<1>1. RepoInv => StaleHasCause
    BY DEF RepoInv
<1> QED BY <1>1, RepositoryInvariant, PTL
=============================================================================
