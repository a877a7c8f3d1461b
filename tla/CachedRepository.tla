-------------------------- MODULE CachedRepository --------------------------
(***************************************************************************)
(* CachedNotificationRepository: a cache-aside decorator over PostgreSQL   *)
(* with a Redis cache.  Each repository call of a process is a sequence of *)
(* single round trips (Redis GET/SET/DEL, one SQL statement), and the      *)
(* round trips of different processes interleave.                          *)
(*                                                                         *)
(* call[p] is the call process p is in: which operation, on which id, the  *)
(* round trip it makes next, the row it carries (the argument of Update,   *)
(* or the row it read) and its result.  Every round trip runs under the    *)
(* context ctx[p], through a client that an orderly stop closes: once the  *)
(* one is done or the other closed, each of them returns an error.         *)
(***************************************************************************)
EXTENDS Notification, FaultInjection

CONSTANT Procs    \* goroutines that use the repository

VARIABLES
    db,      \* the notifications table: db[id] is the row, or NoRow
    cache,   \* Redis: cache[id] is the cached row, or NoRow
    call,    \* call[p]: the repository call p is in
    ctx,     \* ctx[p]: what the round trips of p run under
    excuse   \* history: why a cached row may be older than db[id]

repoVars == <<db, cache, call, ctx, excuse>>

Operations == {"none", "Save", "GetByID", "Update", "Delete"}
Steps == {"idle", "cacheGet", "dbGet", "dbInsert", "dbUpdate", "dbCancel",
          "cacheSet", "cacheDel", "done"}
Results == {"none", "ok", "notFound", "error"}
Calls == [op : Operations, id : Ids \cup {NoId}, step : Steps,
          row : Rows \cup {NoRow}, res : Results]
NoCall == [op |-> "none", id |-> NoId, step |-> "idle",
           row |-> NoRow, res |-> "none"]

(* "live"; "done", cancelled or timed out; "cacheClosed", in a stop that   *)
(* has closed the Redis client; "closed", when PostgreSQL's is closed too. *)
Contexts == {"live", "done", "cacheClosed", "closed"}

-----------------------------------------------------------------------------
(* Calls and returns.  A process makes one call at a time.                 *)

Begin(p, op, id, row, step) ==
    /\ call[p].step \in {"idle", "done"}
    /\ call' = [call EXCEPT ![p] = [op |-> op, id |-> id, step |-> step,
                                    row |-> row, res |-> "none"]]

(* The id is the one the INSERT will generate: the id of the model passed  *)
(* to Save is not among the parameters of the statement.                   *)
CallSave(p, id) ==
    /\ db[id] = NoRow
    /\ \A q \in Procs : call[q].id # id
    /\ Begin(p, "Save", id, NewRow, "dbInsert")
CallGetByID(p, id) == Begin(p, "GetByID", id, NoRow, "cacheGet")
CallUpdate(p, id, row) == Begin(p, "Update", id, row, "dbUpdate")
CallDelete(p, id) == Begin(p, "Delete", id, NoRow, "dbCancel")

Advance(p, step, row, res) ==
    call' = [call EXCEPT ![p] = [op |-> @.op, id |-> @.id, step |-> step,
                                 row |-> row, res |-> res]]
GoTo(p, step, row) == Advance(p, step, row, "none")
Finish(p, res, row) == Advance(p, "done", row, res)
Return(p) == call' = [call EXCEPT ![p] = NoCall]

Returned(p, op) == call[p].step = "done" /\ call[p].op = op
Succeeded(p) == call[p].res = "ok"

(* How one round trip can end.                                             *)
Reachable(p) ==
    \/ ctx[p] = "live"
    \/ ctx[p] = "cacheClosed" /\ call[p].step \in {"dbGet", "dbInsert", "dbUpdate", "dbCancel"}
RoundTrip(p) == Reachable(p) /\ UNCHANGED faults
RoundTripFails(p) ==
    \/ ~ Reachable(p) /\ UNCHANGED faults
    \/ Reachable(p) /\ Fault("storage")

-----------------------------------------------------------------------------
(* GetByID: Redis first; on a miss or a Redis error, PostgreSQL, and then  *)
(* the row is put into the cache.                                          *)

CacheHit(p) ==
    /\ call[p].step = "cacheGet"
    /\ cache[call[p].id] # NoRow
    /\ RoundTrip(p)
    /\ Finish(p, "ok", cache[call[p].id])
    /\ UNCHANGED <<db, cache, excuse>>

(* Mutant: redis.Nil is returned to the caller.                            *)
CacheMissReturned(p) ==
    /\ call[p].step = "cacheGet"
    /\ \/ /\ cache[call[p].id] = NoRow /\ RoundTrip(p)
          /\ Finish(p, "notFound", NoRow)
       \/ RoundTripFails(p) /\ GoTo(p, "dbGet", NoRow)
    /\ UNCHANGED <<db, cache, excuse>>

CacheMiss(p) ==
    /\ call[p].step = "cacheGet"
    /\ \/ cache[call[p].id] = NoRow /\ RoundTrip(p)
       \/ RoundTripFails(p)
    /\ GoTo(p, "dbGet", NoRow)
    /\ UNCHANGED <<db, cache, excuse>>

(* Mutant: pgx.ErrNoRows is not told apart from a row.                     *)
DbGetUnchecked(p) ==
    /\ call[p].step = "dbGet"
    /\ \/ RoundTrip(p) /\ GoTo(p, "cacheSet", db[call[p].id])
       \/ RoundTripFails(p) /\ Finish(p, "error", NoRow)
    /\ UNCHANGED <<db, cache, excuse>>

DbGet(p) ==
    /\ call[p].step = "dbGet"
    /\ \/ RoundTrip(p) /\ db[call[p].id] # NoRow
          /\ GoTo(p, "cacheSet", db[call[p].id])
       \/ RoundTrip(p) /\ db[call[p].id] = NoRow
          /\ Finish(p, "notFound", NoRow)
       \/ RoundTripFails(p) /\ Finish(p, "error", NoRow)
    /\ UNCHANGED <<db, cache, excuse>>

(* SET with the TTL.  A failure is logged and the call still succeeds.     *)
CacheSet(p) ==
    /\ call[p].step = "cacheSet"
    /\ \/ RoundTrip(p) /\ cache' = [cache EXCEPT ![call[p].id] = call[p].row]
       \/ RoundTripFails(p)
          /\ cache' \in {cache, [cache EXCEPT ![call[p].id] = call[p].row]}
    /\ Finish(p, "ok", call[p].row)
    /\ UNCHANGED <<db, excuse>>

-----------------------------------------------------------------------------
(* Writes.  A command that returns an error may or may not have been       *)
(* applied: the connection or the context can go between commit and reply. *)

(* A write to id while another process is between reading id and filling   *)
(* the cache: the fill will bring back the row from before the write.      *)
Filling(id) == \E q \in Procs : call[q].step = "cacheSet" /\ call[q].id = id
Commit(id, row, why) ==
    /\ db' = [db EXCEPT ![id] = row]
    /\ excuse' = [excuse EXCEPT ![id] =
            @ \cup why \cup (IF Filling(id) THEN {"straddle"} ELSE {})]

(* Save: INSERT ... RETURNING, then the cache is warmed with the new row.  *)
DbInsert(p) ==
    /\ call[p].step = "dbInsert"
    /\ \/ RoundTrip(p) /\ Commit(call[p].id, call[p].row, {})
          /\ GoTo(p, "cacheSet", call[p].row)
       \/ RoundTripFails(p) /\ Finish(p, "error", NoRow)
          /\ \/ UNCHANGED <<db, excuse>>
             \/ Commit(call[p].id, call[p].row, {})
    /\ UNCHANGED cache

(* Mutant: the cache entry is not deleted.                                 *)
WriteRowOnly(p, row) ==
    /\ \/ RoundTrip(p) /\ db[call[p].id] # NoRow
          /\ Commit(call[p].id, row, {}) /\ Finish(p, "ok", NoRow)
       \/ RoundTripFails(p) /\ Finish(p, "error", NoRow)
          /\ UNCHANGED <<db, excuse>>
    /\ UNCHANGED cache

(* UPDATE ... WHERE id = $1 RETURNING: no status guard.  The cache entry   *)
(* is deleted only after the statement is known to have succeeded.         *)
WriteRow(p, row) ==
    /\ \/ RoundTrip(p) /\ db[call[p].id] # NoRow
          /\ Commit(call[p].id, row, {}) /\ GoTo(p, "cacheDel", NoRow)
       \/ RoundTrip(p) /\ db[call[p].id] = NoRow
          /\ Finish(p, "notFound", NoRow) /\ UNCHANGED <<db, excuse>>
       \/ RoundTripFails(p) /\ Finish(p, "error", NoRow)
          /\ \/ UNCHANGED <<db, excuse>>
             \/ /\ db[call[p].id] # NoRow
                /\ Commit(call[p].id, row, {"lostDel"})
    /\ UNCHANGED cache

(* Mutant: the new row is cached before the statement runs.                *)
DbUpdateCachesFirst(p) ==
    /\ call[p].step = "dbUpdate"
    /\ cache' = [cache EXCEPT ![call[p].id] = call[p].row]
    /\ \/ RoundTrip(p) /\ Commit(call[p].id, call[p].row, {})
          /\ GoTo(p, "cacheDel", NoRow)
       \/ RoundTripFails(p) /\ Finish(p, "error", NoRow)
          /\ UNCHANGED <<db, excuse>>

DbUpdate(p) == call[p].step = "dbUpdate" /\ WriteRow(p, call[p].row)

Cancelled(row) == [row EXCEPT !.status = "cancelled"]
DbCancel(p) ==
    call[p].step = "dbCancel" /\ WriteRow(p, Cancelled(db[call[p].id]))

(* DEL.  A failure is logged and the call still succeeds.                  *)
CacheDel(p) ==
    /\ call[p].step = "cacheDel"
    /\ \/ /\ RoundTrip(p)
          /\ cache' = [cache EXCEPT ![call[p].id] = NoRow]
          /\ UNCHANGED excuse
       \/ /\ RoundTripFails(p)
          /\ excuse' = [excuse EXCEPT ![call[p].id] = @ \cup {"lostDel"}]
          /\ cache' \in {cache, [cache EXCEPT ![call[p].id] = NoRow]}
    /\ Finish(p, "ok", NoRow)
    /\ UNCHANGED db

RepositoryStep(p) ==
    /\ \/ CacheHit(p) \/ CacheMiss(p) \/ DbGet(p) \/ CacheSet(p)
       \/ DbInsert(p) \/ DbUpdate(p) \/ DbCancel(p) \/ CacheDel(p)
    /\ UNCHANGED ctx

-----------------------------------------------------------------------------
(* The surroundings of a call.                                             *)

(* The entry's TTL runs out, or Redis evicts it.                           *)
CacheExpire(id) ==
    /\ cache[id] # NoRow
    /\ cache' = [cache EXCEPT ![id] = NoRow]
    /\ UNCHANGED <<db, call, ctx, excuse, faults>>

SetContexts(P, value) ==
    /\ ctx' = [p \in Procs |-> IF p \in P THEN value ELSE ctx[p]]
    /\ UNCHANGED <<db, cache, call, excuse>>

(* A context shared by the calls of P is cancelled or times out.           *)
ContextsDone(P) ==
    /\ \A p \in P : ctx[p] = "live"
    /\ SetContexts(P, "done")

(* An orderly stop closes the clients of P, which may be in a call.        *)
CacheCloses(P) ==
    /\ \A p \in P : ctx[p] = "live"
    /\ Fault("stop")
    /\ SetContexts(P, "cacheClosed")
StoresClose(P) ==
    /\ \A p \in P : ctx[p] = "cacheClosed"
    /\ SetContexts(P, "closed")
    /\ UNCHANGED faults

(* The operating system process of P ends, by itself or at the end of a    *)
(* stop; its successor starts anew.                                        *)
CrashCalls(P) ==
    /\ \/ Fault("crash")
       \/ (\A p \in P : ctx[p] = "closed") /\ UNCHANGED faults
    /\ call' = [p \in Procs |-> IF p \in P THEN NoCall ELSE call[p]]
    /\ ctx' = [p \in Procs |-> IF p \in P THEN "live" ELSE ctx[p]]
    /\ excuse' = [id \in Ids |->
           IF \E p \in P : call[p].step = "cacheDel" /\ call[p].id = id
           THEN excuse[id] \cup {"lostDel"} ELSE excuse[id]]
    /\ UNCHANGED <<db, cache>>

-----------------------------------------------------------------------------
(* The repository on its own, used by arbitrary processes.                 *)

RepoInit ==
    /\ faults = 0
    /\ db = [id \in Ids |-> NoRow]
    /\ cache = [id \in Ids |-> NoRow]
    /\ call = [p \in Procs |-> NoCall]
    /\ ctx = [p \in Procs |-> "live"]
    /\ excuse = [id \in Ids |-> {}]

(* Only the Save that creates a row knows its id until it returns.         *)
ClientCalls(p) ==
    /\ \E id \in Ids :
          \/ CallSave(p, id)
          \/ /\ \A q \in Procs : call[q].op = "Save" => call[q].id # id
             /\ \/ CallGetByID(p, id)
                \/ CallDelete(p, id)
                \/ \E row \in ConsumerRows : CallUpdate(p, id, row)
    /\ UNCHANGED <<db, cache, ctx, excuse, faults>>

(* Something outside the repository fails, or nothing does.                *)
Elsewhere ==
    \/ UNCHANGED faults
    \/ \E kind \in FaultKinds \ {"storage", "crash", "stop"} : Fault(kind)

(* The client takes the result; a new request gets a context of its own.   *)
ClientReturns(p) ==
    /\ call[p].step \in {"idle", "done"}
    /\ Return(p)
    /\ ctx' \in {ctx, [ctx EXCEPT ![p] = "live"]}
    /\ Elsewhere
    /\ UNCHANGED <<db, cache, excuse>>

RepoNext ==
    \/ UNCHANGED repoVars /\ Elsewhere
    \/ \E p \in Procs : RepositoryStep(p) \/ ClientReturns(p) \/ ClientCalls(p)
    \/ \E P \in SUBSET Procs :
          \/ ContextsDone(P) /\ Elsewhere
          \/ CacheCloses(P) \/ StoresClose(P) \/ CrashCalls(P)
    \/ \E id \in Ids : CacheExpire(id)

RepoSpec == RepoInit /\ [][RepoNext]_<<repoVars, faults>>

-----------------------------------------------------------------------------
(* Type correctness of the repository's state.  Besides the shapes it says *)
(* that a call past its first step has an id, that a row about to be       *)
(* cached or inserted is a real row, and that an Update carries one of the *)
(* rows the consumer writes.                                               *)
RepoTypeOK ==
    /\ faults \in 0 .. MaxFaults
    /\ db \in [Ids -> Rows \cup {NoRow}]
    /\ cache \in [Ids -> Rows \cup {NoRow}]
    /\ call \in [Procs -> Calls]
    /\ ctx \in [Procs -> Contexts]
    /\ excuse \in [Ids -> SUBSET {"straddle", "lostDel"}]
    /\ \A p \in Procs :
          /\ call[p].step # "idle" => call[p].id \in Ids
          /\ call[p].step \in {"cacheGet", "dbGet"} => call[p].op = "GetByID"
          /\ call[p].step = "cacheSet" =>
                call[p].op \in {"GetByID", "Save"} /\ call[p].row \in Rows
          /\ call[p].step = "dbInsert" =>
                call[p].op = "Save" /\ call[p].row = NewRow
          /\ call[p].step = "dbUpdate" => call[p].row \in ConsumerRows

(* The row a GetByID or Save call has read or returns, NoRow if none yet.  *)
ReadRow(p) ==
    IF call[p].op \in {"GetByID", "Save"} /\ call[p].step \in {"cacheSet", "done"}
    THEN call[p].row ELSE NoRow

(* What is known of an id is never ahead of the table: an outcome found in *)
(* the cache, or read by a call, is backed by a row that has an outcome,   *)
(* and no row is cached that the table does not have.  So nobody is told   *)
(* that a notification is over while it is still going to be sent.         *)
CacheNeverAhead ==
    /\ \A id \in Ids :
          /\ cache[id] # NoRow => db[id] # NoRow
          /\ Settled(cache[id]) => Settled(db[id])
    /\ \A p \in Procs :
          ReadRow(p) # NoRow =>
             /\ db[call[p].id] # NoRow
             /\ Settled(ReadRow(p)) => Settled(db[call[p].id])

(* Cache-aside invalidation loses track of a write only in the two ways it *)
(* is known to: a fill that straddled the write, or an invalidation that   *)
(* was never made.  Any other cached row that differs from the table's     *)
(* is about to be deleted by the writer.                                   *)
StaleHasCause ==
    \A id \in Ids :
        cache[id] \notin {NoRow, db[id]} =>
            \/ excuse[id] # {}
            \/ \E p \in Procs : call[p].step = "cacheDel" /\ call[p].id = id

(* The two facts the invariants above rest on.  An INSERT under way is the *)
(* only one for its id, which has no row yet; and a row on its way into    *)
(* the cache is the table's, unless a write that it straddled is on record.*)
InsertIsFresh ==
    \A p \in Procs : call[p].step = "dbInsert" =>
        /\ db[call[p].id] = NoRow
        /\ \A q \in Procs \ {p} :
              call[q].step = "dbInsert" => call[q].id # call[p].id
FillIsCurrent ==
    \A p \in Procs : call[p].step = "cacheSet" =>
        call[p].row = db[call[p].id] \/ excuse[call[p].id] # {}

RepoInv ==
    /\ RepoTypeOK
    /\ InsertIsFresh
    /\ FillIsCurrent
    /\ CacheNeverAhead
    /\ StaleHasCause

(* What the caller of a repository operation may rely on: an id being      *)
(* saved belongs to one Save, a call that returned a row really found one, *)
(* and one that returned from a write left an outcome in the table.        *)
SaveIsAlone ==
    \A p \in Procs :
        /\ call[p].op # "none" => call[p].step # "idle"
        /\ call[p].op = "Save" =>
              \A q \in Procs \ {p} :
                  call[q].op = "Save" => call[q].id # call[p].id
ResultsHold ==
    \A p \in Procs :
        /\ call[p].step \in {"dbUpdate", "dbCancel", "cacheDel"} =>
              call[p].op \in {"Update", "Delete"}
        /\ /\ call[p].op \in {"Save", "GetByID"}
           /\ call[p].step = "done" /\ Succeeded(p)
           => call[p].row \in Rows
        /\ /\ call[p].op \in {"Update", "Delete"}
           /\ call[p].step = "cacheDel" \/ (call[p].step = "done" /\ Succeeded(p))
           => Settled(db[call[p].id])

(* An id that others than the Save which creates it may know of.           *)
Public(id) ==
    /\ db[id] # NoRow
    /\ \A p \in Procs : call[p].op = "Save" => call[p].id # id

(* From now on readers find the outcome, unless a cause for a stale entry  *)
(* is on record.                                                           *)
Published(id) ==
    /\ Settled(db[id])
    /\ Settled(cache[id]) \/ cache[id] = NoRow \/ excuse[id] # {}
DeleteIsPublished ==
    \A p \in Procs :
        call[p].op = "Delete" /\ call[p].step = "done" /\ Succeeded(p) =>
            Published(call[p].id)

CallerInv == SaveIsAlone /\ ResultsHold /\ DeleteIsPublished

(* "The repository decorator handles the cache-aside logic transparently": *)
(* with no call in flight, a read through the cache and a read of the      *)
(* table agree.  Refuted by the race a fill makes with a write, without    *)
(* any fault.                                                              *)
TransparentCache ==
    (\A p \in Procs : call[p].step = "idle") =>
        \A id \in Ids : cache[id] \in {NoRow, db[id]}
=============================================================================
