---------------------------- MODULE LmdbSessions ----------------------------
(***************************************************************************)
(* The sessions of one partition group over LMDB: LmdbSessionProvider      *)
(* (lmdb_session.py), its two AsyncThreadPools of single-threaded          *)
(* AsyncExecutors (threadpool.py), the batches run on them (lmdb_batch.py) *)
(* and the closing of the storage (lmdb_storage.py).                       *)
(*                                                                         *)
(* Tasks of the event loop open sessions; each session borrows an executor *)
(* and posts its transaction's work to that executor's thread, one item at *)
(* a time.  A task may be cancelled at any await.  A writer changes one    *)
(* record and its digest cell in two batches of one transaction; a reader  *)
(* walks the records page by page, one read session per page, with an      *)
(* exclusive cursor, as obligation_page, root_page, bucket_page, log_page  *)
(* and owned_keys do.                                                      *)
(***************************************************************************)
EXTENDS LmdbCursor

CONSTANTS Writers,      \* tasks that open write sessions
          Readers,      \* tasks that open read sessions
          Records,      \* record numbers, the last byte of a key
          Stored,       \* the records stored initially
          max_workers,  \* max_workers["r"], max_workers["w"]: the pool sizes
          Limit,        \* the page size of a reader
          MaxSessions,  \* bound: the sessions of each task
          MaxCancels,   \* bound: cancellations of tasks
          MaxFails      \* bound: errors raised by LMDB

VARIABLES db,      \* the committed keys
          env,     \* "open" until the environment is closed
          pool,    \* AsyncThreadPool: closed, permits of _sema, its waiters
          free,    \* the executors in `free`
          worker,  \* the thread of each executor: "none", "live", "dead"
          queue,   \* the queue of each executor
          txn,     \* the transaction open on each executor's thread
          pc,      \* where each task is suspended
          ex,      \* the executor each task has borrowed
          stage,   \* the batches the task's session has completed
          res,     \* the result delivered to each task's awaited future
          scan,    \* the walk of each reader
          closer,  \* the task closing the storage
          used     \* sessions, cancels and fails so far

vars == <<db, env, pool, free, worker, queue, txn, pc, ex, stage, res, scan, closer, used>>
sessionVars == <<pc, ex, stage, res>>

Tasks == Writers \cup Readers
Pools == {"r", "w"}
PoolOf(c) == IF c \in Writers THEN "w" ELSE "r"
Execs == UNION {{p} \X (1 .. max_workers[p]) : p \in Pools}
NoExec == <<"none", 0>>

RecordKey(i) == <<1, i>>
DigestKey(i) == <<2, i>>
Pair(i) == {RecordKey(i), DigestKey(i)}

NoTxn == [c |-> "none", write |-> FALSE, view |-> {}, held |-> FALSE, rec |-> 0, put |-> FALSE]
Item(c, op) == [c |-> c, op |-> op, fut |-> "awaited"]
NoScan == [cursor |-> NoKey, seen |-> <<>>, page |-> <<>>, kept |-> {}, done |-> FALSE]

-----------------------------------------------------------------------------
\* AsyncExecutor.execute: queue an item and await its future.
execute(e, c, op) == queue' = [queue EXCEPT ![e] = Append(@, Item(c, op))]

\* The future the task was awaiting: cancelled with the task, or kept by a
\* shield and then read by no one.
Forget(q, c, how) ==
  [i \in DOMAIN q |-> IF q[i].c = c /\ q[i].fut = "awaited"
                        THEN [q[i] EXCEPT !.fut = how] ELSE q[i]]

\* asyncio.Semaphore.release: the first waiter, a task or the closer, gets it.
Released(p) ==
  IF pool[p].waiters = <<>>
    THEN pool' = [pool EXCEPT ![p].permits = @ + 1]
    ELSE pool' = [pool EXCEPT ![p].waiters = Tail(@)]
Woken(p) == IF pool[p].waiters = <<>> THEN "none" ELSE Head(pool[p].waiters)

Wake(p, at) ==
  /\ pc' = [c \in Tasks |-> IF c = Woken(p) THEN "woken" ELSE at[c]]
  /\ closer' = IF Woken(p) = "closer"
                 THEN [closer EXCEPT !.at = "drain", !.got = @ + 1] ELSE closer

\* The end of AsyncThreadPool.executor: hand the executor back, or stop its
\* thread first when the pool was closed meanwhile.  `q` is its queue.
Leave(c, q) ==
  LET e == ex[c]
      p == PoolOf(c)
  IN  /\ res' = [res EXCEPT ![c] = "none"]
      /\ stage' = [stage EXCEPT ![c] = 0]
      /\ IF pool[p].closed
           THEN /\ queue' = [queue EXCEPT ![e] = Append(q, Item("none", "stop"))]
                /\ pc' = [pc EXCEPT ![c] = "shutdown"]
                /\ UNCHANGED <<pool, free, ex, closer>>
           ELSE /\ queue' = [queue EXCEPT ![e] = q]
                /\ free' = free \cup {e}
                /\ ex' = [ex EXCEPT ![c] = NoExec]
                /\ Released(p)
                /\ Wake(p, [pc EXCEPT ![c] = "idle"])

-----------------------------------------------------------------------------
\* AsyncThreadPool.executor once the semaphore is held, and the begin that
\* LmdbSessionProvider.session posts at once.
Borrow(c) ==
  /\ \E e \in Execs :
       /\ e[1] = PoolOf(c)
       /\ IF \E f \in free : f[1] = PoolOf(c)
            THEN e \in free
            ELSE worker[e] = "none"
       /\ free' = free \ {e}
       /\ worker' = [worker EXCEPT ![e] = "live"]
       /\ ex' = [ex EXCEPT ![c] = e]
       /\ execute(e, c, "begin")

\* LmdbSessionProvider.session: a closed pool refuses, a locked semaphore
\* makes the task wait.
session(c) ==
  LET p == PoolOf(c)
  IN  /\ pc[c] = "idle" /\ used.sessions[c] < MaxSessions[c] /\ ~scan[c].done
      /\ ~pool[p].closed /\ env = "open"
      /\ used' = [used EXCEPT !.sessions[c] = @ + 1]
      /\ IF pool[p].permits > 0 /\ pool[p].waiters = <<>>
           THEN /\ pool' = [pool EXCEPT ![p].permits = @ - 1]
                /\ Borrow(c)
                /\ pc' = [pc EXCEPT ![c] = "begin"]
           ELSE /\ pool' = [pool EXCEPT ![p].waiters = Append(@, c)]
                /\ pc' = [pc EXCEPT ![c] = "waiting"]
                /\ UNCHANGED <<free, worker, ex, queue>>
      /\ UNCHANGED <<db, env, txn, stage, res, scan, closer>>

\* The semaphore was handed over; the pool may have closed while waiting.
Acquired(c) ==
  LET p == PoolOf(c)
  IN  /\ pc[c] = "woken"
      /\ IF pool[p].closed
           THEN /\ Released(p)
                /\ Wake(p, [pc EXCEPT ![c] = "idle"])
                /\ UNCHANGED <<free, worker, ex, queue>>
           ELSE /\ Borrow(c)
                /\ pc' = [pc EXCEPT ![c] = "begin"]
                /\ UNCHANGED <<pool, closer>>
      /\ UNCHANGED <<db, env, txn, stage, res, scan, used>>

-----------------------------------------------------------------------------
\* Mutant of Done: the exception of an item is not posted to the loop.
DoneSilently(e, outcome) ==
  LET item == Head(queue[e])
  IN  /\ queue' = [queue EXCEPT ![e] = Tail(@)]
      /\ res' = IF item.fut = "awaited" /\ outcome = "ok"
                  THEN [res EXCEPT ![item.c] = outcome] ELSE res

\* AsyncExecutor._worker takes one item, runs it and posts its outcome to the
\* loop; `outcome` reaches the task only while it awaits that future.
Done(e, outcome) ==
  LET item == Head(queue[e])
  IN  /\ queue' = [queue EXCEPT ![e] = Tail(@)]
      /\ res' = IF item.fut = "awaited" THEN [res EXCEPT ![item.c] = outcome] ELSE res

\* An item an LMDB error ends.
Fault == /\ used.fails < MaxFails
         /\ used' = [used EXCEPT !.fails = @ + 1]

\* Only one write transaction is open on the environment; a second begin
\* blocks its thread.
WriteFree == \A e \in Execs : ~txn[e].write

\* The thread holds the transaction begin returned until its next result, so
\* one whose session is gone stays open; a read transaction left this way is
\* replaced by the next.
RunBegin(e, item) ==
  LET c == item.c
  IN  /\ item.op = "begin"
      /\ c \in Writers => WriteFree
      /\ \/ /\ txn' = [txn EXCEPT ![e] = [NoTxn EXCEPT !.c = c, !.write = c \in Writers,
                                             !.view = db, !.held = item.fut = "awaited"]]
            /\ scan' = IF c \in Readers /\ item.fut = "awaited" /\ scan[c].cursor = NoKey
                         THEN [scan EXCEPT ![c].kept = {k \in db : IsPrefix(<<1>>, k)}]
                         ELSE scan
            /\ Done(e, "ok")
            /\ UNCHANGED used
         \/ /\ Fault
            /\ Done(e, "fail")
            /\ UNCHANGED <<txn, scan>>
      /\ UNCHANGED db

\* LmdbBatch._flush: the first batch writes or deletes a record, the second
\* its digest cell.  A batch may fail before or after it changed the view.
Changed(t, key) ==
  [t EXCEPT !.view = IF t.put THEN @ \cup {key} ELSE @ \ {key}]
RunFlush(e, item) ==
  /\ item.op \in {"insert", "digest"}
  /\ \E i \in Records, b \in BOOLEAN :
       LET t == IF item.op = "insert"
                  THEN Changed([txn[e] EXCEPT !.rec = i, !.put = b], RecordKey(i))
                  ELSE Changed(txn[e], DigestKey(txn[e].rec))
       IN  \/ /\ txn' = [txn EXCEPT ![e] = t]
              /\ Done(e, "ok")
              /\ UNCHANGED used
           \/ /\ Fault
              /\ txn' \in {txn, [txn EXCEPT ![e] = t]}
              /\ Done(e, "fail")
  /\ UNCHANGED <<db, scan>>

RunPage(e, item) ==
  /\ item.op = "page"
  /\ LET page == list(txn[e].view, <<1>>, scan[item.c].cursor, Limit, FALSE)
     IN  scan' = [scan EXCEPT ![item.c].page = page]
  /\ Done(e, "ok")
  /\ UNCHANGED <<db, txn, used>>

RunFinish(e, item) ==
  /\ item.op \in {"commit", "abort"}
  /\ txn' = [txn EXCEPT ![e] = NoTxn]
  /\ \/ /\ db' = IF item.op = "commit" THEN txn[e].view ELSE db
        /\ Done(e, "ok")
        /\ UNCHANGED used
     \/ /\ item.op = "commit" /\ Fault
        /\ Done(e, "fail")
        /\ UNCHANGED db
  /\ scan' = [c \in Tasks |-> [scan[c] EXCEPT !.kept = @ \cap db']]

\* A cancelled future is skipped; the None that shutdown queues ends the
\* thread and drops what its frame still holds.
RunStop(e, item) ==
  /\ queue' = [queue EXCEPT ![e] = Tail(@)]
  /\ item.op = "stop"
  /\ worker' = [worker EXCEPT ![e] = "dead"]
  /\ txn' = [txn EXCEPT ![e] = NoTxn]
  /\ UNCHANGED <<db, res, scan, used>>

Skip(e) ==
  /\ queue' = [queue EXCEPT ![e] = Tail(@)]
  /\ UNCHANGED <<db, worker, txn, res, scan, used>>

_worker(e) ==
  /\ worker[e] = "live" /\ queue[e] # <<>>
  /\ LET item == Head(queue[e])
     IN  IF item.fut = "cancelled"
           THEN Skip(e)
           ELSE \/ RunStop(e, item)
                \/ /\ \/ RunBegin(e, item)
                      \/ RunFlush(e, item)
                      \/ RunPage(e, item)
                      \/ RunFinish(e, item)
                   /\ UNCHANGED worker
  /\ UNCHANGED <<env, pool, free, pc, ex, stage, closer>>

-----------------------------------------------------------------------------
\* The session's body, then its end: commit for a writer, abort for a reader.
Steps(c) == IF c \in Writers THEN <<"insert", "digest", "commit">> ELSE <<"page", "abort">>

Submit(c, op, at) ==
  /\ execute(ex[c], c, op)
  /\ pc' = [pc EXCEPT ![c] = at]
  /\ res' = [res EXCEPT ![c] = "none"]

\* A scan whose session did not end normally is lost with its task.
Abandon(c) == scan' = [scan EXCEPT ![c] = NoScan]

\* The awaited begin or batch returned: post the next step of the session, or
\* the abort of `except BaseException` when it raised or the body does.
Proceed(c) ==
  LET s == IF pc[c] = "begin" THEN 0 ELSE stage[c] + 1
      op == Steps(c)[s + 1]
  IN  /\ pc[c] \in {"begin", "working"} /\ res[c] = "ok"
      /\ stage' = [stage EXCEPT ![c] = s]
      /\ \/ /\ Submit(c, op, IF s + 1 = Len(Steps(c)) THEN "finishing" ELSE "working")
            /\ UNCHANGED used
         \/ Submit(c, "abort", "aborting") /\ Fault
      /\ UNCHANGED <<db, env, pool, free, worker, txn, ex, scan, closer>>

\* Mutant of Raised: the result of the batch is not read, so that the session
\* goes on although a batch failed.
RaisedUnread(c) ==
  /\ res[c] = "fail"
  /\ \/ /\ pc[c] = "working"
        /\ Submit(c, "commit", "finishing")
        /\ UNCHANGED <<pool, free, ex, stage, closer>>
     \/ pc[c] = "begin" /\ Leave(c, queue[ex[c]])
  /\ UNCHANGED <<db, env, worker, txn, scan, used>>

Raised(c) ==
  /\ res[c] = "fail"
  /\ \/ /\ pc[c] = "working"
        /\ Submit(c, "abort", "aborting")
        /\ UNCHANGED <<pool, free, ex, stage, closer>>
     \/ pc[c] = "begin" /\ Leave(c, queue[ex[c]])
  /\ UNCHANGED <<db, env, worker, txn, scan, used>>

\* The finalising item ran; a reader's page is delivered to its caller.
Finished(c) ==
  /\ pc[c] \in {"finishing", "aborting"} /\ res[c] # "none"
  /\ Leave(c, queue[ex[c]])
  /\ IF c \in Readers /\ pc[c] = "finishing"
       THEN LET w == scan[c]
                cursor == Resume(w.page, Limit)
            IN  scan' = [scan EXCEPT ![c] =
                  [w EXCEPT !.cursor = cursor, !.seen = @ \o w.page,
                            !.page = <<>>, !.done = cursor = NoKey]]
       ELSE Abandon(c)
  /\ UNCHANGED <<db, env, worker, txn, used>>

\* The executor handed back to a closed pool has stopped.
Stopped(c) ==
  /\ pc[c] = "shutdown" /\ worker[ex[c]] = "dead"
  /\ ex' = [ex EXCEPT ![c] = NoExec]
  /\ Released(PoolOf(c))
  /\ Wake(PoolOf(c), [pc EXCEPT ![c] = "idle"])
  /\ UNCHANGED <<db, env, free, worker, queue, txn, stage, res, scan, used>>

\* The task is cancelled at the await it is suspended in.
CancelWaiting(c) ==
  /\ pc[c] = "waiting"
  /\ pool' = [pool EXCEPT ![PoolOf(c)].waiters = SelectSeq(@, LAMBDA w : w # c)]
  /\ pc' = [pc EXCEPT ![c] = "idle"]
  /\ UNCHANGED <<free, queue, txn, ex, stage, res, closer>>
CancelWoken(c) ==
  /\ pc[c] = "woken"
  /\ Released(PoolOf(c))
  /\ Wake(PoolOf(c), [pc EXCEPT ![c] = "idle"])
  /\ UNCHANGED <<free, queue, txn, ex, stage, res>>

\* The shield lets begin run although nobody reads its result.
CancelBegin(c) ==
  /\ pc[c] = "begin"
  /\ Leave(c, Forget(queue[ex[c]], c, "orphaned"))
  /\ txn' = IF res[c] = "ok" THEN [txn EXCEPT ![ex[c]].held = FALSE] ELSE txn
CancelWorking(c) ==
  /\ pc[c] = "working"
  /\ queue' = [queue EXCEPT ![ex[c]] = Append(Forget(@, c, "cancelled"), Item(c, "abort"))]
  /\ pc' = [pc EXCEPT ![c] = "aborting"]
  /\ res' = [res EXCEPT ![c] = "none"]
  /\ UNCHANGED <<pool, free, txn, ex, stage, closer>>
CancelFinish(c) ==
  /\ pc[c] \in {"finishing", "aborting"}
  /\ Leave(c, Forget(queue[ex[c]], c, "orphaned"))
  /\ UNCHANGED txn

\* Nothing shields the stop of an executor: the permit is never released.
CancelShutdown(c) ==
  /\ pc[c] = "shutdown"
  /\ pc' = [pc EXCEPT ![c] = "idle"]
  /\ ex' = [ex EXCEPT ![c] = NoExec]
  /\ UNCHANGED <<pool, free, queue, txn, stage, res, closer>>

Cancel(c) ==
  /\ used.cancels < MaxCancels
  /\ used' = [used EXCEPT !.cancels = @ + 1]
  /\ \/ CancelWaiting(c) \/ CancelWoken(c) \/ CancelBegin(c)
     \/ CancelWorking(c) \/ CancelFinish(c) \/ CancelShutdown(c)
  /\ Abandon(c)
  /\ UNCHANGED <<db, env, worker>>

-----------------------------------------------------------------------------
\* LMDBStorage.close and LmdbSessionProvider.close: the read pool, the write
\* pool, the environment.
close ==
  /\ closer.at = "idle"
  /\ closer' = [closer EXCEPT !.at = "drain"]
  /\ pool' = [pool EXCEPT !["r"].closed = TRUE]
  /\ UNCHANGED <<db, env, free, worker, queue, txn, sessionVars, scan, used>>

\* AsyncThreadPool.close takes every permit.
Drain ==
  LET p == closer.pool
  IN  /\ closer.at = "drain" /\ closer.got < max_workers[p]
      /\ IF pool[p].permits > 0 /\ pool[p].waiters = <<>>
           THEN /\ pool' = [pool EXCEPT ![p].permits = @ - 1]
                /\ closer' = [closer EXCEPT !.got = @ + 1]
           ELSE /\ pool' = [pool EXCEPT ![p].waiters = Append(@, "closer")]
                /\ closer' = [closer EXCEPT !.at = "queued"]
      /\ UNCHANGED <<db, env, free, worker, queue, txn, sessionVars, scan, used>>

\* Mutant of StopFree: the threads are told to stop and not waited for.
StopFreeUnjoined ==
  LET p == closer.pool
      mine == {e \in free : e[1] = p}
  IN  /\ closer.at = "drain" /\ closer.got = max_workers[p]
      /\ queue' = [e \in Execs |-> IF e \in mine THEN Append(queue[e], Item("none", "stop"))
                                  ELSE queue[e]]
      /\ free' = free \ mine
      /\ IF p = "r"
           THEN /\ pool' = [pool EXCEPT !["w"].closed = TRUE]
                /\ closer' = [closer EXCEPT !.pool = "w", !.got = 0]
           ELSE closer' = [closer EXCEPT !.at = "env"] /\ UNCHANGED pool
      /\ UNCHANGED <<db, env, worker, txn, sessionVars, scan, used>>

\* ... then stops the free executors one after the other ...
StopFree ==
  LET p == closer.pool
      mine == {e \in free : e[1] = p}
  IN  /\ closer.at = "drain" /\ closer.got = max_workers[p]
      /\ IF mine # {}
           THEN /\ \E e \in mine :
                     /\ queue' = [queue EXCEPT ![e] = Append(@, Item("none", "stop"))]
                     /\ closer' = [closer EXCEPT !.at = "join", !.ex = e]
                /\ UNCHANGED pool
           ELSE /\ IF p = "r"
                     THEN /\ pool' = [pool EXCEPT !["w"].closed = TRUE]
                          /\ closer' = [closer EXCEPT !.pool = "w", !.got = 0]
                     ELSE closer' = [closer EXCEPT !.at = "env"] /\ UNCHANGED pool
                /\ UNCHANGED queue
      /\ UNCHANGED <<db, env, free, worker, txn, sessionVars, scan, used>>
Join ==
  /\ closer.at = "join" /\ worker[closer.ex] = "dead"
  /\ free' = free \ {closer.ex}
  /\ closer' = [closer EXCEPT !.at = "drain", !.ex = NoExec]
  /\ UNCHANGED <<db, env, pool, worker, queue, txn, sessionVars, scan, used>>

\* ... and the environment is closed.
CloseEnv ==
  /\ closer.at = "env"
  /\ env' = "closed"
  /\ closer' = [closer EXCEPT !.at = "done"]
  /\ UNCHANGED <<db, pool, free, worker, queue, txn, sessionVars, scan, used>>

-----------------------------------------------------------------------------
Init ==
  /\ db = UNION {Pair(i) : i \in Stored}
  /\ env = "open"
  /\ pool = [p \in Pools |-> [closed |-> FALSE, permits |-> max_workers[p], waiters |-> <<>>]]
  /\ free = {}
  /\ worker = [e \in Execs |-> "none"]
  /\ queue = [e \in Execs |-> <<>>]
  /\ txn = [e \in Execs |-> NoTxn]
  /\ pc = [c \in Tasks |-> "idle"]
  /\ ex = [c \in Tasks |-> NoExec]
  /\ stage = [c \in Tasks |-> 0]
  /\ res = [c \in Tasks |-> "none"]
  /\ scan = [c \in Tasks |-> NoScan]
  /\ closer = [at |-> "idle", pool |-> "r", got |-> 0, ex |-> NoExec]
  /\ used = [sessions |-> [c \in Tasks |-> 0], cancels |-> 0, fails |-> 0]

Next ==
  \/ \E c \in Tasks :
       session(c) \/ Acquired(c) \/ Proceed(c) \/ Raised(c) \/ Finished(c)
         \/ Stopped(c) \/ Cancel(c)
  \/ \E e \in Execs : _worker(e)
  \/ close \/ Drain \/ StopFree \/ Join \/ CloseEnv

Spec == Init /\ [][Next]_vars

\* The threads run, and the loop resumes every task whose future is done:
\* weak fairness of Progress, of which CanStep is the enabling condition.
Progress ==
  \/ \E c \in Tasks :
       Acquired(c) \/ Proceed(c) \/ Raised(c) \/ Finished(c) \/ Stopped(c)
  \/ \E e \in Execs : _worker(e)
  \/ Drain \/ StopFree \/ Join \/ CloseEnv
CanStep ==
  \/ \E c \in Tasks : \/ pc[c] = "woken" \/ res[c] # "none"
                      \/ pc[c] = "shutdown" /\ worker[ex[c]] = "dead"
  \/ \E e \in Execs :
       /\ worker[e] = "live" /\ queue[e] # <<>>
       /\ LET item == Head(queue[e])
          IN  item.op = "begin" /\ item.c \in Writers /\ item.fut # "cancelled" => WriteFree
  \/ closer.at \in {"drain", "env"}
  \/ closer.at = "join" /\ worker[closer.ex] = "dead"
FairSpec == Spec /\ ([]<>~CanStep \/ []<><<Progress>>_vars)

-----------------------------------------------------------------------------
\* A transaction begun for a task that was cancelled meanwhile: no session
\* will commit or abort it.
Leaked == \E e \in Execs : txn[e] # NoTxn /\ ~txn[e].held

\* A record and its digest cell are committed together or not at all, whatever
\* batch fails, whichever await the writer is cancelled in, and although a
\* cancelled batch may still run on the thread before the abort.
PairsWhole == \A i \in Records : RecordKey(i) \in db <=> DigestKey(i) \in db

\* Pages read in separate sessions with an exclusive cursor (obligation_page,
\* root_page, bucket_page, log_page, owned_keys) add up to a scan: in order,
\* nothing twice, and nothing missed that was there from its first page to its
\* last, whatever commits in between.
ScanComplete ==
  \A c \in Readers :
    LET seen == scan[c].seen
    IN  /\ \A i \in 1 .. Len(seen) - 1 : Below(seen[i], seen[i + 1])
        /\ scan[c].done => scan[c].kept \subseteq {seen[i] : i \in DOMAIN seen}

\* On every committed keyspace the cursor moves of LmdbTransaction compute what
\* a scan means: a page is the next `limit` keys under the prefix, a reverse
\* page the newest ones, `last` the newest, and the reverse `iter` that
\* latest_hlc makes the highest key of all.
Exact(K) ==
  \A prefix \in {<<1>>, <<2>>}, limit \in 1 .. 3 :
    /\ \A start \in Wanted(K, prefix, NoKey) \cup {NoKey} :
         list(K, prefix, start, limit, FALSE) = PageOf(K, prefix, start, limit)
    /\ keys(K, prefix, NoKey, limit, TRUE) = NewestOf(K, prefix, limit)
    /\ last(K, prefix) = Highest(Wanted(K, prefix, NoKey))
    /\ iter(K, NoKey, NoKey, TRUE, 32, 1) = IF K = {} THEN <<>> ELSE <<Highest(K)>>
CursorsExact == [][db' # db => Exact(db')]_db

\* LmdbSessionProvider.close closes the environment only after every thread
\* has ended: no transaction is open and no commit or abort left behind by a
\* cancelled task is still queued.
ClosedWhenQuiet ==
  env = "closed" => \A e \in Execs : txn[e] = NoTxn /\ queue[e] = <<>>

\* What ends the service of a pool: a leaked write transaction, behind which
\* every later begin of a writer blocks, and a permit lost by a task cancelled
\* while it waited for its executor to stop.
Wedged == \E e \in Execs : txn[e].write /\ ~txn[e].held
PermitLost ==
  LET p == closer.pool
      holders == {c \in Tasks : PoolOf(c) = p /\ pc[c] \notin {"idle", "waiting"}}
  IN  pool[p].permits + Cardinality(holders) + closer.got < max_workers[p]

\* The sessions asked for all end, and so does the closing of the storage:
\* with finitely many of them the group comes to rest, unless a cancellation
\* fell in one of those two windows.
SessionsEnd ==
  []<>(\/ \A c \in Tasks : pc[c] = "idle" /\ closer.at \in {"idle", "done"}
       \/ Wedged \/ PermitLost)

\* The comment in LmdbSessionProvider.session: "If it runs, we get the
\* transaction."
BegunIsHeld == ~Leaked
=============================================================================
