------------------------------ MODULE DbCalls ------------------------------
(***************************************************************************)
(* The calls of the database layer (src/common/db/db.go): the pool that    *)
(* the first one opens, queries, writes that are tried again, and          *)
(* transactions whose callback makes further calls, on the transaction, on *)
(* a second connection, or in a transaction of their own, and may go on    *)
(* after an error. A transaction begun in a callback is a call beside the  *)
(* one it is nested in: a Caller is a goroutine, or such a call of one.    *)
(*                                                                         *)
(* Outside src/ are database/sql, reduced to its connections and to what a *)
(* context's end does to a waiting call, and the database, which answers a *)
(* statement with success or with an error.  The error's text alone says   *)
(* whether it is worth a retry; it says nothing of whether the statement   *)
(* has been carried out.                                                   *)
(***************************************************************************)
EXTENDS DbMetrics, FiniteSets

CONSTANTS MaxOpen,     \* maxOpenConns
          MaxIdle,     \* maxIdleConns
          MaxRetries,  \* maxRetries
          MaxCalls     \* bound on the calls that are made, in callbacks and outside

ASSUME DbAssumption ==
    /\ IsFiniteSet(Caller)
    /\ MaxOpen \in Nat \ {0}
    /\ MaxIdle \in Nat
    /\ MaxRetries \in Nat \ {0}
    /\ MaxCalls \in Nat

VARIABLES
    once,   \* the singleton: "none", "running", "ready", "failed" (a panic)
    pool,   \* its free connections, those being warmed up, how many were, closed
    call,   \* each caller's call: where it is, and what has become of it
    tx,     \* ... and the transaction it is made in
    inner,  \* ... and the one its callback waits for, or itself
    calls   \* how many calls have been made

vars == <<once, pool, call, tx, inner, calls, metrics>>

Phases == {"idle", "newDB", "open", "warm", "try", "wait", "run", "sleep", "record",
           "begin", "fn", "commit", "rollback", "close"}
Outside == {"query", "write"}      \* Query and Get, Exec and Do
Inside  == {"txquery", "txwrite"}  \* TxGet, TxDo
Writes  == {"write", "txwrite"}
Results == {"ok", "retryable", "error", "panic"}

\* carried: how often the write has been carried out; lost: how often the answer
\* said otherwise.
CallType == [at : Phases, op : Outside \union Inside \union {"tran", "close"},
             late : BOOLEAN, tries : 0 .. MaxRetries, conns : 0 .. 2,
             res : Results, carried : 0 .. MaxRetries, lost : 0 .. MaxRetries]

\* What the database has of a transaction: it is going on ("tx"), was rolled back by
\* the database, so that the session commits each statement ("auto"), or is gone with
\* its connection ("dead"). pending and kept: writes made in it and made durable;
\* told: writes that TxDo has reported; repeated: an attempt was carried out after one
\* that had been too, or that had ended the transaction; failure: whether TxGet or TxDo
\* has failed, and the callback has gone on all the same.
TxType == [open : BOOLEAN, session : {"tx", "auto", "dead"},
           told : Nat, pending : Nat, kept : Nat, repeated : BOOLEAN,
           failure : {"none", "seen", "ignored"}, res : {"ok", "error", "panic", "unknown"}]

NoCall == [at |-> "idle", op |-> "query", late |-> FALSE, tries |-> 0, conns |-> 0,
           res |-> "ok", carried |-> 0, lost |-> 0]
NoTx == [open |-> FALSE, session |-> "tx", told |-> 0, pending |-> 0,
         kept |-> 0, repeated |-> FALSE, failure |-> "none", res |-> "ok"]

DbTypeOK ==
    /\ MetricsTypeOK
    /\ once \in {"none", "running", "ready", "failed"}
    /\ pool \in [free : 0 .. MaxOpen, warming : 0 .. MaxIdle, warmed : 0 .. MaxIdle,
                 closed : BOOLEAN]
    /\ call \in [Caller -> CallType]
    /\ tx \in [Caller -> TxType]
    /\ inner \in [Caller -> Caller]
    /\ calls \in 0 .. MaxCalls

DbInit ==
    /\ MetricsInit
    /\ once = "none"
    /\ pool = [free |-> 0, warming |-> 0, warmed |-> 0, closed |-> FALSE]
    /\ call = [c \in Caller |-> NoCall]
    /\ tx = [c \in Caller |-> NoTx]
    /\ inner = [c \in Caller |-> c]
    /\ calls = 0

At(c, p) == call[c].at = p
Goto(c, p) == call' = [call EXCEPT ![c].at = p]
End(c, p, res) == call' = [call EXCEPT ![c].at = p, ![c].res = res]
Return(c) == call' = [call EXCEPT ![c] = NoCall]

\* Where a call that is over leaves its caller: in its callback, or outside.
Back(c) == IF tx[c].open THEN [NoCall EXCEPT !.at = "fn", !.conns = call[c].conns] ELSE NoCall

-----------------------------------------------------------------------------
(* The singleton and its pool.                                             *)

\* What begins, at p, with nothing left of an earlier call.
Start(c, op, p) ==
    /\ At(c, "idle") /\ calls < MaxCalls /\ (\A b \in Caller \ {c} : inner[b] # c)
    /\ call' = [call EXCEPT ![c] = [NoCall EXCEPT !.at = p, !.op = op]]
    /\ calls' = calls + 1
    /\ tx' = [tx EXCEPT ![c] = NoTx]
    /\ UNCHANGED <<once, pool, metrics>>

\* A call begins, outside any transaction.
Begin(c, op) == Start(c, op, "newDB") /\ UNCHANGED inner

\* What a call does first once it has the instance.
First(op) == CASE op = "tran" -> "begin" [] op = "close" -> "close"
               [] op = "query" -> "wait" [] op = "txquery" -> "run" [] OTHER -> "try"

\* once.Do runs the function for the first caller and blocks the others meanwhile;
\* after a panic it never runs it again, and every call meets a nil instance.
NewDB(c) ==
    /\ At(c, "newDB")
    /\ \/ once = "none" /\ once' = "running" /\ Goto(c, "open")
       \/ once = "ready" /\ Goto(c, First(call[c].op)) /\ UNCHANGED once
       \/ once = "failed" /\ Return(c) /\ UNCHANGED once
    /\ UNCHANGED <<pool, tx, inner, calls, metrics>>

\* sqlx.Connect fails, and the function panics, or the pool is there.
OpenPool(c) ==
    /\ At(c, "open")
    /\ \/ Return(c) /\ once' = "failed" /\ UNCHANGED pool
       \/ Goto(c, "warm") /\ pool' = [pool EXCEPT !.free = MaxOpen] /\ UNCHANGED once
    /\ UNCHANGED <<tx, inner, calls, metrics>>

\* warmupPool, still in the function: it waits for a connection without a deadline
\* and leaves it to a goroutine, or gets none.
Warm(c) ==
    /\ At(c, "warm")
    /\ IF pool.warmed = MaxIdle
       THEN Goto(c, First(call[c].op)) /\ once' = "ready" /\ UNCHANGED pool
       ELSE /\ pool.free > 0
            /\ \/ pool' = [pool EXCEPT !.warmed = @ + 1, !.warming = @ + 1, !.free = @ - 1]
               \/ pool' = [pool EXCEPT !.warmed = @ + 1]
            /\ UNCHANGED <<call, once>>
    /\ UNCHANGED <<tx, inner, calls, metrics>>

\* The goroutine has pinged and closes its connection.
WarmedUp ==
    /\ pool.warming > 0
    /\ pool' = [pool EXCEPT !.warming = @ - 1, !.free = @ + 1]
    /\ UNCHANGED <<once, call, tx, inner, calls, metrics>>

Close(c) ==
    /\ At(c, "close")
    /\ call' = [call EXCEPT ![c] = Back(c)]
    /\ pool' = [pool EXCEPT !.closed = TRUE]
    /\ UNCHANGED <<once, tx, inner, calls, metrics>>

ExpireQuery(c) ==
    /\ call[c].at \in {"try", "wait"} /\ ~call[c].late
    /\ call[c].op \notin Writes
    /\ call' = [call EXCEPT ![c].late = TRUE]
    /\ UNCHANGED <<once, pool, tx, inner, calls, metrics>>

\* The deadline of a call passes (context.WithTimeout), where the call looks at it (what
\* it does to a statement under way is in the answers); a transaction has none.
Expire(c) ==
    /\ call[c].at \in {"try", "wait"} /\ ~call[c].late
    /\ call' = [call EXCEPT ![c].late = TRUE]
    /\ UNCHANGED <<once, pool, tx, inner, calls, metrics>>

-----------------------------------------------------------------------------
(* One call: attempts, connections, the statement, the end.                *)

\* A write that failed in a way that is worth a retry (isRetryableError) sleeps first.
After(c, res) == IF call[c].op \in Writes /\ res = "retryable" THEN "sleep" ELSE "record"

\* The head of DB.retry's loop.
Try(c) ==
    /\ At(c, "try")
    /\ IF call[c].late THEN End(c, "record", "error")
       ELSE Goto(c, IF call[c].op = "write" THEN "wait" ELSE "run")
    /\ UNCHANGED <<once, pool, tx, inner, calls, metrics>>

GetConn(c) ==
    /\ At(c, "wait") /\ pool.free > 0 /\ ~pool.closed
    /\ call' = [call EXCEPT ![c].at = "run", ![c].conns = @ + 1]
    /\ pool' = [pool EXCEPT !.free = @ - 1]
    /\ UNCHANGED <<once, tx, inner, calls, metrics>>

\* The deadline has passed, or the pool is closed. (A new connection that cannot be
\* opened is in Answer: a statement that has not been carried out.)
GetNoConn(c) ==
    /\ At(c, "wait")
    /\ pool.closed \/ call[c].late
    /\ End(c, "record", "error")
    /\ UNCHANGED <<once, pool, tx, inner, calls, metrics>>

\* The database answers a statement outside a transaction; a write may have been
\* carried out though the answer is an error. The connection goes back.
Answer(c) ==
    /\ At(c, "run") /\ call[c].op \in Outside
    /\ \E res \in {"ok", "retryable", "error"}, carried \in {0, 1} :
          /\ call[c].op = "query" => carried = 0 /\ res # "retryable"
          /\ call[c].op = "write" /\ res = "ok" => carried = 1
          /\ call' = [call EXCEPT ![c].at = After(c, res), ![c].res = res,
                                  ![c].conns = @ - 1, ![c].carried = @ + carried,
                                  ![c].lost = IF res # "ok" THEN @ + carried ELSE @]
    /\ pool' = [pool EXCEPT !.free = @ + 1]
    /\ UNCHANGED <<once, tx, inner, calls, metrics>>

\* The back-off after a failed attempt, also after the last one. The loop goes on, or
\* returns the last attempt's error.
WokenPast(c) == [call[c] EXCEPT !.tries = @ + 1, !.at =
    IF call[c].tries + 1 <= MaxRetries THEN "try" ELSE "record"]
WokenNil(c) == [call[c] EXCEPT !.tries = @ + 1,
    !.at = IF call[c].tries + 1 < MaxRetries THEN "try" ELSE "record",
    !.res = IF call[c].tries + 1 < MaxRetries THEN @ ELSE "ok"]
Woken(c) == [call[c] EXCEPT !.tries = @ + 1, !.at =
    IF call[c].tries + 1 < MaxRetries THEN "try" ELSE "record"]
Wake(c) ==
    /\ At(c, "sleep")
    /\ call' = [call EXCEPT ![c] = Woken(c)]
    /\ UNCHANGED <<once, pool, tx, inner, calls, metrics>>

\* What becomes of a failure when TxGet or TxDo fails, and when the callback goes on.
Seen(c) == IF call[c].op \in Inside /\ call[c].res # "ok" /\ tx[c].failure = "none"
           THEN "seen" ELSE tx[c].failure
Ignored(c) == IF tx[c].failure = "none" THEN "none" ELSE "ignored"

\* The deferred recordMetrics; then the call returns to its caller.
Finish(c) ==
    /\ At(c, "record")
    /\ \/ recording[c] = "no" /\ (\E d \in Time : Record(c, d)) /\ UNCHANGED <<call, tx>>
       \/ LoadMax(c) /\ UNCHANGED <<call, tx>>
       \/ /\ StoreMax(c)
          /\ tx' = [tx EXCEPT ![c].failure = Seen(c)]
          /\ call' = [call EXCEPT ![c] = Back(c)]
    /\ UNCHANGED <<once, pool, inner, calls>>

-----------------------------------------------------------------------------
(* Transactions.                                                           *)

\* BeginTxx waits for a connection without a deadline, and BEGIN may fail.
BeginTx(c) ==
    /\ At(c, "begin")
    /\ \/ /\ pool.free > 0 /\ ~pool.closed
          /\ call' = [call EXCEPT ![c].at = "fn", ![c].conns = 1]
          /\ pool' = [pool EXCEPT !.free = @ - 1]
          /\ tx' = [tx EXCEPT ![c].open = TRUE]
       \/ /\ pool.free > 0 \/ pool.closed
          /\ Return(c)
          /\ UNCHANGED <<pool, tx>>
    /\ UNCHANGED <<once, inner, calls, metrics>>

\* The callback makes a call, also after one that failed.
Inner(c, op) ==
    /\ At(c, "fn") /\ inner[c] = c /\ calls < MaxCalls
    /\ call' = [call EXCEPT ![c] = [NoCall EXCEPT !.at = First(op), !.op = op, !.conns = 1]]
    /\ tx' = [tx EXCEPT ![c].failure = IF op \in Inside THEN Ignored(c) ELSE @]
    /\ calls' = calls + 1
    /\ UNCHANGED <<once, pool, inner, metrics>>

\* The callback begins a transaction and waits for it; with it, it goes on as it likes.
Nest(c, d) ==
    /\ At(c, "fn") /\ inner[c] = c /\ c # d
    /\ Start(d, "tran", "begin")
    /\ inner' = [inner EXCEPT ![c] = d]

NestReturns(c) ==
    /\ At(c, "fn") /\ inner[c] # c /\ At(inner[c], "idle")
    /\ inner' = [inner EXCEPT ![c] = c]
    /\ UNCHANGED <<once, pool, call, tx, calls, metrics>>

\* The callback returns nil, whatever its calls did; returns an error; or panics.
CallbackEnds(c) ==
    /\ At(c, "fn") /\ inner[c] = c
    /\ \/ End(c, "commit", "ok") /\ tx' = [tx EXCEPT ![c].failure = Ignored(c)]
       \/ End(c, "rollback", "error") /\ UNCHANGED tx
       \/ End(c, "rollback", "panic") /\ UNCHANGED tx
    /\ UNCHANGED <<once, pool, inner, calls, metrics>>

\* How many writes a statement makes durable at once.
KeptAlways(session, wrote) == wrote
KeptAtOnce(session, wrote) == IF session = "auto" THEN wrote ELSE 0

\* An attempt of TxDo that repeats what was carried out, or what has ended the
\* transaction.
Again(c) == call[c].carried > 0 \/ (tx[c].session = "auto" /\ call[c].tries > 0)

\* The database answers a statement in the transaction. A write that is reported has
\* been carried out, another one may have been; or the database has rolled the
\* transaction back (a deadlock), or the connection is lost, and all that was pending.
TxAnswer(c) ==
    /\ At(c, "run") /\ call[c].op \in Inside
    /\ \E res \in {"ok", "retryable", "error"}, carried \in {0, 1},
          session \in {"tx", "auto", "dead"} :
          LET t == tx[c]
          IN  /\ t.session = "dead" => session = "dead" /\ res = "error"
              /\ t.session = "auto" => session # "tx"
              /\ res = "ok" => session = t.session
              /\ call[c].op = "txquery" => carried = 0 /\ res # "retryable"
              /\ call[c].op = "txwrite" /\ res = "ok" => carried = 1
              /\ carried = 1 => session = "tx" \/ t.session = "auto"
              /\ tx' = [tx EXCEPT ![c] =
                   [t EXCEPT !.session = session,
                       !.told = IF res = "ok" THEN @ + carried ELSE @,
                       !.pending = IF session = "tx" THEN @ + carried ELSE 0,
                       !.kept = @ + KeptAtOnce(t.session, carried),
                       !.repeated = @ \/ (carried = 1 /\ Again(c))]]
              /\ call' = [call EXCEPT ![c].at = After(c, res), ![c].res = res,
                                      ![c].carried = @ + carried,
                                      ![c].lost = IF res # "ok" THEN @ + carried ELSE @]
    /\ UNCHANGED <<once, pool, inner, calls, metrics>>

\* The transaction is over, with this to report and so many more writes kept, and its
\* connection goes back.
Over(c, res, kept) ==
    tx' = [tx EXCEPT ![c] = [NoTx EXCEPT
             !.told = tx[c].told, !.kept = tx[c].kept + kept, !.res = res,
             !.repeated = tx[c].repeated, !.failure = tx[c].failure]]
Released(c) ==
    /\ Return(c)
    /\ pool' = [pool EXCEPT !.free = @ + 1]
    /\ UNCHANGED <<once, inner, calls, metrics>>

\* COMMIT: what is pending becomes durable. It has nothing to do if the transaction
\* is over; its answer may be lost.
Commit(c) ==
    /\ At(c, "commit")
    /\ \E res \in {"ok", "unknown"}, kept \in {0, tx[c].pending} :
          /\ res = "ok" => tx[c].session # "dead" /\ kept = tx[c].pending
          /\ Over(c, res, kept)
    /\ Released(c)

RollbackOnError(c) ==
    /\ At(c, "rollback")
    /\ Over(c, call[c].res, 0)
    /\ IF call[c].res = "panic"
       THEN Goto(c, "idle") /\ UNCHANGED <<once, pool, inner, calls, metrics>>
       ELSE Released(c)

\* ROLLBACK, whether it succeeds or not; a panic goes on.
Rollback(c) ==
    /\ At(c, "rollback")
    /\ Over(c, call[c].res, 0)
    /\ Released(c)

-----------------------------------------------------------------------------
\* What the caller's goroutine does next, the database's answers included.
Step(c) == \/ NewDB(c) \/ OpenPool(c) \/ Warm(c) \/ Close(c)
           \/ Try(c) \/ GetConn(c) \/ GetNoConn(c) \/ Answer(c) \/ Wake(c) \/ Finish(c)
           \/ BeginTx(c) \/ (\E op \in Outside \union Inside \union {"close"} : Inner(c, op))
           \/ NestReturns(c) \/ CallbackEnds(c) \/ TxAnswer(c) \/ Commit(c) \/ Rollback(c)

DbNext == \/ \E c \in Caller : \/ \E op \in Outside \union {"tran", "close"} : Begin(c, op)
                               \/ Step(c)
                               \/ \E d \in Caller : Nest(c, d)
                               \/ Expire(c)
          \/ WarmedUp

DbSpec == DbInit /\ [][DbNext]_vars

(* Goroutines run, the database answers or its connection fails, callbacks end, and *)
(* deadlines pass. A connection that is given back goes to any of those who wait,   *)
(* so that who waits is passed over again and again, but not for ever (SF).         *)
DbFairSpec ==
    /\ DbSpec
    /\ WF_vars(WarmedUp)
    /\ \A c \in Caller : SF_vars(Step(c)) /\ WF_vars(Expire(c))

-----------------------------------------------------------------------------
\* What a write reports is true, however often it was tried (db.go:579-611): after
\* success it has been carried out, once more than the answers that were lost on
\* the way; after an error, as often as answers were lost. Without a lost answer
\* that is once and never.
ReportedWrites ==
    \A c \in Caller :
        call[c].op = "write" /\ At(c, "record") =>
            call[c].carried = call[c].lost + (IF call[c].res = "ok" THEN 1 ELSE 0)

\* A transaction is all or nothing, as it reports (db.go:495-526), also if its callback
\* panicked. COMMIT's own answer may be lost; and two cases are apart: TxDo has
\* repeated a write that had been carried out or had ended the transaction (db.go:454-466);
\* and the callback went on with the transaction, or had it committed, though TxGet or
\* TxDo had failed, since nil commits whatever is left of it (512-525).
TransactionsAtomic ==
    \A c \in Caller :
        At(c, "idle") /\ ~tx[c].repeated /\ tx[c].failure # "ignored" =>
            CASE tx[c].res = "ok"      -> tx[c].kept = tx[c].told
              [] tx[c].res = "unknown" -> tx[c].kept \in {0, tx[c].told}
              [] OTHER                 -> tx[c].kept = 0

\* The first and the second connection of each caller that has them.
Held == {h \in Caller \X {1, 2} : h[2] <= call[h[1]].conns}

Opened == once = "ready" \/ \E c \in Caller : At(c, "warm")

\* No connection is lost: once there is a pool, each is free, being warmed up, or held
\* by a running call, after every error and panic (db.go:113, 260, 505-526).
ConnectionsReturned ==
    /\ \A c \in Caller : At(c, "idle") => call[c].conns = 0
    /\ pool.free + pool.warming + Cardinality(Held) = IF Opened THEN MaxOpen ELSE 0

\* A transaction in a callback waits for a connection without a deadline (483-499).
NestedWaits == \E c \in Caller : inner[c] # c /\ At(inner[c], "begin")

\* Every call returns, also if the pool is exhausted by transactions whose callbacks
\* wait for a second connection, and if opening the pool panicked: deadlines, and
\* nothing else, free a callback that waits for what its own transaction holds. Only a
\* transaction begun in a callback may wait for ever, and whoever waits for it or for
\* its connection.
CallsReturn == \A c \in Caller : []<>At(c, "idle") \/ <>[]NestedWaits
=============================================================================
