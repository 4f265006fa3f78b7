------------------------------ MODULE DbProofs ------------------------------
(***************************************************************************)
(* Proofs about DbMetrics and DbCalls, for any callers, pool and number of *)
(* attempts: what MaxQueryTime forgets, what a write reports, that a       *)
(* transaction is all or nothing, and where the pool's connections are.    *)
(***************************************************************************)
EXTENDS DbCalls, FiniteSetTheorems, TLAPS

-----------------------------------------------------------------------------
(* The metrics.                                                            *)

\* Who stores has loaded no less than what is sure, and, if it is alone, what is there.
MetricsInv ==
    /\ MetricsTypeOK
    /\ maxQueryTime >= sure
    /\ \A q \in Storing : currentMax[q] >= sure
    /\ \A q \in Storing : alone[q] => Storing = {q} /\ currentMax[q] = maxQueryTime

\* Nothing has been recorded at first.
LEMMA MetricsInvInit == MetricsInit => MetricsInv
<1> SUFFICES ASSUME MetricsInit PROVE MetricsInv
  OBVIOUS
<1>1. Storing = {}
  BY DEF MetricsInit, Storing
<1>2. 0 \in Time
  BY MetricsAssumption DEF MetricsAssumption, Time
<1> QED BY <1>1, <1>2 DEF MetricsInit, MetricsInv, MetricsTypeOK, Time

\* A duration that is about to be recorded.
LEMMA MetricsRecord ==
  ASSUME MetricsInv, NEW c \in Caller, NEW d \in Time, Record(c, d)
  PROVE  MetricsInv'
<1>1. MetricsTypeOK'
  BY DEF MetricsInv, MetricsTypeOK, Record
<1>2. Storing' = Storing
  BY DEF MetricsInv, MetricsTypeOK, Record, Storing
<1> QED BY <1>1, <1>2 DEF MetricsInv, Record

\* The maximum is loaded: whoever was about to store is no longer alone.
LEMMA MetricsLoad ==
  ASSUME MetricsInv, NEW c \in Caller, LoadMax(c)
  PROVE  MetricsInv'
<1>0. MetricsTypeOK
  BY DEF MetricsInv
<1>1. MetricsTypeOK'
  BY <1>0 DEF MetricsTypeOK, LoadMax
<1>2. Storing' = Storing \union {c} /\ c \notin Storing
  BY <1>0 DEF MetricsTypeOK, LoadMax, Storing
<1>3. \A q \in Storing' : currentMax'[q] = IF q = c THEN maxQueryTime ELSE currentMax[q]
  BY <1>0 DEF MetricsTypeOK, LoadMax, Storing
<1>4. \A q \in Storing' : currentMax'[q] >= sure'
  BY <1>2, <1>3 DEF MetricsInv, LoadMax
<1>5. \A q \in Storing' : alone'[q] => q = c /\ Storing = {}
  <2>1. \A q \in Storing' : q \in Caller
    BY DEF Storing
  <2>2. \A q \in Caller : alone'[q] = IF q = c THEN Storing = {} ELSE alone[q] /\ q \notin Storing
    BY DEF LoadMax
  <2> QED BY <1>2, <2>1, <2>2
<1>6. maxQueryTime' = maxQueryTime /\ sure' = sure
  BY DEF LoadMax
<1>7. \A q \in Storing' : alone'[q] => Storing' = {q} /\ currentMax'[q] = maxQueryTime'
  BY <1>2, <1>3, <1>5, <1>6
<1> QED BY <1>1, <1>4, <1>6, <1>7 DEF MetricsInv

\* The maximum is stored. Who stores alone leaves nobody behind who has loaded less.
LEMMA MetricsStore ==
  ASSUME MetricsInv, NEW c \in Caller, StoreMax(c)
  PROVE  MetricsInv'
<1>0. MetricsTypeOK /\ c \in Storing
  BY DEF MetricsInv, StoreMax, Storing
<1>1. duration[c] \in Nat /\ currentMax[c] \in Nat /\ maxQueryTime \in Nat /\ sure \in Nat
  BY <1>0 DEF MetricsTypeOK, Time
<1>2. maxQueryTime' \in Time /\ sure' \in Time
  BY <1>0 DEF MetricsTypeOK, StoreMax, Raised
<1>3. MetricsTypeOK'
  <2>1. 0 \in Time
    BY MetricsAssumption DEF MetricsAssumption, Time
  <2> QED BY <1>0, <1>2, <2>1 DEF MetricsTypeOK, StoreMax
<1>4. Storing' = Storing \ {c}
  BY <1>0 DEF MetricsTypeOK, StoreMax, Storing
<1>5. \A q \in Storing' : currentMax'[q] = currentMax[q] /\ alone'[q] = alone[q]
  BY <1>0, <1>4 DEF MetricsTypeOK, StoreMax, Storing
<1>6. CASE alone[c]
  <2>1. Storing = {c} /\ currentMax[c] = maxQueryTime
    BY <1>0, <1>6 DEF MetricsInv
  <2>2. maxQueryTime' = IF duration[c] > maxQueryTime THEN duration[c] ELSE maxQueryTime
    BY <2>1 DEF StoreMax, Raised
  <2>3. sure' = IF duration[c] > sure THEN duration[c] ELSE sure
    BY <1>6 DEF StoreMax
  <2>4. maxQueryTime' >= sure'
    BY <1>1, <2>2, <2>3 DEF MetricsInv
  <2> QED BY <1>3, <1>4, <2>1, <2>4 DEF MetricsInv
<1>7. CASE ~alone[c]
  <2>1. sure' = sure
    BY <1>7 DEF StoreMax
  <2>2. currentMax[c] >= sure
    BY <1>0 DEF MetricsInv
  <2>3. maxQueryTime' >= sure'
    BY <1>1, <2>1, <2>2 DEF MetricsInv, StoreMax, Raised
  <2>4. \A q \in Storing' : ~alone'[q]
    BY <1>0, <1>4, <1>5 DEF MetricsInv
  <2>5. \A q \in Storing' : currentMax'[q] >= sure'
    BY <1>4, <1>5, <2>1 DEF MetricsInv
  <2> QED BY <1>3, <2>3, <2>4, <2>5 DEF MetricsInv
<1> QED BY <1>6, <1>7

\* Every step keeps it.
LEMMA MetricsStep == MetricsInv /\ [MetricsNext]_metrics => MetricsInv'
<1>1. CASE UNCHANGED metrics
  BY <1>1 DEF metrics, MetricsInv, MetricsTypeOK, Storing
<1>2. CASE MetricsNext
  BY <1>2, MetricsRecord, MetricsLoad, MetricsStore DEF MetricsNext
<1> QED BY <1>1, <1>2

\* MaxQueryTime loses a duration only if its record overlapped with another one, for
\* any number of callers (db.go:793-796).
THEOREM MaxLosesOnlyOverlapped == MetricsSpec => []MaxMissesOnlyOverlapped
<1>1. MetricsInv => MaxMissesOnlyOverlapped
  BY DEF MetricsInv, MaxMissesOnlyOverlapped
<1> QED BY <1>1, MetricsInvInit, MetricsStep, PTL DEF MetricsSpec

\* The calls record as the metrics say, and nothing else touches them.
LEMMA CallsRecord == [DbNext]_vars => [MetricsNext]_metrics
<1> SUFFICES ASSUME [DbNext]_vars PROVE MetricsNext \/ UNCHANGED metrics
  OBVIOUS
<1>1. ASSUME NEW c \in Caller, Finish(c) PROVE MetricsNext
  BY <1>1 DEF Finish, MetricsNext
<1>2. ASSUME NEW c \in Caller, Step(c), ~Finish(c) PROVE UNCHANGED metrics
  BY <1>2 DEF Step, NewDB, OpenPool, Warm, Close, Try, GetConn, GetNoConn, Answer, Wake,
              BeginTx, Inner, NestReturns, CallbackEnds, TxAnswer, Commit, Rollback, Released
<1>3. ASSUME NEW c \in Caller, NEW op, NEW p, Start(c, op, p) \/ Expire(c)
      PROVE  UNCHANGED metrics
  BY <1>3 DEF Start, Expire
<1>4. CASE WarmedUp \/ UNCHANGED vars
  BY <1>4 DEF WarmedUp, vars
<1> QED BY <1>1, <1>2, <1>3, <1>4 DEF DbNext, Begin, Nest

\* The database layer implements the metrics, and so keeps their promise in every
\* interleaving of its calls.
THEOREM CallsImplementMetrics == DbSpec => MetricsSpec /\ []MaxMissesOnlyOverlapped
<1>1. DbInit => MetricsInit
  BY DEF DbInit
<1> QED BY <1>1, CallsRecord, MaxLosesOnlyOverlapped, PTL DEF DbSpec, MetricsSpec
-----------------------------------------------------------------------------
(* The calls. What a call is made of, without the bounds: those of the     *)
(* attempts play no part.                                                  *)

CallFields == [at : Phases, op : Outside \union Inside \union {"tran", "close"},
               late : BOOLEAN, tries : Nat, conns : Int, res : Results,
               carried : Nat, lost : Nat]
TxFields == [open : BOOLEAN, session : {"tx", "auto", "dead"},
             told : Nat, pending : Nat, kept : Nat, repeated : BOOLEAN,
             failure : {"none", "seen", "ignored"}, res : {"ok", "error", "panic", "unknown"}]
CallsFields == call \in [Caller -> CallFields] /\ tx \in [Caller -> TxFields]

\* A write's answers are accounted for: it is owed one only if it is over and has
\* succeeded.
WriteInv(k) ==
    /\ k.lost <= k.carried
    /\ k.op = "write" =>
          k.carried = k.lost + (IF k.at = "record" /\ k.res = "ok" THEN 1 ELSE 0)

\* Where a call can be: only a failure is slept on or rolled back, and only what has
\* begun in a transaction is made in one.
PlaceInv(k, t) ==
    /\ k.at = "sleep" => k.res # "ok"
    /\ k.at = "rollback" => k.res \in {"error", "panic"}
    /\ k.at \in {"fn", "commit", "rollback"} \/ k.op \in Inside => t.open
    /\ k.at \in {"fn", "commit", "rollback", "close"} => k.op \notin Inside
    /\ t.open => k.at \notin {"idle", "newDB", "open", "warm", "begin"}
    /\ k.at \in {"newDB", "open", "warm", "begin"} => t = NoTx

\* Where TxDo is when the database has ended its transaction: it is about to repeat the
\* statement, or to fail.
EndedAt(k) ==
    \/ k.op = "txwrite" /\ k.at \in {"try", "run"} /\ k.tries > 0
    \/ k.op = "txwrite" /\ k.at = "sleep"
    \/ k.op \in Inside /\ k.at = "record" /\ k.res # "ok"

\* While a transaction goes on, nothing of it is durable, and what is pending was
\* reported, or its answer was lost in the call that is being made; once the database
\* has ended it, or a statement has failed, it will not be committed.
OpenInv(k, t) ==
    t.open /\ ~t.repeated /\ t.failure # "ignored" =>
        /\ t.kept = 0
        /\ t.failure = "seen" => k.op \notin Inside /\ k.at # "commit"
        /\ t.failure = "none" =>
              /\ t.pending = IF t.session = "tx"
                             THEN t.told + (IF k.op = "txwrite" THEN k.lost ELSE 0) ELSE 0
              /\ k.op = "txwrite" /\ k.at = "record" /\ k.res = "ok" => k.lost = 0
              /\ t.session = "auto" => EndedAt(k)

\* When it is over, it has been kept as it reports.
OverInv(t) ==
    ~t.open /\ ~t.repeated /\ t.failure # "ignored" =>
        CASE t.res = "ok"      -> t.kept = t.told
          [] t.res = "unknown" -> t.kept \in {0, t.told}
          [] OTHER             -> t.kept = 0

CallInv(k, t) == WriteInv(k) /\ PlaceInv(k, t) /\ OpenInv(k, t) /\ OverInv(t)

CallsInv == CallsFields /\ \A c \in Caller : CallInv(call[c], tx[c])

\* No call is being made at first.
LEMMA CallsInvInit == DbInit => CallsInv
<1> SUFFICES ASSUME DbInit PROVE CallsInv
  OBVIOUS
<1>1. NoCall \in CallFields /\ NoTx \in TxFields
  BY DEF NoCall, NoTx, CallFields, TxFields, Phases, Outside, Inside, Results
<1>2. CallInv(NoCall, NoTx)
  BY DEF NoCall, NoTx, CallInv, WriteInv, PlaceInv, OpenInv, EndedAt, OverInv, Inside
<1> QED BY <1>1, <1>2 DEF DbInit, CallsInv, CallsFields

\* A step changes one caller's call and transaction.
LEMMA OneCaller ==
  ASSUME CallsInv, NEW c \in Caller, NEW k \in CallFields, NEW t \in TxFields,
         call' = [call EXCEPT ![c] = k], tx' = [tx EXCEPT ![c] = t], CallInv(k, t)
  PROVE  CallsInv'
<1>1. CallsFields'
  BY DEF CallsInv, CallsFields
<1>2. ASSUME NEW b \in Caller PROVE CallInv(call'[b], tx'[b])
  BY <1>2 DEF CallsInv, CallsFields
<1> QED BY <1>1, <1>2 DEF CallsInv

\* Such a step, when the transaction is left alone.
LEMMA OneCall ==
  ASSUME CallsInv, NEW c \in Caller, NEW k \in CallFields,
         call' = [call EXCEPT ![c] = k], tx' = tx, CallInv(k, tx[c])
  PROVE  CallsInv'
<1>1. tx[c] \in TxFields /\ tx' = [tx EXCEPT ![c] = tx[c]]
  BY DEF CallsInv, CallsFields
<1> QED BY <1>1, OneCaller

\* Such a step, when the call goes elsewhere, with a result or as before.
LEMMA OneMove ==
  ASSUME CallsInv, NEW c \in Caller, NEW p \in Phases, NEW r \in Results, tx' = tx,
         call' = [call EXCEPT ![c].at = p, ![c].res = r],
         CallInv([call[c] EXCEPT !.at = p, !.res = r], tx[c])
  PROVE  CallsInv'
<1> DEFINE k == [call[c] EXCEPT !.at = p, !.res = r]
<1>1. k \in CallFields
  BY DEF CallsInv, CallsFields, CallFields
<1>2. call' = [call EXCEPT ![c] = k]
  BY DEF CallsInv, CallsFields
<1> HIDE DEF k
<1> QED BY <1>1, <1>2, OneCall DEF k

\* The same, when its result stays.
LEMMA OneGoto ==
  ASSUME CallsInv, NEW c \in Caller, NEW p \in Phases, tx' = tx, Goto(c, p),
         CallInv([call[c] EXCEPT !.at = p], tx[c])
  PROVE  CallsInv'
<1> DEFINE k == [call[c] EXCEPT !.at = p]
<1>1. k \in CallFields
  BY DEF CallsInv, CallsFields, CallFields
<1>2. call' = [call EXCEPT ![c] = k]
  BY DEF CallsInv, CallsFields, Goto
<1> HIDE DEF k
<1> QED BY <1>1, <1>2, OneCall DEF k

\* A step that leaves all calls alone.
LEMMA NoCaller == ASSUME CallsInv, UNCHANGED <<call, tx>> PROVE CallsInv'
BY DEF CallsInv, CallsFields

\* Where a call that is over leaves its caller: nothing of it is left but what its
\* transaction has.
LEMMA BackOK ==
  ASSUME CallsInv, NEW c \in Caller, NEW t \in TxFields, t.open <=> tx[c].open,
         call[c].at \in {"record", "close"}, OverInv(t),
         t.open /\ ~t.repeated /\ t.failure # "ignored" =>
            /\ t.kept = 0
            /\ t.failure = "none" => /\ t.pending = IF t.session = "tx" THEN t.told ELSE 0
                                     /\ t.session # "auto"
  PROVE  Back(c) \in CallFields /\ CallInv(Back(c), t)
<1>0. call[c] \in CallFields /\ tx[c] \in TxFields
  BY DEF CallsInv, CallsFields
<1>1. /\ Back(c).at = (IF t.open THEN "fn" ELSE "idle") /\ Back(c).op = "query"
      /\ Back(c).res = "ok" /\ Back(c).carried = 0 /\ Back(c).lost = 0
  BY <1>0 DEF Back, NoCall
<1>2. Back(c) \in CallFields
  <2>1. NoCall \in CallFields /\ "fn" \in Phases
    BY DEF NoCall, CallFields, Phases, Outside, Results
  <2>2. ASSUME NEW n \in Int PROVE [NoCall EXCEPT !.at = "fn", !.conns = n] \in CallFields
    BY <2>1 DEF CallFields
  <2>3. call[c].conns \in Int
    BY <1>0 DEF CallFields
  <2> QED BY <2>1, <2>2, <2>3 DEF Back
<1>3. WriteInv(Back(c)) /\ PlaceInv(Back(c), t)
  BY <1>1 DEF WriteInv, PlaceInv, Inside
<1>4. OpenInv(Back(c), t)
  <2>1. t.told \in Nat
    BY DEF TxFields
  <2> QED BY <1>1, <2>1 DEF OpenInv, Inside
<1> QED BY <1>2, <1>3, <1>4 DEF CallInv

\* A call that has come to nothing.
LEMMA NothingOK ==
  ASSUME NEW t \in TxFields, ~t.open, OverInv(t)
  PROVE  NoCall \in CallFields /\ CallInv(NoCall, t)
<1>1. NoCall \in CallFields
  BY DEF NoCall, CallFields, Phases, Outside, Inside, Results
<1> QED BY <1>1 DEF NoCall, CallInv, WriteInv, PlaceInv, OpenInv, Inside

\* The singleton and its pool: what is called there has no transaction yet.
LEMMA SingletonSteps ==
  ASSUME CallsInv, NEW c \in Caller, NewDB(c) \/ OpenPool(c) \/ Warm(c)
  PROVE  CallsInv'
<1> DEFINE k == call[c]
<1>1. k \in CallFields /\ tx[c] \in TxFields /\ CallInv(k, tx[c]) /\ tx' = tx
  BY DEF CallsInv, CallsFields, NewDB, OpenPool, Warm
<1>2. /\ k.at \in {"newDB", "open", "warm"}
      /\ \/ call' = call
         \/ Goto(c, "open") \/ Goto(c, "warm")
         \/ Goto(c, First(k.op)) /\ k.at \in {"newDB", "warm"}
         \/ Return(c)
  BY DEF NewDB, OpenPool, Warm, At
<1>3. tx[c] = NoTx
  BY <1>1, <1>2 DEF CallInv, PlaceInv
<1>4. ASSUME NEW p \in {"open", "warm"} PROVE CallInv([k EXCEPT !.at = p], tx[c])
  BY <1>1, <1>2, <1>3 DEF CallFields, CallInv, WriteInv, PlaceInv, OpenInv, OverInv, NoTx
<1>5. First(k.op) \in Phases /\ CallInv([k EXCEPT !.at = First(k.op)], tx[c])
  <2>1. First(k.op) \in {"begin", "close", "wait", "run", "try"} /\ First(k.op) \in Phases
    BY DEF First, Phases
  <2>2. k.op \notin Inside
    BY <1>1, <1>3 DEF CallInv, PlaceInv, NoTx
  <2> QED BY <1>1, <1>2, <1>3, <2>1, <2>2
          DEF CallFields, CallInv, WriteInv, PlaceInv, OpenInv, OverInv, NoTx
<1>6. NoCall \in CallFields /\ CallInv(NoCall, tx[c])
  BY <1>1, <1>3, NothingOK DEF CallInv, NoTx
<1>7. {"open", "warm"} \subseteq Phases
  BY DEF Phases
<1>8. CASE call' = call
  BY <1>1, <1>8, NoCaller
<1>9. CASE \E p \in {"open", "warm"} : Goto(c, p)
  BY <1>1, <1>4, <1>7, <1>9, OneGoto
<1>10. CASE Goto(c, First(k.op))
  BY <1>1, <1>5, <1>10, OneGoto
<1>11. CASE Return(c)
  BY <1>1, <1>6, <1>11, OneCall DEF Return
<1> QED BY <1>2, <1>8, <1>9, <1>10, <1>11

\* The pool is closed, from outside or from a callback.
LEMMA CloseStep == ASSUME CallsInv, NEW c \in Caller, Close(c) PROVE CallsInv'
<1>1. call[c] \in CallFields /\ tx[c] \in TxFields /\ CallInv(call[c], tx[c]) /\ tx' = tx
  BY DEF CallsInv, CallsFields, Close
<1>2. call[c].at = "close" /\ call' = [call EXCEPT ![c] = Back(c)]
  BY DEF Close, At
<1>3. tx[c].open /\ ~tx[c].repeated /\ tx[c].failure # "ignored" =>
        /\ tx[c].kept = 0
        /\ tx[c].failure = "none" =>
              /\ tx[c].pending = IF tx[c].session = "tx" THEN tx[c].told ELSE 0
              /\ tx[c].session # "auto"
  <2>1. call[c].op # "txwrite"
    BY <1>1, <1>2 DEF CallInv, PlaceInv, Inside
  <2>2. tx[c].told \in Nat
    BY <1>1 DEF TxFields
  <2> QED BY <1>1, <1>2, <2>1, <2>2 DEF CallInv, OpenInv, EndedAt
<1>4. Back(c) \in CallFields /\ CallInv(Back(c), tx[c])
  BY <1>1, <1>2, <1>3, BackOK DEF CallInv
<1> QED BY <1>1, <1>2, <1>4, OneCall

\* The deadline, an attempt's beginning, its connection and its back-off.
LEMMA AttemptSteps ==
  ASSUME CallsInv, NEW c \in Caller,
         Try(c) \/ GetConn(c) \/ GetNoConn(c) \/ Wake(c) \/ Expire(c)
  PROVE  CallsInv'
<1> DEFINE k == call[c]
<1>1. k \in CallFields /\ tx[c] \in TxFields /\ CallInv(k, tx[c]) /\ tx' = tx
  BY DEF CallsInv, CallsFields, Try, GetConn, GetNoConn, Wake, Expire
<1>2. /\ "record" \in Phases /\ "wait" \in Phases /\ "run" \in Phases /\ "try" \in Phases
      /\ "error" \in Results
  BY DEF Phases, Results
<1>a. k.tries + 1 \in Nat /\ k.conns + 1 \in Int
  BY <1>1 DEF CallFields
<1>3. CASE Try(c)
  <2>1. k.at = "try"
    BY <1>3 DEF Try, At
  <2>2. CallInv([k EXCEPT !.at = "record", !.res = "error"], tx[c])
    BY <1>1, <2>1 DEF CallFields, CallInv, WriteInv, PlaceInv, OpenInv, EndedAt, OverInv, Inside
  <2>3. /\ CallInv([k EXCEPT !.at = "run"], tx[c])
        /\ k.op = "write" => CallInv([k EXCEPT !.at = "wait"], tx[c])
    BY <1>1, <2>1 DEF CallFields, CallInv, WriteInv, PlaceInv, OpenInv, EndedAt, OverInv, Inside
  <2>4. \/ End(c, "record", "error")
        \/ Goto(c, "run")
        \/ Goto(c, "wait") /\ k.op = "write"
    BY <1>3 DEF Try
  <2>5. CASE End(c, "record", "error")
    BY <1>1, <1>2, <2>2, <2>5, OneMove DEF End
  <2>6. CASE Goto(c, "run") \/ (Goto(c, "wait") /\ k.op = "write")
    BY <1>1, <1>2, <2>3, <2>6, OneGoto
  <2> QED BY <2>4, <2>5, <2>6
<1>4. CASE GetConn(c)
  <2> DEFINE n == [k EXCEPT !.at = "run", !.conns = k.conns + 1]
  <2>1. k.at = "wait" /\ call' = [call EXCEPT ![c] = n]
    BY <1>4 DEF GetConn, At, CallsInv, CallsFields
  <2>2. n \in CallFields
    BY <1>1, <1>2, <1>a DEF CallFields
  <2>3. CallInv(n, tx[c])
    BY <1>1, <2>1 DEF CallFields, CallInv, WriteInv, PlaceInv, OpenInv, EndedAt, OverInv
  <2> HIDE DEF n
  <2> QED BY <1>1, <2>1, <2>2, <2>3, OneCall
<1>5. CASE GetNoConn(c)
  <2>1. k.at = "wait" /\ End(c, "record", "error")
    BY <1>5 DEF GetNoConn, At
  <2>2. CallInv([k EXCEPT !.at = "record", !.res = "error"], tx[c])
    BY <1>1, <2>1 DEF CallFields, CallInv, WriteInv, PlaceInv, OpenInv, EndedAt, OverInv, Inside
  <2> QED BY <1>1, <1>2, <2>1, <2>2, OneMove DEF End
<1>6. CASE Wake(c)
  <2>1. k.at = "sleep" /\ call' = [call EXCEPT ![c] = Woken(c)]
    BY <1>6 DEF Wake, At
  <2>2. Woken(c) \in CallFields
    BY <1>1, <1>2, <1>a DEF CallFields, Woken
  <2>3. /\ Woken(c).at \in {"try", "record"} /\ Woken(c).tries = k.tries + 1
        /\ Woken(c).op = k.op /\ Woken(c).res = k.res
        /\ Woken(c).carried = k.carried /\ Woken(c).lost = k.lost
    BY <1>1 DEF CallFields, Woken
  <2>4. WriteInv(Woken(c)) /\ PlaceInv(Woken(c), tx[c]) /\ OverInv(tx[c])
    BY <1>1, <2>1, <2>3 DEF CallInv, WriteInv, PlaceInv
  <2>5. k.tries + 1 > 0
    BY <1>1 DEF CallFields
  <2>6. EndedAt(k) => EndedAt(Woken(c))
    BY <1>1, <2>1, <2>3, <2>4, <2>5 DEF EndedAt, CallInv, PlaceInv, Inside
  <2>7. OpenInv(Woken(c), tx[c])
    BY <1>1, <2>1, <2>3, <2>6 DEF CallInv, OpenInv, PlaceInv
  <2> QED BY <1>1, <2>1, <2>2, <2>4, <2>7, OneCall DEF CallInv
<1>7. CASE Expire(c)
  <2> DEFINE n == [k EXCEPT !.late = TRUE]
  <2>1. call' = [call EXCEPT ![c] = n]
    BY <1>7 DEF Expire, CallsInv, CallsFields
  <2>2. n \in CallFields
    BY <1>1 DEF CallFields
  <2>3. CallInv(n, tx[c])
    BY <1>1 DEF CallFields, CallInv, WriteInv, PlaceInv, OpenInv, EndedAt, OverInv
  <2> HIDE DEF n
  <2> QED BY <1>1, <2>1, <2>2, <2>3, OneCall
<1> QED BY <1>3, <1>4, <1>5, <1>6, <1>7

\* The database has answered, outside a transaction.
LEMMA AnswerStep ==
  ASSUME CallsInv, NEW c \in Caller, Answer(c)
  PROVE  CallsInv'
<1> DEFINE k == call[c]
<1>1. k \in CallFields /\ tx[c] \in TxFields /\ CallInv(k, tx[c]) /\ tx' = tx
  BY DEF CallsInv, CallsFields, Answer
<1>2. k.at = "run" /\ k.op \in Outside
  BY DEF Answer, At
<1>3. PICK res \in {"ok", "retryable", "error"}, carried \in {0, 1} :
        /\ k.op = "write" /\ res = "ok" => carried = 1
        /\ call' = [call EXCEPT ![c].at = After(c, res), ![c].res = res,
                                ![c].conns = @ - 1, ![c].carried = @ + carried,
                                ![c].lost = IF res # "ok" THEN @ + carried ELSE @]
  BY DEF Answer
<1> DEFINE n == [k EXCEPT !.at = After(c, res), !.res = res, !.conns = @ - 1,
                          !.carried = @ + carried,
                          !.lost = IF res # "ok" THEN @ + carried ELSE @]
<1>4. call' = [call EXCEPT ![c] = n]
  BY <1>3 DEF CallsInv, CallsFields
<1>5. /\ After(c, res) \in {"sleep", "record"} /\ (After(c, res) = "sleep" => res # "ok")
      /\ After(c, res) \in Phases /\ res \in Results
  BY DEF After, Phases, Results
<1>6. /\ k.conns - 1 \in Int /\ k.carried \in Nat /\ k.lost \in Nat
      /\ k.carried + carried \in Nat /\ k.lost + carried \in Nat
  BY <1>1 DEF CallFields
<1> HIDE DEF After
<1>7. n \in CallFields
  BY <1>1, <1>5, <1>6 DEF CallFields
<1>8. WriteInv(n)
  BY <1>1, <1>2, <1>3, <1>5, <1>6 DEF CallFields, CallInv, WriteInv
<1>9. PlaceInv(n, tx[c]) /\ OpenInv(n, tx[c]) /\ OverInv(tx[c])
  BY <1>1, <1>2, <1>5 DEF CallFields, CallInv, PlaceInv, OpenInv, EndedAt, OverInv, Outside, Inside
<1> HIDE DEF n
<1> QED BY <1>1, <1>4, <1>7, <1>8, <1>9, OneCall DEF CallInv

\* A call is over: back to the callback, or to the caller.
LEMMA FinishStep ==
  ASSUME CallsInv, NEW c \in Caller, Finish(c)
  PROVE  CallsInv'
<1> DEFINE k == call[c]
           old == tx[c]
           t == [old EXCEPT !.failure = Seen(c)]
<1>1. k \in CallFields /\ old \in TxFields /\ CallInv(k, old) /\ k.at = "record"
  BY DEF CallsInv, CallsFields, Finish, At
<1>2. CASE call' = call /\ tx' = tx
  BY <1>2, NoCaller
<1>3. CASE call' = [call EXCEPT ![c] = Back(c)] /\ tx' = [tx EXCEPT ![c].failure = Seen(c)]
  <2>1. tx' = [tx EXCEPT ![c] = t]
    BY <1>3 DEF CallsInv, CallsFields
  <2>2. Seen(c) \in {"none", "seen", "ignored"} /\ old.told \in Nat
    BY <1>1 DEF Seen, TxFields
  <2>3. /\ t \in TxFields /\ t.failure = Seen(c) /\ t.open = old.open
        /\ t.repeated = old.repeated /\ t.res = old.res /\ t.session = old.session
        /\ t.kept = old.kept /\ t.told = old.told /\ t.pending = old.pending
    BY <1>1, <2>2 DEF TxFields
  <2> HIDE DEF t
  <2>4. /\ Seen(c) = "ignored" <=> old.failure = "ignored"
        /\ Seen(c) = "none" => old.failure = "none" /\ (k.op \in Inside => k.res = "ok")
    BY <1>1 DEF Seen, TxFields
  <2>5. t.open /\ ~t.repeated /\ t.failure # "ignored" =>
          /\ t.kept = 0
          /\ t.failure = "none" => /\ t.pending = IF t.session = "tx" THEN t.told ELSE 0
                                   /\ t.session # "auto"
    <3> SUFFICES ASSUME t.open, ~t.repeated, t.failure # "ignored"
                 PROVE  /\ t.kept = 0
                        /\ t.failure = "none" =>
                              /\ t.pending = IF t.session = "tx" THEN t.told ELSE 0
                              /\ t.session # "auto"
      OBVIOUS
    <3>1. t.kept = 0
      BY <1>1, <2>3, <2>4 DEF CallInv, OpenInv
    <3>2. ASSUME t.failure = "none"
          PROVE  t.pending = (IF t.session = "tx" THEN t.told ELSE 0) /\ t.session # "auto"
      <4>1. /\ old.failure = "none" /\ (k.op \in Inside => k.res = "ok")
            /\ k.op = "txwrite" => k.op \in Inside
        BY <2>3, <2>4, <3>2 DEF Inside
      <4>2. OpenInv(k, old) /\ old.open /\ ~old.repeated
        BY <1>1, <2>3 DEF CallInv
      <4>3. /\ old.pending = IF old.session = "tx"
                             THEN old.told + (IF k.op = "txwrite" THEN k.lost ELSE 0) ELSE 0
            /\ old.session = "auto" => EndedAt(k)
        BY <4>1, <4>2 DEF OpenInv
      <4>4. k.op = "txwrite" => k.lost = 0
        BY <1>1, <4>1, <4>2 DEF OpenInv
      <4>5. old.session # "auto"
        BY <1>1, <4>1, <4>3 DEF EndedAt
      <4>6. old.told + (IF k.op = "txwrite" THEN k.lost ELSE 0) = old.told
        BY <2>2, <4>4
      <4> QED BY <2>3, <4>3, <4>5, <4>6
    <3> QED BY <3>1, <3>2
  <2>6. OverInv(t)
    BY <1>1, <2>3, <2>4 DEF CallInv, OverInv
  <2>7. Back(c) \in CallFields /\ CallInv(Back(c), t)
    BY <1>1, <2>3, <2>5, <2>6, BackOK
  <2> QED BY <1>3, <2>1, <2>3, <2>7, OneCaller
<1> QED BY <1>2, <1>3 DEF Finish

\* A transaction begins, or does not.
LEMMA BeginTxStep ==
  ASSUME CallsInv, NEW c \in Caller, BeginTx(c)
  PROVE  CallsInv'
<1> DEFINE k == call[c]
           n == [k EXCEPT !.at = "fn", !.conns = 1]
           t == [NoTx EXCEPT !.open = TRUE]
<1>1. k \in CallFields /\ tx[c] \in TxFields /\ CallInv(k, tx[c])
  BY DEF CallsInv, CallsFields
<1>2. k.at = "begin" /\ tx[c] = NoTx
  BY <1>1 DEF BeginTx, At, CallInv, PlaceInv
<1>3. CASE Return(c) /\ tx' = tx
  <2>1. ~tx[c].open
    BY <1>2 DEF NoTx
  <2>2. NoCall \in CallFields /\ CallInv(NoCall, tx[c])
    BY <1>1, <2>1, NothingOK DEF CallInv
  <2> QED BY <1>3, <2>2, OneCall DEF Return
<1>4. CASE /\ call' = [call EXCEPT ![c].at = "fn", ![c].conns = 1]
           /\ tx' = [tx EXCEPT ![c].open = TRUE]
  <2>1. call' = [call EXCEPT ![c] = n] /\ tx' = [tx EXCEPT ![c] = t]
    BY <1>2, <1>4 DEF CallsInv, CallsFields
  <2>2. n \in CallFields
    <3>1. "fn" \in Phases /\ 1 \in Int
      BY DEF Phases
    <3> QED BY <1>1, <3>1 DEF CallFields
  <2>3. t \in TxFields
    BY DEF TxFields, NoTx
  <2>4. n.at = "fn" /\ n.op = k.op /\ n.carried = k.carried /\ n.lost = k.lost
    BY <1>1 DEF CallFields
  <2>5. /\ t.open /\ t.session = "tx" /\ t.kept = 0 /\ t.failure = "none"
        /\ t.pending = 0 /\ t.told = 0
    BY DEF NoTx
  <2>6. k.op \notin Inside /\ k.op # "txwrite"
    BY <1>1, <1>2 DEF CallInv, PlaceInv, NoTx, Inside
  <2> HIDE DEF n, t
  <2>7. WriteInv(n) /\ PlaceInv(n, t)
    BY <1>1, <1>2, <2>4, <2>5, <2>6 DEF CallInv, WriteInv, PlaceInv
  <2>8. OpenInv(n, t) /\ OverInv(t)
    BY <2>4, <2>5, <2>6 DEF OpenInv, OverInv
  <2> QED BY <2>1, <2>2, <2>3, <2>7, <2>8, OneCaller DEF CallInv
<1> QED BY <1>3, <1>4 DEF BeginTx

\* The callback makes a call, or ends.
LEMMA CallbackSteps ==
  ASSUME CallsInv, NEW c \in Caller,
         CallbackEnds(c) \/ \E op \in Outside \union Inside \union {"close"} : Inner(c, op)
  PROVE  CallsInv'
<1> DEFINE k == call[c]
           old == tx[c]
<1>1. k \in CallFields /\ old \in TxFields /\ CallInv(k, old)
  BY DEF CallsInv, CallsFields
<1>2. k.at = "fn"
  BY DEF CallbackEnds, Inner, At
<1>3. /\ old.open /\ k.op # "txwrite" /\ old.told \in Nat
      /\ ~old.repeated /\ old.failure # "ignored" => old.kept = 0
      /\ ~old.repeated /\ old.failure = "none" =>
            /\ old.pending = IF old.session = "tx" THEN old.told ELSE 0
            /\ old.session # "auto"
  BY <1>1, <1>2 DEF TxFields, CallInv, PlaceInv, OpenInv, EndedAt, Inside
<1> DEFINE going == [old EXCEPT !.failure = Ignored(c)]
<1>4. Ignored(c) \in {"none", "ignored"} /\ (Ignored(c) = "none" => old.failure = "none")
  BY DEF Ignored
<1>5. /\ going \in TxFields /\ going.failure = Ignored(c) /\ going.open = old.open
      /\ going.repeated = old.repeated /\ going.res = old.res /\ going.session = old.session
      /\ going.kept = old.kept /\ going.told = old.told /\ going.pending = old.pending
  BY <1>1, <1>4 DEF TxFields
<1> HIDE DEF going
<1>6. CASE End(c, "commit", "ok") /\ tx' = [tx EXCEPT ![c].failure = Ignored(c)]
  <2> DEFINE n == [k EXCEPT !.at = "commit", !.res = "ok"]
  <2>1. call' = [call EXCEPT ![c] = n] /\ tx' = [tx EXCEPT ![c] = going]
    BY <1>6 DEF End, CallsInv, CallsFields, going
  <2>2. n \in CallFields
    BY <1>1 DEF CallFields, Phases, Results
  <2>3. n.at = "commit" /\ n.op = k.op /\ n.lost = k.lost /\ n.carried = k.carried
    BY <1>1 DEF CallFields
  <2> HIDE DEF n
  <2>4. WriteInv(n) /\ PlaceInv(n, going) /\ OverInv(going)
    BY <1>1, <1>2, <1>3, <1>5, <2>3 DEF CallInv, WriteInv, PlaceInv, OverInv
  <2>5. OpenInv(n, going)
    BY <1>3, <1>4, <1>5, <2>3 DEF OpenInv
  <2> QED BY <1>5, <2>1, <2>2, <2>4, <2>5, OneCaller DEF CallInv
<1>7. CASE \E r \in {"error", "panic"} : End(c, "rollback", r) /\ tx' = tx
  <2>1. PICK r \in {"error", "panic"} : End(c, "rollback", r) /\ tx' = tx
    BY <1>7
  <2>2. CallInv([k EXCEPT !.at = "rollback", !.res = r], old)
    BY <1>1, <1>2, <1>3 DEF CallFields, CallInv, WriteInv, PlaceInv, OpenInv, EndedAt, OverInv
  <2>3. "rollback" \in Phases /\ r \in Results
    BY DEF Phases, Results
  <2> QED BY <2>1, <2>2, <2>3, OneMove DEF End
<1>8. ASSUME NEW op \in Outside \union Inside \union {"close"}, Inner(c, op) PROVE CallsInv'
  <2> DEFINE n == [NoCall EXCEPT !.at = First(op), !.op = op, !.conns = 1]
             t == IF op \in Inside THEN going ELSE old
  <2>1. call' = [call EXCEPT ![c] = n]
    BY <1>8 DEF Inner
  <2>2. tx' = [tx EXCEPT ![c] = t]
    BY <1>1, <1>8 DEF Inner, CallsInv, CallsFields, TxFields, going
  <2>3. /\ First(op) \in {"wait", "run", "try", "close"} /\ First(op) \in Phases
        /\ First(op) = "close" => op \notin Inside
    BY DEF First, Phases, Outside, Inside
  <2>4. n \in CallFields
    <3>1. 1 \in Int /\ "ok" \in Results
      BY DEF Results
    <3> QED BY <2>3, <3>1 DEF CallFields, NoCall
  <2>5. /\ t \in TxFields /\ t.open /\ t.repeated = old.repeated /\ t.kept = old.kept
        /\ t.pending = old.pending /\ t.session = old.session /\ t.told = old.told
        /\ t.failure = IF op \in Inside THEN Ignored(c) ELSE old.failure
    BY <1>1, <1>3, <1>5
  <2>6. /\ n.at = First(op) /\ n.op = op /\ n.res = "ok" /\ n.carried = 0 /\ n.lost = 0
    BY DEF NoCall
  <2> HIDE DEF n, t
  <2>7. WriteInv(n) /\ PlaceInv(n, t) /\ OverInv(t)
    BY <2>3, <2>5, <2>6 DEF WriteInv, PlaceInv, OverInv
  <2>8. OpenInv(n, t)
    BY <1>3, <1>4, <2>3, <2>5, <2>6 DEF OpenInv
  <2> QED BY <2>1, <2>2, <2>4, <2>5, <2>7, <2>8, OneCaller DEF CallInv
<1> QED BY <1>6, <1>7, <1>8 DEF CallbackEnds

\* The database has answered, in the transaction: what was carried out is pending,
\* unless it has ended the transaction.
LEMMA TxAnswerStep ==
  ASSUME CallsInv, NEW c \in Caller, TxAnswer(c)
  PROVE  CallsInv'
<1> DEFINE k == call[c]
           old == tx[c]
<1>1. k \in CallFields /\ old \in TxFields /\ CallInv(k, old)
  BY DEF CallsInv, CallsFields
<1>2. k.at = "run" /\ k.op \in Inside /\ old.open
  BY <1>1 DEF TxAnswer, At, CallInv, PlaceInv
<1>3. PICK res \in {"ok", "retryable", "error"}, carried \in {0, 1},
           session \in {"tx", "auto", "dead"} :
        /\ old.session = "dead" => session = "dead" /\ res = "error"
        /\ old.session = "auto" => session # "tx"
        /\ res = "ok" => session = old.session
        /\ k.op = "txquery" => carried = 0 /\ res # "retryable"
        /\ k.op = "txwrite" /\ res = "ok" => carried = 1
        /\ carried = 1 => session = "tx" \/ old.session = "auto"
        /\ tx' = [tx EXCEPT ![c] =
             [old EXCEPT !.session = session,
                 !.told = IF res = "ok" THEN @ + carried ELSE @,
                 !.pending = IF session = "tx" THEN @ + carried ELSE 0,
                 !.kept = @ + KeptAtOnce(old.session, carried),
                 !.repeated = @ \/ (carried = 1 /\ Again(c))]]
        /\ call' = [call EXCEPT ![c].at = After(c, res), ![c].res = res,
                                ![c].carried = @ + carried,
                                ![c].lost = IF res # "ok" THEN @ + carried ELSE @]
  BY DEF TxAnswer
<1> DEFINE told == IF res = "ok" THEN old.told + carried ELSE old.told
           pending == IF session = "tx" THEN old.pending + carried ELSE 0
           kept == old.kept + KeptAtOnce(old.session, carried)
           lost == IF res # "ok" THEN k.lost + carried ELSE k.lost
           repeated == old.repeated \/ (carried = 1 /\ Again(c))
           n == [k EXCEPT !.at = After(c, res), !.res = res,
                          !.carried = k.carried + carried, !.lost = lost]
           t == [old EXCEPT !.session = session, !.told = told, !.pending = pending,
                            !.kept = kept, !.repeated = repeated]
<1>4. call' = [call EXCEPT ![c] = n] /\ tx' = [tx EXCEPT ![c] = t]
  BY <1>3 DEF CallsInv, CallsFields
<1>5. /\ After(c, res) \in {"sleep", "record"}
      /\ After(c, res) = "sleep" => res # "ok" /\ k.op = "txwrite"
      /\ After(c, res) \in Phases /\ res \in Results
  BY <1>2 DEF After, Phases, Results, Inside, Writes
<1>6. KeptAtOnce(old.session, carried) = IF old.session = "auto" THEN carried ELSE 0
  BY DEF KeptAtOnce
<1>7. /\ old.told \in Nat /\ old.pending \in Nat /\ old.kept \in Nat
      /\ old.repeated \in BOOLEAN /\ k.carried \in Nat /\ k.lost \in Nat /\ k.tries \in Nat
      /\ old.session \in {"tx", "auto", "dead"}
  BY <1>1 DEF TxFields, CallFields
<1>8. told \in Nat /\ pending \in Nat /\ kept \in Nat /\ lost \in Nat /\ k.carried + carried \in Nat
  BY <1>6, <1>7
<1>9. repeated \in BOOLEAN
  BY <1>7
<1>10. /\ t.open = old.open /\ t.session = session /\ t.told = told /\ t.res = old.res
       /\ t.pending = pending /\ t.kept = kept /\ t.failure = old.failure
       /\ t.repeated = repeated
  BY <1>1 DEF TxFields
<1>11. /\ n.at = After(c, res) /\ n.res = res /\ n.op = k.op
       /\ n.carried = k.carried + carried /\ n.lost = lost
  BY <1>1 DEF CallFields
<1>a. lost <= k.carried + carried
  <2>1. k.lost <= k.carried
    BY <1>1 DEF CallInv, WriteInv
  <2> QED BY <1>7, <2>1
<1> HIDE DEF After, KeptAtOnce, kept, told, pending, lost, repeated
<1>12. n \in CallFields
  BY <1>1, <1>5, <1>8 DEF CallFields
<1>13. t \in TxFields
  BY <1>1, <1>3, <1>8, <1>9 DEF TxFields
<1> HIDE DEF n, t
<1>14. WriteInv(n) /\ PlaceInv(n, t) /\ OverInv(t)
  <2>1. WriteInv(n)
    BY <1>2, <1>11, <1>a DEF WriteInv, Inside
  <2>2. PlaceInv(n, t)
    BY <1>2, <1>5, <1>10, <1>11 DEF PlaceInv
  <2>3. OverInv(t)
    BY <1>2, <1>10 DEF OverInv
  <2> QED BY <2>1, <2>2, <2>3
<1>15. OpenInv(n, t)
  <2> SUFFICES ASSUME ~t.repeated, t.failure # "ignored" PROVE OpenInv(n, t)
    BY DEF OpenInv
  <2>1. ~old.repeated /\ old.failure # "ignored" /\ ~(carried = 1 /\ Again(c))
    BY <1>10 DEF repeated
  <2>2. /\ old.failure = "none" /\ old.kept = 0
        /\ old.pending = IF old.session = "tx"
                         THEN old.told + (IF k.op = "txwrite" THEN k.lost ELSE 0) ELSE 0
        /\ old.session = "auto" => k.op = "txwrite" /\ k.tries > 0
    BY <1>1, <1>2, <2>1 DEF CallInv, OpenInv, EndedAt, TxFields
  <2>3. carried = 1 => k.carried = 0 /\ old.session # "auto"
    BY <1>7, <2>1, <2>2 DEF Again
  <2>4. t.kept = 0
    BY <1>6, <1>10, <2>2, <2>3 DEF kept
  <2>5. k.op = "txwrite" /\ n.at = "record" /\ n.res = "ok" => n.lost = 0
    <3>1. k.lost <= k.carried
      BY <1>1 DEF CallInv, WriteInv
    <3> QED BY <1>3, <1>7, <1>11, <2>3, <3>1 DEF lost
  <2>6. t.pending = IF t.session = "tx"
                    THEN t.told + (IF n.op = "txwrite" THEN n.lost ELSE 0) ELSE 0
    <3>1. session = "tx" => old.session = "tx"
      BY <1>3, <1>7
    <3>2. k.op = "txwrite" \/ carried = 0
      BY <1>2, <1>3 DEF Inside
    <3> QED BY <1>7, <1>10, <1>11, <2>2, <3>1, <3>2 DEF pending, told, lost
  <2>7. t.session = "auto" => EndedAt(n)
    <3> SUFFICES ASSUME session = "auto" PROVE EndedAt(n)
      BY <1>10
    <3>1. res # "ok"
      <4>1. CASE res = "ok"
        BY <1>3, <2>2, <2>3, <4>1
      <4> QED BY <4>1
    <3> QED BY <1>2, <1>5, <1>11, <3>1 DEF EndedAt
  <2> QED BY <1>10, <1>11, <2>2, <2>4, <2>5, <2>6, <2>7 DEF OpenInv
<1> QED BY <1>4, <1>12, <1>13, <1>14, <1>15, OneCaller DEF CallInv

\* COMMIT and ROLLBACK: the transaction is over.
LEMMA EndSteps ==
  ASSUME CallsInv, NEW c \in Caller, Commit(c) \/ Rollback(c)
  PROVE  CallsInv'
<1> DEFINE k == call[c]
           old == tx[c]
<1>1. k \in CallFields /\ old \in TxFields /\ CallInv(k, old)
  BY DEF CallsInv, CallsFields
<1>2. k.at \in {"commit", "rollback"} /\ old.open /\ k.op # "txwrite"
  BY <1>1 DEF Commit, Rollback, At, CallInv, PlaceInv, Inside
<1>3. PICK kept \in {0, old.pending}, res \in {"ok", "error", "panic", "unknown"} :
        /\ Over(c, res, kept)
        /\ res = "ok" => old.session # "dead" /\ kept = old.pending
        /\ res \in {"ok", "unknown"} => k.at = "commit"
        /\ res \in {"error", "panic"} => kept = 0
  <2>1. CASE Commit(c)
    BY <2>1 DEF Commit, At
  <2>2. CASE Rollback(c)
    <3>1. k.res \in {"error", "panic"}
      BY <1>1, <2>2 DEF Rollback, At, CallInv, PlaceInv
    <3> QED BY <2>2, <3>1 DEF Rollback
  <2> QED BY <2>1, <2>2
<1> DEFINE t == [NoTx EXCEPT !.told = old.told, !.kept = old.kept + kept, !.res = res,
                             !.repeated = old.repeated, !.failure = old.failure]
<1>4. call' = [call EXCEPT ![c] = NoCall] /\ tx' = [tx EXCEPT ![c] = t]
  BY <1>3 DEF Commit, Rollback, Released, Return, Over
<1>5. /\ old.told \in Nat /\ old.kept \in Nat /\ old.pending \in Nat
      /\ old.kept + kept \in Nat /\ old.session \in {"tx", "auto", "dead"}
      /\ old.repeated \in BOOLEAN /\ old.failure \in {"none", "seen", "ignored"}
  BY <1>1 DEF TxFields
<1>6. t \in TxFields
  BY <1>5 DEF TxFields, NoTx
<1>7. /\ ~t.open /\ t.told = old.told /\ t.kept = old.kept + kept /\ t.res = res
      /\ t.repeated = old.repeated /\ t.failure = old.failure
  BY DEF NoTx
<1> HIDE DEF t
<1>8. OverInv(t)
  <2> SUFFICES ASSUME ~old.repeated, old.failure # "ignored" PROVE OverInv(t)
    BY <1>7 DEF OverInv
  <2>1. old.kept = 0
    BY <1>1, <1>2 DEF CallInv, OpenInv
  <2>2. k.at = "commit" => old.pending = IF old.session = "dead" THEN 0 ELSE old.told
    BY <1>1, <1>2, <1>5 DEF CallInv, OpenInv, EndedAt
  <2>3. res = "ok" => t.kept = t.told
    BY <1>3, <1>5, <1>7, <2>1, <2>2
  <2>4. res = "unknown" => t.kept \in {0, t.told}
    BY <1>3, <1>5, <1>7, <2>1, <2>2
  <2>5. res \in {"error", "panic"} => t.kept = 0
    BY <1>3, <1>7, <2>1
  <2> QED BY <1>3, <1>7, <2>3, <2>4, <2>5 DEF OverInv
<1>9. NoCall \in CallFields /\ CallInv(NoCall, t)
  BY <1>6, <1>7, <1>8, NothingOK
<1> QED BY <1>4, <1>6, <1>9, OneCaller

\* A call begins, at the singleton or in a callback; nothing is left of the one before it.
LEMMA StartStep ==
  ASSUME CallsInv, NEW c \in Caller, NEW op \in Outside \union {"tran", "close"},
         NEW p \in {"newDB", "begin"}, Start(c, op, p)
  PROVE  CallsInv'
<1> DEFINE n == [NoCall EXCEPT !.at = p, !.op = op]
<1>1. call' = [call EXCEPT ![c] = n] /\ tx' = [tx EXCEPT ![c] = NoTx]
  BY DEF Start
<1>2. n \in CallFields /\ NoTx \in TxFields
  <2>1. p \in Phases /\ "ok" \in Results /\ 0 \in Int /\ 0 \in Nat
    BY DEF Phases, Results
  <2> QED BY <2>1 DEF CallFields, TxFields, NoCall, NoTx
<1>3. CallInv(n, NoTx)
  BY DEF NoCall, NoTx, CallInv, WriteInv, PlaceInv, OpenInv, OverInv, Outside, Inside
<1> HIDE DEF n
<1> QED BY <1>1, <1>2, <1>3, OneCaller

-----------------------------------------------------------------------------
\* Every step keeps it.
LEMMA CallsInvStep == CallsInv /\ [DbNext]_vars => CallsInv'
<1> SUFFICES ASSUME CallsInv, [DbNext]_vars PROVE CallsInv'
  OBVIOUS
<1>1. ASSUME NEW c \in Caller, Step(c) PROVE CallsInv'
  <2>1. CASE NestReturns(c)
    BY <2>1, NoCaller DEF NestReturns
  <2> QED BY <1>1, <2>1, SingletonSteps, CloseStep, AttemptSteps, AnswerStep, FinishStep,
             BeginTxStep, CallbackSteps, TxAnswerStep, EndSteps DEF Step
<1>2. ASSUME NEW c \in Caller, Expire(c) PROVE CallsInv'
  BY <1>2, AttemptSteps
<1>3. ASSUME NEW c \in Caller, NEW d \in Caller, Nest(d, c) PROVE CallsInv'
  BY <1>3, StartStep DEF Nest
<1>4. ASSUME NEW c \in Caller, NEW op \in Outside \union {"tran", "close"}, Begin(c, op)
      PROVE  CallsInv'
  BY <1>4, StartStep DEF Begin
<1>5. CASE WarmedUp \/ UNCHANGED vars
  BY <1>5, NoCaller DEF WarmedUp, vars
<1> QED BY <1>1, <1>2, <1>3, <1>4, <1>5 DEF DbNext

\* A write's report is true, for any number of attempts and of callers (db.go:579-611).
THEOREM WritesReportTruth == DbSpec => []ReportedWrites
<1>1. CallsInv => ReportedWrites
  BY DEF CallsInv, CallInv, WriteInv, ReportedWrites, At
<1> QED BY <1>1, CallsInvInit, CallsInvStep, PTL DEF DbSpec

\* A transaction is all or nothing as it reports, for any number of calls in its
\* callback, if the callback heeds the failures of its statements and no write was
\* repeated that had been carried out or had ended the transaction (db.go:495-526).
THEOREM TransactionsStayAtomic == DbSpec => []TransactionsAtomic
<1>1. CallsInv => TransactionsAtomic
  <2> SUFFICES ASSUME CallsInv, NEW c \in Caller,
                      At(c, "idle"), ~tx[c].repeated, tx[c].failure # "ignored"
               PROVE  CASE tx[c].res = "ok"      -> tx[c].kept = tx[c].told
                        [] tx[c].res = "unknown" -> tx[c].kept \in {0, tx[c].told}
                        [] OTHER                 -> tx[c].kept = 0
    BY DEF TransactionsAtomic
  <2>1. ~tx[c].open
    BY DEF CallsInv, CallInv, PlaceInv, At
  <2> QED BY <2>1 DEF CallsInv, CallInv, OverInv
<1> QED BY <1>1, CallsInvInit, CallsInvStep, PTL DEF DbSpec

-----------------------------------------------------------------------------
(* The bounds of a call, and its connections.                              *)

\* A call is carried out at most once in an attempt, and there are MaxRetries attempts;
\* only a write has a second one.
AttemptInv(k) ==
    /\ k.at \in {"try", "sleep"} => k.op \in Writes
    /\ k.at = "wait" => k.op \in Outside
    /\ k.at \notin {"try", "wait", "run", "sleep", "record"} \/ k.op \notin Writes =>
          k.tries = 0 /\ k.carried = 0
    /\ k.at \in {"try", "wait", "run", "sleep"} => k.tries < MaxRetries
    /\ k.at \notin {"sleep", "record"} => k.carried <= k.tries
    /\ k.at = "sleep" => k.carried <= k.tries + 1
    /\ k.tries <= MaxRetries /\ k.carried <= MaxRetries

\* A transaction has a connection of its own; a call outside it has one while the
\* database works.
ConnInv(k, t) ==
    k.conns = (IF t.open THEN 1 ELSE 0) + (IF k.at = "run" /\ k.op \in Outside THEN 1 ELSE 0)

LocalOK(k, t) == AttemptInv(k) /\ ConnInv(k, t)
LocalInv == \A c \in Caller : LocalOK(call[c], tx[c])

\* Until the singleton is there, nobody has come past it, and whoever opens the pool
\* is alone.
Outer == {"idle", "newDB"}
Unopened == pool.free = 0 /\ pool.warming = 0 /\ pool.warmed = 0
OnceInv ==
    /\ once \in {"none", "running", "ready", "failed"}
    /\ once \in {"none", "failed"} => Unopened /\ \A c \in Caller : call[c].at \in Outer
    /\ once = "running" =>
          \E c \in Caller : /\ call[c].at \in {"open", "warm"}
                            /\ \A b \in Caller \ {c} : call[b].at \in Outer
                            /\ At(c, "open") => Unopened
    /\ once = "ready" => \A c \in Caller : call[c].at \notin {"open", "warm"}

PoolFields == [free : Nat, warming : Nat, warmed : Nat, closed : BOOLEAN]
Total == pool.free + pool.warming + Cardinality(Held)

PoolInv ==
    /\ pool \in PoolFields
    /\ pool.warming <= pool.warmed /\ pool.warmed <= MaxIdle
    /\ Total = IF Opened THEN MaxOpen ELSE 0

CallBounds == calls \in 0 .. MaxCalls

NestTypes == inner \in [Caller -> Caller]

DbInv == MetricsInv /\ CallsInv /\ LocalInv /\ OnceInv /\ PoolInv /\ CallBounds /\ NestTypes

\* What a step of one caller leaves alone, and by how many connections it has more.
Moved(c, d) ==
    /\ \A b \in Caller \ {c} : call'[b] = call[b] /\ tx'[b] = tx[b]
    /\ LocalOK(call'[c], tx'[c])
    /\ call'[c].conns = call[c].conns + d

\* What is known of a call and its transaction.
LEMMA Known ==
  ASSUME CallsInv, LocalInv, NEW c \in Caller
  PROVE  /\ call \in [Caller -> CallFields] /\ tx \in [Caller -> TxFields]
         /\ call[c] \in CallFields /\ tx[c] \in TxFields
         /\ CallInv(call[c], tx[c]) /\ LocalOK(call[c], tx[c])
         /\ call[c].conns \in 0 .. 2 /\ call[c].conns \in Int
<1>1. /\ call \in [Caller -> CallFields] /\ tx \in [Caller -> TxFields]
      /\ CallInv(call[c], tx[c]) /\ LocalOK(call[c], tx[c])
  BY DEF CallsInv, CallsFields, LocalInv
<1>2. call[c].conns \in 0 .. 2
  BY <1>1 DEF LocalOK, ConnInv
<1> QED BY <1>1, <1>2 DEF CallFields

\* A move to another phase, with a result or without, while the rest stays.
Passes(c, p) == Goto(c, p) \/ \E r \in Results : End(c, p, r)
MayPass(k, p) ==
    /\ ~(k.at = "run" /\ k.op \in Outside) /\ ~(p = "run" /\ k.op \in Outside)
    /\ p \in {"try", "sleep"} => k.op \in Writes
    /\ p = "wait" => k.op \in Outside
    /\ \/ k.tries = 0 /\ k.carried = 0
       \/ k.op \in Writes /\ p \in {"try", "wait", "run", "sleep", "record"}
    /\ p \in {"try", "wait", "run", "sleep"} => k.tries < MaxRetries
    /\ k.carried <= k.tries

LEMMA MoveOnly ==
  ASSUME CallsInv, LocalInv, NEW c \in Caller, NEW p \in Phases, Passes(c, p),
         tx'[c].open <=> tx[c].open, \A b \in Caller \ {c} : tx'[b] = tx[b],
         MayPass(call[c], p)
  PROVE  Moved(c, 0)
<1> DEFINE k == call[c]
<1>1. /\ k \in CallFields /\ LocalOK(k, tx[c]) /\ call \in [Caller -> CallFields]
      /\ k.conns \in Int /\ k.tries \in Nat /\ k.carried \in Nat
  BY Known DEF CallFields
<1>2. /\ call'[c].at = p /\ call'[c].op = k.op /\ call'[c].tries = k.tries
      /\ call'[c].carried = k.carried /\ call'[c].conns = k.conns
      /\ \A b \in Caller \ {c} : call'[b] = call[b]
  BY <1>1 DEF Passes, Goto, End, CallFields
<1>3. AttemptInv(call'[c])
  BY <1>1, <1>2 DEF LocalOK, AttemptInv, MayPass
<1>4. ConnInv(call'[c], tx'[c])
  BY <1>1, <1>2 DEF LocalOK, ConnInv, MayPass
<1> QED BY <1>1, <1>2, <1>3, <1>4 DEF Moved, LocalOK

\* A call that is over, or has come to nothing, with its transaction open or not.
LEMMA BackMoves ==
  ASSUME CallsInv, LocalInv, NEW c \in Caller, ~(call[c].at = "run"),
         call' = [call EXCEPT ![c] = Back(c)], tx'[c].open <=> tx[c].open,
         \A b \in Caller \ {c} : tx'[b] = tx[b]
  PROVE  Moved(c, 0) /\ call'[c].at \in {"fn", "idle"}
<1>1. /\ call \in [Caller -> CallFields] /\ call[c].conns \in Int /\ LocalOK(call[c], tx[c])
      /\ call[c].conns = (IF tx[c].open THEN 1 ELSE 0)
  BY Known DEF LocalOK, ConnInv
<1>2. /\ Back(c).at \in {"fn", "idle"} /\ Back(c).tries = 0 /\ Back(c).carried = 0
      /\ Back(c).conns = (IF tx[c].open THEN 1 ELSE 0)
  BY <1>1 DEF Back, NoCall
<1>3. call'[c] = Back(c) /\ \A b \in Caller \ {c} : call'[b] = call[b]
  BY <1>1
<1>4. AttemptInv(call'[c]) /\ ConnInv(call'[c], tx'[c])
  BY <1>2, <1>3, DbAssumption DEF AttemptInv, ConnInv
<1> QED BY <1>1, <1>2, <1>3, <1>4 DEF Moved, LocalOK

LEMMA ReturnMoves ==
  ASSUME CallsInv, LocalInv, NEW c \in Caller, ~tx[c].open, ~(call[c].at = "run"),
         Return(c), tx' = tx
  PROVE  Moved(c, 0) /\ call'[c].at = "idle"
<1>1. call' = [call EXCEPT ![c] = Back(c)] /\ call \in [Caller -> CallFields]
  BY Known DEF Return, Back
<1>2. call'[c] = NoCall
  BY <1>1 DEF Back
<1>3. (tx'[c].open <=> tx[c].open) /\ \A b \in Caller \ {c} : tx'[b] = tx[b]
  OBVIOUS
<1>4. Moved(c, 0)
  BY <1>1, <1>3, BackMoves
<1> QED BY <1>2, <1>4 DEF NoCall

\* The singleton and its pool.
LEMMA SingletonMoves ==
  ASSUME CallsInv, LocalInv, NEW c \in Caller, NewDB(c) \/ OpenPool(c) \/ Warm(c)
  PROVE  Moved(c, 0)
<1> DEFINE k == call[c]
<1>0. /\ k \in CallFields /\ LocalOK(k, tx[c]) /\ CallInv(k, tx[c]) /\ tx' = tx
      /\ k.tries \in Nat /\ k.carried \in Nat /\ k.conns \in Int
  BY Known DEF CallFields, NewDB, OpenPool, Warm
<1>1. /\ k.at \in {"newDB", "open", "warm"}
      /\ \/ call' = call
         \/ \E p \in {"open", "warm"} : Passes(c, p)
         \/ Passes(c, First(k.op))
         \/ Return(c)
  BY DEF NewDB, OpenPool, Warm, At, Passes
<1>2. k.tries = 0 /\ k.carried = 0 /\ ~tx[c].open
  BY <1>0, <1>1 DEF LocalOK, AttemptInv, CallInv, PlaceInv
<1>3. CASE call' = call
  BY <1>0, <1>3 DEF Moved
<1>4. ASSUME NEW p \in {"open", "warm"}, Passes(c, p) PROVE Moved(c, 0)
  <2>1. p \in Phases /\ MayPass(k, p)
    BY <1>1, <1>2 DEF MayPass, Phases
  <2> QED BY <1>0, <1>4, <2>1, MoveOnly
<1>5. CASE Passes(c, First(k.op))
  <2>1. k.op \notin Inside
    BY <1>0, <1>1, <1>5 DEF CallInv, PlaceInv, NoTx
  <2>2. /\ First(k.op) \in Phases /\ First(k.op) \notin {"run", "sleep"}
        /\ First(k.op) = "try" => k.op \in Writes
        /\ First(k.op) = "wait" => k.op \in Outside
    BY <1>0, <2>1 DEF First, Phases, CallFields, Inside, Outside, Writes
  <2>3. 0 < MaxRetries
    BY DbAssumption
  <2>4. MayPass(k, First(k.op))
    BY <1>1, <1>2, <2>2, <2>3 DEF MayPass
  <2> QED BY <1>0, <1>5, <2>2, <2>4, MoveOnly
<1>6. CASE Return(c)
  BY <1>0, <1>1, <1>2, <1>6, ReturnMoves
<1> QED BY <1>1, <1>3, <1>4, <1>5, <1>6

\* The pool is closed.
LEMMA CloseMoves ==
  ASSUME CallsInv, LocalInv, NEW c \in Caller, Close(c)
  PROVE  Moved(c, 0) /\ call'[c].at \in {"fn", "idle"}
<1>1. call[c].at = "close" /\ tx' = tx /\ call' = [call EXCEPT ![c] = Back(c)]
  BY DEF Close, At
<1> QED BY <1>1, BackMoves

\* A callback has what its transaction came to.
LEMMA NestReturnsMoves ==
  ASSUME CallsInv, LocalInv, NEW c \in Caller, NestReturns(c) PROVE Moved(c, 0)
<1>1. call[c].conns \in Int /\ LocalOK(call[c], tx[c]) /\ call' = call /\ tx' = tx
  BY Known DEF NestReturns
<1> QED BY <1>1 DEF Moved

\* An attempt begins, gets a connection or none, or sleeps; its deadline passes.
LEMMA AttemptMoves ==
  ASSUME CallsInv, LocalInv, NEW c \in Caller,
         Try(c) \/ GetNoConn(c) \/ Wake(c) \/ Expire(c)
  PROVE  Moved(c, 0)
<1> DEFINE k == call[c]
<1>0. /\ k \in CallFields /\ LocalOK(k, tx[c]) /\ CallInv(k, tx[c]) /\ tx' = tx
      /\ call \in [Caller -> CallFields]
      /\ k.tries \in Nat /\ k.carried \in Nat /\ k.conns \in Int
  BY Known DEF CallFields, Try, GetNoConn, Wake, Expire
<1>1. MaxRetries \in Nat /\ 0 < MaxRetries
  BY DbAssumption
<1>2. CASE Try(c)
  <2>1. k.at = "try" /\ k.op \in Writes /\ k.tries < MaxRetries /\ k.carried <= k.tries
    BY <1>0, <1>2 DEF Try, At, LocalOK, AttemptInv
  <2>2. \E p \in {"record", "wait", "run"} :
          Passes(c, p) /\ (p = "run" => k.op # "write") /\ (p = "wait" => k.op = "write")
    <3>1. "error" \in Results
      BY DEF Results
    <3> QED BY <1>2, <3>1 DEF Try, Passes
  <2>3. ASSUME NEW p \in {"record", "wait", "run"},
               p = "run" => k.op # "write", p = "wait" => k.op = "write"
        PROVE  p \in Phases /\ MayPass(k, p)
    BY <2>1, <2>3 DEF MayPass, Phases, Writes, Outside
  <2> QED BY <1>0, <2>2, <2>3, MoveOnly
<1>3. CASE GetNoConn(c)
  <2>1. k.at = "wait" /\ Passes(c, "record")
    <3>1. "error" \in Results
      BY DEF Results
    <3> QED BY <1>3, <3>1 DEF GetNoConn, At, Passes
  <2>2. "record" \in Phases /\ MayPass(k, "record")
    BY <1>0, <2>1 DEF LocalOK, AttemptInv, MayPass, Phases
  <2> QED BY <1>0, <2>1, <2>2, MoveOnly
<1>4. CASE Wake(c)
  <2>1. /\ k.at = "sleep" /\ call'[c] = Woken(c)
        /\ \A b \in Caller \ {c} : call'[b] = call[b]
    BY <1>0, <1>4 DEF Wake, At
  <2>2. /\ k.op \in Writes /\ k.tries < MaxRetries /\ k.carried <= k.tries + 1
        /\ k.carried <= MaxRetries
        /\ k.conns = (IF tx[c].open THEN 1 ELSE 0)
    BY <1>0, <2>1 DEF LocalOK, AttemptInv, ConnInv
  <2>3. /\ Woken(c).tries = k.tries + 1 /\ Woken(c).op = k.op /\ Woken(c).conns = k.conns
        /\ Woken(c).carried = k.carried
        /\ Woken(c).at = IF k.tries + 1 < MaxRetries THEN "try" ELSE "record"
    BY <1>0 DEF Woken, CallFields
  <2>4. AttemptInv(Woken(c))
    BY <1>0, <1>1, <2>2, <2>3 DEF AttemptInv
  <2>5. ConnInv(Woken(c), tx[c])
    BY <2>2, <2>3 DEF ConnInv
  <2> QED BY <1>0, <2>1, <2>2, <2>3, <2>4, <2>5 DEF Moved, LocalOK
<1>5. CASE Expire(c)
  <2>1. /\ call'[c] = [k EXCEPT !.late = TRUE]
        /\ \A b \in Caller \ {c} : call'[b] = call[b]
    BY <1>0, <1>5 DEF Expire
  <2>2. LocalOK(call'[c], tx[c]) /\ call'[c].conns = k.conns
    BY <1>0, <2>1 DEF CallFields, LocalOK, AttemptInv, ConnInv
  <2> QED BY <1>0, <2>1, <2>2 DEF Moved
<1> QED BY <1>2, <1>3, <1>4, <1>5

\* A connection is there.
LEMMA GetConnMoves == ASSUME CallsInv, LocalInv, NEW c \in Caller, GetConn(c) PROVE Moved(c, 1)
<1> DEFINE k == call[c]
<1>0. /\ k \in CallFields /\ LocalOK(k, tx[c]) /\ tx' = tx /\ call \in [Caller -> CallFields]
      /\ k.tries \in Nat /\ k.carried \in Nat /\ k.conns \in Int
  BY Known DEF CallFields, GetConn
<1>1. /\ k.at = "wait" /\ call'[c] = [k EXCEPT !.at = "run", !.conns = @ + 1]
      /\ \A b \in Caller \ {c} : call'[b] = call[b]
  BY <1>0 DEF GetConn, At
<1>2. /\ call'[c].at = "run" /\ call'[c].conns = k.conns + 1 /\ call'[c].op = k.op
      /\ call'[c].tries = k.tries /\ call'[c].carried = k.carried
  BY <1>0, <1>1 DEF CallFields
<1>3. LocalOK(call'[c], tx[c])
  BY <1>0, <1>1, <1>2 DEF LocalOK, AttemptInv, ConnInv
<1> QED BY <1>0, <1>1, <1>2, <1>3 DEF Moved

\* The database answers outside a transaction.
LEMMA AnswerMoves == ASSUME CallsInv, LocalInv, NEW c \in Caller, Answer(c) PROVE Moved(c, 0 - 1)
<1> DEFINE k == call[c]
<1>0. /\ k \in CallFields /\ LocalOK(k, tx[c]) /\ tx' = tx /\ call \in [Caller -> CallFields]
      /\ k.tries \in Nat /\ k.carried \in Nat /\ k.conns \in Int
  BY Known DEF CallFields, Answer
<1>1. k.at = "run" /\ k.op \in Outside
  BY DEF Answer, At
<1>2. PICK res \in {"ok", "retryable", "error"}, carried \in {0, 1} :
        /\ k.op = "query" => carried = 0 /\ res # "retryable"
        /\ call' = [call EXCEPT ![c].at = After(c, res), ![c].res = res,
                                ![c].conns = @ - 1, ![c].carried = @ + carried,
                                ![c].lost = IF res # "ok" THEN @ + carried ELSE @]
  BY DEF Answer
<1>3. /\ call'[c].at = After(c, res) /\ call'[c].conns = k.conns - 1 /\ call'[c].op = k.op
      /\ call'[c].tries = k.tries /\ call'[c].carried = k.carried + carried
      /\ \A b \in Caller \ {c} : call'[b] = call[b]
  BY <1>0, <1>2 DEF CallFields
<1>4. After(c, res) \in {"sleep", "record"} /\ (After(c, res) = "sleep" => k.op \in Writes)
  BY DEF After
<1>5. k.op \notin Writes => k.op = "query"
  BY <1>1 DEF Outside, Writes
<1>6. /\ k.tries < MaxRetries /\ k.carried <= k.tries
      /\ k.op \notin Writes => k.tries = 0 /\ k.carried = 0
      /\ MaxRetries \in Nat
  BY <1>0, <1>1, DbAssumption DEF LocalOK, AttemptInv
<1>7. AttemptInv(call'[c])
  BY <1>0, <1>2, <1>3, <1>4, <1>5, <1>6 DEF AttemptInv
<1>8. ConnInv(call'[c], tx[c])
  BY <1>0, <1>1, <1>3, <1>4 DEF LocalOK, ConnInv
<1> QED BY <1>0, <1>3, <1>6, <1>7, <1>8 DEF Moved, LocalOK

\* A call is over, and its counts with it.
LEMMA FinishMoves == ASSUME CallsInv, LocalInv, NEW c \in Caller, Finish(c) PROVE Moved(c, 0)
<1>0. /\ LocalOK(call[c], tx[c]) /\ call[c].conns \in Int /\ call[c].at = "record"
      /\ tx \in [Caller -> TxFields]
  BY Known DEF Finish, At
<1>1. CASE call' = call /\ tx' = tx
  BY <1>0, <1>1 DEF Moved
<1>2. CASE call' = [call EXCEPT ![c] = Back(c)] /\ tx' = [tx EXCEPT ![c].failure = Seen(c)]
  <2>1. tx'[c].open = tx[c].open /\ \A b \in Caller \ {c} : tx'[b] = tx[b]
    BY <1>0, <1>2 DEF TxFields
  <2> QED BY <1>0, <1>2, <2>1, BackMoves
<1> QED BY <1>1, <1>2 DEF Finish

\* A transaction takes a connection, or does not begin.
LEMMA BeginTxMoves ==
  ASSUME CallsInv, LocalInv, NEW c \in Caller, BeginTx(c)
  PROVE  \/ Moved(c, 1) /\ pool.free > 0 /\ pool' = [pool EXCEPT !.free = @ - 1]
         \/ Moved(c, 0) /\ pool' = pool
<1> DEFINE k == call[c]
<1>0. /\ k \in CallFields /\ LocalOK(k, tx[c]) /\ CallInv(k, tx[c])
      /\ call \in [Caller -> CallFields] /\ tx \in [Caller -> TxFields]
      /\ k.at = "begin" /\ tx[c] = NoTx
  BY Known DEF BeginTx, At, CallInv, PlaceInv
<1>1. k.tries = 0 /\ k.carried = 0 /\ k.conns = 0
  BY <1>0 DEF LocalOK, AttemptInv, ConnInv, NoTx
<1>2. CASE Return(c) /\ tx' = tx /\ pool' = pool
  BY <1>0, <1>2, ReturnMoves DEF NoTx
<1>3. CASE /\ pool.free > 0 /\ pool' = [pool EXCEPT !.free = @ - 1]
           /\ call' = [call EXCEPT ![c].at = "fn", ![c].conns = 1]
           /\ tx' = [tx EXCEPT ![c].open = TRUE]
  <2>1. /\ call'[c].at = "fn" /\ call'[c].conns = 1 /\ call'[c].op = k.op
        /\ call'[c].tries = k.tries /\ call'[c].carried = k.carried
        /\ \A b \in Caller \ {c} : call'[b] = call[b] /\ tx'[b] = tx[b]
    BY <1>0, <1>3 DEF CallFields
  <2>2. tx'[c].open
    BY <1>0, <1>3 DEF NoTx
  <2>3. AttemptInv(call'[c])
    BY <1>1, <2>1, DbAssumption DEF AttemptInv
  <2>4. ConnInv(call'[c], tx'[c])
    BY <2>1, <2>2, DbAssumption DEF ConnInv
  <2>5. call'[c].conns = k.conns + 1
    BY <1>1, <2>1
  <2>6. Moved(c, 1)
    BY <2>1, <2>3, <2>4, <2>5 DEF Moved, LocalOK
  <2> QED BY <1>3, <2>6
<1> QED BY <1>2, <1>3 DEF BeginTx

\* The callback makes a call on its transaction or beside it, or ends.
LEMMA CallbackMoves ==
  ASSUME CallsInv, LocalInv, NEW c \in Caller,
         CallbackEnds(c) \/ \E op \in Outside \union Inside \union {"close"} : Inner(c, op)
  PROVE  Moved(c, 0)
<1> DEFINE k == call[c]
<1>0. /\ k \in CallFields /\ LocalOK(k, tx[c]) /\ CallInv(k, tx[c]) /\ tx[c] \in TxFields
      /\ call \in [Caller -> CallFields] /\ tx \in [Caller -> TxFields]
      /\ k.at = "fn" /\ tx[c].open
  BY Known DEF CallbackEnds, Inner, At, CallInv, PlaceInv
<1>1. k.tries = 0 /\ k.carried = 0 /\ k.conns = 1
  BY <1>0 DEF LocalOK, AttemptInv, ConnInv
<1>2. tx'[c].open = tx[c].open /\ \A b \in Caller \ {c} : tx'[b] = tx[b]
  <2>1. \E f : tx' = [tx EXCEPT ![c].failure = f]
    <3>1. CASE CallbackEnds(c)
      <4>1. \/ tx' = [tx EXCEPT ![c].failure = Ignored(c)]
            \/ tx' = [tx EXCEPT ![c].failure = tx[c].failure]
        BY <1>0, <3>1 DEF CallbackEnds, TxFields
      <4> QED BY <4>1
    <3>2. ASSUME NEW op \in Outside \union Inside \union {"close"}, Inner(c, op)
          PROVE  \E f : tx' = [tx EXCEPT ![c].failure = f]
      BY <3>2 DEF Inner
    <3> QED BY <3>1, <3>2
  <2>2. PICK f : tx' = [tx EXCEPT ![c].failure = f]
    BY <2>1
  <2> QED BY <1>0, <2>2 DEF TxFields
<1>3. CASE CallbackEnds(c)
  <2>1. \E p \in {"commit", "rollback"} : Passes(c, p)
    BY <1>3 DEF CallbackEnds, Passes, Results
  <2>2. \A p \in {"commit", "rollback"} : p \in Phases /\ MayPass(k, p)
    BY <1>0, <1>1 DEF Phases, MayPass
  <2> QED BY <1>2, <2>1, <2>2, MoveOnly
<1>4. ASSUME NEW op \in Outside \union Inside \union {"close"}, Inner(c, op) PROVE Moved(c, 0)
  <2> DEFINE n == [NoCall EXCEPT !.at = First(op), !.op = op, !.conns = 1]
  <2>1. call'[c] = n /\ \A b \in Caller \ {c} : call'[b] = call[b]
    BY <1>0, <1>4 DEF Inner
  <2>2. n.at = First(op) /\ n.op = op /\ n.conns = 1 /\ n.tries = 0 /\ n.carried = 0
    BY DEF NoCall
  <2>3. /\ First(op) \in {"wait", "run", "try", "close"}
        /\ First(op) = "wait" => op \in Outside
        /\ First(op) = "run" => op \notin Outside
        /\ First(op) = "try" => op \in Writes
    BY DEF First, Outside, Inside, Writes
  <2> HIDE DEF n
  <2>4. AttemptInv(n)
    BY <2>2, <2>3, DbAssumption DEF AttemptInv
  <2>5. ConnInv(n, tx'[c])
    BY <1>0, <1>2, <2>2, <2>3 DEF ConnInv
  <2> QED BY <1>1, <1>2, <2>1, <2>2, <2>4, <2>5 DEF Moved, LocalOK
<1> QED BY <1>3, <1>4

\* The database answers in the transaction.
LEMMA TxAnswerMoves == ASSUME CallsInv, LocalInv, NEW c \in Caller, TxAnswer(c) PROVE Moved(c, 0)
<1> DEFINE k == call[c]
           old == tx[c]
<1>0. /\ k \in CallFields /\ LocalOK(k, tx[c]) /\ CallInv(k, tx[c]) /\ tx[c] \in TxFields
      /\ call \in [Caller -> CallFields] /\ tx \in [Caller -> TxFields]
      /\ k.at = "run" /\ k.op \in Inside
      /\ k.conns \in Int /\ k.tries \in Nat /\ k.carried \in Nat
  BY Known DEF TxAnswer, At, CallFields
<1>1. PICK res \in {"ok", "retryable", "error"}, carried \in {0, 1},
           session \in {"tx", "auto", "dead"} :
        /\ old.session = "dead" => session = "dead" /\ res = "error"
        /\ old.session = "auto" => session # "tx"
        /\ res = "ok" => session = old.session
        /\ k.op = "txquery" => carried = 0 /\ res # "retryable"
        /\ k.op = "txwrite" /\ res = "ok" => carried = 1
        /\ carried = 1 => session = "tx" \/ old.session = "auto"
        /\ tx' = [tx EXCEPT ![c] =
             [old EXCEPT !.session = session,
                 !.told = IF res = "ok" THEN @ + carried ELSE @,
                 !.pending = IF session = "tx" THEN @ + carried ELSE 0,
                 !.kept = @ + KeptAtOnce(old.session, carried),
                 !.repeated = @ \/ (carried = 1 /\ Again(c))]]
        /\ call' = [call EXCEPT ![c].at = After(c, res), ![c].res = res,
                                ![c].carried = @ + carried,
                                ![c].lost = IF res # "ok" THEN @ + carried ELSE @]
  BY DEF TxAnswer
<1>a. (tx'[c].open <=> tx[c].open) /\ \A b \in Caller \ {c} : tx'[b] = tx[b]
  BY <1>0, <1>1 DEF TxFields
<1>2. After(c, res) \in {"sleep", "record"} /\ (After(c, res) = "sleep" => k.op \in Writes)
  BY DEF After
<1>3. /\ call'[c].at = After(c, res) /\ call'[c].conns = k.conns /\ call'[c].op = k.op
      /\ call'[c].tries = k.tries /\ call'[c].carried = k.carried + carried
      /\ \A b \in Caller \ {c} : call'[b] = call[b]
  BY <1>0, <1>1 DEF CallFields
<1>4. /\ k.tries < MaxRetries /\ MaxRetries \in Nat /\ k.carried <= k.tries
      /\ k.op \notin Writes => k.tries = 0 /\ k.carried = 0 /\ carried = 0
  BY <1>0, <1>1, DbAssumption DEF LocalOK, AttemptInv, Inside, Writes
<1>5. AttemptInv(call'[c])
  BY <1>0, <1>2, <1>3, <1>4 DEF AttemptInv
<1>6. ConnInv(call'[c], tx'[c])
  BY <1>0, <1>a, <1>2, <1>3 DEF LocalOK, ConnInv, Inside, Outside
<1> QED BY <1>0, <1>a, <1>3, <1>5, <1>6 DEF Moved, LocalOK

\* A transaction gives its connection back, however it ends.
LEMMA EndMoves ==
  ASSUME CallsInv, LocalInv, NEW c \in Caller, Commit(c) \/ Rollback(c)
  PROVE  Moved(c, 0 - 1) /\ pool' = [pool EXCEPT !.free = @ + 1]
<1>0. /\ LocalOK(call[c], tx[c]) /\ CallInv(call[c], tx[c])
      /\ call \in [Caller -> CallFields] /\ tx \in [Caller -> TxFields]
      /\ call[c].at \in {"commit", "rollback"} /\ tx[c].open
  BY Known DEF Commit, Rollback, At, CallInv, PlaceInv
<1>1. call[c].conns = 1
  BY <1>0 DEF LocalOK, ConnInv
<1>2. /\ Released(c) /\ \A b \in Caller \ {c} : tx'[b] = tx[b]
      /\ ~tx'[c].open
  BY <1>0 DEF Commit, Rollback, Over, NoTx
<1>3. /\ call'[c] = NoCall /\ pool' = [pool EXCEPT !.free = @ + 1]
      /\ \A b \in Caller \ {c} : call'[b] = call[b]
  BY <1>0, <1>2 DEF Released, Return
<1>4. AttemptInv(NoCall) /\ ConnInv(NoCall, tx'[c]) /\ NoCall.conns = 0
  BY <1>2, DbAssumption DEF NoCall, AttemptInv, ConnInv, Writes
<1> QED BY <1>1, <1>2, <1>3, <1>4 DEF Moved, LocalOK

\* A call begins, also a transaction in a callback.
Begins(c) == \/ \E op \in Outside \union {"tran", "close"} : Begin(c, op)
             \/ \E b \in Caller : Nest(b, c)

LEMMA BeginMoves ==
  ASSUME CallsInv, LocalInv, NEW c \in Caller, Begins(c)
  PROVE  /\ Moved(c, 0) /\ call[c].at = "idle" /\ once' = once /\ pool' = pool
         /\ call'[c].at = "newDB" \/ (call'[c].at = "begin" /\ \E b \in Caller : call[b].at = "fn")
<1> DEFINE Calls == Outside \union {"tran", "close"}
           Begun(op, p) == /\ Start(c, op, p)
                           /\ p = "begin" => \E b \in Caller : call[b].at = "fn"
<1>1. PICK op \in Calls, p \in {"newDB", "begin"} : Begun(op, p)
  <2>1. ASSUME NEW o \in Calls, Begin(c, o)
        PROVE  \E op \in Calls, p \in {"newDB", "begin"} : Begun(op, p)
    <3>1. Begun(o, "newDB")
      BY <2>1 DEF Begin
    <3> HIDE DEF Begun
    <3> QED BY <3>1, Zenon
  <2>2. ASSUME NEW b \in Caller, Nest(b, c)
        PROVE  \E op \in Calls, p \in {"newDB", "begin"} : Begun(op, p)
    <3>1. "tran" \in Calls /\ Begun("tran", "begin")
      BY <2>2 DEF Nest, At
    <3> HIDE DEF Begun, Calls
    <3> QED BY <3>1, Zenon
  <2> QED BY <2>1, <2>2 DEF Begins
<1> DEFINE n == [NoCall EXCEPT !.at = p, !.op = op]
<1>2. /\ call \in [Caller -> CallFields] /\ tx \in [Caller -> TxFields]
      /\ LocalOK(call[c], tx[c]) /\ CallInv(call[c], tx[c]) /\ call[c].at = "idle"
  BY <1>1, Known DEF Start, At
<1>3. call[c].conns = 0
  BY <1>2 DEF LocalOK, ConnInv, CallInv, PlaceInv
<1>4. /\ call'[c] = n /\ tx'[c] = NoTx
      /\ \A b \in Caller \ {c} : call'[b] = call[b] /\ tx'[b] = tx[b]
  BY <1>1, <1>2 DEF Start
<1>5. n.at = p /\ n.tries = 0 /\ n.carried = 0 /\ n.conns = 0
  BY DEF NoCall
<1> HIDE DEF n
<1>6. AttemptInv(n)
  BY <1>5, DbAssumption DEF AttemptInv
<1>7. ConnInv(n, NoTx)
  BY <1>5 DEF ConnInv, NoTx
<1>8. Moved(c, 0)
  BY <1>3, <1>4, <1>5, <1>6, <1>7 DEF Moved, LocalOK
<1> QED BY <1>1, <1>2, <1>4, <1>5, <1>8 DEF Start

-----------------------------------------------------------------------------
(* The connections together.                                               *)

\* Finitely many callers hold at most two connections each.
LEMMA HeldFinite == ASSUME CallsInv, LocalInv PROVE IsFiniteSet(Held) /\ Cardinality(Held) \in Nat
<1>1. IsFiniteSet({1, 2})
  <2>1. {1, 2} = 1 .. 2
    OBVIOUS
  <2>2. 1 \in Int /\ 2 \in Int
    OBVIOUS
  <2>3. IsFiniteSet(1 .. 2)
    BY <2>2, FS_Interval
  <2> QED BY <2>1, <2>3, Zenon
<1>2. IsFiniteSet(Caller \X {1, 2})
  BY <1>1, DbAssumption, FS_Product
<1>3. Held \in SUBSET (Caller \X {1, 2})
  BY DEF Held
<1> QED BY <1>2, <1>3, FS_Subset, FS_CardinalityType

\* A caller that gets or gives back a connection changes their number by one.
LEMMA HeldMoves ==
  ASSUME CallsInv, LocalInv, NEW c \in Caller, NEW d \in {0 - 1, 0, 1}, Moved(c, d)
  PROVE  Cardinality(Held') = Cardinality(Held) + d
<1> DEFINE n == call[c].conns
           m == call'[c].conns
<1>1. n \in 0 .. 2 /\ m = n + d
  BY Known DEF Moved
<1>2. m \in 0 .. 2
  BY DEF Moved, LocalOK, ConnInv
<1>3. IsFiniteSet(Held) /\ Cardinality(Held) \in Nat
  BY HeldFinite
<1>4. \A b \in Caller \ {c} : call'[b] = call[b]
  BY DEF Moved
<1>5. \A h \in Caller \X {1, 2} : /\ h = <<h[1], h[2]>> /\ h[1] \in Caller /\ h[2] \in {1, 2}
                                  /\ h[1] # c => (h \in Held' <=> h \in Held)
                                  /\ h[1] = c => (h \in Held <=> h[2] <= n)
                                  /\ h[1] = c => (h \in Held' <=> h[2] <= m)
  BY <1>4 DEF Held
<1>6. Held \subseteq Caller \X {1, 2} /\ Held' \subseteq Caller \X {1, 2}
  BY DEF Held
<1> HIDE DEF n, m
<1>7. CASE d = 0
  <2>1. Held' = Held
    BY <1>1, <1>5, <1>6, <1>7
  <2> QED BY <1>3, <1>7, <2>1
<1>8. CASE d = 1
  <2>1. m \in {1, 2} /\ <<c, m>> \in Caller \X {1, 2}
    BY <1>1, <1>2, <1>8
  <2>2. <<c, m>> \notin Held
    BY <1>1, <1>5, <1>8, <2>1
  <2>3. \A i \in {1, 2} : i <= m <=> i <= n \/ i = m
    BY <1>1, <1>8
  <2>4. Held' = Held \cup {<<c, m>>}
    BY <1>5, <1>6, <2>1, <2>3
  <2> QED BY <1>3, <1>8, <2>2, <2>4, FS_AddElement
<1>9. CASE d = 0 - 1
  <2>1. n \in {1, 2} /\ <<c, n>> \in Caller \X {1, 2}
    BY <1>1, <1>2, <1>9
  <2>2. <<c, n>> \in Held
    BY <1>1, <1>5, <2>1
  <2>3. \A i \in {1, 2} : i <= m <=> i <= n /\ i # n
    BY <1>1, <1>9
  <2>4. Held' = Held \ {<<c, n>>}
    BY <1>5, <1>6, <2>1, <2>3
  <2>5. Cardinality(Held') = Cardinality(Held) - 1
    BY <1>3, <2>2, <2>4, FS_RemoveElement
  <2> QED BY <1>3, <1>9, <2>5
<1> QED BY <1>7, <1>8, <1>9

\* Every caller keeps its bounds.
LEMMA LocalStep ==
  CallsInv /\ LocalInv /\ [DbNext]_vars => LocalInv'
<1> SUFFICES ASSUME CallsInv, LocalInv, [DbNext]_vars PROVE LocalInv'
  OBVIOUS
<1>1. ASSUME NEW c \in Caller, NEW d, Moved(c, d) PROVE LocalInv'
  BY <1>1 DEF Moved, LocalInv
<1>2. ASSUME NEW c \in Caller, Step(c) PROVE LocalInv'
  <2>1. CASE Close(c) \/ NestReturns(c)
    BY <1>1, <2>1, CloseMoves, NestReturnsMoves
  <2> QED BY <1>1, <1>2, <2>1, SingletonMoves, AttemptMoves, GetConnMoves, AnswerMoves,
             FinishMoves, BeginTxMoves, CallbackMoves, TxAnswerMoves, EndMoves DEF Step
<1>3. ASSUME NEW c \in Caller, Expire(c) PROVE LocalInv'
  BY <1>1, <1>3, AttemptMoves
<1>4. ASSUME NEW c \in Caller, Begins(c) PROVE LocalInv'
  BY <1>1, <1>4, BeginMoves
<1>5. CASE WarmedUp \/ UNCHANGED vars
  BY <1>5 DEF WarmedUp, vars, LocalInv
<1> QED BY <1>2, <1>3, <1>4, <1>5 DEF DbNext, Begins

\* A step of a caller that has come past the singleton, or has not come to it; it does
\* not open the pool.
Ordinary(c) ==
    /\ \A b \in Caller \ {c} : call'[b] = call[b]
    /\ call'[c].at \notin {"open", "warm"}
    /\ \/ call[c].at = "idle" /\ call'[c].at = "newDB"
       \/ \E b \in Caller : call[b].at \notin {"idle", "newDB", "open", "warm"}
    /\ once' = once
    /\ \/ pool' = pool
       \/ call[c].at # "idle" /\ pool'.warming = pool.warming /\ pool'.warmed = pool.warmed

BesideSingleton(c) == \/ Step(c) /\ ~(NewDB(c) \/ OpenPool(c) \/ Warm(c))
                      \/ Expire(c)
                      \/ Begins(c)

\* Such a step comes after the opening, or leaves it to others.
LEMMA OrdinaryOnce ==
  ASSUME OnceInv, pool \in PoolFields, NEW c \in Caller, Ordinary(c)
  PROVE  /\ OnceInv'
         /\ Opened' <=> Opened
<1>1. CASE once = "ready"
  <2>1. \A b \in Caller : call'[b].at \notin {"open", "warm"}
    BY <1>1 DEF OnceInv, Ordinary
  <2> QED BY <1>1, <2>1 DEF OnceInv, Ordinary, Opened
<1>2. CASE once # "ready"
  <2>1. \A b \in Caller : call[b].at \in Outer \union {"open", "warm"}
    BY <1>2 DEF OnceInv
  <2>2. /\ call[c].at = "idle" /\ call'[c].at = "newDB" /\ pool' = pool /\ once' = once
        /\ \A b \in Caller \ {c} : call'[b] = call[b]
    BY <2>1 DEF Ordinary, Outer
  <2>3. \A b \in Caller : /\ call'[b].at \in Outer <=> call[b].at \in Outer
                          /\ call'[b].at = "warm" <=> call[b].at = "warm"
                          /\ call'[b].at = "open" <=> call[b].at = "open"
    BY <2>2 DEF Outer
  <2>4. once \in {"none", "failed", "running"}
    BY <1>2 DEF OnceInv
  <2>5. OnceInv'
    <3>1. CASE once \in {"none", "failed"}
      BY <2>2, <2>3, <3>1 DEF OnceInv, Unopened
    <3>2. CASE once = "running"
      BY <2>2, <2>3, <3>2 DEF OnceInv, Unopened, At
    <3> QED BY <2>4, <3>1, <3>2
  <2> QED BY <2>2, <2>3, <2>5 DEF Opened, At
<1> QED BY <1>1, <1>2

\* All steps but those of the singleton are ordinary.
LEMMA MostOrdinary ==
  ASSUME CallsInv, LocalInv, pool \in PoolFields, NEW c \in Caller, BesideSingleton(c)
  PROVE  Ordinary(c)
<1>0. /\ call \in [Caller -> CallFields] /\ call[c] \in CallFields
      /\ CallInv(call[c], tx[c])
  BY Known
<1> DEFINE k == call[c]
<1>a. \A f, b : /\ LET q == [pool EXCEPT !.free = f] IN
                       q.warming = pool.warming /\ q.warmed = pool.warmed
                /\ LET q == [pool EXCEPT !.closed = b] IN
                       q.warming = pool.warming /\ q.warmed = pool.warmed
  BY DEF PoolFields
<1> USE DEF Ordinary
<1>1. CASE Close(c)
  <2>1. /\ once' = once /\ k.at = "close"
        /\ pool'.warming = pool.warming /\ pool'.warmed = pool.warmed
    BY <1>1, <1>a DEF Close, At
  <2> QED BY <1>1, <2>1, CloseMoves DEF Moved
<1>2. CASE GetConn(c)
  BY <1>0, <1>2, <1>a DEF GetConn, At, CallFields
<1>3. CASE Answer(c)
  BY <1>0, <1>3, <1>a DEF Answer, After, At, CallFields
<1>4. CASE Finish(c)
  <2>1. /\ once' = once /\ pool' = pool /\ k.at = "record"
        /\ call' = call \/ call' = [call EXCEPT ![c] = Back(c)]
    BY <1>4 DEF Finish, At
  <2>2. Back(c).at \in {"fn", "idle"}
    BY DEF NoCall, Back
  <2> QED BY <1>0, <2>1, <2>2
<1>5. CASE BeginTx(c)
  <2>1. /\ once' = once /\ k.at = "begin"
        /\ pool' = pool \/ (pool'.warming = pool.warming /\ pool'.warmed = pool.warmed)
    BY <1>5, <1>a DEF BeginTx, At
  <2>2. /\ call'[c].at \in {"fn", "idle"}
        /\ \A b \in Caller \ {c} : call'[b] = call[b]
    BY <1>0, <1>5 DEF BeginTx, Return, NoCall, CallFields
  <2> QED BY <2>1, <2>2
<1>6. CASE CallbackEnds(c) \/ TxAnswer(c)
  BY <1>0, <1>6 DEF CallbackEnds, TxAnswer, End, After, At, CallFields
<1>7. ASSUME NEW op \in Outside \union Inside \union {"close"}, Inner(c, op)
      PROVE  Ordinary(c)
  BY <1>0, <1>7 DEF Inner, First, At, NoCall, Outside, Inside
<1>8. CASE Commit(c) \/ Rollback(c)
  <2>1. k.at \in {"commit", "rollback"} /\ Released(c)
    BY <1>8 DEF Commit, Rollback, At
  <2> QED BY <1>0, <1>a, <2>1 DEF Released, Return, NoCall
<1>9. CASE Expire(c)
  BY <1>0, <1>9 DEF Expire, CallFields
<1>10. CASE Begins(c)
  BY <1>10, BeginMoves DEF Moved
<1>11. CASE Try(c) \/ GetNoConn(c)
  BY <1>0, <1>11 DEF Try, GetNoConn, Goto, End, At, CallFields
<1>12. CASE Wake(c)
  BY <1>0, <1>12 DEF Wake, Woken, At, CallFields
<1>13. CASE NestReturns(c)
  BY <1>13 DEF NestReturns, At
<1> QED BY <1>1, <1>2, <1>3, <1>4, <1>5, <1>6, <1>7, <1>8, <1>9, <1>10, <1>11, <1>12, <1>13
        DEF Step, BesideSingleton

\* The pool under a step that opens nothing: what leaves it is held, what is given back
\* is free again.
LEMMA PoolKept ==
  ASSUME CallsInv, LocalInv, OnceInv, PoolInv, NEW c \in Caller, NEW d \in {0 - 1, 0, 1},
         Moved(c, d), Opened' <=> Opened,
         pool' \in PoolFields, pool'.free = pool.free - d,
         pool'.warming = pool.warming, pool'.warmed = pool.warmed
  PROVE  PoolInv'
<1>1. Cardinality(Held') = Cardinality(Held) + d /\ Cardinality(Held) \in Nat
  BY HeldMoves, HeldFinite
<1>2. /\ pool.free \in Nat /\ pool.warming \in Nat /\ pool.warmed \in Nat
      /\ pool'.free \in Nat
  BY DEF PoolInv, PoolFields
<1>3. Total' = Total
  BY <1>1, <1>2 DEF Total
<1> QED BY <1>3 DEF PoolInv

\* A connection that is taken, given back, or neither.
LEMMA OrdinaryPool ==
  ASSUME CallsInv, LocalInv, OnceInv, PoolInv, NEW c \in Caller, BesideSingleton(c)
  PROVE  PoolInv'
<1>0. /\ pool \in PoolFields /\ pool.free \in Nat
      /\ Opened' <=> Opened
  BY OrdinaryOnce, MostOrdinary DEF PoolInv, PoolFields
<1>1. ASSUME Moved(c, 0), pool' = pool \/ pool' = [pool EXCEPT !.closed = TRUE] PROVE PoolInv'
  <2>1. /\ pool' \in PoolFields /\ pool'.free = pool.free - 0
        /\ pool'.warming = pool.warming /\ pool'.warmed = pool.warmed
    <3>1. pool.free - 0 = pool.free /\ TRUE \in BOOLEAN
      BY <1>0
    <3>2. CASE pool' = pool
      BY <1>0, <3>1, <3>2
    <3>3. CASE pool' = [pool EXCEPT !.closed = TRUE]
      BY <1>0, <3>1, <3>3 DEF PoolFields
    <3> QED BY <1>1, <3>2, <3>3
  <2> QED BY <1>0, <1>1, <2>1, PoolKept
<1>2. ASSUME Moved(c, 1), pool.free > 0, pool' = [pool EXCEPT !.free = @ - 1] PROVE PoolInv'
  <2>1. /\ pool' \in PoolFields /\ pool'.free = pool.free - 1
        /\ pool'.warming = pool.warming /\ pool'.warmed = pool.warmed
    BY <1>0, <1>2 DEF PoolFields
  <2> QED BY <1>0, <1>2, <2>1, PoolKept
<1>3. ASSUME Moved(c, 0 - 1), pool' = [pool EXCEPT !.free = @ + 1] PROVE PoolInv'
  <2>1. /\ pool' \in PoolFields /\ pool'.free = pool.free - (0 - 1)
        /\ pool'.warming = pool.warming /\ pool'.warmed = pool.warmed
    BY <1>0, <1>3 DEF PoolFields
  <2> QED BY <1>0, <1>3, <2>1, PoolKept
<1>4. CASE Close(c)
  BY <1>1, <1>4, CloseMoves DEF Close
<1>5. CASE Try(c) \/ GetNoConn(c) \/ Wake(c) \/ Expire(c)
  BY <1>1, <1>5, AttemptMoves DEF Try, GetNoConn, Wake, Expire
<1>6. CASE GetConn(c)
  BY <1>2, <1>6, GetConnMoves DEF GetConn
<1>7. CASE Answer(c)
  BY <1>3, <1>7, AnswerMoves DEF Answer
<1>8. CASE Finish(c)
  BY <1>1, <1>8, FinishMoves DEF Finish
<1>9. CASE BeginTx(c)
  BY <1>1, <1>2, <1>9, BeginTxMoves
<1>10. CASE CallbackEnds(c) \/ \E op \in Outside \union Inside \union {"close"} : Inner(c, op)
  BY <1>1, <1>10, CallbackMoves DEF CallbackEnds, Inner
<1>11. CASE TxAnswer(c)
  BY <1>1, <1>11, TxAnswerMoves DEF TxAnswer
<1>12. CASE Commit(c) \/ Rollback(c)
  BY <1>3, <1>12, EndMoves
<1>13. CASE Begins(c)
  BY <1>1, <1>13, BeginMoves
<1>14. CASE NestReturns(c)
  BY <1>1, <1>14, NestReturnsMoves DEF NestReturns
<1> QED BY <1>4, <1>5, <1>6, <1>7, <1>8, <1>9, <1>10, <1>11, <1>12, <1>13, <1>14
        DEF Step, BesideSingleton

\* The singleton: nobody has a connection before the pool is opened, and all that there
\* will be are there afterwards.
LEMMA SingletonPool ==
  ASSUME CallsInv, LocalInv, OnceInv, PoolInv, NEW c \in Caller,
         NewDB(c) \/ OpenPool(c) \/ Warm(c)
  PROVE  OnceInv' /\ PoolInv'
<1>0. /\ call \in [Caller -> CallFields] /\ call[c] \in CallFields /\ CallInv(call[c], tx[c])
      /\ pool \in PoolFields /\ pool.free \in Nat /\ pool.warming \in Nat
      /\ pool.warmed \in Nat /\ MaxOpen \in Nat /\ MaxIdle \in Nat
      /\ Cardinality(Held) \in Nat
  BY Known, HeldFinite, DbAssumption DEF PoolInv, PoolFields
<1>1. Moved(c, 0)
  BY SingletonMoves
<1>2. Cardinality(Held') = Cardinality(Held)
  <2>1. Cardinality(Held') = Cardinality(Held) + 0
    BY <1>1, HeldMoves
  <2> QED BY <1>0, <2>1
<1>3. \A b \in Caller \ {c} : call'[b] = call[b]
  BY <1>1 DEF Moved
<1>4. First(call[c].op) \notin {"open", "warm"}
  BY DEF First
<1>5. CASE NewDB(c)
  <2>1. call[c].at = "newDB" /\ pool' = pool
    BY <1>5 DEF NewDB, At
  <2>2. CASE once = "none"
    <3>1. once' = "running" /\ call'[c].at = "open"
      BY <1>0, <1>5, <2>2 DEF NewDB, Goto, CallFields
    <3>2. Unopened' /\ \A b \in Caller \ {c} : call'[b].at \in Outer
      BY <1>3, <2>1, <2>2 DEF OnceInv, Unopened
    <3>3. OnceInv'
      BY <3>1, <3>2 DEF OnceInv, At
    <3>4. ~Opened /\ ~Opened'
      BY <1>3, <2>2, <3>1, <3>2 DEF OnceInv, Opened, At, Outer
    <3> QED BY <1>2, <2>1, <3>3, <3>4 DEF PoolInv, Total
  <2>3. CASE once = "ready"
    <3>1. once' = once /\ call'[c].at = First(call[c].op)
      BY <1>0, <1>5, <2>3 DEF NewDB, Goto, CallFields
    <3>2. \A b \in Caller : call'[b].at \notin {"open", "warm"}
      BY <1>3, <1>4, <2>3, <3>1 DEF OnceInv
    <3>3. OnceInv' /\ (Opened' <=> Opened)
      BY <2>3, <3>1, <3>2 DEF OnceInv, Opened
    <3> QED BY <1>2, <2>1, <3>3 DEF PoolInv, Total
  <2>4. CASE once = "failed"
    <3>1. once' = once /\ call'[c].at = "idle"
      BY <1>0, <1>5, <2>4 DEF NewDB, Return, NoCall
    <3>2. \A b \in Caller : call'[b].at \in Outer
      BY <1>3, <2>4, <3>1 DEF OnceInv, Outer
    <3>3. OnceInv' /\ ~Opened /\ ~Opened'
      BY <2>1, <2>4, <3>1, <3>2 DEF OnceInv, Opened, Unopened, At, Outer
    <3> QED BY <1>2, <2>1, <3>3 DEF PoolInv, Total
  <2> QED BY <1>5, <2>2, <2>3, <2>4 DEF NewDB
<1>6. ASSUME call[c].at \in {"open", "warm"}
      PROVE  /\ once = "running"
             /\ \A b \in Caller \ {c} : call[b].at \in Outer
             /\ At(c, "open") => Unopened
  BY <1>6 DEF OnceInv, Outer
<1>7. CASE OpenPool(c)
  <2>1. call[c].at = "open"
    BY <1>7 DEF OpenPool, At
  <2>2. /\ pool.free = 0 /\ pool.warming = 0 /\ pool.warmed = 0
        /\ \A b \in Caller \ {c} : call'[b].at \in Outer
    BY <1>3, <1>6, <2>1 DEF Unopened, At
  <2>3. ~Opened
    BY <1>6, <2>1 DEF Opened, At, Outer
  <2>4. Cardinality(Held) = 0
    BY <1>0, <2>2, <2>3 DEF PoolInv, Total
  <2>5. CASE Return(c) /\ once' = "failed" /\ pool' = pool
    <3>1. call'[c].at = "idle"
      BY <1>0, <2>5 DEF Return, NoCall
    <3>2. OnceInv' /\ ~Opened'
      BY <2>2, <2>5, <3>1 DEF OnceInv, Opened, Unopened, At, Outer
    <3> QED BY <1>2, <2>3, <2>5, <3>2 DEF PoolInv, Total
  <2>6. CASE Goto(c, "warm") /\ once' = once /\ pool' = [pool EXCEPT !.free = MaxOpen]
    <3>1. call'[c].at = "warm"
      BY <1>0, <2>6 DEF Goto, CallFields
    <3>2. OnceInv' /\ Opened'
      BY <1>6, <2>1, <2>2, <2>6, <3>1 DEF OnceInv, Opened, At
    <3>3. /\ pool' \in PoolFields /\ pool'.free = MaxOpen
          /\ pool'.warming = 0 /\ pool'.warmed = 0
      BY <1>0, <2>2, <2>6 DEF PoolFields
    <3>4. Total' = MaxOpen
      BY <1>0, <1>2, <2>4, <3>3 DEF Total
    <3> QED BY <1>0, <3>2, <3>3, <3>4 DEF PoolInv
  <2> QED BY <1>7, <2>5, <2>6 DEF OpenPool
<1>8. CASE Warm(c)
  <2>1. call[c].at = "warm" /\ once = "running" /\ Opened
    BY <1>6, <1>8 DEF Warm, At, Opened
  <2>2. \A b \in Caller \ {c} : call'[b].at \in Outer
    BY <1>3, <1>6, <2>1
  <2>3. CASE pool.warmed = MaxIdle
    <3>1. once' = "ready" /\ pool' = pool /\ call'[c].at = First(call[c].op)
      BY <1>0, <1>8, <2>3 DEF Warm, Goto, CallFields
    <3>2. OnceInv' /\ Opened'
      BY <1>4, <2>2, <3>1 DEF OnceInv, Opened, Outer
    <3> QED BY <1>2, <2>1, <3>1, <3>2 DEF PoolInv, Total
  <2>4. CASE pool.warmed # MaxIdle
    <3>1. /\ once' = once /\ call' = call /\ pool.free > 0
          /\ \/ pool' = [pool EXCEPT !.warmed = @ + 1, !.warming = @ + 1, !.free = @ - 1]
             \/ pool' = [pool EXCEPT !.warmed = @ + 1]
      BY <1>8, <2>4 DEF Warm
    <3>2. OnceInv' /\ Opened'
      BY <2>1, <2>2, <3>1 DEF OnceInv, Opened, At
    <3>3. /\ pool.warmed + 1 \in Nat /\ pool.warming + 1 \in Nat /\ pool.free - 1 \in Nat
          /\ pool.warmed + 1 <= MaxIdle
      BY <1>0, <2>4, <3>1 DEF PoolInv
    <3>4. /\ pool' \in PoolFields /\ pool'.warmed = pool.warmed + 1
          /\ \/ pool'.warming = pool.warming + 1 /\ pool'.free = pool.free - 1
             \/ pool'.warming = pool.warming /\ pool'.free = pool.free
      BY <1>0, <3>1, <3>3 DEF PoolFields
    <3>5. Total' = Total /\ pool'.warming <= pool'.warmed
      BY <1>0, <1>2, <3>4 DEF Total, PoolInv
    <3> QED BY <2>1, <3>2, <3>3, <3>4, <3>5 DEF PoolInv
  <2> QED BY <2>3, <2>4
<1> QED BY <1>5, <1>7, <1>8

\* A connection comes back from the warming up. Before the opening there is none.
LEMMA WarmedUpPool ==
  ASSUME CallsInv, LocalInv, OnceInv, PoolInv, WarmedUp
  PROVE  OnceInv' /\ PoolInv'
<1>0. /\ pool \in PoolFields /\ pool.free \in Nat /\ pool.warming \in Nat
      /\ pool.warmed \in Nat /\ MaxIdle \in Nat /\ Cardinality(Held) \in Nat
  BY HeldFinite, DbAssumption DEF PoolInv, PoolFields
<1>1. /\ pool.warming > 0 /\ once' = once /\ call' = call
      /\ pool' = [pool EXCEPT !.warming = @ - 1, !.free = @ + 1]
  BY DEF WarmedUp
<1>2. ~Unopened
  BY <1>0, <1>1 DEF Unopened
<1>3. OnceInv'
  BY <1>1, <1>2 DEF OnceInv, At
<1>4. Held' = Held /\ (Opened' <=> Opened)
  BY <1>1 DEF Held, Opened, At
<1>5. /\ pool' \in PoolFields /\ pool'.free = pool.free + 1
      /\ pool'.warming = pool.warming - 1 /\ pool'.warmed = pool.warmed
  <2>1. pool.warming - 1 \in Nat /\ pool.free + 1 \in Nat
    BY <1>0, <1>1
  <2> QED BY <1>0, <1>1, <2>1 DEF PoolFields
<1>6. Total' = Total
  BY <1>0, <1>4, <1>5 DEF Total
<1>7. pool'.warming <= pool'.warmed /\ pool'.warmed <= MaxIdle
  BY <1>0, <1>5 DEF PoolInv
<1>8. Total' = IF Opened' THEN MaxOpen ELSE 0
  BY <1>4, <1>6 DEF PoolInv
<1> QED BY <1>3, <1>5, <1>7, <1>8 DEF PoolInv

\* Only a beginning counts, outside or in a callback.
LEMMA CallBoundsStep == CallBounds /\ [DbNext]_vars => CallBounds'
<1> SUFFICES ASSUME CallBounds, [DbNext]_vars PROVE CallBounds'
  OBVIOUS
<1>1. ASSUME calls < MaxCalls, calls' = calls + 1 PROVE CallBounds'
  BY <1>1, DbAssumption DEF CallBounds
<1>2. ASSUME NEW c \in Caller, NEW op, NEW p, Start(c, op, p) PROVE CallBounds'
  BY <1>1, <1>2 DEF Start
<1>3. ASSUME NEW c \in Caller, NEW op, Inner(c, op) PROVE CallBounds'
  BY <1>1, <1>3 DEF Inner
<1>4. ASSUME NEW c \in Caller, Step(c) \/ Expire(c), ~\E op : Inner(c, op) PROVE calls' = calls
  BY <1>4 DEF Step, NewDB, OpenPool, Warm, Close, Try, GetConn, GetNoConn, Answer, Wake, Finish,
              BeginTx, NestReturns, CallbackEnds, TxAnswer, Commit, Rollback, Released, Expire
<1>5. CASE WarmedUp \/ UNCHANGED vars
  BY <1>5 DEF WarmedUp, vars, CallBounds
<1> QED BY <1>2, <1>3, <1>4, <1>5 DEF DbNext, Begin, Nest, CallBounds

\* A callback waits for one transaction at a time.
LEMMA NestTypesStep == NestTypes /\ [DbNext]_vars => NestTypes'
<1> SUFFICES ASSUME NestTypes, [DbNext]_vars PROVE NestTypes'
  OBVIOUS
<1>1. ASSUME NEW c \in Caller, NEW d \in Caller, inner' = [inner EXCEPT ![c] = d]
      PROVE  NestTypes'
  BY <1>1 DEF NestTypes
<1>2. ASSUME NEW c \in Caller, NestReturns(c) \/ \E d \in Caller : Nest(c, d) PROVE NestTypes'
  BY <1>1, <1>2 DEF NestReturns, Nest
<1>3. ASSUME NEW c \in Caller, ~NestReturns(c),
             Step(c) \/ Expire(c) \/ \E op : Begin(c, op)
      PROVE  inner' = inner
  BY <1>3 DEF Step, NewDB, OpenPool, Warm, Close, Try, GetConn, GetNoConn, Answer, Wake, Finish,
              BeginTx, Inner, CallbackEnds, TxAnswer, Commit, Rollback, Released, Expire, Begin
<1>4. CASE WarmedUp \/ UNCHANGED vars
  BY <1>4 DEF WarmedUp, vars, NestTypes
<1> QED BY <1>2, <1>3, <1>4 DEF DbNext, NestTypes

\* Nothing is open and nobody calls at first.
LEMMA DbInvInit == DbInit => DbInv
<1> SUFFICES ASSUME DbInit PROVE DbInv
  OBVIOUS
<1>1. MetricsInv /\ CallsInv
  BY MetricsInvInit, CallsInvInit DEF DbInit
<1>2. \A c \in Caller : call[c] = NoCall /\ tx[c] = NoTx
  BY DEF DbInit
<1>3. LocalInv
  <2>1. LocalOK(NoCall, NoTx)
    BY DbAssumption DEF LocalOK, AttemptInv, ConnInv, NoCall, NoTx, Writes, Outside
  <2> QED BY <1>2, <2>1 DEF LocalInv
<1>4. once = "none" /\ Unopened /\ pool \in PoolFields
  BY DEF DbInit, Unopened, PoolFields
<1>5. OnceInv
  BY <1>2, <1>4 DEF OnceInv, Outer, NoCall
<1>6. PoolInv
  <2>1. Held = {}
    BY <1>2 DEF Held, NoCall
  <2>2. ~Opened
    BY <1>2, <1>4 DEF Opened, At, NoCall
  <2>3. Total = 0
    BY <1>4, <2>1, FS_EmptySet DEF Total, Unopened
  <2> QED BY <1>4, <2>2, <2>3, DbAssumption DEF PoolInv, Unopened
<1>7. CallBounds
  BY DbAssumption DEF DbInit, CallBounds
<1>8. NestTypes
  BY DEF DbInit, NestTypes
<1> QED BY <1>1, <1>3, <1>5, <1>6, <1>7, <1>8 DEF DbInv

\* Every step keeps it.
LEMMA DbInvStep == DbInv /\ [DbNext]_vars => DbInv'
<1> SUFFICES ASSUME DbInv, [DbNext]_vars PROVE DbInv'
  OBVIOUS
<1>1. MetricsInv' /\ CallsInv' /\ LocalInv' /\ CallBounds' /\ NestTypes'
  BY CallsRecord, MetricsStep, CallsInvStep, LocalStep, CallBoundsStep, NestTypesStep DEF DbInv
<1>2. CallsInv /\ LocalInv /\ OnceInv /\ PoolInv /\ pool \in PoolFields
  BY DEF DbInv, PoolInv
<1>3. ASSUME NEW c \in Caller, BesideSingleton(c) PROVE OnceInv' /\ PoolInv'
  <2>1. Ordinary(c)
    BY <1>2, <1>3, MostOrdinary
  <2>2. OnceInv'
    BY <1>2, <2>1, OrdinaryOnce
  <2> QED BY <1>2, <1>3, <2>2, OrdinaryPool
<1>4. ASSUME NEW c \in Caller, NewDB(c) \/ OpenPool(c) \/ Warm(c) PROVE OnceInv' /\ PoolInv'
  BY <1>2, <1>4, SingletonPool
<1>5. ASSUME WarmedUp PROVE OnceInv' /\ PoolInv'
  BY <1>2, <1>5, WarmedUpPool
<1>6. ASSUME UNCHANGED vars PROVE OnceInv' /\ PoolInv'
  <2>1. call' = call /\ once' = once /\ pool' = pool
    BY <1>6 DEF vars
  <2> QED BY <1>2, <2>1 DEF OnceInv, Unopened, At, PoolInv, Total, Held, Opened
<1>7. OnceInv' /\ PoolInv'
  BY <1>3, <1>4, <1>5, <1>6 DEF DbNext, BesideSingleton, Begins
<1> QED BY <1>1, <1>7 DEF DbInv

\* What the fields are, from the bounds of the attempts and of the pool.
LEMMA DbTypes == DbInv => DbTypeOK
<1> SUFFICES ASSUME DbInv PROVE DbTypeOK
  OBVIOUS
<1>0. /\ CallsInv /\ LocalInv /\ PoolInv /\ MaxRetries \in Nat
      /\ MaxOpen \in Nat /\ MaxIdle \in Nat
  BY DbAssumption DEF DbInv
<1>1. ASSUME NEW c \in Caller PROVE call[c] \in CallType /\ tx[c] \in TxType
  <2>1. /\ call[c] \in CallFields /\ tx[c] \in TxFields
        /\ LocalOK(call[c], tx[c]) /\ call[c].conns \in 0 .. 2
        /\ call[c].lost <= call[c].carried
    BY <1>0, Known DEF CallInv, WriteInv
  <2>2. /\ call[c].tries \in 0 .. MaxRetries /\ call[c].carried \in 0 .. MaxRetries
        /\ call[c].lost \in 0 .. MaxRetries
    BY <1>0, <2>1 DEF CallFields, TxFields, LocalOK, AttemptInv
  <2>3. call[c] \in CallType
    BY <2>1, <2>2 DEF CallFields, CallType
  <2>4. tx[c] \in TxType
    BY <2>1 DEF TxFields, TxType
  <2> QED BY <2>3, <2>4
<1>2. call \in [Caller -> CallType] /\ tx \in [Caller -> TxType]
  BY <1>0, <1>1 DEF CallsInv, CallsFields
<1>3. /\ pool \in PoolFields /\ pool.free \in Nat /\ pool.warming \in Nat
      /\ pool.warmed \in Nat /\ Cardinality(Held) \in Nat
  BY <1>0, HeldFinite DEF PoolInv, PoolFields
<1>4. /\ pool.free \in 0 .. MaxOpen /\ pool.warming \in 0 .. MaxIdle
      /\ pool.warmed \in 0 .. MaxIdle
  BY <1>0, <1>3 DEF PoolInv, Total
<1>5. pool \in [free : 0 .. MaxOpen, warming : 0 .. MaxIdle, warmed : 0 .. MaxIdle,
                closed : BOOLEAN]
  BY <1>3, <1>4 DEF PoolFields
<1> QED BY <1>2, <1>5 DEF DbInv, DbTypeOK, MetricsInv, OnceInv, CallBounds, NestTypes

\* The database layer's state stays within its types: no call is tried, or carried out,
\* more often than MaxRetries, no call has a third connection, and the pool never has
\* more of them than maxOpenConns (db.go:23-28, 76-77, 579-611).
THEOREM DbTypesHold == DbSpec => []DbTypeOK
<1> QED BY DbInvInit, DbInvStep, DbTypes, PTL DEF DbSpec

\* No connection is lost by any call, attempt, error or panic, for any number of
\* callers and any size of the pool (db.go:113, 260, 505-526).
THEOREM ConnectionsComeBack == DbSpec => []ConnectionsReturned
<1>1. DbInv => ConnectionsReturned
  <2> SUFFICES ASSUME DbInv PROVE ConnectionsReturned
    OBVIOUS
  <2>1. ASSUME NEW c \in Caller, At(c, "idle") PROVE call[c].conns = 0
    BY <2>1, Known DEF DbInv, At, CallInv, PlaceInv, LocalOK, ConnInv
  <2>2. pool.free + pool.warming + Cardinality(Held) = IF Opened THEN MaxOpen ELSE 0
    BY DEF DbInv, PoolInv, Total
  <2> QED BY <2>1, <2>2 DEF ConnectionsReturned
<1> QED BY <1>1, DbInvInit, DbInvStep, PTL DEF DbSpec

\* A goroutine that waits without a deadline: for BEGIN, or to warm the pool up.
Waits(c) == At(c, "begin") \/ At(c, "warm")

\* Who waits without a deadline has no connection in that call. The warming up is kept
\* waiting by its own goroutines alone. BEGIN is kept waiting by calls, and as long as
\* no transaction waits that was begun in a callback, one that has a connection waits
\* for nothing of the kind, nor does what its callback waits for.
OnlyNestingBlocks ==
    \A c \in Caller : Waits(c) =>
        /\ call[c].conns = 0
        /\ At(c, "warm") => pool.free > 0 \/ pool.warming > 0
        /\ pool.free = 0 /\ pool.warming = 0 /\ ~NestedWaits =>
              \E b \in Caller : call[b].conns > 0 /\ ~Waits(b) /\ ~Waits(inner[b])

\* Who has opened the pool is alone with it.
LEMMA WarmIsAlone ==
  ASSUME DbInv, NEW c \in Caller, At(c, "warm"), NEW b \in Caller
  PROVE  call[b].conns = 0
<1>0. CallsInv /\ LocalInv /\ OnceInv
  BY DEF DbInv
<1>1. call[b].at \in {"warm", "idle", "newDB"}
  BY <1>0 DEF OnceInv, Outer, At
<1>2. ~tx[b].open
  BY <1>0, <1>1, Known DEF CallInv, PlaceInv
<1> QED BY <1>0, <1>1, <1>2, Known DEF LocalOK, ConnInv

\* While no connection is free or comes back from the warming up, a call has one.
LEMMA SomeoneHolds ==
  ASSUME DbInv, Opened, pool.free = 0, pool.warming = 0
  PROVE  \E b \in Caller : call[b].conns > 0
<1>0. CallsInv /\ LocalInv /\ PoolInv
  BY DEF DbInv
<1>1. Cardinality(Held) # 0 /\ IsFiniteSet(Held)
  BY <1>0, HeldFinite, DbAssumption DEF PoolInv, Total
<1>2. PICK h \in Held : TRUE
  BY <1>1, FS_EmptySet
<1>3. h[1] \in Caller /\ h[2] \in {1, 2} /\ h[2] <= call[h[1]].conns
  BY <1>2 DEF Held
<1>4. call[h[1]].conns \in 0 .. 2
  BY <1>0, <1>3, Known
<1> QED BY <1>3, <1>4

\* BEGIN and the warming up wait without a deadline (db.go:257, 495-505), but in no
\* circle: some connection they wait for is with a call that waits no longer than its
\* deadline; unless a callback begins a transaction of its own (483-487).
THEOREM OnlyNestingWaitsInCircles == DbSpec => []OnlyNestingBlocks
<1>1. DbInv => OnlyNestingBlocks
  <2> SUFFICES ASSUME DbInv, NEW c \in Caller, Waits(c)
               PROVE  /\ call[c].conns = 0
                      /\ At(c, "warm") => pool.free > 0 \/ pool.warming > 0
                      /\ pool.free = 0 /\ pool.warming = 0 /\ ~NestedWaits =>
                            \E b \in Caller :
                                call[b].conns > 0 /\ ~Waits(b) /\ ~Waits(inner[b])
    BY DEF OnlyNestingBlocks
  <2>0. CallsInv /\ LocalInv /\ OnceInv /\ PoolInv /\ NestTypes
    BY DEF DbInv
  <2>1. ASSUME NEW b \in Caller, Waits(b) PROVE call[b].conns = 0
    <3>1. ~tx[b].open
      BY <2>0, <2>1, Known DEF Waits, At, CallInv, PlaceInv
    <3> QED BY <2>0, <2>1, <3>1, Known DEF Waits, At, LocalOK, ConnInv
  <2>2. Opened
    BY <2>0 DEF OnceInv, Opened, Outer, At, Waits
  <2>3. pool.free \in Nat /\ pool.warming \in Nat
    BY <2>0 DEF PoolInv, PoolFields
  <2>4. At(c, "warm") => pool.free > 0 \/ pool.warming > 0
    <3> SUFFICES ASSUME At(c, "warm"), pool.free = 0, pool.warming = 0 PROVE FALSE
      BY <2>3
    <3>1. PICK b \in Caller : call[b].conns > 0
      BY <2>2, SomeoneHolds
    <3> QED BY <3>1, WarmIsAlone
  <2>5. ASSUME pool.free = 0, pool.warming = 0, ~NestedWaits
        PROVE  \E b \in Caller : call[b].conns > 0 /\ ~Waits(b) /\ ~Waits(inner[b])
    <3>1. PICK b \in Caller : call[b].conns > 0
      BY <2>2, <2>5, SomeoneHolds
    <3>2. ~Waits(b)
      BY <2>1, <3>1
    <3>3. inner[b] \in Caller
      BY <2>0 DEF NestTypes
    <3>4. ~At(inner[b], "warm")
      BY <3>1, <3>3, WarmIsAlone
    <3>5. ~At(inner[b], "begin")
      BY <2>5, <3>2 DEF NestedWaits, Waits
    <3> QED BY <3>1, <3>2, <3>4, <3>5 DEF Waits
  <2> QED BY <2>1, <2>4, <2>5
<1> QED BY <1>1, DbInvInit, DbInvStep, PTL DEF DbSpec
=============================================================================
