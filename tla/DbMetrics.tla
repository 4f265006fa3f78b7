----------------------------- MODULE DbMetrics -----------------------------
(***************************************************************************)
(* DB.recordMetrics (src/common/db/db.go:779-797): every query and write   *)
(* of the database layer, from whatever goroutine, ends by counting itself *)
(* and raising MaxQueryTime.  Every field is atomic, but the maximum is    *)
(* loaded, compared and stored in steps of their own.                      *)
(***************************************************************************)
EXTENDS Naturals

CONSTANTS Caller,    \* goroutines that call the package
          MaxTime    \* bound on a duration

ASSUME MetricsAssumption == MaxTime \in Nat

VARIABLES
    recording,     \* how far each caller has come in recordMetrics
    duration,      \* the duration it records
    currentMax,    \* what it has loaded
    maxQueryTime,  \* DBMetrics.MaxQueryTime
    alone,         \* nobody else has been between load and store since it loaded
    sure           \* the longest duration recorded alone

metrics == <<recording, duration, currentMax, maxQueryTime, alone, sure>>

Time == 0 .. MaxTime

MetricsTypeOK ==
    /\ recording \in [Caller -> {"no", "load", "store"}]
    /\ duration \in [Caller -> Time]
    /\ currentMax \in [Caller -> Time]
    /\ maxQueryTime \in Time
    /\ alone \in [Caller -> BOOLEAN]
    /\ sure \in Time

MetricsInit ==
    /\ recording = [c \in Caller |-> "no"]
    /\ duration = [c \in Caller |-> 0]
    /\ currentMax = [c \in Caller |-> 0]
    /\ maxQueryTime = 0
    /\ alone = [c \in Caller |-> FALSE]
    /\ sure = 0

\* The call, a query or a write, has taken d. (The counts of calls and the last
\* duration of each kind, one atomic step each, are left out.)
Record(c, d) ==
    /\ recording[c] = "no"
    /\ recording' = [recording EXCEPT ![c] = "load"]
    /\ duration' = [duration EXCEPT ![c] = d]
    /\ UNCHANGED <<currentMax, maxQueryTime, alone, sure>>

Storing == {c \in Caller : recording[c] = "store"}

LoadMax(c) ==
    /\ recording[c] = "load"
    /\ recording' = [recording EXCEPT ![c] = "store"]
    /\ currentMax' = [currentMax EXCEPT ![c] = maxQueryTime]
    /\ alone' = [b \in Caller |-> IF b = c THEN Storing = {}
                                           ELSE alone[b] /\ b \notin Storing]
    /\ UNCHANGED <<duration, maxQueryTime, sure>>

\* What the caller leaves in MaxQueryTime: what is there unless its duration is larger.
RaisedUnchecked(c) == duration[c]
Raised(c) == IF duration[c] > currentMax[c] THEN duration[c] ELSE maxQueryTime

StoreMax(c) ==
    /\ recording[c] = "store"
    /\ recording' = [recording EXCEPT ![c] = "no"]
    /\ maxQueryTime' = Raised(c)
    /\ sure' = IF alone[c] /\ duration[c] > sure THEN duration[c] ELSE sure
    /\ duration' = [duration EXCEPT ![c] = 0]
    /\ currentMax' = [currentMax EXCEPT ![c] = 0]
    /\ alone' = [alone EXCEPT ![c] = FALSE]

MetricsNext == \E c \in Caller :
    \/ \E d \in Time : Record(c, d)
    \/ LoadMax(c)
    \/ StoreMax(c)

MetricsSpec == MetricsInit /\ [][MetricsNext]_metrics

-----------------------------------------------------------------------------
\* MaxQueryTime, "the time of the longest query" (db.go:57), forgets a call only if
\* another was recorded between its load and its store or the other way round:
\* what a call has recorded alone is never lost, however the later ones overlap.
MaxMissesOnlyOverlapped == maxQueryTime >= sure
=============================================================================
