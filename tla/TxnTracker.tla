----------------------------- MODULE TxnTracker -----------------------------
(***************************************************************************)
(* A session's transaction tracker next to the upstream transaction it is  *)
(* meant to describe. Tracker.Admit runs one loop iteration per step: the  *)
(* age rule, the validation pass over the batch, then the recording pass.  *)
(* An admitted batch is forwarded, so the upstream executes it; statement  *)
(* k of the batch is executed in the step that records it, which fixes the *)
(* order the two sides see. The upstream may fail any statement, and then  *)
(* skips the rest of the batch while the tracker records it all the same.  *)
(***************************************************************************)
EXTENDS Txn

CONSTANTS
  Batches,        \* the batches of kinds a client may submit
  NestedBegin,    \* whether the client sends BEGIN in an open transaction
  BatchesPerSync, \* batches one implicit transaction may span (1 for a
                  \* simple Query; more for Binds before one Sync)
  MaxClock        \* bound on the clock

ASSUME TxnTrackerAssumption ==
  /\ Batches \subseteq Seq(Kinds)
  /\ NestedBegin \in BOOLEAN
  /\ BatchesPerSync \in Nat \ {0}
  /\ MaxClock \in Nat

VARIABLES
  tracker,  \* the Tracker
  call,     \* the Admit call in progress
  server,   \* the upstream transaction (external)
  clock     \* time.Now

vars == <<tracker, call, server, clock>>

\* acc holds the value of the locals ddl and dml before each iteration of the
\* validation pass, so Last(acc) is their current value.
NoCall == [pc |-> "idle", kinds |-> <<>>, i |-> 1, acc |-> <<>>,
           before |-> NewTracker, rule |-> "none"]

\* block is the transaction status, ddl and dml what the current transaction
\* holds (implicit ones too), since when its BEGIN ran, skipping that the rest
\* of the exchange is dropped after an error, batches the ones since the Sync.
IdleServer == [block |-> "I", ddl |-> 0, dml |-> FALSE, since |-> ZeroTime,
               skipping |-> FALSE, batches |-> 0]

Init ==
  /\ tracker = NewTracker
  /\ call = NoCall
  /\ server = IdleServer
  /\ clock = 1

-----------------------------------------------------------------------------
\* BEGIN only where no transaction, explicit or implicit, is open.
FreshBegins(kinds) ==
  \A i \in DOMAIN kinds : kinds[i] = "begin" =>
    IF i = 1 THEN server.block = "I" /\ server.ddl = 0 /\ ~server.dml
    ELSE kinds[i - 1] \in {"commit", "rollback"}

\* Admit is called: the reset outside a transaction, then the age rule.
AdmitCall(kinds) ==
  /\ call.pc = "idle"
  /\ server.batches < BatchesPerSync
  /\ NestedBegin \/ FreshBegins(kinds)
  /\ tracker' = Enter(tracker)
  /\ call' = IF AgeRefuses(tracker', kinds, clock)
             THEN [NoCall EXCEPT !.kinds = kinds, !.before = tracker,
                                 !.rule = "txn_age"]
             ELSE [NoCall EXCEPT !.pc = "validate", !.kinds = kinds,
                                 !.before = tracker,
                                 !.acc = <<Counters(tracker')>>]
  /\ UNCHANGED <<server, clock>>

\* An iteration of the validation pass.
Validate ==
  /\ call.pc = "validate"
  /\ call.i <= Len(call.kinds)
  /\ LET k    == call.kinds[call.i]
         acc  == call.acc[call.i]
         rule == Breaks(acc, k)
     IN  call' = IF rule # "none"
                 THEN [call EXCEPT !.pc = "idle", !.rule = rule]
                 ELSE [call EXCEPT !.i = @ + 1,
                                   !.acc = Append(@, Check(acc, k))]
  /\ UNCHANGED <<tracker, server, clock>>

\* Nothing was broken: the recording pass starts.
Validated ==
  /\ call.pc = "validate"
  /\ call.i > Len(call.kinds)
  /\ tracker' = Enter(tracker)
  /\ call' = [call EXCEPT !.pc = "record", !.i = 1]
  /\ server' = [server EXCEPT !.batches = @ + 1]
  /\ UNCHANGED clock

\* The upstream executes a statement. In a failed block it refuses all but the
\* end of the transaction, and after an error it drops the rest of the batch.
Executes(sv, k, now) ==
  CASE sv.skipping -> sv
    [] ~sv.skipping /\ k \in {"commit", "rollback"} ->
         [IdleServer EXCEPT !.batches = sv.batches]
    [] ~sv.skipping /\ sv.block = "E" /\ k \notin {"commit", "rollback"} ->
         [sv EXCEPT !.skipping = TRUE]
    [] ~sv.skipping /\ sv.block = "I" /\ k = "begin" ->
         [sv EXCEPT !.block = "T", !.since = now]
    [] ~sv.skipping /\ sv.block # "E" /\ k = "ddl" -> [sv EXCEPT !.ddl = @ + 1]
    [] ~sv.skipping /\ sv.block # "E" /\ k = "dml" -> [sv EXCEPT !.dml = TRUE]
    [] OTHER -> sv

\* A statement fails: what its transaction held is gone, and an open block is
\* left failed unless it was the COMMIT that failed.
Fails(sv, k) ==
  [sv EXCEPT !.skipping = TRUE, !.ddl = 0, !.dml = FALSE,
             !.block = IF @ = "I" \/ k = "commit" THEN "I" ELSE "E"]

\* An iteration of the recording pass, and the statement running upstream.
RecordKind ==
  /\ call.pc = "record"
  /\ call.i <= Len(call.kinds)
  /\ LET k == call.kinds[call.i]
     IN  /\ tracker' = Record(tracker, k, clock)
         /\ \/ server' = Executes(server, k, clock)
            \/ /\ ~server.skipping
               /\ k \notin {"begin", "rollback"}
               /\ server' = Fails(server, k)
  /\ call' = [call EXCEPT !.i = @ + 1]
  /\ UNCHANGED clock

\* Admit returns; the batch is on its way.
Admitted ==
  /\ call.pc = "record"
  /\ call.i > Len(call.kinds)
  /\ call' = [call EXCEPT !.pc = "idle"]
  /\ UNCHANGED <<tracker, server, clock>>

\* The exchange ends: an implicit transaction ends with it.
Sync ==
  /\ call.pc = "idle"
  /\ server.batches > 0
  /\ server' = IF server.block = "I" THEN IdleServer
               ELSE [server EXCEPT !.skipping = FALSE, !.batches = 0]
  /\ call' = NoCall
  /\ UNCHANGED <<tracker, clock>>

Tick ==
  /\ call.pc = "idle"
  /\ clock < MaxClock
  /\ clock' = clock + 1
  /\ call' = NoCall
  /\ UNCHANGED <<tracker, server>>

Next ==
  \/ \E kinds \in Batches : AdmitCall(kinds)
  \/ Validate
  \/ Validated
  \/ RecordKind
  \/ Admitted
  \/ Sync
  \/ Tick

Spec == Init /\ [][Next]_vars

-----------------------------------------------------------------------------
Calls ==
  [pc: {"idle", "validate", "record"}, kinds: Seq(Kinds), i: Nat \ {0},
   acc: Seq([ddl: Nat, dml: BOOLEAN]), before: Trackers,
   rule: {"none", "txn_age", "ddl_count", "ddl_dml_mix"}]

Servers ==
  [block: {"I", "T", "E"}, ddl: Nat, dml: BOOLEAN, since: Nat,
   skipping: BOOLEAN, batches: Nat]

\* Every variable keeps its type, and a tracker inside a transaction knows
\* when it began: the age rule takes a zero beganAt for "not known".
TypeOK ==
  /\ tracker \in Trackers
  /\ tracker.inTxn => tracker.beganAt # ZeroTime
  /\ call \in Calls
  /\ server \in Servers
  /\ clock \in Nat \ {0}

\* What the rules of Admit are for (txn.go): no upstream transaction, explicit
\* or implicit, ever holds two DDL statements or DDL together with DML.
DDLAlone == server.ddl <= 1 /\ ~(server.ddl = 1 /\ server.dml)

\* A batch admitted into a transaction the upstream has held open for longer
\* than MaxAge holds a ROLLBACK: the age rule of Admit cannot be outlived.
AgeRespected ==
  /\ call.pc = "record" /\ call.i = 1
  /\ MaxAge > 0
  /\ server.block = "T" /\ clock - server.since > MaxAge
  => HasRollback(call.kinds)

\* Whenever the upstream is inside a usable transaction block the tracker says
\* so and knows when it began, whatever failed on the way: reject and
\* occIntercept ask the tracker, not the upstream.
OpenBlockTracked ==
  server.block = "T" => tracker.inTxn /\ tracker.beganAt = server.since

\* The two passes of Admit, run one iteration at a time, decide and record
\* exactly what Admit as a whole does (the operator the session model uses).
LoopsMatchAdmit ==
  call.pc = "idle" /\ call.kinds # <<>> =>
    LET whole == Admit(call.before, call.kinds, clock)
    IN  call.rule = whole.rule /\ tracker = whole.tracker

-----------------------------------------------------------------------------
(* The inductive invariant behind DDLAlone, AgeRespected and               *)
(* OpenBlockTracked.                                                       *)

Empty(counters) == counters.ddl = 0 /\ ~counters.dml

Alone(counters) == counters.ddl <= 1 /\ ~(counters.ddl = 1 /\ counters.dml)

\* The first n statements of the batch were validated one after the other.
Chained(n) ==
  \A j \in 1 .. n :
    /\ Breaks(call.acc[j], call.kinds[j]) = "none"
    /\ call.acc[j + 1] = Check(call.acc[j], call.kinds[j])

\* A BEGIN inside the batch follows the end of a transaction.
BeginsFollowEnds ==
  \A j \in DOMAIN call.kinds :
    call.kinds[j] = "begin" /\ j > 1 => call.kinds[j - 1] \in {"commit", "rollback"}

\* Where the next statement is a BEGIN, the upstream has nothing open.
BeginIsFresh ==
  call.i <= Len(call.kinds) /\ call.kinds[call.i] = "begin" =>
    Empty(server) /\ server.block # "T"

\* During the validation pass: the locals started from the tracker, and the
\* upstream has not seen the batch.
ValidateInv ==
  /\ call.i <= Len(call.kinds) + 1
  /\ Len(call.acc) = call.i
  /\ call.acc[1] = Counters(tracker)
  /\ Chained(call.i - 1)
  /\ BeginsFollowEnds
  /\ Len(call.kinds) > 0 /\ call.kinds[1] = "begin" =>
       Empty(server) /\ server.block # "T"
  /\ ~tracker.inTxn => Empty(Counters(tracker))
  /\ ~AgeRefuses(tracker, call.kinds, clock)
  /\ server.batches = 0

\* During the recording pass: the tracker holds what the locals held before
\* the same iteration.
RecordInv ==
  /\ call.i <= Len(call.kinds) + 1
  /\ Len(call.acc) = Len(call.kinds) + 1
  /\ call.acc[call.i] = Counters(tracker)
  /\ Chained(Len(call.kinds))
  /\ BeginsFollowEnds
  /\ BeginIsFresh
  /\ call.i = 1 => ~AgeRefuses(tracker, call.kinds, clock)
  /\ server.batches = 1

\* The upstream holds no more than the tracker counts.
Counted ==
  /\ server.ddl <= tracker.ddlCount
  /\ server.dml => tracker.dmlSeen
  /\ Alone(Counters(tracker))

\* A failed or skipping upstream holds nothing, nor does an idle one at the
\* start of an exchange.
Emptied ==
  /\ server.skipping => server.block # "T"
  /\ server.skipping \/ server.block = "E" => Empty(server)
  /\ server.batches = 0 /\ server.block = "I" => Empty(server)
  /\ server.batches = 0 => ~server.skipping

IInv ==
  /\ TypeOK
  /\ call.pc = "validate" => ValidateInv
  /\ call.pc = "record" => RecordInv
  /\ Counted
  /\ Emptied
  /\ OpenBlockTracked
=============================================================================
