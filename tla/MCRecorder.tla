---------------------------- MODULE MCRecorder ----------------------------
(* Small instances of the recorder: suites as they change over time.       *)
EXTENDS Recorder

\* A probe of an asynchronous statement, whose job id differs every time.
Probe(name, group, steps) ==
  [name |-> name, group |-> group, steps |-> steps, sessions |-> FALSE,
   ignoreRows |-> TRUE, race |-> FALSE, knownGap |-> FALSE, recordOnly |-> FALSE]

\* Two transactions of which one may lose.
Race(name, group) ==
  [name |-> name, group |-> group, steps |-> 0, sessions |-> TRUE,
   ignoreRows |-> FALSE, race |-> TRUE, knownGap |-> FALSE, recordOnly |-> FALSE]

\* A case that moves to another group, whose own group is then no more, and
\* a case that was given no group.
MovingSuites ==
  {<<Race("c2", "g2"), Probe("c1", "g1", 1)>>,
   <<Race("c2", "g1")>>,
   <<Probe("c1", NoGroup, 2)>>}

Ok(tag) ==
  [outcome |-> "ok", sqlstate |-> "", message |-> "", tag |-> tag,
   columns |-> <<>>, rows |-> <<>>, results |-> <<>>]

Err(sqlstate, message) ==
  [Ok(<<>>) EXCEPT !.outcome = "error", !.sqlstate = sqlstate, !.message = message]

\* An answer of several statements, one of which reports the id of a job.
Job(id) ==
  [Ok(<<>>) EXCEPT !.results =
     <<[tag |-> <<"SELECT", 1>>, columns |-> <<"job_id">>, rows |-> <<id>>]>>]

JobAnswers == {Job("id1"), Job("id2"), Err("0A000", "no")}

Won == <<Ok(<<"UPDATE", 1>>), Ok(<<"COMMIT">>)>>
LostRace == <<Ok(<<"UPDATE", 1>>), Err("40001", "OC000")>>
Missed == <<Ok(<<"UPDATE", 0>>), Ok(<<"COMMIT">>)>>
TimedOut == <<Ok(<<"UPDATE", 1>>), NoAnswer("timeout")>>

\* Either transaction loses, the winner finding a row to change or none, or
\* one is not answered in time.
EitherLoses ==
  {<<Won, LostRace>>, <<LostRace, Won>>, <<Missed, LostRace>>, <<Won, TimedOut>>}

TwoGroups == {"g1", "g2"}

\* Setup drops only the first relation before it creates both.
TwoObjects == <<"dropped_first", "created_only">>
FirstObject == <<"dropped_first">>
=============================================================================
