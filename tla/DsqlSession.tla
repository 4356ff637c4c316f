---------------------------- MODULE DsqlSession ----------------------------
(***************************************************************************)
(* What a session promises its client, with nothing of how the emulator    *)
(* keeps the promise: no savepoint, no hidden exchange, no repair and no   *)
(* suppressed answer. The client asks for a list of statements; each is    *)
(* answered in turn by its tag or by an error that drops the rest; one     *)
(* ReadyForQuery ends the answer and tells the truth about the block.      *)
(*                                                                         *)
(* This is the contract session.go's handlers together owe the client; the *)
(* session is shown to implement it.                                       *)
(***************************************************************************)
EXTENDS Naturals, Sequences, Statements

CONSTANT Idle     \* no request is outstanding

VARIABLES
  request,  \* the statements asked for, or Idle
  answer,   \* the messages received for the last request
  status,   \* the block status of the last ReadyForQuery
  acked,    \* acknowledged statements with effects in the open transaction
  durable   \* the statements the last acknowledged COMMIT made durable

vars == <<request, answer, status, acked, durable>>

Tag(s) == [type |-> "C", what |-> s]
Error(code) == [type |-> "E", what |-> code]
Ready(b) == [type |-> "Z", what |-> b]

Codes == {"rule", "txn", "25P02", "conflict", "error"}

Init ==
  /\ request = Idle /\ answer = <<>>
  /\ status = "I" /\ acked = 0 /\ durable = 0

\* The statement to be answered next; a named statement's text is not part of
\* the request that runs it.
Current == request[Len(answer) + 1]

Unanswered == Len(answer) < Len(request)

Failed == answer # <<>> /\ answer[Len(answer)].type = "E"

\* The block after the answers so far. An error fails an open transaction,
\* but a refused COMMIT has ended it.
Block ==
  LET control == {i \in DOMAIN answer :
                    answer[i] \in {Tag("begin"), Tag("commit"), Tag("rollback")}}
      last    == CHOOSE i \in control : \A j \in control : j <= i
      b       == IF control = {} THEN status
                 ELSE IF answer[last] = Tag("begin") THEN "T" ELSE "I"
  IN  IF ~Failed \/ b = "I" THEN b
      ELSE IF Len(answer) <= Len(request) /\ request[Len(answer)] = "commit"
      THEN "I" ELSE "E"

Ask ==
  /\ request = Idle
  /\ request' \in Seq(ClientStatements \cup {"prepared"})
  /\ answer' = <<>>
  /\ UNCHANGED <<status, acked, durable>>

\* A statement is acknowledged. In a failed block only the end of the
\* transaction is, as a rollback; an acknowledged COMMIT makes durable
\* exactly what was acknowledged before it.
Acknowledge(what) ==
  /\ request # Idle /\ ~Failed /\ Unanswered
  /\ IF Block = "E" THEN Current \in {"commit", "rollback"} /\ what = "rollback"
     ELSE what = Current \/ (Current = "prepared" /\ what \in Effects)
  /\ answer' = Append(answer, Tag(what))
  /\ acked' = CASE what \in {"commit", "rollback"} -> 0
                [] what \in Effects -> acked + 1
                [] OTHER -> acked
  /\ durable' = IF what = "commit" THEN acked ELSE durable
  /\ UNCHANGED <<request, status>>

\* A statement is refused. ROLLBACK never is and BEGIN only in a failed block;
\* COMMIT is only for a conflict, in a transaction that acknowledged something
\* (failed since or not).
Refuse(code) ==
  /\ request # Idle /\ ~Failed
  /\ Unanswered \/ request = <<>>
  /\ Unanswered =>
       /\ Current # "rollback" /\ (Current = "begin" => Block = "E")
       /\ Current = "commit" => Block # "I" /\ code = "conflict" /\ acked > 0
  /\ code = "25P02" => Block = "E"
  /\ answer' = Append(answer, Error(code))
  /\ UNCHANGED <<request, status, acked, durable>>

\* The answer is complete. Outside a transaction nothing is pending.
Finish ==
  /\ request # Idle
  /\ Failed \/ ~Unanswered
  /\ answer' = Append(answer, Ready(Block))
  /\ status' = Block
  /\ acked' = IF Block = "I" THEN 0 ELSE acked
  /\ request' = Idle
  /\ UNCHANGED durable

\* The last statement's tag and the ReadyForQuery may arrive together.
AcknowledgeLast(what) ==
  /\ request # Idle /\ ~Failed /\ Len(answer) + 1 = Len(request)
  /\ Block = "T"
  /\ what \in Effects /\ Current \in {what, "prepared"}
  /\ answer' = answer \o <<Tag(what), Ready("T")>>
  /\ status' = "T"
  /\ acked' = acked + 1
  /\ request' = Idle
  /\ UNCHANGED durable

Next ==
  \/ Ask
  \/ \E s \in ClientStatements : Acknowledge(s)
  \/ \E s \in ClientStatements : AcknowledgeLast(s)
  \/ \E c \in Codes : Refuse(c)
  \/ Finish

\* Every request is answered to its end.
Answers == request # Idle ~> request = Idle

Spec == Init /\ [][Next]_vars /\ Answers
=============================================================================
