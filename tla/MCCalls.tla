------------------------------ MODULE MCCalls ------------------------------
(***************************************************************************)
(* Instances and properties of Calls.                                      *)
(***************************************************************************)
EXTENDS Calls, SequencesExt

Setup(stream, thinking, cancels, refusals, crashes) ==
  [stream |-> stream, thinking |-> thinking, fields |-> 1, cancels |-> cancels,
   refusals |-> refusals, crashes |-> crashes]
Doubling == [Setup(TRUE, TRUE, 0, 0, 0) EXCEPT !.fields = 2]
\* One upset at a time, of which one is a provider that spells each piece twice; a database
\* that refuses writes also meets a cancellation.
MCSetups == {Setup(TRUE, TRUE, 1, 0, 0), Setup(TRUE, FALSE, 0, 0, 1),
             Setup(FALSE, TRUE, 1, 1, 0), Setup(TRUE, TRUE, 0, 1, 0), Doubling}
\* All goes well; the caller gives up; a provider that spells each piece twice.
Calm == {Setup(TRUE, TRUE, 0, 0, 0), Setup(TRUE, TRUE, 1, 0, 0),
         Doubling}
-----------------------------------------------------------------------------
Pieces == [try : 1..MaxRetries, way : {"stream", "plain"}, k : 1..(Deltas + 2)] \cup {Note}

\* Each variable holds what the code keeps there.
TypeOK ==
  /\ \A c \in Ids :
       /\ call[c].pc \in InFlight \cup Ended \cup {"idle"} /\ call[c].try \in 1..MaxRetries
       /\ call[c].room \in 1..Ceiling /\ ToSet(call[c].said) \subseteq Pieces
       /\ row[c].status \in {"none", "streaming", "done", "failed", "interrupted"}
       /\ \A d \in {row[c].detail, live[c].detail} : ToSet(d) \subseteq Pieces /\ Len(d) <= DetailCap
  /\ usage.calls + usage.failed \in 0..Cardinality(Ids) /\ up \in BOOLEAN /\ setup \in Setups

\* A call that began ends: in a reply, an error, a cancellation or with the process.
CallEnds == \A c \in Ids : call[c].pc \in InFlight ~> call[c].pc \in Ended
-----------------------------------------------------------------------------
(* What the code's own documents say and the code does not do. *)

\* "so the thought reflects exactly one answer" (model_client.py:564).
ThoughtIsOneAnswer ==
  \A c \in Ids : row[c].status = "done" => \A p, q \in ToSet(row[c].detail) : p.try = q.try /\ p.way = q.way

\* The thought "must not stay "streaming" forever" (model_client.py:484).
EndedIsNotStreaming == \A c \in Ids : call[c].pc \in Ended /\ up => row[c].status # "streaming"

\* "so the text is never recorded twice" (model_client.py:412).
RecordedOnce == \A c \in Ids : Len(row[c].detail) = Cardinality(ToSet(row[c].detail))

\* The buffer is "Never the only copy of anything: every mutation is flushed" (thoughts.py:84).
NeverOnlyCopy == \A c \in Ids : live[c].on => row[c].detail = live[c].detail
=============================================================================
