----------------------------- MODULE MCRecorder -----------------------------
(***************************************************************************)
(* Instances and properties of Recorder.                                   *)
(***************************************************************************)
EXTENDS Recorder

\* The process dies twice; writes are refused, twice so that the report of an error is refused
\* too; the owner stops; or two of these.
MCPlans == {[crashes |-> 2, refusals |-> 0, stops |-> 0], [crashes |-> 0, refusals |-> 2, stops |-> 0],
            [crashes |-> 1, refusals |-> 1, stops |-> 0], [crashes |-> 1, refusals |-> 0, stops |-> 1],
            [crashes |-> 0, refusals |-> 1, stops |-> 1]}
\* One kind of upset at a time.
Single == {[crashes |-> 0, refusals |-> 0, stops |-> 2], [crashes |-> 2, refusals |-> 0, stops |-> 0],
           [crashes |-> 0, refusals |-> 2, stops |-> 1]}
-----------------------------------------------------------------------------
(* What the code's own documents say and the code does not do. *)

\* "One recorder per process; at most one live recording per session" (recording.py:83).
AtMostOneLive == Cardinality({r \in Recs : work[r].at = "capture" /\ ~stop[r]}) <= 1

\* A live recording can be stopped: the dictionary has it.
LiveIsStoppable == \A r \in Recs : work[r].at = "capture" /\ ~stop[r] => entry = r

\* "boot recovery finalizes whatever was already captured on disk into a real artifact instead
\* of silently losing hours" (recording.py:14).
NothingStaysFinalizing ==
  phase = "serving" => \A r \in Recs : row[r].status = "finalizing" => work[r] # Idle

\* "Exactly one artifact per recording" (recording.py:21).
OneArtifact == \A r \in Recs : Cardinality({i \in DOMAIN arts : arts[i].rec = r}) <= 1

\* "Bounded: at most `_FINALIZE_SAMPLE` frames embedded (sampled evenly)" (recording.py:494).
PageIsBounded == \A s \in Recs : files[s]["page"].frames <= Sample

Held(r) == captured[r] > disk[r].frames => \E form \in Forms : Whole(r, form)

\* Nothing is removed that was not saved, when a write is refused either.
RefusedIsKept == \A r \in Recs : r \in torn \/ Shared(r) \/ Held(r)

\* "hours of footage are never silently lost" (recording.py:221), when the process dies while
\* the capture directory is removed either: boot encodes the frames that are left.
TornIsKept == \A r \in Recs : r \in unsaved \/ Shared(r) \/ Held(r)

\* Two recordings begun in one second have a file each.
SecondIsKept == \A r \in Recs : r \in unsaved \cup torn \/ Held(r)

\* A process that serves has no row that says "recording" with nobody recording.
ServedAreLive ==
  phase = "serving" => \A r \in Recs : row[r].status = "recording" => work[r].at \notin {"none", "mute"}
=============================================================================
