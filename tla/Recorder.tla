------------------------------ MODULE Recorder ------------------------------
(***************************************************************************)
(* Recordings of a session's live view (recording.py): the capture loop,   *)
(* the worker that makes one artifact of what it captured, the owner's     *)
(* start and stop, and the recovery at boot of recordings whose process    *)
(* died.                                                                   *)
(*                                                                         *)
(* One session.  Durable: row, disk (the capture directory), files (the    *)
(* session's artifact files) and arts (the rows that name them, oldest     *)
(* first).  A file's name is the second its recording began in and its     *)
(* form: a file of that name is replaced.  In memory: the capture tasks    *)
(* and workers, stop flags, the entry of the session in the recorder's     *)
(* dictionary, and the stop requests that wait.                            *)
(***************************************************************************)
EXTENDS Integers, Sequences, FiniteSets

CONSTANTS
  Recs,        \* the recordings, numbered in the order they begin
  MaxFrames,   \* _MAX_FRAMES
  Sample,      \* _FINALIZE_SAMPLE
  Plans        \* bounds of the instance: how many crashes, refused writes and stop requests a
               \* behaviour has, in the combinations of interest

ASSUME RecorderAssumption ==
  /\ Recs \subseteq Nat \ {0} /\ MaxFrames \in Nat \ {0} /\ Sample \in Nat \ {0}
  /\ Plans \subseteq [crashes : Nat, refusals : Nat, stops : Nat]

VARIABLES
  row,       \* recordings table: status, artifact (0 is none)
  disk,      \* capture directory: frames, and whether it has trace lines
  stamp,     \* the second a recording began in, named by the first recording begun in it
  files,     \* artifact files by second and form: of which recording (0 is no file), how many frames
  arts,      \* artifacts table: of which recording, in which form
  work,      \* what a recording's task or worker is at, the form it tries, what it has made
  count,     \* rec.frame_count
  stop,      \* rec.stop_requested
  entry,     \* the recording the dictionary holds for the session, 0 is none
  waits,     \* recordings a stop request waits for
  phase,     \* of the process: "down", "boot", "serving"
  captured,  \* history: frames ever written
  unsaved,   \* history: recordings both of whose savers were refused
  torn,      \* history: recordings whose process died with part of the directory removed and the
             \* row still "recording"
  left       \* upsets left

vars == <<row, disk, stamp, files, arts, work, count, stop, entry, waits, phase, captured, unsaved,
          torn, left>>

Forms   == {"video", "page"}
NoFile  == [rec |-> 0, frames |-> 0]
Idle    == [at |-> "none", form |-> "none", art |-> 0]
Mute    == [Idle EXCEPT !.at = "mute"]
Empty   == [frames |-> 0, notes |-> FALSE]
Settled == {"completed", "failed"}

Init ==
  /\ row = [r \in Recs |-> [status |-> "none", art |-> 0]] /\ disk = [r \in Recs |-> Empty]
  /\ stamp = [r \in Recs |-> r] /\ files = [s \in Recs |-> [f \in Forms |-> NoFile]]
  /\ arts = <<>> /\ work = [r \in Recs |-> Idle] /\ count = [r \in Recs |-> 0]
  /\ stop = [r \in Recs |-> FALSE] /\ entry = 0 /\ waits = {} /\ phase = "serving"
  /\ captured = [r \in Recs |-> 0] /\ unsaved = {} /\ torn = {} /\ left \in Plans

Spend(n)   == left' = [left EXCEPT ![n] = @ - 1]
Refused(n) == left.refusals >= n /\ left' = [left EXCEPT !.refusals = @ - n]

Works(r, at) == work[r].at = at

\* What the object in memory says of itself.
StatusOf(r) ==
  CASE work[r].at = "capture" -> "recording"
    [] work[r].at = "mute" -> "failed"
    [] work[r].at \in {"none", "told"} -> row[r].status
    [] OTHER -> "finalizing"

-----------------------------------------------------------------------------
(* The owner's requests *)

IsRecording == entry # 0 /\ StatusOf(entry) = "recording" /\ ~stop[entry]

\* A recording begins; one that is active is handed back instead.  It may begin in the second
\* the last one began in.
Start(r) ==
  /\ phase = "serving" /\ ~IsRecording
  /\ row[r].status = "none" /\ \A q \in Recs : q < r => row[q].status # "none"
  /\ row' = [row EXCEPT ![r].status = "recording"]
  /\ \/ UNCHANGED stamp
     \/ \E p \in Recs : /\ p < r /\ \A q \in Recs : q < r => q <= p
                        /\ stamp' = [stamp EXCEPT ![r] = stamp[p]]
  /\ work' = [work EXCEPT ![r] = [Idle EXCEPT !.at = "capture"]] /\ entry' = r
  /\ UNCHANGED <<disk, files, arts, count, stop, waits, phase, captured, left, unsaved, torn>>

\* Stop is asked for, once; the request then waits for the task, but not for ever.  A refused
\* write fails the request after the flag is set.
Stop ==
  /\ phase = "serving" /\ entry # 0 /\ left.stops > 0
  /\ stop' = [stop EXCEPT ![entry] = TRUE]
  /\ \/ /\ row' = IF stop[entry] THEN row ELSE [row EXCEPT ![entry].status = StatusOf(entry)]
        /\ waits' = waits \cup {entry} /\ Spend("stops")
     \/ /\ ~stop[entry] /\ left.refusals > 0
        /\ left' = [left EXCEPT !.refusals = @ - 1, !.stops = @ - 1]
        /\ UNCHANGED <<row, waits>>
  /\ UNCHANGED <<disk, stamp, files, arts, work, count, entry, phase, captured, unsaved, torn>>

\* The wait is over, done or timed out: the session's entry goes, whichever it is by now.
StopReturns(r) ==
  /\ r \in waits /\ waits' = waits \ {r} /\ entry' = 0
  /\ UNCHANGED <<row, disk, stamp, files, arts, work, count, stop, phase, captured, left, unsaved, torn>>

-----------------------------------------------------------------------------
(* The capture loop *)

\* Mutant of MayCapture: no ceiling.
MayCaptureOn(r) == work[r].at = "capture"

MayCapture(r) == work[r].at = "capture" /\ count[r] < MaxFrames

\* A frame, counted whether or not the disk takes it.  The flag is looked at before the
\* screenshot is awaited: one more frame may follow it.
Capture(r) ==
  /\ MayCapture(r) /\ count' = [count EXCEPT ![r] = @ + 1]
  /\ \/ /\ disk' = [disk EXCEPT ![r].frames = @ + 1]
        /\ captured' = [captured EXCEPT ![r] = @ + 1] /\ UNCHANGED left
     \/ Refused(1) /\ UNCHANGED <<disk, captured>>
  /\ UNCHANGED <<row, stamp, files, arts, work, stop, entry, waits, phase, unsaved, torn>>

CaptureTrace(r) ==
  /\ work[r].at = "capture" /\ ~disk[r].notes /\ disk' = [disk EXCEPT ![r].notes = TRUE]
  /\ UNCHANGED <<row, stamp, files, arts, work, count, stop, entry, waits, phase, captured, left,
                 unsaved, torn>>

\* The loop ends at the flag, at the ceiling, or at an error: the worker takes over.  The row
\* still says "recording".
EndCapture(r) ==
  /\ work[r].at = "capture"
  /\ \/ (stop[r] \/ count[r] = MaxFrames) /\ UNCHANGED left
     \/ Refused(1)
  /\ work' = [work EXCEPT ![r].at = "encode"]
  /\ UNCHANGED <<row, disk, stamp, files, arts, count, stop, entry, waits, phase, captured, unsaved, torn>>

-----------------------------------------------------------------------------
(* The worker: one artifact of what is on disk, then the directory goes, then the row *)

Nothing(r) == disk[r].frames = 0 /\ ~disk[r].notes

\* An error: the row is told of a failure.  When that is refused too the row stays what it is,
\* and at boot the recovery of the others ends with it.
Errs(r) ==
  \/ /\ Refused(1) /\ row' = [row EXCEPT ![r].status = "failed"]
     /\ work' = [work EXCEPT ![r] = Idle] /\ UNCHANGED phase
  \/ /\ Refused(2) /\ work' = [work EXCEPT ![r] = Mute]
     /\ phase' = (IF phase = "boot" THEN "serving" ELSE phase) /\ UNCHANGED row

\* How many of n frames the page takes: every step-th.
Step(n)    == IF n < Sample THEN 1 ELSE n \div Sample
Sampled(n) == (n + Step(n) - 1) \div Step(n)

FramesIn(form, n) == IF form = "video" THEN n ELSE Sampled(n)

\* The video where there is an encoder, or else the page with sampled frames.  The file takes
\* its place, whatever had the name.  Nothing captured, or neither saved, is no error.
Encode(r) ==
  /\ work[r].at \in {"encode", "retry"}
  /\ \/ /\ Nothing(r) /\ work' = [work EXCEPT ![r].at = "saved"] /\ UNCHANGED <<files, unsaved, left>>
     \/ \E form \in Forms :
          /\ IF form = "video" THEN Works(r, "encode") /\ disk[r].frames > 0 ELSE ~Nothing(r)
          /\ files' = [files EXCEPT ![stamp[r]][form] =
                         [rec |-> r, frames |-> FramesIn(form, disk[r].frames)]]
          /\ work' = [work EXCEPT ![r].at = "written", ![r].form = form]
          /\ UNCHANGED <<unsaved, left>>
     \/ /\ ~Nothing(r) /\ Refused(1) /\ work' = [work EXCEPT ![r].at = "saved"]
        /\ unsaved' = unsaved \cup {r} /\ UNCHANGED files
  /\ UNCHANGED <<row, disk, stamp, arts, count, stop, entry, waits, phase, captured, torn>>

\* The file's row is inserted.  Refused, the file stays and the video gives way to the page.
Register(r) ==
  /\ Works(r, "written")
  /\ \/ /\ arts' = Append(arts, [rec |-> r, form |-> work[r].form])
        /\ work' = [work EXCEPT ![r].at = "saved", ![r].art = Len(arts) + 1] /\ UNCHANGED <<unsaved, left>>
     \/ /\ Refused(1) /\ UNCHANGED arts
        /\ \/ work[r].form = "video" /\ work' = [work EXCEPT ![r].at = "retry"] /\ UNCHANGED unsaved
           \/ work[r].form = "page" /\ work' = [work EXCEPT ![r].at = "saved"]
              /\ unsaved' = unsaved \cup {r}
  /\ UNCHANGED <<row, disk, stamp, files, count, stop, entry, waits, phase, captured, torn>>

\* The trace says so; a trace that refuses is an error, before anything is removed.
Announce(r) ==
  /\ Works(r, "saved")
  /\ \/ work' = [work EXCEPT ![r].at = "sweep"] /\ UNCHANGED <<row, phase, left>>
     \/ Errs(r)
  /\ UNCHANGED <<disk, stamp, files, arts, count, stop, entry, waits, captured, unsaved, torn>>

\* Mutant of Unlink: the directory is the session's, with what every recording captured.
UnlinkAll(r) ==
  /\ Works(r, "sweep") /\ disk' = [q \in Recs |-> Empty] /\ work' = [work EXCEPT ![r].at = "swept"]
  /\ UNCHANGED <<row, stamp, files, arts, count, stop, entry, waits, phase, captured, unsaved, torn, left>>

\* The directory goes file by file, in any order.  A file that will not go ends it silently.
Unlink(r) ==
  /\ Works(r, "sweep")
  /\ \/ /\ disk[r].frames > 0 /\ disk' = [disk EXCEPT ![r].frames = @ - 1] /\ UNCHANGED <<work, left>>
     \/ /\ disk[r].notes /\ disk' = [disk EXCEPT ![r].notes = FALSE] /\ UNCHANGED <<work, left>>
     \/ /\ \/ Nothing(r) /\ UNCHANGED left
           \/ Refused(1)
        /\ work' = [work EXCEPT ![r].at = "swept"] /\ UNCHANGED disk
  /\ UNCHANGED <<row, stamp, files, arts, count, stop, entry, waits, phase, captured, unsaved, torn>>

\* Mutant of Settle: the row is not told which artifact it has become.
SettleBare(r) ==
  /\ Works(r, "swept") /\ row' = [row EXCEPT ![r].status = "completed"]
  /\ work' = [work EXCEPT ![r] = Idle]
  /\ UNCHANGED <<disk, stamp, files, arts, count, stop, entry, waits, phase, captured, left, unsaved, torn>>

\* The row is told; when it will not take that, it is told of a failure.  A recovery has a word
\* for the trace after that.
Settle(r) ==
  /\ Works(r, "swept")
  /\ \/ /\ row' = [row EXCEPT ![r] = [status |-> "completed",
                                      art |-> IF work[r].art = 0 THEN @.art ELSE work[r].art]]
        /\ work' = [work EXCEPT ![r] = IF phase = "boot" /\ work[r].art # 0
                                       THEN [Idle EXCEPT !.at = "told"] ELSE Idle]
        /\ UNCHANGED <<phase, left>>
     \/ Errs(r)
  /\ UNCHANGED <<disk, stamp, files, arts, count, stop, entry, waits, captured, unsaved, torn>>

\* Refused, that word is an error although the artifact is made and named.
Report(r) ==
  /\ Works(r, "told")
  /\ \/ work' = [work EXCEPT ![r] = Idle] /\ UNCHANGED <<row, phase, left>>
     \/ Errs(r)
  /\ UNCHANGED <<disk, stamp, files, arts, count, stop, entry, waits, captured, unsaved, torn>>

-----------------------------------------------------------------------------
(* The process *)

\* Rows that say "recording" although frames of theirs are gone from the directory.
Torn == {r \in Recs : row[r].status = "recording" /\ captured[r] > disk[r].frames}

Crash ==
  /\ phase # "down" /\ left.crashes > 0 /\ Spend("crashes") /\ phase' = "down"
  /\ work' = [r \in Recs |-> Idle] /\ count' = [r \in Recs |-> 0]
  /\ stop' = [r \in Recs |-> FALSE] /\ entry' = 0 /\ waits' = {}
  /\ torn' = torn \cup Torn
  /\ UNCHANGED <<row, disk, stamp, files, arts, captured, unsaved>>

Boot ==
  /\ phase = "down" /\ phase' = "boot"
  /\ UNCHANGED <<row, disk, stamp, files, arts, work, count, stop, entry, waits, captured, left, unsaved,
                 torn>>

\* Mutant of Orphans: only a recording that has frames is taken up.
OrphansWithFrames == {r \in Recs : row[r].status = "recording" /\ disk[r].frames > 0}

\* Rows that say "recording" and whose process is gone.
Orphans == {r \in Recs : row[r].status = "recording"}

\* They are finished one after the other, each marked first.
Recover(r) ==
  /\ phase = "boot" /\ r \in Orphans /\ \A q \in Recs : Works(q, "none")
  /\ \/ /\ row' = [row EXCEPT ![r].status = "finalizing"] /\ work' = [work EXCEPT ![r].at = "encode"]
        /\ UNCHANGED <<phase, left>>
     \/ Errs(r)
  /\ UNCHANGED <<disk, stamp, files, arts, count, stop, entry, waits, captured, unsaved, torn>>

Serve ==
  /\ phase = "boot" /\ phase' = "serving" /\ Orphans = {} /\ \A q \in Recs : Works(q, "none")
  /\ UNCHANGED <<row, disk, stamp, files, arts, work, count, stop, entry, waits, captured, left, unsaved,
                 torn>>

Finish(r) == Encode(r) \/ Register(r) \/ Announce(r) \/ Unlink(r) \/ Settle(r) \/ Report(r)

Next ==
  \/ Stop \/ Crash \/ Boot \/ Serve
  \/ \E r \in Recs : \/ Start(r) \/ StopReturns(r) \/ Capture(r) \/ CaptureTrace(r)
                     \/ EndCapture(r) \/ Finish(r) \/ Recover(r)

Spec == Init /\ [][Next]_vars
\* The loop looks at its flag, the worker's thread runs, a waiting request times out, and a
\* process that died is started again.
FairSpec ==
  /\ Spec /\ WF_vars(Boot) /\ WF_vars(Serve)
  /\ \A r \in Recs : WF_vars(EndCapture(r)) /\ WF_vars(Finish(r)) /\ WF_vars(Recover(r))
                     /\ WF_vars(StopReturns(r))
-----------------------------------------------------------------------------
\* Each variable holds what the code keeps there.
TypeOK ==
  /\ row \in [Recs -> [status : {"none", "recording", "finalizing"} \cup Settled, art : Nat]]
  /\ disk \in [Recs -> [frames : 0..MaxFrames, notes : BOOLEAN]]
  /\ stamp \in [Recs -> Recs]
  /\ files \in [Recs -> [Forms -> [rec : Recs \cup {0}, frames : Nat]]]
  /\ arts \in Seq([rec : Recs, form : Forms])
  /\ work \in [Recs -> [at : {"none", "capture", "encode", "retry", "written", "saved", "sweep", "swept",
                              "told", "mute"}, form : Forms \cup {"none"}, art : Nat]]
  /\ count \in [Recs -> 0..MaxFrames] /\ captured \in [Recs -> 0..MaxFrames]
  /\ stop \in [Recs -> BOOLEAN] /\ entry \in Recs \cup {0} /\ waits \subseteq Recs
  /\ phase \in {"down", "boot", "serving"} /\ unsaved \subseteq Recs /\ torn \subseteq Recs

\* The recording's file of that form holds all its frames, or the sample of them a page takes.
Whole(r, form) ==
  files[stamp[r]][form] = [rec |-> r, frames |-> FramesIn(form, captured[r])]

\* Another recording began in the same second, and shares its file names.
Shared(r) == \E q \in Recs \ {r} : stamp[q] = stamp[r]

\* Hours of footage are never lost, whatever dies and whenever: every frame captured is in the
\* capture directory or in an artifact's file, unless both savers were refused, another
\* recording began in the same second, or the process died while the directory was removed.
FootageIsKept ==
  \A r \in Recs : captured[r] > disk[r].frames =>
                    r \in unsaved \cup torn \/ Shared(r) \/ \E form \in Forms : Whole(r, form)

\* The artifact a recording's row names is the recording's own, and its file holds every frame
\* whatever was made, repeated or replaced before and since; a recording that captured anything
\* and completed names one.  The exceptions are those of FootageIsKept.
RowNamesItsArtifact ==
  \A r \in Recs :
    /\ row[r].art # 0 => LET a == arts[row[r].art] IN
                         a.rec = r /\ (r \in torn \/ Shared(r) \/ Whole(r, a.form))
    /\ row[r].status = "completed" /\ row[r].art = 0 /\ captured[r] > 0 => r \in unsaved \cup torn

\* A recording whose process died or whose stop was asked for does not stay "recording", unless
\* an error's own report is refused too.  What died once more while it was being finished is
\* out of reach.
RecordingSettles ==
  \A r \in Recs : row[r].status = "recording" /\ (stop[r] \/ phase = "down")
                  ~> \/ row[r].status \in Settled \/ (row[r].status = "finalizing" /\ Works(r, "none"))
                     \/ \E q \in Recs : work[q].at = "mute"
=============================================================================
