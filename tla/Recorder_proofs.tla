--------------------------- MODULE Recorder_proofs ---------------------------
(***************************************************************************)
(* Theorems about Recorder, for any set of recordings, any ceilings and    *)
(* any number of crashes, refused writes and stop requests.  The inductive *)
(* invariant says of each recording, by what its worker is at, where its   *)
(* frames are: Story.  A recording alone in its second has its file names  *)
(* to itself, which Stamps is for.                                         *)
(***************************************************************************)
EXTENDS Recorder, SequenceTheorems, TLAPS

Rows  == [status : {"none", "recording", "finalizing"} \cup Settled, art : Nat]
Disks == [frames : 0..MaxFrames, notes : BOOLEAN]
Names == [Forms -> [rec : Recs \cup {0}, frames : Nat]]
Posts == [at : {"none", "capture", "encode", "retry", "written", "saved", "sweep", "swept", "told", "mute"},
           form : Forms \cup {"none"}, art : Nat]

Unmade(r) == r \in unsaved \cup torn

\* The recording's files are its own, and were made of all its frames.
Good(r) == r \notin torn /\ ~Shared(r)

\* Artifact n is the recording's own, and its file has all its frames.
Named(r, n) ==
  /\ n \in 1..Len(arts) /\ arts[n].rec = r /\ arts[n].form \in Forms
  /\ Good(r) => Whole(r, arts[n].form)

\* The frames are on disk or in a file, or one of the exceptions holds.
Kept(r) ==
  captured[r] = disk[r].frames \/ Unmade(r) \/ Shared(r) \/ \E form \in Forms : Whole(r, form)

Story(r) ==
  /\ row[r].status = "none" => work[r] = Idle /\ captured[r] = 0 /\ disk[r] = Empty
  /\ disk[r].frames <= captured[r]
  /\ work[r].at \notin {"none", "told", "mute"} => row[r].status \in {"recording", "finalizing"}
  /\ work[r].at \in {"told", "mute"} => row[r].status # "none"
  /\ work[r].at = "told" => row[r].status = "completed"
  /\ work[r].at \in {"none", "capture", "encode", "retry", "written", "told", "mute"} => work[r].art = 0
  /\ work[r].at = "capture" => captured[r] = disk[r].frames /\ captured[r] <= count[r]
  /\ work[r].at \in {"encode", "retry", "written", "saved"} => captured[r] = disk[r].frames \/ r \in torn
  /\ work[r].at = "written" => work[r].form \in Forms /\ (Good(r) => Whole(r, work[r].form))
  /\ work[r].art # 0 => Named(r, work[r].art)
  /\ work[r].at \in {"saved", "sweep", "swept"} /\ work[r].art = 0 => captured[r] = 0 \/ Unmade(r)
  /\ row[r].status \notin {"completed", "failed"} => row[r].art = 0
  /\ row[r].art # 0 => Named(r, row[r].art)
  /\ row[r].status = "completed" /\ row[r].art = 0 => captured[r] = 0 \/ Unmade(r)
  /\ row[r].status = "recording" /\ work[r].at = "none" => captured[r] = disk[r].frames \/ r \in torn
  /\ Kept(r)

\* A recording that has not begun shares its second with nobody.
Stamps ==
  \A q \in Recs : row[q].status = "none" => \A r \in Recs : stamp[r] = q <=> r = q

IInv == TypeOK /\ Stamps /\ \A r \in Recs : Story(r)

\* The artifacts only grow, and an exception stays one.
Grows ==
  /\ Len(arts) <= Len(arts') /\ \A n \in 1..Len(arts) : arts'[n] = arts[n]
  /\ unsaved \subseteq unsaved' /\ torn \subseteq torn'
  /\ \A q \in Recs : Shared(q) => Shared(q)'

\* What a step leaves of recording q alone: its files too, when nobody shares them.
Apart(q) ==
  /\ row'[q] = row[q] /\ work'[q] = work[q] /\ disk'[q] = disk[q]
  /\ captured'[q] = captured[q] /\ count'[q] = count[q]
  /\ ~Shared(q)' => files'[stamp'[q]] = files[stamp[q]]

\* A step that begins no recording.
NoneBegins ==
  stamp' = stamp /\ \A q \in Recs : row'[q].status = "none" => row[q].status = "none"

-----------------------------------------------------------------------------
(* Lemmas *)

\* A sample is a number of frames.
LEMMA SampledIsNat ==
  ASSUME NEW n \in Nat
  PROVE  Sampled(n) \in Nat
<1>1. Sample \in Nat \ {0}
  BY RecorderAssumption
<1>2. Step(n) \in Nat \ {0}
  <2>1. CASE n < Sample
    BY <2>1 DEF Step
  <2>2. CASE n >= Sample
    <3>1. n \div Sample \in Nat /\ n \div Sample >= 1
      BY <1>1, <2>2
    <3> QED BY <3>1, <2>2, <1>1 DEF Step
  <2> QED BY <2>1, <2>2, <1>1
<1>3. PICK s \in Nat \ {0} : s = Step(n)
  BY <1>2
<1>4. (n + s - 1) \div s \in Nat
  BY <1>3
<1> QED BY <1>3, <1>4 DEF Sampled

LEMMA FramesInIsNat ==
  ASSUME NEW n \in Nat, NEW form
  PROVE  FramesIn(form, n) \in Nat
BY SampledIsNat DEF FramesIn

LEMMA NothingGrows ==
  ASSUME TypeOK, UNCHANGED <<arts, unsaved, torn, stamp>>
  PROVE  Grows
<1>1. \A q \in Recs : Shared(q) => Shared(q)'
  BY DEF Shared
<1>2. Len(arts) \in Nat
  BY DEF TypeOK
<1> QED BY <1>1, <1>2 DEF Grows

LEMMA Basics ==
  ASSUME IInv
  PROVE  TypeOK /\ Stamps /\ Len(arts) \in Nat /\ \A r \in Recs : Story(r)
<1>1. TypeOK /\ Stamps /\ \A r \in Recs : Story(r)
  BY DEF IInv
<1>2. arts \in Seq([rec : Recs, form : Forms])
  BY <1>1 DEF TypeOK
<1>3. Len(arts) \in Nat
  BY <1>2
<1> QED BY <1>1, <1>3

LEMMA StampsStay ==
  ASSUME Stamps, NoneBegins
  PROVE  Stamps'
BY DEF Stamps, NoneBegins

\* The counts are numbers.
LEMMA Counts ==
  ASSUME TypeOK, NEW r \in Recs
  PROVE  /\ captured[r] \in Nat /\ disk[r].frames \in Nat /\ count[r] \in 0..MaxFrames
         /\ captured[r] <= MaxFrames /\ disk[r].frames <= MaxFrames /\ MaxFrames \in Nat
         /\ disk[r] = [frames |-> disk[r].frames, notes |-> disk[r].notes] /\ disk[r].notes \in BOOLEAN
BY RecorderAssumption DEF TypeOK

\* A whole file stays one where nobody else writes, and with it the names of it.
LEMMA NamedStays ==
  ASSUME TypeOK, Grows, Len(arts') \in Nat, NEW q \in Recs, captured'[q] = captured[q],
         Good(q)' => \A form \in Forms : Whole(q, form) => Whole(q, form)'
  PROVE  \A n : Named(q, n) => Named(q, n)'
<1>1. Len(arts) \in Nat
  BY DEF TypeOK
<1>2. Good(q)' => Good(q)
  BY DEF Good, Grows
<1>3. ASSUME NEW n, Named(q, n) PROVE Named(q, n)'
  <2>1. /\ n \in 1..Len(arts') /\ arts'[n] = arts[n] /\ arts[n].rec = q /\ arts[n].form \in Forms
        /\ Good(q) => Whole(q, arts[n].form)
    BY <1>1, <1>3 DEF Named, Grows
  <2>2. PICK f \in Forms : f = arts[n].form
    BY <2>1
  <2>3. Good(q)' => Whole(q, f)'
    BY <1>2, <2>1, <2>2
  <2>4. arts'[n].rec = q /\ arts'[n].form = f
    BY <2>1, <2>2
  <2>5. (Good(q) => Whole(q, arts[n].form))'
    BY <2>3, <2>4 DEF Whole
  <2> QED BY <2>1, <2>4, <2>5 DEF Named
<1> QED BY <1>3

LEMMA WholeStays ==
  ASSUME NEW q \in Recs, captured'[q] = captured[q], files'[stamp'[q]] = files[stamp[q]]
  PROVE  \A form \in Forms : Whole(q, form) => Whole(q, form)'
BY DEF Whole

LEMMA StoryApart ==
  ASSUME TypeOK, Grows, Len(arts') \in Nat, NEW q \in Recs, Apart(q), Story(q)
  PROVE  Story(q)'
<1>1. Good(q)' => \A form \in Forms : Whole(q, form) => Whole(q, form)'
  BY WholeStays DEF Apart, Good
<1>2. \A n : Named(q, n) => Named(q, n)'
  BY <1>1, NamedStays DEF Apart
<1>3. (Unmade(q) => Unmade(q)') /\ (q \in torn => q \in torn') /\ (Good(q)' => Good(q))
  BY DEF Unmade, Grows, Good
<1>4. Kept(q)'
  <2>1. CASE captured[q] = disk[q].frames \/ Unmade(q) \/ Shared(q)
    BY <2>1, <1>3 DEF Kept, Apart, Grows
  <2>2. CASE \E form \in Forms : Whole(q, form)
    BY <2>2, <1>1 DEF Kept, Good, Unmade
  <2> QED BY <2>1, <2>2 DEF Story, Kept
<1>5. row'[q] = row[q] /\ work'[q] = work[q] /\ disk'[q] = disk[q] /\ captured'[q] = captured[q]
      /\ count'[q] = count[q]
  BY DEF Apart
<1>6. ASSUME work[q].at = "written" PROVE (work[q].form \in Forms /\ (Good(q) => Whole(q, work[q].form)))'
  <2>1. PICK f \in Forms : f = work[q].form
    BY <1>6 DEF Story
  <2>2. Good(q)' => Whole(q, f)'
    BY <1>1, <1>3, <1>6, <2>1 DEF Story
  <2>3. work'[q].form = f
    BY <1>5, <2>1
  <2> QED BY <2>2, <2>3 DEF Whole
<1> QED BY <1>2, <1>3, <1>4, <1>5, <1>6 DEF Story

\* A step of one recording: the others keep their stories.
LEMMA StoryOfOthers ==
  ASSUME IInv, Grows, TypeOK', Stamps', NEW r \in Recs, Story(r)',
         \A q \in Recs \ {r} : Apart(q)
  PROVE  IInv'
<1>1. Len(arts') \in Nat
  BY DEF TypeOK
<1>2. ASSUME NEW q \in Recs \ {r} PROVE Story(q)'
  BY <1>1, <1>2, StoryApart DEF IInv
<1> QED BY <1>2 DEF IInv

\* A step that leaves the files, the artifacts and what is captured alone carries the names over.
LEMMA SameFiles ==
  ASSUME TypeOK, Grows, Len(arts) \in Nat, UNCHANGED <<stamp, files, arts, captured>>, NEW r \in Recs
  PROVE  /\ \A n : Named(r, n) => Named(r, n)'
         /\ \A form \in Forms : Whole(r, form) => Whole(r, form)'
         /\ Unmade(r) => Unmade(r)'
         /\ r \in torn => r \in torn'
         /\ Good(r)' => Good(r)
         /\ captured[r] = disk'[r].frames \/ Unmade(r)' \/ Shared(r)'
              \/ (\E form \in Forms : Whole(r, form)) => Kept(r)'
<1>1. \A form \in Forms : Whole(r, form) => Whole(r, form)'
  BY WholeStays
<1>2. \A n : Named(r, n) => Named(r, n)'
  BY <1>1, NamedStays
<1>3. (Unmade(r) => Unmade(r)') /\ (r \in torn => r \in torn') /\ (Good(r)' => Good(r))
  BY DEF Unmade, Grows, Good
<1> QED BY <1>1, <1>2, <1>3 DEF Kept

-----------------------------------------------------------------------------
(* The steps *)

LEMMA StartStep ==
  ASSUME IInv, NEW r \in Recs, Start(r)
  PROVE  IInv'
<1> USE DEF Start
<1>0. TypeOK /\ Stamps /\ Story(r) /\ Len(arts) \in Nat /\ row[r].status = "none"
  BY Basics
<1>1. row' \in [Recs -> Rows] /\ row'[r].status = "recording" /\ row'[r].art = 0
      /\ \A q \in Recs \ {r} : row'[q] = row[q]
  <2>1. row \in [Recs -> Rows] /\ "recording" \in {"none", "recording", "finalizing"} \cup Settled
    BY <1>0 DEF TypeOK, Rows
  <2>2. row' = [row EXCEPT ![r].status = "recording"]
    OBVIOUS
  <2>3. row' \in [Recs -> Rows]
    BY <2>1, <2>2 DEF Rows
  <2> QED BY <1>0, <2>1, <2>2, <2>3 DEF Rows, Story
<1>2. work' \in [Recs -> Posts] /\ work'[r] = [Idle EXCEPT !.at = "capture"]
      /\ \A q \in Recs \ {r} : work'[q] = work[q]
  BY <1>0 DEF TypeOK, Posts, Idle
<1>3. /\ stamp' \in [Recs -> Recs] /\ \A q \in Recs \ {r} : stamp'[q] = stamp[q]
      /\ stamp'[r] = stamp[r] \/ \E p \in Recs : p # r /\ row[p].status # "none" /\ stamp'[r] = stamp[p]
  <2>1. CASE UNCHANGED stamp
    BY <1>0, <2>1 DEF TypeOK
  <2>2. ASSUME NEW p \in Recs, p < r, stamp' = [stamp EXCEPT ![r] = stamp[p]]
        PROVE  <1>3!1 /\ <1>3!2
    <3>1. p # r /\ row[p].status # "none" /\ stamp[p] \in Recs /\ stamp \in [Recs -> Recs]
      BY <1>0, <2>2, RecorderAssumption DEF TypeOK
    <3> QED BY <2>2, <3>1
  <2> QED BY <2>1, <2>2
<1>4. Stamps'
  <2>1. SUFFICES ASSUME NEW q \in Recs, row'[q].status = "none", NEW x \in Recs
                 PROVE  stamp'[x] = q <=> x = q
    BY DEF Stamps
  <2>2. q # r /\ row[q].status = "none"
    BY <1>1, <2>1
  <2> QED BY <1>0, <1>3, <2>2 DEF Stamps
<1>5. Grows
  <2>1. ASSUME NEW q \in Recs, Shared(q) PROVE Shared(q)'
    <3>1. PICK w \in Recs \ {q} : stamp[w] = stamp[q]
      BY <2>1 DEF Shared
    <3>2. w # r /\ q # r
      BY <1>0, <3>1 DEF Stamps
    <3> QED BY <1>3, <3>1, <3>2 DEF Shared
  <2> QED BY <1>0, <2>1 DEF Grows
<1>6. TypeOK'
  BY <1>0, <1>1, <1>2, <1>3 DEF TypeOK, Rows, Posts
<1>7. \A q \in Recs \ {r} : Apart(q)
  BY <1>1, <1>2, <1>3 DEF Apart
<1>8. captured'[r] = 0 /\ disk'[r].frames = 0 /\ count'[r] >= 0
  BY <1>0, Counts DEF Story, Empty
<1>9. Story(r)'
  BY <1>1, <1>2, <1>8 DEF Story, Kept, Idle
<1> QED BY <1>4, <1>5, <1>6, <1>7, <1>9, StoryOfOthers

LEMMA StopStep ==
  ASSUME IInv, Stop
  PROVE  IInv'
<1> USE DEF Stop
<1>0. TypeOK /\ Stamps /\ Len(arts) \in Nat /\ entry \in Recs /\ Story(entry)
  <2>1. TypeOK /\ entry # 0
    BY DEF IInv
  <2>2. entry \in Recs
    BY <2>1 DEF TypeOK
  <2> QED BY <2>2, Basics
<1>1. Grows
  BY <1>0, NothingGrows
<1>2. row' = row \/ row' = [row EXCEPT ![entry].status = StatusOf(entry)]
  OBVIOUS
<1>3. StatusOf(entry) \in {"none", "recording", "finalizing"} \cup Settled
  BY <1>0 DEF StatusOf, TypeOK, Settled
<1>4. row' \in [Recs -> Rows] /\ row'[entry].art = row[entry].art
      /\ (row'[entry].status = row[entry].status \/ row'[entry].status = StatusOf(entry))
      /\ \A q \in Recs \ {entry} : row'[q] = row[q]
  <2>1. row \in [Recs -> Rows]
    BY <1>0 DEF TypeOK, Rows
  <2> QED BY <1>0, <1>2, <1>3, <2>1 DEF Rows
<1>5. row'[entry].status = row[entry].status
      \/ (work[entry].at \notin {"none", "told", "mute"} /\ row'[entry].status \in {"recording", "finalizing"})
      \/ (work[entry].at = "mute" /\ row'[entry].status = "failed")
  BY <1>4 DEF StatusOf
<1>6. TypeOK'
  <2>1. stop' \in [Recs -> BOOLEAN] /\ waits' \subseteq Recs
    BY <1>0 DEF TypeOK
  <2> QED BY <1>0, <1>4, <2>1 DEF TypeOK, Rows
<1>7. NoneBegins
  BY <1>4, <1>5 DEF NoneBegins
<1>8. \A q \in Recs \ {entry} : Apart(q)
  BY <1>4 DEF Apart
<1>9. Story(entry)'
  <2>1. UNCHANGED <<work, disk, captured, count, stamp, files, arts, unsaved, torn>>
    OBVIOUS
  <2>2. Kept(entry)' /\ (Unmade(entry) <=> Unmade(entry)') /\ (Good(entry) <=> Good(entry)')
        /\ (\A n : Named(entry, n) => Named(entry, n)')
        /\ (Whole(entry, work[entry].form) <=> Whole(entry, work[entry].form)')
    BY <1>0, <2>1 DEF Story, Kept, Unmade, Good, Shared, Named, Whole
  <2>3. CASE row'[entry].status = row[entry].status
    BY <1>0, <1>4, <2>1, <2>2, <2>3 DEF Story
  <2>4. CASE work[entry].at \notin {"none", "told", "mute"} /\ row'[entry].status \in {"recording", "finalizing"}
    BY <1>0, <1>4, <2>1, <2>2, <2>4 DEF Story
  <2>5. CASE work[entry].at = "mute" /\ row'[entry].status = "failed"
    <3>1. (row[entry].art # 0 => Named(entry, row[entry].art))'
      <4>1. PICK n : n = row[entry].art
        OBVIOUS
      <4>2. n # 0 => Named(entry, n)'
        BY <1>0, <2>2, <4>1 DEF Story
      <4> QED BY <1>4, <4>1, <4>2 DEF Named
    <3> QED BY <1>0, <1>4, <2>1, <2>2, <2>5, <3>1 DEF Story, Settled
  <2> QED BY <1>5, <2>3, <2>4, <2>5
<1> QED BY <1>0, <1>1, <1>6, <1>7, <1>8, <1>9, StampsStay, StoryOfOthers

LEMMA CaptureStep ==
  ASSUME IInv, NEW r \in Recs, Capture(r)
  PROVE  IInv'
<1> USE DEF Capture, MayCapture
<1>0. TypeOK /\ Stamps /\ Story(r) /\ Grows
  <2>1. TypeOK /\ Stamps /\ Story(r) /\ UNCHANGED <<arts, unsaved, torn, stamp>>
    BY DEF IInv
  <2> QED BY <2>1, NothingGrows
<1>1. /\ captured[r] = disk[r].frames /\ captured[r] <= count[r] /\ count[r] < MaxFrames
      /\ captured[r] \in Nat /\ disk[r].frames \in Nat /\ count[r] \in 0..MaxFrames /\ MaxFrames \in Nat
  BY <1>0, Counts DEF Story
<1>2. count' \in [Recs -> 0..MaxFrames] /\ count'[r] = count[r] + 1
      /\ \A q \in Recs \ {r} : count'[q] = count[q]
  BY <1>0, <1>1 DEF TypeOK
<1>3. \/ UNCHANGED <<disk, captured>>
      \/ /\ disk' = [disk EXCEPT ![r].frames = disk[r].frames + 1]
         /\ captured' = [captured EXCEPT ![r] = captured[r] + 1]
  BY DEF Refused
<1>4. /\ captured' \in [Recs -> 0..MaxFrames] /\ disk' \in [Recs -> Disks]
      /\ captured'[r] = disk'[r].frames /\ captured'[r] <= count'[r] /\ captured'[r] \in Nat
      /\ \A q \in Recs \ {r} : captured'[q] = captured[q] /\ disk'[q] = disk[q]
  <2>1. /\ captured \in [Recs -> 0..MaxFrames] /\ captured[r] + 1 \in 0..MaxFrames
        /\ disk \in [Recs -> Disks] /\ disk[r].frames + 1 \in 0..MaxFrames
    BY <1>0, <1>1 DEF TypeOK, Disks
  <2> QED BY <1>1, <1>2, <1>3, <2>1 DEF Disks
<1>5. TypeOK'
  BY <1>0, <1>2, <1>4 DEF TypeOK, Disks
<1>6. NoneBegins /\ \A q \in Recs \ {r} : Apart(q)
  BY <1>2, <1>4 DEF Apart, NoneBegins
<1>7. Story(r)'
  <2>1. work[r].at = "capture" /\ row[r].status \in {"recording", "finalizing"} /\ work[r].art = 0
        /\ row[r].art = 0
    BY <1>0 DEF Story
  <2> QED BY <2>1, <1>4 DEF Story, Kept
<1> QED BY <1>0, <1>5, <1>6, <1>7, StampsStay, StoryOfOthers

LEMMA CaptureTraceStep ==
  ASSUME IInv, NEW r \in Recs, CaptureTrace(r)
  PROVE  IInv'
<1> USE DEF CaptureTrace
<1>0. TypeOK /\ Stamps /\ Grows /\ Story(r)
  BY Basics, NothingGrows
<1>1. /\ disk' \in [Recs -> Disks] /\ disk'[r].frames = disk[r].frames
      /\ \A q \in Recs \ {r} : disk'[q] = disk[q]
  BY <1>0 DEF TypeOK, Disks
<1>2. TypeOK'
  BY <1>0, <1>1 DEF TypeOK, Disks
<1>3. NoneBegins /\ \A q \in Recs \ {r} : Apart(q)
  BY <1>1 DEF Apart, NoneBegins
<1>4. Story(r)'
  <2>1. /\ work[r].at = "capture" /\ row[r].status \in {"recording", "finalizing"} /\ work[r].art = 0
        /\ row[r].art = 0 /\ captured[r] = disk[r].frames /\ captured[r] <= count[r]
        /\ disk[r].frames <= captured[r]
    BY <1>0 DEF Story
  <2> QED BY <2>1, <1>1 DEF Story, Kept
<1> QED BY <1>0, <1>2, <1>3, <1>4, StampsStay, StoryOfOthers

LEMMA EndCaptureStep ==
  ASSUME IInv, NEW r \in Recs, EndCapture(r)
  PROVE  IInv'
<1> USE DEF EndCapture
<1>0. TypeOK /\ Stamps /\ Grows /\ Story(r)
  BY Basics, NothingGrows
<1>1. /\ work' \in [Recs -> Posts] /\ work'[r].at = "encode" /\ work'[r].art = work[r].art
      /\ \A q \in Recs \ {r} : work'[q] = work[q]
  BY <1>0 DEF TypeOK, Posts
<1>2. TypeOK'
  BY <1>0, <1>1 DEF TypeOK, Posts
<1>3. NoneBegins /\ \A q \in Recs \ {r} : Apart(q)
  BY <1>1 DEF Apart, NoneBegins
<1>4. Story(r)'
  <2>1. /\ row[r].status \in {"recording", "finalizing"} /\ work[r].art = 0
        /\ row[r].art = 0 /\ captured[r] = disk[r].frames /\ disk[r].frames <= captured[r]
    BY <1>0 DEF Story
  <2> QED BY <2>1, <1>1 DEF Story, Kept
<1> QED BY <1>0, <1>2, <1>3, <1>4, StampsStay, StoryOfOthers

LEMMA KeptStays ==
  ASSUME TypeOK, Grows, Len(arts) \in Nat, UNCHANGED <<stamp, files, arts, captured>>, NEW r \in Recs,
         disk'[r] = disk[r], Kept(r)
  PROVE  Kept(r)'
<1>1. /\ \A form \in Forms : Whole(r, form) => Whole(r, form)'
      /\ Unmade(r) => Unmade(r)'
  BY SameFiles
<1>2. Shared(r) => Shared(r)'
  BY DEF Grows
<1> QED BY <1>1, <1>2 DEF Kept

\* A worker writes a file: it is of every frame there is on disk, and the file of nobody else
\* who is alone in his second.
LEMMA WriteStep ==
  ASSUME IInv, NEW r \in Recs, Encode(r), NEW form \in Forms,
         files' = [files EXCEPT ![stamp[r]][form] =
                     [rec |-> r, frames |-> FramesIn(form, disk[r].frames)]],
         work' = [work EXCEPT ![r].at = "written", ![r].form = form], UNCHANGED unsaved
  PROVE  IInv'
<1>0. TypeOK /\ Stamps /\ Story(r) /\ Len(arts) \in Nat
  BY Basics
<1>1. /\ work[r].at \in {"encode", "retry"}
      /\ UNCHANGED <<row, disk, stamp, arts, count, stop, entry, waits, phase, captured, torn>>
  BY DEF Encode
<1>2. Grows /\ NoneBegins
  BY <1>0, <1>1, NothingGrows DEF NoneBegins
<1>3. PICK n \in Nat : n = disk[r].frames
  BY <1>0, Counts
<1>4. PICK c \in [rec : Recs \cup {0}, frames : Nat] : c = [rec |-> r, frames |-> FramesIn(form, n)]
  BY FramesInIsNat
<1>5. stamp \in [Recs -> Recs] /\ stamp[r] \in Recs /\ files \in [Recs -> Names]
  BY <1>0 DEF TypeOK, Names
<1>6. files' = [files EXCEPT ![stamp[r]] = [files[stamp[r]] EXCEPT ![form] = c]]
  BY <1>3, <1>4
<1>7. [files[stamp[r]] EXCEPT ![form] = c] \in Names
  BY <1>5 DEF Names
<1>8. /\ files' \in [Recs -> Names] /\ files'[stamp[r]] = [files[stamp[r]] EXCEPT ![form] = c]
      /\ \A s \in Recs \ {stamp[r]} : files'[s] = files[s]
  <2>1. files' \in [Recs -> Names]
    BY <1>5, <1>6, <1>7
  <2>2. files'[stamp[r]] = [files[stamp[r]] EXCEPT ![form] = c]
    BY <1>5, <1>6
  <2>3. \A s \in Recs \ {stamp[r]} : files'[s] = files[s]
    BY <1>5, <1>6
  <2> QED BY <2>1, <2>2, <2>3
<1>9. files'[stamp[r]][form] = c
  BY <1>5, <1>8 DEF Names
<1>10. /\ work' \in [Recs -> Posts] /\ work'[r].at = "written" /\ work'[r].form = form
       /\ work'[r].art = work[r].art /\ \A q \in Recs \ {r} : work'[q] = work[q]
  BY <1>0 DEF TypeOK, Posts
<1>11. TypeOK'
  BY <1>0, <1>1, <1>8, <1>10 DEF TypeOK, Names, Posts
<1>12. \A q \in Recs \ {r} : Apart(q)
  <2>1. ASSUME NEW q \in Recs \ {r}, ~Shared(q)' PROVE files'[stamp'[q]] = files[stamp[q]]
    <3>1. stamp[q] # stamp[r]
      BY <1>1, <2>1 DEF Shared
    <3> QED BY <1>1, <1>5, <1>8, <3>1
  <2> QED BY <1>1, <1>10, <2>1 DEF Apart
<1>13. captured[r] = disk[r].frames \/ r \in torn
  BY <1>0, <1>1 DEF Story
<1>14. captured[r] = n => Whole(r, form)'
  BY <1>1, <1>4, <1>9 DEF Whole
<1>15. Story(r)'
  <2>1. /\ row'[r].status \in {"recording", "finalizing"} /\ row'[r].art = 0 /\ work'[r].art = 0
        /\ disk'[r].frames <= captured'[r]
    BY <1>0, <1>1, <1>10 DEF Story
  <2>2. captured'[r] = disk'[r].frames \/ r \in torn'
    BY <1>1, <1>13
  <2>3. (Good(r) => Whole(r, work[r].form))'
    <3>1. Good(r)' => Whole(r, form)'
      BY <1>3, <1>13, <1>14, <1>1 DEF Good
    <3> QED BY <1>10, <3>1 DEF Whole
  <2>4. Kept(r)'
    BY <2>2 DEF Kept, Unmade
  <2> QED BY <1>10, <2>1, <2>2, <2>3, <2>4 DEF Story
<1> QED BY <1>2, <1>0, <1>11, <1>12, <1>15, StampsStay, StoryOfOthers

\* A worker moves on without a file: what it had is as it was.
LEMMA MovesStep ==
  ASSUME IInv, NEW r \in Recs, work[r].at \in {"encode", "retry", "written"},
         NEW at \in {"retry", "saved"}, work' = [work EXCEPT ![r].at = at],
         unsaved' = unsaved \/ unsaved' = unsaved \cup {r},
         at = "saved" => (Nothing(r) /\ captured[r] = disk[r].frames) \/ Unmade(r)',
         UNCHANGED <<row, disk, stamp, files, arts, count, stop, entry, waits, phase, captured, torn>>
  PROVE  IInv'
<1>0. TypeOK /\ Stamps /\ Story(r) /\ Len(arts) \in Nat
  BY Basics
<1>1. Grows /\ NoneBegins
  <2>1. \A q \in Recs : Shared(q) => Shared(q)'
    BY DEF Shared
  <2> QED BY <1>0, <2>1 DEF Grows, NoneBegins
<1>2. /\ work' \in [Recs -> Posts] /\ work'[r].at = at /\ work'[r].art = work[r].art
      /\ \A q \in Recs \ {r} : work'[q] = work[q]
  BY <1>0 DEF TypeOK, Posts
<1>3. TypeOK'
  BY <1>0, <1>2 DEF TypeOK, Posts
<1>4. \A q \in Recs \ {r} : Apart(q)
  BY <1>2 DEF Apart
<1>5. Story(r)'
  <2>1. /\ row[r].status \in {"recording", "finalizing"} /\ row[r].art = 0 /\ work[r].art = 0
        /\ disk[r].frames <= captured[r] /\ (captured[r] = disk[r].frames \/ r \in torn)
    BY <1>0 DEF Story
  <2>2. Kept(r)'
    BY <2>1 DEF Kept, Unmade
  <2>3. at = "saved" => captured[r] = 0 \/ Unmade(r)'
    BY DEF Nothing
  <2> QED BY <1>2, <2>1, <2>2, <2>3 DEF Story
<1> QED BY <1>0, <1>1, <1>3, <1>4, <1>5, StampsStay, StoryOfOthers

LEMMA EncodeStep ==
  ASSUME IInv, NEW r \in Recs, Encode(r)
  PROVE  IInv'
<1>0. Story(r) /\ work[r].at \in {"encode", "retry"}
      /\ UNCHANGED <<row, disk, stamp, arts, count, stop, entry, waits, phase, captured, torn>>
  BY Basics DEF Encode
<1>1. CASE /\ \/ Nothing(r) /\ UNCHANGED unsaved
              \/ unsaved' = unsaved \cup {r}
           /\ work' = [work EXCEPT ![r].at = "saved"] /\ UNCHANGED files
  <2>1. (Nothing(r) /\ captured[r] = disk[r].frames) \/ Unmade(r)'
    BY <1>0, <1>1 DEF Story, Unmade
  <2> QED BY <1>0, <1>1, <2>1, MovesStep
<1>2. CASE \E form \in Forms :
             /\ files' = [files EXCEPT ![stamp[r]][form] =
                            [rec |-> r, frames |-> FramesIn(form, disk[r].frames)]]
             /\ work' = [work EXCEPT ![r].at = "written", ![r].form = form]
             /\ UNCHANGED unsaved
  BY <1>2, WriteStep
<1> QED BY <1>1, <1>2 DEF Encode

LEMMA RegisterStep ==
  ASSUME IInv, NEW r \in Recs, Register(r)
  PROVE  IInv'
<1>0. TypeOK /\ Stamps /\ Story(r) /\ Len(arts) \in Nat /\ work[r].at = "written"
      /\ UNCHANGED <<row, disk, stamp, files, count, stop, entry, waits, phase, captured, torn>>
  BY Basics DEF Register, Works
<1>1. CASE /\ arts' = arts
           /\ \/ work' = [work EXCEPT ![r].at = "retry"] /\ UNCHANGED unsaved
              \/ work' = [work EXCEPT ![r].at = "saved"] /\ unsaved' = unsaved \cup {r}
  BY <1>0, <1>1, MovesStep DEF Unmade
<1>2. CASE /\ arts' = Append(arts, [rec |-> r, form |-> work[r].form]) /\ UNCHANGED unsaved
           /\ work' = [work EXCEPT ![r].at = "saved", ![r].art = Len(arts) + 1]
  <2>1. PICK f \in Forms : f = work[r].form
    BY <1>0 DEF Story
  <2>2. PICK a \in [rec : Recs, form : Forms] : a = [rec |-> r, form |-> f]
    OBVIOUS
  <2>3. /\ arts' \in Seq([rec : Recs, form : Forms]) /\ Len(arts') = Len(arts) + 1
        /\ (\A i \in 1..Len(arts) : arts'[i] = arts[i]) /\ arts'[Len(arts) + 1] = a
    BY <1>0, <1>2, <2>1, <2>2, AppendProperties DEF TypeOK
  <2>4. Grows /\ NoneBegins
    <3>1. \A q \in Recs : Shared(q) => Shared(q)'
      BY <1>0 DEF Shared
    <3> QED BY <1>0, <1>2, <2>3, <3>1 DEF Grows, NoneBegins
  <2>5. /\ work' \in [Recs -> Posts] /\ work'[r].at = "saved" /\ work'[r].art = Len(arts) + 1
        /\ \A q \in Recs \ {r} : work'[q] = work[q]
    <3>1. PICK m \in Nat : m = Len(arts) + 1
      BY <1>0
    <3>2. work \in [Recs -> Posts] /\ work[r] \in Posts
      BY <1>0 DEF TypeOK, Posts
    <3>3. PICK w \in Posts : w = [[work[r] EXCEPT !.at = "saved"] EXCEPT !.art = m]
      BY <3>2 DEF Posts
    <3>4. w.at = "saved" /\ w.art = m
      BY <3>2, <3>3 DEF Posts
    <3>5. work' = [work EXCEPT ![r] = w]
      BY <1>2, <3>1, <3>2, <3>3
    <3> QED BY <3>1, <3>2, <3>4, <3>5
  <2>6. TypeOK'
    BY <1>0, <1>2, <2>3, <2>5 DEF TypeOK, Posts
  <2>7. \A q \in Recs \ {r} : Apart(q)
    BY <1>0, <2>5 DEF Apart
  <2>8. Named(r, work[r].art)'
    <3>1. PICK m \in Nat : m = Len(arts) + 1
      BY <1>0
    <3>2. m \in 1..Len(arts') /\ arts'[m] = a /\ work'[r].art = m
      BY <1>0, <2>3, <2>5, <3>1
    <3>3. arts'[m].rec = r /\ arts'[m].form = f
      BY <2>2, <3>2
    <3>4. Good(r)' => Whole(r, f)'
      BY <1>0, <2>1 DEF Story, Good, Shared, Whole
    <3> QED BY <3>2, <3>3, <3>4 DEF Named, Whole
  <2>9. Story(r)'
    <3>1. /\ row'[r].status \in {"recording", "finalizing"} /\ row'[r].art = 0
          /\ disk'[r].frames <= captured'[r] /\ (captured'[r] = disk'[r].frames \/ r \in torn')
      BY <1>0 DEF Story
    <3>2. work'[r].art # 0
      BY <1>0, <2>5
    <3> QED BY <2>5, <2>8, <3>1, <3>2 DEF Story, Kept, Unmade
  <2> QED BY <1>0, <2>4, <2>6, <2>7, <2>9, StampsStay, StoryOfOthers
<1> QED BY <1>1, <1>2 DEF Register

\* A worker that errs leaves a failed row, or the row as it was, and what is on disk or made.
LEMMA ErrsStep ==
  ASSUME IInv, NEW r \in Recs, Errs(r), row[r].status # "none",
         UNCHANGED <<disk, stamp, files, arts, count, stop, entry, waits, captured, unsaved, torn>>
  PROVE  IInv'
<1>0. TypeOK /\ Stamps /\ Story(r) /\ Len(arts) \in Nat /\ Grows
  BY Basics, NothingGrows
<1>1. /\ row' \in [Recs -> Rows] /\ row'[r].art = row[r].art
      /\ row'[r].status = "failed" \/ (row'[r].status = row[r].status /\ work'[r].at = "mute")
      /\ \A q \in Recs \ {r} : row'[q] = row[q]
  <2>1. row \in [Recs -> Rows] /\ "failed" \in {"none", "recording", "finalizing"} \cup Settled
    BY <1>0 DEF TypeOK, Rows, Settled
  <2>2. CASE row' = [row EXCEPT ![r].status = "failed"]
    BY <2>1, <2>2 DEF Rows
  <2>3. CASE row' = row /\ work' = [work EXCEPT ![r] = Mute]
    BY <1>0, <2>1, <2>3 DEF TypeOK, Mute, Idle
  <2> QED BY <2>2, <2>3 DEF Errs
<1>2. /\ work' \in [Recs -> Posts] /\ work'[r].at \in {"none", "mute"} /\ work'[r].art = 0
      /\ \A q \in Recs \ {r} : work'[q] = work[q]
  <2>1. Idle \in Posts /\ Mute \in Posts /\ Idle.at = "none" /\ Mute.at = "mute" /\ Idle.art = 0
        /\ Mute.art = 0
    BY DEF Idle, Mute, Posts
  <2>2. work \in [Recs -> Posts]
    BY <1>0 DEF TypeOK, Posts
  <2>3. work' = [work EXCEPT ![r] = Idle] \/ work' = [work EXCEPT ![r] = Mute]
    BY DEF Errs
  <2> QED BY <2>1, <2>2, <2>3
<1>3. phase' \in {"down", "boot", "serving"}
  BY <1>0 DEF Errs, TypeOK
<1>4. TypeOK'
  BY <1>0, <1>1, <1>2, <1>3 DEF TypeOK, Rows, Posts
<1>5. NoneBegins /\ \A q \in Recs \ {r} : Apart(q)
  BY <1>1, <1>2 DEF Apart, NoneBegins
<1>6. Story(r)'
  <2>1. disk[r].frames <= captured[r] /\ Kept(r)'
    <3>1. disk[r].frames <= captured[r] /\ Kept(r)
      BY <1>0 DEF Story
    <3> QED BY <1>0, <3>1, KeptStays
  <2>2. PICK n : n = row[r].art
    OBVIOUS
  <2>3. (row[r].art # 0 => Named(r, row[r].art))'
    <3>1. n # 0 => Named(r, n)
      BY <1>0, <2>2 DEF Story
    <3>2. n # 0 => Named(r, n)'
      BY <1>0, <3>1, SameFiles
    <3> QED BY <1>1, <2>2, <3>2 DEF Named
  <2>4. /\ row'[r].status \notin {"completed", "failed"} => row'[r].art = 0
        /\ row'[r].status = "completed" /\ row'[r].art = 0 => captured'[r] = 0 \/ Unmade(r)'
    BY <1>0, <1>1 DEF Story, Unmade
  <2>5. row'[r].status # "none" /\ (row'[r].status = "recording" => work'[r].at = "mute")
    BY <1>1
  <2> QED BY <1>0, <1>1, <1>2, <2>1, <2>3, <2>4, <2>5 DEF Story
<1> QED BY <1>0, <1>4, <1>5, <1>6, StampsStay, StoryOfOthers

LEMMA AnnounceStep ==
  ASSUME IInv, NEW r \in Recs, Announce(r)
  PROVE  IInv'
<1>0. TypeOK /\ Stamps /\ Story(r) /\ Len(arts) \in Nat /\ work[r].at = "saved"
      /\ UNCHANGED <<disk, stamp, files, arts, count, stop, entry, waits, captured, unsaved, torn>>
      /\ row[r].status \in {"recording", "finalizing"}
  BY Basics DEF Announce, Works, Story
<1>1. CASE Errs(r)
  BY <1>0, <1>1, ErrsStep
<1>2. CASE work' = [work EXCEPT ![r].at = "sweep"] /\ UNCHANGED <<row, phase>>
  <2>1. /\ work' \in [Recs -> Posts] /\ work'[r].at = "sweep" /\ work'[r].art = work[r].art
        /\ \A q \in Recs \ {r} : work'[q] = work[q]
    BY <1>0, <1>2 DEF TypeOK, Posts
  <2>2. TypeOK' /\ Grows
    BY <1>0, <1>2, <2>1, NothingGrows DEF TypeOK, Posts
  <2>3. NoneBegins /\ \A q \in Recs \ {r} : Apart(q)
    BY <1>0, <1>2, <2>1 DEF Apart, NoneBegins
  <2>4. Story(r)'
    <3>1. row[r].art = 0 /\ disk[r].frames <= captured[r] /\ Kept(r)'
      <4>1. row[r].art = 0 /\ disk[r].frames <= captured[r] /\ Kept(r)
        BY <1>0 DEF Story
      <4> QED BY <1>0, <2>2, <4>1, KeptStays
    <3>2. PICK n \in Nat : n = work[r].art
      BY <1>0 DEF TypeOK
    <3>3. work[r].art = 0 => captured[r] = 0 \/ Unmade(r)'
      BY <1>0 DEF Story, Unmade
    <3>4. n # 0 => Named(r, n)'
      <4>1. n # 0 => Named(r, n)
        BY <1>0, <3>2 DEF Story
      <4> QED BY <1>0, <2>2, <4>1, SameFiles
    <3>5. (work[r].art # 0 => Named(r, work[r].art))'
      BY <2>1, <3>2, <3>4 DEF Named
    <3> QED BY <1>0, <1>2, <2>1, <3>1, <3>3, <3>5 DEF Story
  <2> QED BY <1>0, <2>2, <2>3, <2>4, StampsStay, StoryOfOthers
<1> QED BY <1>1, <1>2 DEF Announce

\* A file of the directory goes, or the removal ends.
LEMMA UnlinkStep ==
  ASSUME IInv, NEW r \in Recs, Unlink(r)
  PROVE  IInv'
<1>0. TypeOK /\ Stamps /\ Story(r) /\ Len(arts) \in Nat /\ work[r].at = "sweep"
      /\ UNCHANGED <<row, stamp, files, arts, count, stop, entry, waits, phase, captured, unsaved, torn>>
      /\ row[r].status \in {"recording", "finalizing"} /\ row[r].art = 0
  BY Basics DEF Unlink, Works, Story
<1>1. Grows /\ NoneBegins
  BY <1>0, NothingGrows DEF NoneBegins
<1>2. /\ disk' \in [Recs -> Disks] /\ disk'[r].frames <= disk[r].frames
      /\ \A q \in Recs \ {r} : disk'[q] = disk[q]
  <2>1. disk \in [Recs -> Disks] /\ disk[r].frames \in 0..MaxFrames /\ MaxFrames \in Nat
    BY <1>0, RecorderAssumption DEF TypeOK, Disks
  <2>2. CASE disk[r].frames > 0 /\ disk' = [disk EXCEPT ![r].frames = @ - 1]
    <3>1. disk[r].frames - 1 \in 0..MaxFrames /\ disk' = [disk EXCEPT ![r].frames = disk[r].frames - 1]
      BY <2>1, <2>2
    <3> QED BY <2>1, <3>1 DEF Disks
  <2>3. CASE disk' = [disk EXCEPT ![r].notes = FALSE]
    <3>1. disk[r].frames \in Int /\ [disk[r] EXCEPT !.notes = FALSE] \in Disks
      <4>1. PICK e \in Disks : e = disk[r]
        BY <2>1
      <4>2. e.frames \in Int
        BY <2>1, <4>1
      <4>3. [e EXCEPT !.notes = FALSE] \in Disks
        BY DEF Disks
      <4> QED BY <4>1, <4>2, <4>3
    <3>2. disk' = [disk EXCEPT ![r] = [disk[r] EXCEPT !.notes = FALSE]]
      BY <2>3
    <3>3. disk'[r] = [disk[r] EXCEPT !.notes = FALSE]
      BY <2>1, <3>2
    <3>4. disk'[r].frames = disk[r].frames
      BY <2>1, <3>3 DEF Disks
    <3> QED BY <2>1, <3>1, <3>2, <3>4
  <2>4. CASE disk' = disk
    BY <2>1, <2>4
  <2> QED BY <2>2, <2>3, <2>4 DEF Unlink
<1>3. /\ work' \in [Recs -> Posts] /\ work'[r].at \in {"sweep", "swept"} /\ work'[r].art = work[r].art
      /\ \A q \in Recs \ {r} : work'[q] = work[q]
  <2>1. work' = work \/ work' = [work EXCEPT ![r].at = "swept"]
    BY DEF Unlink
  <2>2. work \in [Recs -> Posts]
    BY <1>0 DEF TypeOK, Posts
  <2> QED BY <1>0, <2>1, <2>2 DEF Posts
<1>4. TypeOK'
  BY <1>0, <1>2, <1>3 DEF TypeOK, Disks, Posts
<1>5. \A q \in Recs \ {r} : Apart(q)
  BY <1>0, <1>2, <1>3 DEF Apart
<1>6. Story(r)'
  <2>1. disk'[r].frames <= captured'[r]
    <3>1. disk[r].frames \in Nat /\ captured[r] \in Nat /\ disk[r].frames <= captured[r]
      BY <1>0, Counts DEF Story
    <3>2. disk'[r] \in Disks
      BY <1>2
    <3>3. disk'[r].frames \in Nat
      BY <3>2, RecorderAssumption DEF Disks
    <3> QED BY <1>0, <1>2, <3>1, <3>3
  <2>2. (work[r].art # 0 => Named(r, work[r].art))'
    <3>1. work[r].art # 0 => Named(r, work[r].art)'
      <4>1. work[r].art # 0 => Named(r, work[r].art)
        BY <1>0 DEF Story
      <4>2. PICK n \in Nat : n = work[r].art
        BY <1>0 DEF TypeOK
      <4>3. Named(r, n) => Named(r, n)'
        BY <1>0, <1>1, SameFiles
      <4> QED BY <1>3, <4>1, <4>2, <4>3 DEF Named
    <3> QED BY <1>3, <3>1 DEF Named
  <2>3. work[r].art = 0 => captured'[r] = 0 \/ Unmade(r)'
    BY <1>0 DEF Story, Unmade
  <2>4. Kept(r)'
    <3>1. CASE work[r].art = 0 /\ captured[r] = 0
      <4>1. disk'[r].frames = 0
        BY <1>0, <1>2, <2>1, <3>1, RecorderAssumption DEF Disks
      <4> QED BY <1>0, <3>1, <4>1 DEF Kept
    <3>2. CASE work[r].art = 0 /\ Unmade(r)
      BY <1>0, <3>2 DEF Kept, Unmade
    <3>3. CASE work[r].art # 0
      <4>1. PICK n \in Nat : n = work[r].art
        BY <1>0 DEF TypeOK
      <4>2. Named(r, n)'
        BY <1>0, <1>1, <3>3, <4>1, SameFiles DEF Story
      <4> QED BY <4>2 DEF Named, Kept, Good, Unmade
    <3> QED BY <1>0, <3>1, <3>2, <3>3 DEF Story
  <2> QED BY <1>0, <1>3, <2>1, <2>2, <2>3, <2>4 DEF Story
<1> QED BY <1>0, <1>1, <1>4, <1>5, <1>6, StampsStay, StoryOfOthers

LEMMA SettleStep ==
  ASSUME IInv, NEW r \in Recs, Settle(r)
  PROVE  IInv'
<1>0. TypeOK /\ Stamps /\ Story(r) /\ Len(arts) \in Nat /\ work[r].at = "swept"
      /\ UNCHANGED <<disk, stamp, files, arts, count, stop, entry, waits, captured, unsaved, torn>>
      /\ row[r].status \in {"recording", "finalizing"} /\ row[r].art = 0
  BY Basics DEF Settle, Works, Story
<1>1. CASE Errs(r)
  BY <1>0, <1>1, ErrsStep
<1>2. CASE /\ row' = [row EXCEPT ![r] = [status |-> "completed",
                        art |-> IF work[r].art = 0 THEN row[r].art ELSE work[r].art]]
           /\ work' = [work EXCEPT ![r] = IF phase = "boot" /\ work[r].art # 0
                                          THEN [Idle EXCEPT !.at = "told"] ELSE Idle]
           /\ UNCHANGED phase
  <2>1. PICK n \in Nat : n = work[r].art
    BY <1>0 DEF TypeOK
  <2>2. /\ row' \in [Recs -> Rows] /\ row'[r].status = "completed" /\ row'[r].art = n
        /\ \A q \in Recs \ {r} : row'[q] = row[q]
    <3>1. row \in [Recs -> Rows] /\ "completed" \in {"none", "recording", "finalizing"} \cup Settled
      BY <1>0 DEF TypeOK, Rows, Settled
    <3>2. row' = [row EXCEPT ![r] = [status |-> "completed", art |-> n]]
      BY <1>0, <1>2, <2>1
    <3> QED BY <3>1, <3>2 DEF Rows
  <2>3. /\ work' \in [Recs -> Posts] /\ work'[r].at \in {"none", "told"} /\ work'[r].art = 0
        /\ \A q \in Recs \ {r} : work'[q] = work[q]
    <3>1. PICK w \in Posts : /\ w.at \in {"none", "told"} /\ w.art = 0
                             /\ work' = [work EXCEPT ![r] = w]
      <4>1. /\ Idle \in Posts /\ Idle.at = "none" /\ Idle.art = 0
            /\ [Idle EXCEPT !.at = "told"] \in Posts /\ [Idle EXCEPT !.at = "told"].at = "told"
            /\ [Idle EXCEPT !.at = "told"].art = 0
        BY DEF Idle, Posts
      <4>2. CASE phase = "boot" /\ work[r].art # 0
        <5>1. work' = [work EXCEPT ![r] = [Idle EXCEPT !.at = "told"]]
          BY <1>2, <4>2
        <5> QED BY <4>1, <5>1
      <4>3. CASE ~(phase = "boot" /\ work[r].art # 0)
        <5>1. work' = [work EXCEPT ![r] = Idle]
          BY <1>2, <4>3
        <5> QED BY <4>1, <5>1
      <4> QED BY <4>2, <4>3
    <3> QED BY <1>0, <3>1 DEF TypeOK, Posts
  <2>4. TypeOK' /\ Grows
    BY <1>0, <1>2, <2>2, <2>3, NothingGrows DEF TypeOK, Rows, Posts
  <2>5. NoneBegins /\ \A q \in Recs \ {r} : Apart(q)
    BY <1>0, <2>2, <2>3 DEF Apart, NoneBegins
  <2>6. Story(r)'
    <3>1. disk[r].frames <= captured[r] /\ Kept(r)'
      <4>1. disk[r].frames <= captured[r] /\ Kept(r)
        BY <1>0 DEF Story
      <4> QED BY <1>0, <2>4, <4>1, KeptStays
    <3>2. (row[r].art # 0 => Named(r, row[r].art))'
      <4>1. n # 0 => Named(r, n)
        BY <1>0, <2>1 DEF Story
      <4>2. n # 0 => Named(r, n)'
        BY <1>0, <2>4, <4>1, SameFiles
      <4> QED BY <2>2, <4>2 DEF Named
    <3>3. n = 0 => captured[r] = 0 \/ Unmade(r)'
      BY <1>0, <2>1 DEF Story, Unmade
    <3> QED BY <1>0, <2>2, <2>3, <3>1, <3>2, <3>3 DEF Story
  <2> QED BY <1>0, <2>4, <2>5, <2>6, StampsStay, StoryOfOthers
<1> QED BY <1>0, <1>1, <1>2 DEF Settle

LEMMA ReportStep ==
  ASSUME IInv, NEW r \in Recs, Report(r)
  PROVE  IInv'
<1>0. TypeOK /\ Stamps /\ Story(r) /\ Len(arts) \in Nat /\ work[r].at = "told"
      /\ UNCHANGED <<disk, stamp, files, arts, count, stop, entry, waits, captured, unsaved, torn>>
      /\ row[r].status = "completed"
  BY Basics DEF Report, Works, Story
<1>1. CASE Errs(r)
  BY <1>0, <1>1, ErrsStep
<1>2. CASE work' = [work EXCEPT ![r] = Idle] /\ UNCHANGED <<row, phase>>
  <2>1. /\ work' \in [Recs -> Posts] /\ work'[r] = Idle /\ \A q \in Recs \ {r} : work'[q] = work[q]
    BY <1>0, <1>2 DEF TypeOK, Posts, Idle
  <2>2. TypeOK' /\ Grows
    BY <1>0, <1>2, <2>1, NothingGrows DEF TypeOK, Posts
  <2>3. NoneBegins /\ \A q \in Recs \ {r} : Apart(q)
    BY <1>0, <1>2, <2>1 DEF Apart, NoneBegins
  <2>4. Story(r)'
    <3>1. disk[r].frames <= captured[r] /\ Kept(r)'
      <4>1. disk[r].frames <= captured[r] /\ Kept(r)
        BY <1>0 DEF Story
      <4> QED BY <1>0, <2>2, <4>1, KeptStays
    <3>2. PICK n : n = row[r].art
      OBVIOUS
    <3>3. (row[r].art # 0 => Named(r, row[r].art))'
      <4>1. n # 0 => Named(r, n)
        BY <1>0, <3>2 DEF Story
      <4>2. n # 0 => Named(r, n)'
        BY <1>0, <2>2, <4>1, SameFiles
      <4> QED BY <1>2, <3>2, <4>2 DEF Named
    <3>4. row[r].art = 0 => captured[r] = 0 \/ Unmade(r)'
      BY <1>0 DEF Story, Unmade
    <3> QED BY <1>0, <1>2, <2>1, <3>1, <3>3, <3>4 DEF Story, Idle
  <2> QED BY <1>0, <2>2, <2>3, <2>4, StampsStay, StoryOfOthers
<1> QED BY <1>1, <1>2 DEF Report

\* A process that dies with frames of a recording gone and its row not told leaves it torn.
LEMMA CrashStep ==
  ASSUME IInv, Crash
  PROVE  IInv'
<1>0. TypeOK /\ Stamps /\ Len(arts) \in Nat
      /\ UNCHANGED <<row, disk, stamp, files, arts, captured, unsaved>>
      /\ work' = [r \in Recs |-> Idle] /\ torn' = torn \cup Torn
  BY Basics DEF Crash
<1>1. TypeOK'
  <2>1. 0 \in 0..MaxFrames
    BY RecorderAssumption
  <2>2. work' \in [Recs -> Posts]
    BY <1>0 DEF Idle, Posts
  <2>3. count' \in [Recs -> 0..MaxFrames] /\ stop' \in [Recs -> BOOLEAN]
    BY <2>1 DEF Crash
  <2>4. torn' \subseteq Recs
    BY <1>0 DEF TypeOK, Torn
  <2> QED BY <1>0, <2>2, <2>3, <2>4 DEF Crash, TypeOK, Posts
<1>2. Grows /\ NoneBegins
  <2>1. \A q \in Recs : Shared(q) => Shared(q)'
    BY <1>0 DEF Shared
  <2> QED BY <1>0, <2>1 DEF Grows, NoneBegins
<1>3. ASSUME NEW r \in Recs PROVE Story(r)'
  <2>0. Story(r) /\ work'[r] = Idle
    BY <1>0 DEF IInv
  <2>1. Kept(r)' /\ (Unmade(r) => Unmade(r)')
    <3>1. Kept(r)
      BY <2>0 DEF Story
    <3>2. Kept(r)'
      BY <1>0, <1>2, <3>1, KeptStays
    <3> QED BY <1>0, <1>2, <3>2, SameFiles
  <2>2. row[r].status = "recording" => captured[r] = disk[r].frames \/ r \in torn'
    <3>1. captured[r] \in Nat /\ disk[r].frames \in Nat /\ disk[r].frames <= captured[r]
      BY <1>0, <2>0, Counts DEF Story
    <3> QED BY <1>0, <3>1 DEF Torn
  <2>3. (row[r].art # 0 => Named(r, row[r].art))'
    <3>1. PICK n \in Nat : n = row[r].art
      BY <1>0 DEF TypeOK
    <3>2. n # 0 => Named(r, n)
      BY <2>0, <3>1 DEF Story
    <3>3. n # 0 => Named(r, n)'
      BY <1>0, <1>2, <3>2, SameFiles
    <3> QED BY <1>0, <3>1, <3>3 DEF Named
  <2>4. row[r].status = "none" => captured[r] = 0 /\ disk[r] = Empty
    BY <2>0 DEF Story
  <2>5. /\ row[r].status \notin {"completed", "failed"} => row[r].art = 0
        /\ row[r].status = "completed" /\ row[r].art = 0 => captured[r] = 0 \/ Unmade(r)'
        /\ disk[r].frames <= captured[r]
    BY <2>0, <2>1 DEF Story
  <2> QED BY <1>0, <2>0, <2>1, <2>2, <2>3, <2>4, <2>5 DEF Story, Idle
<1> QED BY <1>0, <1>1, <1>2, <1>3, StampsStay DEF IInv

LEMMA RecoverStep ==
  ASSUME IInv, NEW r \in Recs, Recover(r)
  PROVE  IInv'
<1>0. TypeOK /\ Stamps /\ Story(r) /\ Len(arts) \in Nat
      /\ row[r].status = "recording" /\ work[r].at = "none"
      /\ UNCHANGED <<disk, stamp, files, arts, count, stop, entry, waits, captured, unsaved, torn>>
  BY Basics DEF Recover, Orphans, Works
<1>1. CASE Errs(r)
  BY <1>0, <1>1, ErrsStep
<1>2. CASE /\ row' = [row EXCEPT ![r].status = "finalizing"] /\ work' = [work EXCEPT ![r].at = "encode"]
           /\ UNCHANGED phase
  <2>1. /\ row' \in [Recs -> Rows] /\ row'[r].status = "finalizing" /\ row'[r].art = row[r].art
        /\ \A q \in Recs \ {r} : row'[q] = row[q]
    BY <1>0, <1>2 DEF TypeOK, Rows
  <2>2. /\ work' \in [Recs -> Posts] /\ work'[r].at = "encode" /\ work'[r].art = work[r].art
        /\ \A q \in Recs \ {r} : work'[q] = work[q]
    BY <1>0, <1>2 DEF TypeOK, Posts
  <2>3. TypeOK' /\ Grows
    BY <1>0, <1>2, <2>1, <2>2, NothingGrows DEF TypeOK, Rows, Posts
  <2>4. NoneBegins /\ \A q \in Recs \ {r} : Apart(q)
    BY <1>0, <2>1, <2>2 DEF Apart, NoneBegins
  <2>5. Story(r)'
    <3>1. /\ row[r].art = 0 /\ work[r].art = 0 /\ disk[r].frames <= captured[r]
          /\ (captured[r] = disk[r].frames \/ r \in torn) /\ Kept(r)
      BY <1>0 DEF Story
    <3>2. Kept(r)'
      BY <1>0, <2>3, <3>1, KeptStays
    <3> QED BY <1>0, <2>1, <2>2, <3>1, <3>2 DEF Story
  <2> QED BY <1>0, <2>3, <2>4, <2>5, StampsStay, StoryOfOthers
<1> QED BY <1>1, <1>2 DEF Recover

\* What leaves the recordings alone.
LEMMA AsideStep ==
  ASSUME IInv,
         UNCHANGED <<row, disk, stamp, files, arts, work, count, stop, captured, unsaved, torn>>,
         entry' \in Recs \cup {0}, waits' \subseteq Recs, phase' \in {"down", "boot", "serving"}
  PROVE  IInv'
<1>1. TypeOK'
  BY DEF IInv, TypeOK
<1>2. Grows /\ Len(arts') \in Nat /\ Stamps /\ TypeOK
  BY Basics, NothingGrows
<1>3. \A q \in Recs : Apart(q)
  BY DEF Apart
<1>4. Stamps'
  BY <1>2 DEF Stamps
<1> QED BY <1>1, <1>2, <1>3, <1>4, StoryApart DEF IInv

-----------------------------------------------------------------------------
(* The theorems *)

LEMMA Initially == Init => IInv
<1> SUFFICES ASSUME Init PROVE IInv
  OBVIOUS
<1>1. 0 \in 0..MaxFrames
  BY RecorderAssumption
<1>2. arts \in Seq([rec : Recs, form : Forms])
  BY DEF Init
<1>3. files \in [Recs -> [Forms -> [rec : Recs \cup {0}, frames : Nat]]]
  BY DEF Init, NoFile
<1>4. TypeOK
  BY <1>1, <1>2, <1>3 DEF Init, TypeOK, Empty, Idle
<1>5. \A r \in Recs : Story(r)
  BY DEF Init, Story, Kept, Empty, Idle
<1>6. Stamps
  BY DEF Init, Stamps
<1> QED BY <1>4, <1>5, <1>6 DEF IInv

LEMMA NextStep == IInv /\ [Next]_vars => IInv'
<1> SUFFICES ASSUME IInv, [Next]_vars PROVE IInv'
  OBVIOUS
<1>0. entry \in Recs \cup {0} /\ waits \subseteq Recs
  BY DEF IInv, TypeOK
<1>1. ASSUME NEW r \in Recs, StopReturns(r) PROVE IInv'
  BY <1>0, <1>1, AsideStep DEF StopReturns, IInv, TypeOK
<1>2. CASE Boot
  BY <1>0, <1>2, AsideStep DEF Boot
<1>3. CASE Serve
  BY <1>0, <1>3, AsideStep DEF Serve
<1>4. CASE UNCHANGED vars
  BY <1>0, <1>4, AsideStep DEF vars, IInv, TypeOK
<1>5. ASSUME NEW r \in Recs, Finish(r) PROVE IInv'
  BY <1>5, EncodeStep, RegisterStep, AnnounceStep, UnlinkStep, SettleStep, ReportStep DEF Finish
<1>6. ASSUME NEW r \in Recs, Start(r) \/ Capture(r) \/ CaptureTrace(r) \/ EndCapture(r) \/ Recover(r)
      PROVE IInv'
  BY <1>6, StartStep, CaptureStep, CaptureTraceStep, EndCaptureStep, RecoverStep
<1> QED BY <1>1, <1>2, <1>3, <1>4, <1>5, <1>6, StopStep, CrashStep DEF Next

LEMMA Always == Spec => []IInv
<1>1. Init => IInv
  BY Initially
<1>2. IInv /\ [Next]_vars => IInv'
  BY NextStep
<1> QED BY <1>1, <1>2, PTL DEF Spec

\* The rows, directories, files, artifacts and counters of recording.py keep their types, and no
\* recording holds more frames than _MAX_FRAMES.
THEOREM TypeCorrect == Spec => []TypeOK
<1>1. IInv => TypeOK
  BY DEF IInv
<1> QED BY <1>1, Always, PTL

\* Footage is never lost: _cleanup unlinks a frame only when the frame is in a file, whenever the
\* process dies, save for what FootageIsKept names: refused savers, a second recording of the
\* same second, a death within the removal.
THEOREM FootageIsAlwaysKept == Spec => []FootageIsKept
<1>1. IInv => FootageIsKept
  <2>1. SUFFICES ASSUME IInv, NEW r \in Recs, captured[r] > disk[r].frames
                 PROVE  r \in unsaved \cup torn \/ Shared(r) \/ \E form \in Forms : Whole(r, form)
    BY DEF FootageIsKept
  <2>2. captured[r] # disk[r].frames
    <3>1. captured[r] \in Nat /\ disk[r].frames \in Nat
      BY <2>1, Counts, Basics
    <3> QED BY <2>1, <3>1
  <2>3. Kept(r)
    BY <2>1 DEF IInv, Story
  <2> QED BY <2>2, <2>3 DEF Kept, Unmade
<1> QED BY <1>1, Always, PTL

\* The artifact a completed row names is the recording's own and its file is whole, and a
\* completed row of a recording that captured anything names one, with the same exceptions.
THEOREM RowsNameTheirArtifacts == Spec => []RowNamesItsArtifact
<1>1. IInv => RowNamesItsArtifact
  <2>1. SUFFICES ASSUME IInv, NEW r \in Recs
                 PROVE  /\ row[r].art # 0 => LET a == arts[row[r].art] IN
                             a.rec = r /\ (r \in torn \/ Shared(r) \/ Whole(r, a.form))
                        /\ row[r].status = "completed" /\ row[r].art = 0 /\ captured[r] > 0 =>
                             r \in unsaved \cup torn
    BY DEF RowNamesItsArtifact
  <2>2. Story(r) /\ captured[r] \in Nat
    BY <2>1, Counts, Basics
  <2> QED BY <2>2 DEF Story, Named, Good, Unmade
<1> QED BY <1>1, Always, PTL
=============================================================================
