------------------------------- MODULE Calls -------------------------------
(***************************************************************************)
(* Calls to the model and the owner's view of its reasoning                *)
(* (model_client.py, thoughts.py).  One call asks the endpoint up to       *)
(* MaxRetries times, each time with a streamed request first and a plain   *)
(* one where the stream gave nothing usable; one thought row follows it.   *)
(*                                                                         *)
(* row is the durable half of a thought; live, the buffer of a call that   *)
(* is thinking, is memory, and so are the calls: a crash loses both.  What *)
(* the model says is pieces [try, way, k]: which attempt, which request of *)
(* it, which piece of that answer.  Between two awaits of a call nothing   *)
(* else runs, so an answer is received and acted on in one step.           *)
(***************************************************************************)
EXTENDS Integers, Sequences

CONSTANTS
  Ids,          \* the thoughts' ids, in the order calls begin
  MaxRetries,   \* attempts a call has
  Room,         \* max_tokens a call starts with
  Ceiling,      \* MAX_TOKENS_CEILING
  DetailCap,    \* MAX_DETAIL_CHARS, in pieces
  Deltas,       \* bound: reasoning pieces of one stream
  Setups        \* the configurations and providers of the instance: [stream, thinking :
                \* BOOLEAN, fields : how many spellings of a piece a delta carries,
                \* cancels, refusals, crashes : bounds on those upsets]

ASSUME CallsAssumption ==
  /\ Ids \subseteq Nat \ {0} /\ MaxRetries \in Nat \ {0}
  /\ Room \in Nat \ {0} /\ Ceiling \in Nat \ {0}
  /\ DetailCap \in Nat \ {0} /\ Deltas \in Nat
  /\ Setups \subseteq [stream : BOOLEAN, thinking : BOOLEAN, fields : Nat \ {0},
                       cancels : Nat, refusals : Nat, crashes : Nat]

VARIABLES call, row, live, usage, up, setup, left
callsVars == <<call, row, live, usage, up, setup, left>>

InFlight == {"stream", "plain", "backoff"}
Ended    == {"replied", "contract", "rejected", "unparsed", "exhausted", "cancelled", "dropped", "lost"}
NoCall   == [pc |-> "idle", try |-> 1, room |-> Room, said |-> <<>>, broken |-> FALSE]
NoRow    == [status |-> "none", detail |-> <<>>]
NoBuffer == [on |-> FALSE, detail |-> <<>>]
Note     == [try |-> 0, way |-> "note", k |-> 0]

CallsInit ==
  /\ setup \in Setups /\ left = [n \in {"cancels", "refusals", "crashes"} |-> setup[n]]
  /\ call = [c \in Ids |-> NoCall] /\ row = [c \in Ids |-> NoRow]
  /\ live = [c \in Ids |-> NoBuffer]
  /\ usage = [calls |-> 0, failed |-> 0] /\ up = TRUE

-----------------------------------------------------------------------------
(* The thought store: what its calls make of the buffer and of the row *)

Spent(n)     == left' = [left EXCEPT ![n] = @ - 1]
\* The database takes a write, or refuses it.
Written      == UNCHANGED left
WriteRefused == left["refusals"] > 0 /\ Spent("refusals")

Capped(pieces) == SubSeq(pieces, 1, IF Len(pieces) < DetailCap THEN Len(pieces) ELSE DetailCap)
Added(c, pieces) == IF live[c].on THEN Capped(live[c].detail \o pieces) ELSE <<>>

\* The pieces reach the buffer, and the row when the last write is a second old and taken.
Push(c, pieces) ==
  /\ live' = [live EXCEPT ![c].detail = Added(c, pieces)]
  /\ \/ row' = row /\ Written
     \/ live[c].on /\ row' = [row EXCEPT ![c].detail = live'[c].detail] /\ Written
     \/ live[c].on /\ row' = row /\ WriteRefused

\* Mutant of Restart: what the discarded answer said stays.
KeepDetail(c) == UNCHANGED <<live, row, left>>

\* What a discarded answer said does not survive.
Restart(c) ==
  /\ live' = [live EXCEPT ![c].detail = <<>>]
  /\ \/ row' = [row EXCEPT ![c].detail = <<>>] /\ Written
     \/ live[c].on /\ row' = row /\ WriteRefused

\* The row is closed with the whole detail; the buffer goes whether or not the write is taken,
\* and stays when the note of an empty thought is the write that is refused.
Closed(c, status, detail) ==
  /\ live' = [live EXCEPT ![c] = NoBuffer]
  /\ row' = IF live[c].on THEN [row EXCEPT ![c] = [status |-> status, detail |-> detail]] ELSE row
Unclosed(c, detail) ==
  /\ live[c].on /\ UNCHANGED row
  /\ \/ live' = [live EXCEPT ![c] = NoBuffer]
     \/ detail = <<Note>> /\ live' = [live EXCEPT ![c].detail = detail]
Finish(c, status, detail) ==
  \/ Closed(c, status, detail) /\ Written
  \/ Unclosed(c, detail) /\ WriteRefused

-----------------------------------------------------------------------------
(* One call *)

Goes(c, pc) == call' = [call EXCEPT ![c].pc = pc]
Way(c)      == IF setup.stream THEN "stream" ELSE "plain"

\* A call begins with its thought, or without one where the store refuses it.
BeginCall(c) ==
  /\ up /\ call[c].pc = "idle" /\ \A d \in Ids : d < c => call[d].pc # "idle"
  /\ call' = [call EXCEPT ![c].pc = Way(c)]
  /\ \/ /\ row' = [row EXCEPT ![c] = [status |-> "streaming", detail |-> <<>>]]
        /\ live' = [live EXCEPT ![c] = [on |-> TRUE, detail |-> <<>>]]
        /\ Written
     \/ UNCHANGED <<row, live>> /\ WriteRefused
  /\ UNCHANGED <<usage, up, setup>>

Again(c) == call[c].try < MaxRetries

\* Mutant of NextTry: the room doubles past the ceiling.
RoomGrows(c, room) ==
  call' = [call EXCEPT ![c].pc = Way(c), ![c].try = @ + 1, ![c].room = @ + room, ![c].said = <<>>]

\* Mutant of NextTry: asking again is not counted.
SameTry(c, room) == call' = [call EXCEPT ![c].pc = Way(c), ![c].room = room, ![c].said = <<>>]

\* The next attempt of a call, with as much room.
NextTry(c, room) ==
  call' = [call EXCEPT ![c].pc = Way(c), ![c].try = @ + 1, ![c].room = room, ![c].said = <<>>]

\* An error that may pass: the attempt sleeps, its thought as it is.
Pause(c) == call' = [call EXCEPT ![c].pc = "backoff", ![c].broken = @ \/ live[c].detail # <<>>]

\* The endpoint will not have the request: nothing is retried.
Reject(c) == Goes(c, "rejected") /\ Finish(c, "failed", live[c].detail) /\ UNCHANGED usage

Doubled(n) == IF 2 * n < Ceiling THEN 2 * n ELSE Ceiling
Truncated(c, answer) == answer.cut /\ Again(c) /\ call[c].room < Ceiling

\* The reasoning beside an answer's text, else the one left in it.
Reasoning(answer) == IF answer.said # <<>> THEN answer.said ELSE answer.think
\* What of an answer's reasoning the thought does not have yet: all of it, where it has nothing.
Captured(c, answer) == IF live[c].detail # <<>> THEN live[c].detail ELSE Added(c, Reasoning(answer))
\* A thought that closes as done and shows nothing says why.
Explained(detail) == IF setup.thinking /\ detail = <<>> THEN <<Note>> ELSE detail

\* An answer: [cut: did it hit max_tokens, body, said: its reasoning, think: the one left in the text].
Handle(c, answer) ==
  IF Truncated(c, answer)
  THEN NextTry(c, Doubled(call[c].room)) /\ Restart(c) /\ UNCHANGED usage
  ELSE LET all == Captured(c, answer)
           end == CASE answer.body = "json" -> "replied" [] answer.body = "short" -> "contract"
                    [] OTHER -> "unparsed"
       IN /\ call' = [call EXCEPT ![c].pc = end, ![c].said = Reasoning(answer)]
          /\ usage' = [usage EXCEPT !.calls = @ + (IF end = "unparsed" THEN 0 ELSE 1)]
          /\ IF end = "unparsed" THEN Finish(c, "failed", all) ELSE Finish(c, "done", Explained(all))

Piece(c, k)   == [try |-> call[c].try, way |-> call[c].pc, k |-> k]
Bodies        == {"json", "short", "none"}
\* What a plain answer may say: its reasoning beside the text, in it, or not at all.
PlainAnswers(c) ==
  {[cut |-> cut, body |-> body, said |-> said, think |-> think] :
     cut \in BOOLEAN, body \in Bodies, said \in {<<>>, <<Piece(c, 1)>>}, think \in {<<>>, <<Piece(c, 2)>>}}

\* A piece of reasoning arrives, under every spelling the provider gives it.
Delta(c) ==
  /\ call[c].pc = "stream" /\ Len(call[c].said) < Deltas
  /\ LET piece == Piece(c, Len(call[c].said) + 1) IN
       /\ call' = [call EXCEPT ![c].said = Append(@, piece)]
       /\ Push(c, [i \in 1..setup.fields |-> piece])
  /\ UNCHANGED <<usage, up, setup>>

\* 429, 5xx, a broken transport at any moment of the stream, a body that is no JSON.
StreamBreaks(c) ==
  /\ call[c].pc = "stream" /\ Pause(c)
  /\ UNCHANGED <<row, live, usage, up, setup, left>>

StreamRejected(c) ==
  /\ call[c].pc = "stream" /\ call[c].said = <<>> /\ Reject(c) /\ UNCHANGED <<up, setup>>

\* The endpoint does not stream, or streamed nothing usable: the plain request replaces it.
StreamUnusable(c) ==
  /\ call[c].pc = "stream" /\ call' = [call EXCEPT ![c].pc = "plain", ![c].said = <<>>]
  /\ Restart(c) /\ UNCHANGED <<usage, up, setup>>

\* The endpoint ignored the parameter and answered; or the stream ends with its answer, whose
\* reasoning is in the thought already.
StreamAnswers(c) ==
  /\ call[c].pc = "stream"
  /\ \/ call[c].said = <<>> /\ \E answer \in PlainAnswers(c) : Handle(c, answer)
     \/ \E cut \in BOOLEAN, body \in Bodies :
          Handle(c, [cut |-> cut, body |-> body, said |-> call[c].said, think |-> <<>>])
  /\ UNCHANGED <<up, setup>>

PlainBreaks(c) ==
  /\ call[c].pc = "plain" /\ Pause(c) /\ UNCHANGED <<row, live, usage, up, setup, left>>
PlainRejected(c) == call[c].pc = "plain" /\ Reject(c) /\ UNCHANGED <<up, setup>>
PlainAnswered(c) ==
  /\ call[c].pc = "plain" /\ \E answer \in PlainAnswers(c) : Handle(c, answer)
  /\ UNCHANGED <<up, setup>>

\* The sleep is over: the next attempt, or the end of a call that had its last.
Wake(c) ==
  /\ call[c].pc = "backoff"
  /\ IF Again(c)
     THEN NextTry(c, call[c].room) /\ UNCHANGED <<row, live, usage, left>>
     ELSE /\ Goes(c, "exhausted") /\ usage' = [usage EXCEPT !.failed = @ + 1]
          /\ Finish(c, "failed", live[c].detail)
  /\ UNCHANGED <<up, setup>>

\* Mutant of Cancel: only failures close the thought.
CancelSilently(c) ==
  /\ call[c].pc \in {"stream", "plain"} /\ left["cancels"] > 0
  /\ Goes(c, "cancelled") /\ Spent("cancels") /\ UNCHANGED <<row, live, usage, up, setup>>

\* The runner's task is cancelled while the call waits for the endpoint.
Cancel(c) ==
  /\ call[c].pc \in {"stream", "plain"} /\ left["cancels"] > 0 /\ Goes(c, "cancelled")
  /\ \/ Closed(c, "failed", live[c].detail) /\ Spent("cancels")
     \/ /\ Unclosed(c, live[c].detail) /\ left["refusals"] > 0
        /\ left' = [left EXCEPT !["cancels"] = @ - 1, !["refusals"] = @ - 1]
  /\ UNCHANGED <<usage, up, setup>>

\* ... or while it sleeps, inside the handler of the error: nothing closes the thought.
CancelAsleep(c) ==
  /\ call[c].pc = "backoff" /\ left["cancels"] > 0
  /\ Goes(c, "dropped") /\ Spent("cancels") /\ UNCHANGED <<row, live, usage, up, setup>>

-----------------------------------------------------------------------------
(* The process *)

Crash ==
  /\ up /\ left["crashes"] > 0 /\ Spent("crashes") /\ up' = FALSE
  /\ call' = [c \in Ids |-> IF call[c].pc \in InFlight THEN [call[c] EXCEPT !.pc = "lost"] ELSE call[c]]
  /\ live' = [c \in Ids |-> NoBuffer] /\ usage' = [calls |-> 0, failed |-> 0]
  /\ UNCHANGED <<row, setup>>

Stale == {c \in Ids : row[c].status = "streaming"}

\* Boot: rows of a process that is gone stop claiming to be live.
Boot ==
  /\ ~up /\ up' = TRUE
  /\ row' = [c \in Ids |-> IF c \in Stale THEN [row[c] EXCEPT !.status = "interrupted"] ELSE row[c]]
  /\ UNCHANGED <<call, live, usage, setup, left>>

-----------------------------------------------------------------------------
(* What the panel shows: the newest buffer of this process, else the newest streaming row *)

Buffers == {c \in Ids : live[c].on}
Newest(S) == {c \in S : \A d \in S : d <= c}
LiveThought == Newest(IF Buffers # {} THEN Buffers ELSE {c \in Ids : row[c].status = "streaming"})

Step(c) == StreamBreaks(c) \/ StreamRejected(c) \/ StreamUnusable(c) \/ StreamAnswers(c)
           \/ PlainBreaks(c) \/ PlainRejected(c) \/ PlainAnswered(c) \/ Wake(c)

CallsNext ==
  \/ \E c \in Ids : BeginCall(c) \/ Delta(c) \/ Step(c) \/ Cancel(c) \/ CancelAsleep(c)
  \/ Crash \/ Boot

CallsSpec == CallsInit /\ [][CallsNext]_callsVars
\* The endpoint answers or the client's timeout breaks the request, a sleep ends, and a
\* process that died is started again.
FairCalls == CallsSpec /\ WF_callsVars(Boot) /\ \A c \in Ids : WF_callsVars(Step(c))
-----------------------------------------------------------------------------
(* Properties *)

Untouched(n) == left[n] = setup[n]

\* A thought that closed as done shows the reasoning of the answer the call ended with, whole and
\* nothing else, through truncated answers, streams that gave way to a plain request and lost
\* writes; only a stream that broke leaves something, and only a provider that spells a piece
\* in two ways has it twice.  One that shows none says so.
ThoughtIsTheAnswer ==
  \A c \in Ids : row[c].status = "done" =>
    /\ call[c].pc \in {"replied", "contract"}
    /\ ~call[c].broken /\ setup.fields = 1 => row[c].detail = Explained(Capped(call[c].said))
    /\ setup.thinking => row[c].detail # <<>>

\* Nothing claims to be thinking that is not, after a cancellation or a restart either, unless
\* the database refused to close it or the call was cancelled in its sleep.
StreamingIsInFlight ==
  up /\ Untouched("refusals") =>
    \A c \in Ids : row[c].status = "streaming" \/ c \in LiveThought
      => call[c].pc \in InFlight \cup {"dropped"}
=============================================================================
