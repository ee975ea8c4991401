----------------------------- MODULE OutputPump -----------------------------
(***************************************************************************)
(* The way of a session's output from the worker to the log bridge:        *)
(*                                                                         *)
(*   worker  events are written to stdout one JSON line each, through      *)
(*           boardFilterWriter (internal/chatwork/filter.go), which leaves *)
(*           out the calls of board tools; anything may go to stderr;      *)
(*   serve   pump (internal/executor/docker.go) takes frames of either     *)
(*           stream off the attach connection, cut where they may be, and  *)
(*           gives each to its stream's lineWriter, which calls onLog      *)
(*           once per line.  When the connection ends, what is left of a   *)
(*           line is flushed.                                              *)
(*                                                                         *)
(* A byte of an event's line is the event itself, as what it says does not *)
(* matter; the bound of a line is small.  The attach connection, StdCopy   *)
(* and the emitter are external.                                           *)
(***************************************************************************)
EXTENDS Integers, Sequences, FiniteSets, FiniteSetsExt

CONSTANTS
  MaxLine,     \* scannerBufferMax: bytes a lineWriter keeps of a line
  Bytes,       \* what a line may be made of
  EventSize,   \* event -> length of its line
  StderrTexts, \* what the worker may write to stderr at a time
  MaxStderr,   \* bound: writes to stderr
  MaxEvents,   \* bound: events
  Cuts,        \* lengths of frames
  NL, CR       \* the bytes "\n" and "\r"

Events == {"text", "tool", "board", "error"}
Streams == {"out", "err"}

ASSUME LineAssumption == MaxLine \in Nat \ {0} /\ Cuts \subseteq Nat \ {0}
ASSUME EventAssumption == EventSize \in [Events -> Nat] /\ {NL, CR} \cap Events = {}
ASSUME BytesAssumption == Events \cup {NL, CR} \subseteq Bytes /\ StderrTexts \subseteq Seq(Bytes)

VARIABLES
  emitted,  \* events the emitter has been given, in order
  noise,    \* writes to stderr so far
  wire,     \* stream -> bytes written and not yet framed to the pump
  chunk,    \* stream -> what its Write has still to look at of a frame
  buf,      \* stream -> lineWriter.buf
  lines,    \* stream -> lines given to onLog
  pump,     \* copy, done
  written,  \* stream -> bytes its lineWriter has been given
  partial   \* streams whose last line is what Flush found

pumpVars == <<chunk, buf, lines, pump, written, partial>>
outputVars == <<emitted, noise, wire, chunk, buf, lines, pump, written, partial>>

NewOutput ==
  /\ emitted = <<>> /\ noise = 0
  /\ wire = [s \in Streams |-> <<>>]
  /\ chunk = [s \in Streams |-> <<>>]
  /\ buf = [s \in Streams |-> <<>>]
  /\ lines = [s \in Streams |-> <<>>]
  /\ pump = "copy"
  /\ written = [s \in Streams |-> <<>>]
  /\ partial = {}

\* The place of k among the elements of a set of numbers.
PlaceIn(S, k) == Cardinality({j \in S : j <= k})

Connected == pump = "copy"
Idle == pump = "copy" /\ \A s \in Streams : chunk[s] = <<>>

-----------------------------------------------------------------------------
(* The worker's side.                                                      *)

EventText(e) == [i \in 1..EventSize[e] |-> e]

EventLine(e) == EventText(e) \o <<NL>>

\* Variant: every tool call is taken for a board tool's.
FilteredByKind(e) == e \in {"board", "tool"}

\* isFiltered: a tool_call event that names one of the bridge's tools.
IsFiltered(e) == e = "board"

\* The emitter's Write, through the filter.
Emit(e) ==
  /\ Connected /\ Len(emitted) < MaxEvents
  /\ emitted' = Append(emitted, e)
  /\ wire' = [wire EXCEPT !["out"] = IF IsFiltered(e) THEN @ ELSE @ \o EventLine(e)]
  /\ UNCHANGED <<noise, pumpVars>>

WriteStderr(t) ==
  /\ Connected /\ noise < MaxStderr
  /\ noise' = noise + 1
  /\ wire' = [wire EXCEPT !["err"] = @ \o t]
  /\ UNCHANGED <<emitted, pumpVars>>

-----------------------------------------------------------------------------
(* pump: StdCopy hands the frames, one by one, to the lineWriters.         *)

\* The next n bytes of the stream are a frame, which goes to its lineWriter.
Frame(s, n) ==
  /\ Idle
  /\ n <= Len(wire[s])
  /\ chunk' = [chunk EXCEPT ![s] = SubSeq(wire[s], 1, n)]
  /\ wire' = [wire EXCEPT ![s] = SubSeq(@, n + 1, Len(@))]
  /\ written' = [written EXCEPT ![s] = @ \o SubSeq(wire[s], 1, n)]
  /\ UNCHANGED <<emitted, noise, buf, lines, pump, partial>>

\* Variant: a part that does not fit is left out whole.
AppendWhole(b, p) == IF Len(b) + Len(p) > MaxLine THEN b ELSE b \o p

AppendBounded(b, p) ==
  LET room == MaxLine - Len(b)
  IN IF Len(p) > room THEN b \o SubSeq(p, 1, room) ELSE b \o p

\* bytes.TrimRight(line, "\r").
TrimCR(b) == SubSeq(b, 1, Max({0} \cup {k \in 1..Len(b) : b[k] # CR}))

FlushLine(s, b) ==
  /\ lines' = [lines EXCEPT ![s] = Append(@, TrimCR(b))]
  /\ buf' = [buf EXCEPT ![s] = <<>>]

Newlines(p) == {k \in 1..Len(p) : p[k] = NL}

\* One turn of Write's loop: a line is completed by the first newline ...
WriteLine(s) ==
  /\ \E idx \in Newlines(chunk[s]) :
       /\ \A k \in Newlines(chunk[s]) : idx <= k
       /\ FlushLine(s, AppendBounded(buf[s], SubSeq(chunk[s], 1, idx - 1)))
       /\ chunk' = [chunk EXCEPT ![s] = SubSeq(@, idx + 1, Len(@))]
  /\ UNCHANGED <<emitted, noise, wire, pump, written, partial>>

\* ... or the rest of the frame is kept for the next one.
WriteRest(s) ==
  /\ chunk[s] # <<>> /\ Newlines(chunk[s]) = {}
  /\ buf' = [buf EXCEPT ![s] = AppendBounded(@, chunk[s])]
  /\ chunk' = [chunk EXCEPT ![s] = <<>>]
  /\ UNCHANGED <<emitted, noise, wire, lines, pump, written, partial>>

\* The stream has ended, in an error or closed: the rest is lost, and each Flush
\* gives out the line its lineWriter has begun.
StreamEnds ==
  /\ Idle
  /\ partial' = {s \in Streams : buf[s] # <<>>}
  /\ lines' = [s \in Streams |->
                 IF s \in partial' THEN Append(lines[s], TrimCR(buf[s])) ELSE lines[s]]
  /\ buf' = [s \in Streams |-> <<>>]
  /\ pump' = "done"
  /\ UNCHANGED <<emitted, noise, wire, chunk, written>>

PumpStep ==
  \E s \in Streams : WriteLine(s) \/ WriteRest(s) \/ \E n \in Cuts : Frame(s, n)

-----------------------------------------------------------------------------
(* Properties.                                                             *)

\* What onLog is to be given of one line of output.
Bridged(l) == TrimCR(SubSeq(l, 1, Min({Len(l), MaxLine})))

\* The line before place k, which a newline or the end of the stream is at.
LineEndingAt(b, k) == SubSeq(b, Max({0} \cup {j \in Newlines(b) : j < k}) + 1, k - 1)

Remainder(b) == LineEndingAt(b, Len(b) + 1)

(***************************************************************************)
(* However the output is cut into frames and the two streams' frames are   *)
(* mixed, the log bridge gets each stream's lines as they were written,    *)
(* each up to the bound and without its carriage returns, and last what    *)
(* the stream ended in the middle of (docker.go:584, 595).                 *)
(***************************************************************************)
LinesAsWritten ==
  \A s \in Streams :
    LET done == {k \in Newlines(written[s]) : k <= Len(written[s]) - Len(chunk[s])}
        whole == Len(lines[s]) - (IF s \in partial THEN 1 ELSE 0)
    IN /\ whole = Cardinality(done)
       /\ \A k \in done :
            lines[s][PlaceIn(done, k)] = Bridged(LineEndingAt(written[s], k))
       /\ pump = "done" =>
            /\ s \in partial <=> Remainder(written[s]) # <<>>
            /\ s \in partial => lines[s][whole + 1] = Bridged(Remainder(written[s]))

\* The events that are not filtered out, by their places among all.
Shown == {k \in 1..Len(emitted) : emitted[k] # "board"}

(***************************************************************************)
(* The transcript the log bridge gets on stdout is that of the worker's    *)
(* events, in order and none of them twice or missing, but for the calls   *)
(* of board tools, which are never in it (filter.go:9, run.go:170).        *)
(***************************************************************************)
TranscriptInOrder ==
  LET whole == Len(lines["out"]) - (IF "out" \in partial THEN 1 ELSE 0)
  IN /\ Len(lines["out"]) <= Cardinality(Shown)
     /\ \A k \in Shown : PlaceIn(Shown, k) <= whole =>
          lines["out"][PlaceIn(Shown, k)] = Bridged(EventText(emitted[k]))
     /\ Idle /\ wire["out"] = <<>> => whole = Cardinality(Shown)

=============================================================================
