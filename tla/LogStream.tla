------------------------------ MODULE LogStream ------------------------------
(***************************************************************************)
(* The build log of one release: the in-memory buffer and the file of        *)
(* LogStorageService, the deploy job that appends to it (runRelease and       *)
(* runComposeRelease), the consoles that watch it (buildLogs of               *)
(* LogsController), and the restart of the process.                           *)
(*                                                                         *)
(* Lines are numbered in the order they are produced.  The process is           *)
(* single-threaded: what happens between two awaits is one step, and a console     *)
(* that finds a buffer copies it and attaches without letting anything in          *)
(* between.  A write of the file is three steps of the file system, because two     *)
(* writes of the same file may overlap.                                        *)
(***************************************************************************)
EXTENDS Naturals, Sequences

CONSTANTS
  Viewers,    \* consoles
  MaxLines,   \* lines kept per stream (MAX_LINES)
  MaxAppends, \* bound: lines a build produces
  MaxFaults   \* bound: restarts, restarts without Docker, failed file and status writes

ASSUME LogAssumption == MaxLines \in Nat \ {0} /\ MaxAppends \in Nat \ {0} /\ MaxFaults \in Nat

VARIABLES
  job,      \* the deploy job of the release: queued, running, over
  row,      \* status of the release: open, terminal, or the row is deleted
  produced, \* lines appended so far
  buf,      \* the LogBuffer of the stream, if it is in memory
  writes,   \* calls of flush in flight: the debounced one and the one of finish
  file,     \* lines of the .log file
  viewer,   \* per console: where buildLogs is, and what it has shown
  faults

vars == <<job, row, produced, buf, writes, file, viewer, faults>>

Flushes == {"debounced", "final"}
NoBuffer == [at |-> "absent", lines |-> <<>>, armed |-> FALSE]
NoWrite == [at |-> "idle", text |-> <<>>]
Gap == {"file", "row", "decide"}
Text == UNION {[1..n -> 1..MaxAppends] : n \in 0..MaxLines}

TypeOK ==
  /\ job \in {"queued", "running", "over"} /\ row \in {"open", "terminal", "deleted"}
  /\ produced \in 0..MaxAppends /\ faults \in 0..MaxFaults
  /\ buf \in [at : {"absent", "live", "done"}, lines : Text, armed : BOOLEAN]
  /\ writes \in [Flushes -> [at : {"idle", "mkdir", "open", "write"}, text : Text]]
  /\ file \in Text
  /\ \A v \in Viewers :
       /\ viewer[v].at \in Gap \cup {"new", "live", "eof", "gone"}
       /\ viewer[v].seen \in Seq(1..MaxAppends)
       /\ viewer[v].row \in {"open", "terminal", "deleted"}
       /\ viewer[v].warm \in BOOLEAN /\ viewer[v].left \in BOOLEAN

NewViewer == [at |-> "new", seen |-> <<>>, row |-> "open", warm |-> FALSE, left |-> FALSE]
Gone == [NewViewer EXCEPT !.at = "gone"]

Init ==
  /\ job = "queued" /\ row = "open" /\ produced = 0 /\ faults = 0
  /\ buf = NoBuffer /\ file = <<>> /\ writes = [w \in Flushes |-> NoWrite]
  /\ viewer = [v \in Viewers |-> NewViewer]

-----------------------------------------------------------------------------
(* The buffer and the deploy job. *)

(* The last MaxLines lines, after one more. *)
Window(lines, n) ==
  LET all == Append(lines, n) IN IF Len(all) > MaxLines THEN Tail(all) ELSE all

(* Every attached console shows the line. *)
Shown(n) == [v \in Viewers |-> IF viewer[v].at = "live"
                               THEN [viewer[v] EXCEPT !.seen = Append(@, n)] ELSE viewer[v]]

AppendLine ==
  /\ job # "over" /\ produced < MaxAppends
  /\ job' = "running" /\ produced' = produced + 1
  /\ buf' = [at |-> IF buf.at = "absent" THEN "live" ELSE buf.at,
             lines |-> Window(buf.lines, produced'), armed |-> TRUE]
  /\ viewer' = Shown(produced')
  /\ UNCHANGED <<row, writes, file, faults>>

(* setStatus LIVE or FAILED, which comes before the last lines. *)
Settle ==
  /\ job = "running" /\ row = "open" /\ row' = "terminal"
  /\ UNCHANGED <<job, produced, buf, writes, file, viewer, faults>>

(* onDone calls back the attached consoles, which show the end and complete. *)
Ended == [v \in Viewers |-> IF viewer[v].at = "live" THEN [viewer[v] EXCEPT !.at = "eof"] ELSE viewer[v]]

(* The finally of the job.  The status is written by then, unless that failed.  The timer of the *)
(* debounced flush stays armed. *)
Finish ==
  /\ job = "running" /\ job' = "over"
  /\ IF row = "open" THEN faults < MaxFaults /\ faults' = faults + 1 ELSE UNCHANGED faults
  /\ buf' = [buf EXCEPT !.at = "done"]
  /\ viewer' = Ended
  /\ writes' = [writes EXCEPT !["final"].at = "mkdir"]
  /\ UNCHANGED <<row, produced, file>>

(* EVICT_AFTER_FINISH_MS: five minutes outlast a file write, a file read and a query. *)
Evict ==
  /\ buf.at = "done" /\ ~buf.armed
  /\ \A w \in Flushes : writes[w].at = "idle"
  /\ \A v \in Viewers : viewer[v].at \notin Gap
  /\ buf' = NoBuffer
  /\ UNCHANGED <<job, row, produced, writes, file, viewer, faults>>

(* deleteRelease does not look at the status. *)
DeleteRow ==
  /\ row # "deleted" /\ row' = "deleted"
  /\ UNCHANGED <<job, produced, buf, writes, file, viewer, faults>>

-----------------------------------------------------------------------------
(* The file. *)

(* FLUSH_DEBOUNCE_MS: half a second outlasts the debounced flush before this one. *)
FlushTimer ==
  /\ buf.armed /\ writes["debounced"].at = "idle"
  /\ buf' = [buf EXCEPT !.armed = FALSE]
  /\ writes' = [writes EXCEPT !["debounced"].at = "mkdir"]
  /\ UNCHANGED <<job, row, produced, file, viewer, faults>>

(* mkdir is done: the text is put together and writeFile called. *)
Snapshot(w) ==
  /\ writes[w].at = "mkdir"
  /\ writes' = [writes EXCEPT ![w] = [at |-> "open", text |-> buf.lines]]
  /\ UNCHANGED <<job, row, produced, buf, file, viewer, faults>>

Truncate(w) ==
  /\ writes[w].at = "open" /\ writes' = [writes EXCEPT ![w].at = "write"]
  /\ file' = <<>>
  /\ UNCHANGED <<job, row, produced, buf, viewer, faults>>

(* Written from the start of the file: what another write put further on stays. *)
Write(w) ==
  LET t == writes[w].text IN
  /\ writes[w].at = "write" /\ writes' = [writes EXCEPT ![w] = NoWrite]
  /\ file' = t \o SubSeq(file, Len(t) + 1, Len(file))
  /\ UNCHANGED <<job, row, produced, buf, viewer, faults>>

(* The error is logged, nothing else. *)
WriteFails(w) ==
  /\ writes[w].at # "idle" /\ writes' = [writes EXCEPT ![w] = NoWrite]
  /\ faults < MaxFaults /\ faults' = faults + 1
  /\ UNCHANGED <<job, row, produced, buf, file, viewer>>

-----------------------------------------------------------------------------
(* A console. *)

Move(v, rec) == viewer' = [viewer EXCEPT ![v] = rec]

(* Mutant: The console awaits the row before it attaches. *)
OpenDetached(v) ==
  LET me == viewer[v] IN
  /\ me.at = "new"
  /\ Move(v, IF buf.at = "absent" THEN [me EXCEPT !.at = "file"]
             ELSE [me EXCEPT !.at = "row", !.seen = buf.lines, !.warm = buf.at = "live"])
  /\ UNCHANGED <<job, row, produced, buf, writes, file, faults>>

(* history: the buffer, copied and, if it is live, attached to at once; else the file. *)
Open(v) ==
  LET me == viewer[v] IN
  /\ me.at = "new"
  /\ Move(v, CASE buf.at = "absent" -> [me EXCEPT !.at = "file"]
               [] buf.at = "live" -> [me EXCEPT !.at = "live", !.seen = buf.lines, !.warm = TRUE]
               [] buf.at = "done" -> [me EXCEPT !.at = "row", !.seen = buf.lines])
  /\ UNCHANGED <<job, row, produced, buf, writes, file, faults>>

(* The file is read and shown; a console that was closed meanwhile ends here. *)
ReadFile(v) ==
  LET me == viewer[v] IN
  /\ me.at = "file"
  /\ Move(v, IF me.left THEN Gone
             ELSE [me EXCEPT !.seen = file, !.at = IF buf.at = "live" THEN "live" ELSE "row"])
  /\ UNCHANGED <<job, row, produced, buf, writes, file, faults>>

(* The row is read now, its answer used later. *)
ReadRow(v) ==
  /\ viewer[v].at = "row"
  /\ Move(v, [viewer[v] EXCEPT !.at = "decide", !.row = row])
  /\ UNCHANGED <<job, row, produced, buf, writes, file, faults>>

(* Mutant: onDone only registers a listener. *)
AttachAfterDone(v) ==
  /\ buf' = [buf EXCEPT !.at = IF @ = "absent" THEN "live" ELSE @]
  /\ Move(v, [viewer[v] EXCEPT !.at = "live", !.row = "open"])

(* ensureBuffer, onLine and onDone, which fires at once if the stream has finished. *)
Attach(v) ==
  /\ buf' = [buf EXCEPT !.at = IF @ = "absent" THEN "live" ELSE @]
  /\ Move(v, [viewer[v] EXCEPT !.at = IF buf.at = "done" THEN "eof" ELSE "live", !.row = "open"])

(* The end is shown when there was something to replay or the build is over; a stream that is *)
(* live, or has not begun, is attached to.  Whether the console was closed is not asked again. *)
Decide(v) ==
  LET me == viewer[v] IN
  /\ me.at = "decide"
  /\ IF buf.at # "live" /\ (me.row # "open" \/ me.seen # <<>>)
     THEN Move(v, [me EXCEPT !.at = "eof", !.row = "open"]) /\ UNCHANGED buf
     ELSE Attach(v)
  /\ UNCHANGED <<job, row, produced, writes, file, faults>>

(* The console is closed: its listeners are taken off if they are on by now. *)
Leave(v) ==
  LET me == viewer[v] IN
  /\ me.at \in Gap \cup {"live"} /\ ~me.left
  /\ Move(v, IF me.at = "live" THEN Gone ELSE [me EXCEPT !.left = TRUE])
  /\ UNCHANGED <<job, row, produced, buf, writes, file, faults>>

-----------------------------------------------------------------------------
(* The process dies and boots.  Everything in memory and in flight is gone, a file being written *)
(* stays as it is, consoles are cut off.  Boot interrupts open releases before it serves requests, *)
(* unless Docker does not answer. *)
Restart(pinged) ==
  LET cost == IF pinged THEN 1 ELSE 2 IN
  /\ faults + cost <= MaxFaults /\ faults' = faults + cost
  /\ job' = "over" /\ row' = IF pinged /\ row = "open" THEN "terminal" ELSE row
  /\ buf' = NoBuffer /\ writes' = [w \in Flushes |-> NoWrite]
  /\ viewer' = [v \in Viewers |-> IF viewer[v].at = "new" THEN NewViewer ELSE Gone]
  /\ UNCHANGED <<produced, file>>

Persist == FlushTimer \/ \E w \in Flushes : Snapshot(w) \/ Truncate(w) \/ Write(w)
Watch(v) == ReadFile(v) \/ ReadRow(v) \/ Decide(v)

Next ==
  \/ AppendLine \/ Settle \/ Finish \/ Evict \/ DeleteRow
  \/ Persist \/ \E w \in Flushes : WriteFails(w)
  \/ \E v \in Viewers : Open(v) \/ Watch(v) \/ Leave(v)
  \/ \E pinged \in BOOLEAN : Restart(pinged)

Spec == Init /\ [][Next]_vars

(* A job gets its turn and ends; reads, writes, queries and timers complete. *)
FairSpec ==
  /\ Spec
  /\ WF_vars(AppendLine) /\ WF_vars(Settle) /\ WF_vars(Finish) /\ WF_vars(Persist)
  /\ \A v \in Viewers : WF_vars(Watch(v))

-----------------------------------------------------------------------------
Watching(v) == viewer[v].at \in Gap \cup {"live"}

(* A console never repeats or reorders lines, whichever of file, buffer and events it got them *)
(* from (logs.controller.ts buildLogs). *)
SeenInOrder ==
  \A v \in Viewers : \A i \in 1..(Len(viewer[v].seen) - 1) : viewer[v].seen[i] < viewer[v].seen[i + 1]

(* A console opened while the stream is live shows its whole window and then every line: nothing *)
(* falls between the replay and the subscription. *)
WarmMissesNothing ==
  \A v \in Viewers :
    LET s == viewer[v].seen IN
    viewer[v].warm /\ viewer[v].at \in {"live", "eof"} =>
      \A i \in 1..Len(s) : s[i] = produced - Len(s) + i

(* A console is never told that the log has ended while the release is still going to be built: *)
(* one opened before the first line waits for it. *)
EofMeansOver ==
  \A v \in Viewers : viewer[v].at = "eof" => job = "over" \/ row # "open"

(* Once a build is over and its writes are done, the file holds the final window, although the *)
(* write of finish may be overtaken by one that began before the last lines: the debounce timer *)
(* that is still armed then writes once more. *)
FinishedIsDurable ==
  buf.at = "done" /\ ~buf.armed /\ (\A w \in Flushes : writes[w].at = "idle") /\ faults = 0
    => file = buf.lines

(* What a console is shown, and what is left in the file when the build is over. *)
LogInv == TypeOK /\ SeenInOrder /\ WarmMissesNothing /\ EofMeansOver /\ FinishedIsDurable

(* Whoever watches a build is told of its end, or the connection is cut: no console waits for ever, *)
(* whatever one fault happens. *)
ViewersEnd == \A v \in Viewers : Watching(v) ~> viewer[v].at \in {"eof", "gone"}

(* Every console opened while the release is being built sees every line of it from the ones it *)
(* replayed on, as the comment at logs.controller.ts:47 says. *)
ColdMissesNothing ==
  \A v \in Viewers :
    LET s == viewer[v].seen IN
    viewer[v].at = "live" => \A i \in 1..Len(s) : s[i] = produced - Len(s) + i

(* A closed console holds no listener. *)
NoOrphanListener == \A v \in Viewers : viewer[v].left => viewer[v].at # "live"

=============================================================================
