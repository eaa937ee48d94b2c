------------------------------- MODULE Tailer -------------------------------
(***************************************************************************)
(* EveTailer (src/src/ingestion/tailer.py) and IngestionStatus             *)
(* (src/src/ingestion/status.py) against a file that other processes       *)
(* write, rotate, truncate and make unreadable.  stat() and open() are two *)
(* steps: the tailer does not yield between them, the writer does not wait.*)
(*                                                                         *)
(* A line of eve.json is two cells, its head and its tail with the         *)
(* newline, so that a poll can see half of it.  A whole line is an event,  *)
(* invalid JSON, or valid JSON that is no object.  Positions and sizes     *)
(* count cells.                                                            *)
(***************************************************************************)
EXTENDS Naturals, Sequences

CONSTANTS Kinds,         \* subset of {"event", "invalid", "not_object"}
          HalfWrites,    \* may a poll find half a line?
          Rotates,       \* is the file renamed away and re-created?
          Truncates,     \* is the file copied and truncated?
          ReadErrors,    \* may a read raise OSError after some lines?
          StaleSizes,    \* may st_size be out of date (SMB, NFS)?
          Inodes,        \* inode numbers, which may come back (NTFS: always 0)
          NoFile,        \* the path does not exist
          MaxLines,      \* bound on the lines written
          MaxRepeated,   \* bound on the lines emitted when a read raises or a size is stale
          RedThreshold   \* _RED_THRESHOLD

ASSUME TailerAssumption ==
    /\ Kinds \subseteq {"event", "invalid", "not_object"}
    /\ {HalfWrites, Rotates, Truncates, ReadErrors, StaleSizes} \subseteq BOOLEAN
    /\ {MaxLines, MaxRepeated} \subseteq Nat
    /\ RedThreshold \in Nat \ {0}
    /\ NoFile \notin Inodes

VARIABLES inode,       \* inode of the file at the path, or NoFile
          cells,       \* its content
          readable,    \* do stat and open succeed on it?
          written,     \* number of lines begun by the writer
          tpc,         \* "stat", "read", or "dead"
          position,    \* _position
          knownInode,  \* _inode
          emitted,     \* the lines put on the tailer queue, in order
          failures,    \* consecutive_failures, counted up to RedThreshold
          color,       \* IngestionStatus.state
          disturbed    \* history: which of the events that may lose or repeat lines
                       \* have happened

fileVars   == <<inode, cells, readable, written>>
statusVars == <<failures, color>>
vars == <<fileVars, tpc, position, knownInode, emitted, statusVars, disturbed>>

\* run() has found the file and starts at its end.
Init ==
    /\ inode \in Inodes
    /\ cells = <<>>
    /\ readable = TRUE
    /\ written = 0
    /\ tpc = "stat"
    /\ position = 0
    /\ knownInode = inode
    /\ emitted = <<>>
    /\ failures = 0
    /\ color = "green"
    /\ disturbed = {}

-----------------------------------------------------------------------------
\* The writer, the log rotation and the mount (external).
HalfOpen == cells # <<>> /\ cells[Len(cells)].part = "head"

MkCell(n, p, k) == [line |-> n, part |-> p, kind |-> k]

WriteLine(k) ==
    /\ inode # NoFile /\ ~HalfOpen /\ written < MaxLines
    /\ written' = written + 1
    /\ cells' = cells \o <<MkCell(written', "head", k), MkCell(written', "tail", k)>>
    /\ UNCHANGED <<inode, readable, disturbed>>

WriteHead(k) ==
    /\ HalfWrites
    /\ inode # NoFile /\ ~HalfOpen /\ written < MaxLines
    /\ written' = written + 1
    /\ cells' = Append(cells, MkCell(written', "head", k))
    /\ disturbed' = disturbed \cup {"cut"}
    /\ UNCHANGED <<inode, readable>>

WriteTail ==
    /\ inode # NoFile /\ HalfOpen
    /\ LET head == cells[Len(cells)]
       IN cells' = Append(cells, MkCell(head.line, "tail", head.kind))
    /\ UNCHANGED <<inode, readable, written, disturbed>>

RenameAway ==
    /\ Rotates /\ inode # NoFile /\ ~HalfOpen
    /\ inode' = NoFile
    /\ cells' = <<>>
    /\ disturbed' = disturbed \cup {"cut"}
    /\ UNCHANGED <<readable, written>>

\* At any time, also between stat() and open().
Recreate ==
    /\ inode = NoFile
    /\ inode' \in Inodes
    /\ disturbed' = IF tpc = "read" THEN disturbed \cup {"swapped"} ELSE disturbed
    /\ UNCHANGED <<cells, readable, written>>

Truncate ==
    /\ Truncates /\ inode # NoFile /\ ~HalfOpen
    /\ cells' = <<>>
    /\ disturbed' = disturbed \cup {"cut"}
    /\ UNCHANGED <<inode, readable, written>>

ChangeAccess ==
    /\ readable' = ~readable
    /\ UNCHANGED <<inode, cells, written, disturbed>>

Environment ==
    /\ \/ \E k \in Kinds : WriteLine(k) \/ WriteHead(k)
       \/ WriteTail
       \/ RenameAway
       \/ Recreate
       \/ Truncate
       \/ ChangeAccess
    /\ UNCHANGED <<tpc, position, knownInode, emitted, statusVars>>

-----------------------------------------------------------------------------
\* IngestionStatus
record_success_KeepsColor ==
    /\ failures' = 0
    /\ UNCHANGED color

record_success ==
    /\ failures' = 0
    /\ color' = "green"

record_failure_OffByOne ==
    /\ failures' = IF failures < RedThreshold THEN failures + 1 ELSE failures
    /\ color' = IF failures >= RedThreshold THEN "red" ELSE color

record_failure ==
    /\ failures' = IF failures < RedThreshold THEN failures + 1 ELSE failures
    /\ color' = IF failures' >= RedThreshold THEN "red" ELSE color

-----------------------------------------------------------------------------
PollStatRaises_Ignored ==
    /\ tpc = "stat"
    /\ inode # NoFile /\ ~readable
    /\ UNCHANGED vars

\* _poll(): the path is missing, which is taken for a rotation in progress.
PollMissing ==
    /\ tpc = "stat"
    /\ inode = NoFile
    /\ UNCHANGED vars

PollStatRaises ==
    /\ tpc = "stat"
    /\ inode # NoFile /\ ~readable
    /\ record_failure
    /\ UNCHANGED <<fileVars, tpc, position, knownInode, emitted, disturbed>>

\* What stat() may give for st_size: a stale one may be on either side of the position.
Sizes == IF StaleSizes THEN 0 .. position ELSE {Len(cells)}

\* The file looks smaller than what was read of it, and is not.
LooksCut(size) == inode = knownInode /\ size < position /\ Len(cells) >= position

NoteStale(size) ==
    /\ LooksCut(size) => Len(emitted) <= MaxRepeated
    /\ disturbed' = IF LooksCut(size) THEN disturbed \cup {"stale"} ELSE disturbed

PollStat_ForgetsInode ==
    /\ tpc = "stat"
    /\ inode # NoFile /\ readable
    /\ \E size \in Sizes :
         /\ position' = IF inode # knownInode \/ size < position THEN 0 ELSE position
         /\ NoteStale(size)
    /\ tpc' = "read"
    /\ UNCHANGED <<fileVars, emitted, knownInode, statusVars>>

\* Rotation is an inode that changed or a size below the position.
PollStat ==
    /\ tpc = "stat"
    /\ inode # NoFile /\ readable
    /\ \E size \in Sizes :
         /\ IF inode # knownInode \/ size < position
            THEN position' = 0 /\ knownInode' = inode
            ELSE UNCHANGED <<position, knownInode>>
         /\ NoteStale(size)
    /\ tpc' = "read"
    /\ UNCHANGED <<fileVars, emitted, statusVars>>

-----------------------------------------------------------------------------
\* _read_new_lines()

\* The file may have been renamed or locked away since stat() answered.
Opens == inode # NoFile /\ readable

OpenRaises ==
    /\ tpc = "read" /\ ~Opens
    /\ record_failure
    /\ tpc' = "stat"
    /\ UNCHANGED <<fileVars, position, knownInode, emitted, disturbed>>

\* The cells that end a whole line when the file is read from the position on.  A tail
\* without its head is a line of its own that does not parse, and so is a head at the end
\* of the file.
LineEnds == {i \in (position + 2) .. Len(cells) : cells[i].part = "tail"}

\* What the loop over the lines has put on the queue when it has passed each cell.
EventsRead ==
    LET events[i \in 0 .. Len(cells)] ==
          IF i = 0 THEN <<>>
          ELSE IF i \in LineEnds /\ cells[i].kind = "event"
               THEN Append(events[i - 1], cells[i].line)
               ELSE events[i - 1]
    IN events

\* from_dict raises AttributeError on such a line.
Fatal(i) == cells[i].kind = "not_object"

\* The file read may be another than the one stat() saw.
ReadLines ==
    /\ tpc = "read" /\ Opens
    /\ \A i \in LineEnds : ~Fatal(i)
    /\ emitted' = emitted \o EventsRead[Len(cells)]
    /\ position' = IF Len(cells) < position THEN position ELSE Len(cells)
    /\ record_success
    /\ tpc' = "stat"
    /\ UNCHANGED <<fileVars, knownInode, disturbed>>

\* An OSError before any line, or after the one that ends in cell k: the position stays.
ReadRaises(k) ==
    /\ ReadErrors
    /\ tpc = "read" /\ Opens
    /\ \A i \in LineEnds : i <= k => ~Fatal(i)
    /\ emitted' = emitted \o EventsRead[k]
    /\ emitted' # emitted => Len(emitted') <= MaxRepeated
    /\ disturbed' = disturbed \cup {"raised"}
    /\ record_failure
    /\ tpc' = "stat"
    /\ UNCHANGED <<fileVars, position, knownInode>>

\* Any other exception leaves the tailer, and the pipeline with it: gather()
\* raises, the other tasks are cancelled, and main.py never looks at the result.
ReadDies(k) ==
    /\ tpc = "read" /\ Opens
    /\ Fatal(k) /\ \A i \in LineEnds : i < k => ~Fatal(i)
    /\ emitted' = emitted \o EventsRead[k]
    /\ tpc' = "dead"
    /\ UNCHANGED <<fileVars, position, knownInode, statusVars, disturbed>>

Poll ==
    \/ PollMissing
    \/ PollStatRaises
    \/ PollStat
    \/ OpenRaises
    \/ ReadLines
    \/ \E k \in {0} \cup LineEnds : ReadRaises(k)
    \/ \E k \in LineEnds : ReadDies(k)

Next == Environment \/ Poll

Spec == Init /\ [][Next]_vars

\* The poll loop runs for ever, and a file renamed away is re-created.  Nothing is
\* assumed of the writer or of the permissions.
FairSpec ==
    /\ Spec
    /\ WF_vars(Poll)
    /\ WF_vars(Recreate /\ UNCHANGED <<tpc, position, knownInode, emitted, statusVars>>)

-----------------------------------------------------------------------------

\* The three things that make the tailer repeat lines: a read that raises half-way keeps
\* its position; a file put in place between stat() and open() is read from the old
\* position and, its inode noticed, once more from the start; and a stale size below the
\* position is taken for a truncation, so the whole file is read again.
Repeating == {"raised", "swapped", "stale"}

\* Unless one of these has happened no line is emitted twice or out of order, across
\* rotations by rename, inodes that come back, truncations (also when the file has regrown
\* past the position), half-written lines and losses of access.
InOrderOnce ==
    disturbed \cap Repeating = {} =>
        \A i, j \in 1 .. Len(emitted) : i < j => emitted[i] < emitted[j]

\* The status is red exactly when the last RedThreshold attempts all failed.
RedMeansFailing == color = "red" <=> failures >= RedThreshold

\* A loss of access that lasts is noticed: if the file stays unreadable for ever the
\* status turns red for ever (ADR-019), provided the tailer lives.
OutageTurnsRed ==
    <>[](inode # NoFile /\ ~readable) /\ [](tpc # "dead") => <>[](color = "red")

\* Nothing is lost while the file is only appended to, line by line: if it is readable
\* from some time on and the tailer lives, every event ever written is emitted and the
\* status returns to green.
EverythingEmitted ==
    <>[]readable /\ [](disturbed = {} /\ tpc # "dead") =>
        /\ <>[](color = "green")
        /\ \A n \in 1 .. MaxLines :
               (\E i \in DOMAIN cells : cells[i] = MkCell(n, "tail", "event"))
                   ~> (\E i \in DOMAIN emitted : emitted[i] = n)

\* "cancels the remaining tasks and re-raises, so the caller can surface the failure
\* and restart or alert" (pipeline.py): a dead pipeline shows.
DeathSurfaces == (tpc = "dead") ~> (color = "red" \/ tpc # "dead")
=============================================================================
