------------------------------ MODULE LogFiles ------------------------------
(***************************************************************************)
(* The log files of one stream of one process: RotatingWriter, and what    *)
(* ManagedProcess does with it.  A chunk of output is appended to the      *)
(* active file; a file that is large or of another day is renamed to its   *)
(* timestamp, and a background job compresses it and prunes the archives.  *)
(*                                                                         *)
(* A restart makes a new writer for the same file while the jobs of the    *)
(* old one may still run: the jobs of all writers share the directory.     *)
(* A file is the set of the lines in it; an archive that was cut short     *)
(* holds none.  The daemon may crash at any time.                          *)
(***************************************************************************)
EXTENDS Integers, Sequences, FiniteSets, FiniteSetsExt

CONSTANTS MaxSize,     \* lines a file may hold (config.logMaxSize)
          MaxFiles,    \* archives kept (config.logMaxFiles)
          MaxAge,      \* their age (config.logMaxAge), 0 for any
          MaxLines,    \* bound on lines written
          MaxWriters,  \* bound on writers made for the file
          MaxClock,    \* bound on the clock
          MaxSetbacks  \* bound on calls that fail and daemons that crash

ASSUME LogAssumption ==
    /\ {MaxSize, MaxWriters, MaxClock} \subseteq Nat \ {0}
    /\ {MaxFiles, MaxAge, MaxLines, MaxSetbacks} \subseteq Nat

VARIABLES active,      \* lines in the active file
          bare,        \* rotated files not yet compressed, by timestamp
          gz,          \* archives, by timestamp
          fd,          \* this.fd: open, closed, or reused by another file of the daemon
          bytes, day,  \* bytesWritten and lastRotationDate
          writer,      \* which writer is in use
          chain,       \* compressionChain of each writer: timestamps waiting
          job,         \* the compressAndPrune() each writer runs
          flushing,    \* of each writer: jobs flush() still waits for, or Quiet
          now, line, setbacks,
          unwritten,   \* history: lines no file of this stream took
          overwritten, \* history: lines in a file another one of its name replaced
          dropped,     \* history: lines pruned, flushed or given up
          left,        \* history: files a failure or a crash left that no prune has seen
          shared       \* history: jobs of two writers have run at once

history == <<unwritten, overwritten, dropped, left, shared>>
vars == <<active, bare, gz, fd, bytes, day, writer, chain, job, flushing, now, line,
          setbacks, history>>

Writers == 1..MaxWriters
Quiet   == -1
Idle    == [pc |-> "idle"]
DayOf(t) == t \div 2

With(f, t, lines) == [u \in DOMAIN f \cup {t} |-> IF u = t THEN lines ELSE f[u]]
Without(f, S) == [t \in DOMAIN f \ S |-> f[t]]
In(f)   == UNION {f[t] : t \in DOMAIN f}
At(f, t) == IF t \in DOMAIN f THEN f[t] ELSE {}

MayFail == setbacks < MaxSetbacks /\ setbacks' = setbacks + 1

Init ==
    /\ active = {} /\ bare = <<>> /\ gz = <<>>
    /\ fd = "open" /\ bytes = 0 /\ day = 0
    /\ writer = 1
    /\ chain = [w \in Writers |-> <<>>]
    /\ job = [w \in Writers |-> Idle]
    /\ flushing = [w \in Writers |-> Quiet]
    /\ now = 0 /\ line = 0 /\ setbacks = 0
    /\ unwritten = {} /\ overwritten = {} /\ dropped = {} /\ left = {} /\ shared = FALSE

Tick ==
    /\ now < MaxClock
    /\ now' = now + 1
    /\ UNCHANGED <<active, bare, gz, fd, bytes, day, writer, chain, job, flushing, line,
                   setbacks, history>>
----------------------------------------------------------------------------
(* write() and rotate(): synchronous. *)

\* The rotated file takes the name of the current time, whatever had it.
Renamed(lines) ==
    /\ bare' = With(bare, now, lines)
    /\ overwritten' = overwritten \cup At(bare, now)
    /\ active' = {}

Rotated(lines, today) ==
    /\ Renamed(lines)
    /\ fd' = "open" /\ bytes' = 0 /\ day' = today
    /\ chain' = [chain EXCEPT ![writer] = Append(@, now)]
    /\ UNCHANGED <<setbacks, left>>

\* The rename fails, or the open after it; the file is opened again if that works.
RotationFails(lines) ==
    /\ MayFail
    /\ \/ Renamed(lines) /\ left' = left \cup {now}
       \/ active' = lines /\ UNCHANGED <<bare, overwritten, left>>
    /\ fd' \in {"open", "closed"}
    /\ bytes' = bytes + 1
    /\ UNCHANGED <<day, chain>>

Kept(lines) ==
    /\ active' = lines
    /\ fd' = IF fd = "closed" THEN "open" ELSE fd
    /\ bytes' = bytes + 1
    /\ UNCHANGED <<bare, overwritten, day, chain, setbacks, left>>

RotationDue(today) == MaxFiles > 0 /\ (bytes + 1 >= MaxSize \/ today # day)

\* A closed descriptor is opened again; one whose number is in use elsewhere is written to.
\* The day is remembered for a second.
Write ==
    /\ line < MaxLines
    /\ line' = line + 1
    /\ LET lost  == fd = "reused"
           lines == IF lost THEN active ELSE active \cup {line + 1}
       IN /\ unwritten' = IF lost THEN unwritten \cup {line + 1} ELSE unwritten
          /\ \E today \in day..DayOf(now) :
                IF RotationDue(today)
                THEN Rotated(lines, today) \/ RotationFails(lines)
                ELSE Kept(lines)
    /\ UNCHANGED <<gz, writer, job, flushing, now, dropped, shared>>

\* The disk is full, or the directory cannot be made again: the line is lost.
WriteFails ==
    /\ line < MaxLines /\ MayFail
    /\ line' = line + 1
    /\ unwritten' = unwritten \cup {line + 1}
    /\ UNCHANGED <<active, bare, gz, fd, bytes, day, writer, chain, job, flushing, now,
                   overwritten, dropped, left, shared>>
----------------------------------------------------------------------------
(* compressAndPrune(), one job of a writer at a time. *)

FileThereAlways(t) == TRUE
FileThere(t) == t \in DOMAIN bare

Opening(j, t) == [j EXCEPT !.pc = "open", !.ts = t, !.seen = t \in DOMAIN bare]

\* Only a file that is still there is compressed: its archive may be complete already.
StartJob(w) ==
    /\ job[w] = Idle /\ chain[w] # <<>>
    /\ LET t == Head(chain[w])
           j == [pc |-> "list", ts |-> t, own |-> TRUE, seen |-> FALSE,
                 bares |-> {}, archives |-> {}, gone |-> {}, lines |-> {}]
       IN job' = [job EXCEPT ![w] = IF FileThere(t) THEN Opening(j, t) ELSE j]
    /\ chain' = [chain EXCEPT ![w] = Tail(@)]
    /\ shared' = (shared \/ \E v \in Writers \ {w} : job[v] # Idle)
    /\ UNCHANGED <<active, bare, gz, fd, bytes, day, writer, flushing, now, line,
                   setbacks, unwritten, overwritten, dropped, left>>

\* Where a job goes from a file it has dealt with, when these files are there.
NextFile(j, there) ==
    IF j.own THEN [j EXCEPT !.pc = "list"]
    ELSE IF j.bares \cap there = {} THEN [j EXCEPT !.pc = "prune"]
    ELSE LET t == Min(j.bares \cap there)
         IN [Opening(j, t) EXCEPT !.bares = @ \ {t}]

\* The archive is created, or cut to nothing, before it is known that the file can be read.
\* Without the file that is the end of the compression.
Open(w) ==
    LET j     == job[w]
        there == j.ts \in DOMAIN bare
    IN /\ j.pc = "open"
       /\ gz' = With(gz, j.ts, {})
       /\ overwritten' = IF j.seen THEN overwritten \cup (At(gz, j.ts) \ At(bare, j.ts))
                                   ELSE overwritten
       /\ left' = IF there THEN left ELSE left \cup {j.ts}
       /\ job' = [job EXCEPT ![w] = IF there THEN [j EXCEPT !.pc = "copy", !.lines = bare[j.ts]]
                                             ELSE NextFile(j, DOMAIN bare)]
       /\ UNCHANGED <<active, bare, fd, bytes, day, writer, chain, flushing, now, line,
                      setbacks, unwritten, dropped, shared>>

WithoutLines(j) == [j EXCEPT !.lines = {}]

\* The archive is complete, if it was not pruned or flushed meanwhile, and the file goes,
\* unless its removal fails.
Compressed(w) ==
    LET j == job[w]
    IN /\ j.pc = "copy"
       /\ gz' = IF j.ts \in DOMAIN gz THEN With(gz, j.ts, j.lines) ELSE gz
       /\ overwritten' = overwritten \cup ((At(gz, j.ts) \cup At(bare, j.ts)) \ j.lines)
       /\ dropped' = IF j.ts \in DOMAIN gz THEN dropped ELSE dropped \cup j.lines
       /\ \/ bare' = Without(bare, {j.ts}) /\ UNCHANGED <<left, setbacks>>
          \/ MayFail /\ left' = left \cup {j.ts} /\ UNCHANGED bare
       /\ job' = [job EXCEPT ![w] = NextFile(WithoutLines(j), DOMAIN bare')]
       /\ UNCHANGED <<active, fd, bytes, day, writer, chain, flushing, now, line,
                      unwritten, shared>>

\* The file stays for a later prune; one that is there already goes, if it can be removed,
\* so as not to be tried for ever.
CompressionFails(w) ==
    LET j == job[w]
    IN /\ j.pc = "copy" /\ MayFail
       /\ \/ bare' = bare /\ left' = left \cup {j.ts} /\ UNCHANGED dropped
          \/ ~j.own /\ bare' = Without(bare, {j.ts})
                    /\ dropped' = dropped \cup At(bare, j.ts) /\ UNCHANGED left
       /\ job' = [job EXCEPT ![w] = NextFile(WithoutLines(j), DOMAIN bare')]
       /\ UNCHANGED <<active, gz, fd, bytes, day, writer, chain, flushing, now, line,
                      unwritten, overwritten, shared>>

\* The directory is read once: what is left bare, and the archives there are.
List(w) ==
    /\ job[w].pc = "list"
    /\ job' = [job EXCEPT ![w] = NextFile([@ EXCEPT !.own = FALSE, !.bares = DOMAIN bare,
                                                    !.archives = DOMAIN gz], DOMAIN bare)]
    /\ UNCHANGED <<active, bare, gz, fd, bytes, day, writer, chain, flushing, now, line,
                   setbacks, history>>

\* A job is over; flush() waits for one less.
Ends(w) ==
    /\ job' = [job EXCEPT ![w] = Idle]
    /\ flushing' = [flushing EXCEPT ![w] = IF @ > 0 THEN @ - 1 ELSE @]

\* A directory that cannot be read is not pruned.
ListFails(w) ==
    /\ job[w].pc = "list" /\ MayFail
    /\ left' = left \cup {job[w].ts}
    /\ Ends(w)
    /\ UNCHANGED <<active, bare, gz, fd, bytes, day, writer, chain, now, line,
                   unwritten, overwritten, dropped, shared>>

Expired(t) == MaxAge > 0 /\ t < now - MaxAge

TooManyOneMore(S) == Cardinality(S) > MaxFiles + 1
TooMany(S) == Cardinality(S) > MaxFiles

\* The pruning goes on with job j, or is done.
Prunes(w, j) ==
    IF j.gone = {} /\ ~TooMany(j.archives)
    THEN Ends(w)
    ELSE job' = [job EXCEPT ![w] = j] /\ UNCHANGED flushing

\* Of the archives listed, those that are too old are to go first.
Prune(w) ==
    LET listed == job[w].archives
    IN /\ job[w].pc = "prune"
       /\ left' = left \ (listed \ DOMAIN bare)
       /\ Prunes(w, [job[w] EXCEPT !.pc = "unlink", !.gone = {t \in listed : Expired(t)}])
       /\ UNCHANGED <<active, bare, gz, fd, bytes, day, writer, chain, now, line,
                      setbacks, unwritten, overwritten, dropped, shared>>

\* One by one: the old ones, newest first, then the oldest, down to MaxFiles.
NextOut(j) == IF j.gone # {} THEN Max(j.gone) ELSE Min(j.archives)

Unlinks(w) ==
    LET j == job[w]
        t == NextOut(j)
    IN /\ j.pc = "unlink" /\ t \in DOMAIN gz
       /\ gz' = Without(gz, {t})
       /\ dropped' = dropped \cup gz[t]
       /\ Prunes(w, [j EXCEPT !.gone = @ \ {t}, !.archives = @ \ {t}])
       /\ UNCHANGED <<active, bare, fd, bytes, day, writer, chain, now, line, setbacks,
                      unwritten, overwritten, left, shared>>

\* What cannot be removed, or is gone already, is passed over; an old archive still counts
\* and may be tried again.
UnlinkFails(w) ==
    LET j   == job[w]
        t   == NextOut(j)
        old == j.gone # {}
    IN /\ j.pc = "unlink"
       /\ t \in DOMAIN gz => MayFail
       /\ t \notin DOMAIN gz => UNCHANGED setbacks
       /\ left' = IF old THEN left ELSE left \cup {t}
       /\ Prunes(w, [j EXCEPT !.gone = @ \ {t}, !.archives = IF old THEN @ ELSE @ \ {t}])
       /\ UNCHANGED <<active, bare, gz, fd, bytes, day, writer, chain, now, line,
                      unwritten, overwritten, dropped, shared>>
----------------------------------------------------------------------------
(* flush(), end() and the writers. *)

Pending(w) == Len(chain[w]) + (IF job[w] = Idle THEN 0 ELSE 1)

\* flush() waits for the jobs there are when it is called ...
Flush ==
    /\ flushing[writer] = Quiet
    /\ flushing' = [flushing EXCEPT ![writer] = Pending(writer)]
    /\ UNCHANGED <<active, bare, gz, fd, bytes, day, writer, chain, job, now, line,
                   setbacks, history>>

\* ... and empties the directory, even when another writer has taken over.  Files that
\* cannot be removed or emptied stay.  If the log cannot be opened again its descriptor
\* stays closed.  An old writer closes the number it had and gets it back in the same turn:
\* that of the new writer's descriptor as well, if it is the same number.
Flushed(w) ==
    /\ flushing[w] = 0
    /\ flushing' = [flushing EXCEPT ![w] = Quiet]
    /\ \E emptied, opened \in BOOLEAN,
          keptBare \in SUBSET DOMAIN bare, keptGz \in SUBSET DOMAIN gz :
          /\ IF emptied /\ opened /\ keptBare \cup keptGz = {}
             THEN UNCHANGED setbacks ELSE MayFail
          /\ active' = IF emptied THEN {} ELSE active
          /\ bare' = Without(bare, DOMAIN bare \ keptBare)
          /\ gz' = Without(gz, DOMAIN gz \ keptGz)
          /\ dropped' = dropped \cup (active \ active')
                        \cup In(Without(bare, keptBare)) \cup In(Without(gz, keptGz))
          /\ IF w = writer
             THEN IF opened THEN fd' = "open" /\ bytes' = 0 ELSE fd' = "closed" /\ UNCHANGED bytes
             ELSE fd' \in (IF opened THEN {fd} ELSE {fd, "closed"}) /\ UNCHANGED bytes
    /\ UNCHANGED <<day, writer, chain, job, now, line, unwritten, overwritten, left, shared>>

\* end(), at the end of stop() and of forceKill(): the number stays behind.  A process
\* that is stopped already ends its writers again.
End ==
    /\ fd' = "closed"
    /\ fd # "closed"
    /\ UNCHANGED <<active, bare, gz, bytes, day, writer, chain, job, flushing, now, line,
                   setbacks, history>>

\* Some other file, pipe or connection of the daemon gets the number.
Reuse ==
    /\ fd = "closed"
    /\ fd' = "reused"
    /\ UNCHANGED <<active, bare, gz, bytes, day, writer, chain, job, flushing, now, line,
                   setbacks, history>>

\* The constructor, which starts from the size of the file.
Made ==
    /\ writer < MaxWriters
    /\ writer' = writer + 1
    /\ fd' = "open" /\ bytes' = Cardinality(active) /\ day' = DayOf(now)

\* restart() ends the writer and makes another (so does a delete and a new up).
Restart ==
    /\ Made
    /\ UNCHANGED <<active, bare, gz, chain, job, flushing, now, line, setbacks, history>>

\* The daemon dies: archives that are being written are cut short.
Crash ==
    /\ MayFail
    /\ Made
    /\ LET cut == {job[w].ts : w \in {v \in Writers : job[v].pc = "copy"}} \cap DOMAIN gz
       IN /\ gz' = [t \in DOMAIN gz |-> IF t \in cut THEN {} ELSE gz[t]]
          /\ overwritten' = overwritten \cup ((UNION {gz[t] : t \in cut}) \ In(bare))
    /\ chain' = [w \in Writers |-> <<>>]
    /\ job' = [w \in Writers |-> Idle]
    /\ flushing' = [w \in Writers |-> Quiet]
    /\ left' = left \cup DOMAIN bare \cup DOMAIN gz
    /\ UNCHANGED <<active, bare, now, line, unwritten, dropped, shared>>
----------------------------------------------------------------------------
Next ==
    \/ Tick
    \/ Write \/ WriteFails
    \/ \E w \in Writers : \/ StartJob(w) \/ Open(w)
                          \/ Compressed(w) \/ CompressionFails(w)
                          \/ List(w) \/ ListFails(w)
                          \/ Prune(w) \/ Unlinks(w) \/ UnlinkFails(w)
                          \/ Flushed(w)
    \/ Flush
    \/ End \/ Reuse
    \/ Restart \/ Crash

Spec == Init /\ [][Next]_vars
----------------------------------------------------------------------------
\* A line that was written is in the log or in an archive of it until it is pruned or
\* flushed, whatever fails and whenever the daemon dies (RotatingWriter.ts:125-127 and
\* :145-146).  Excepted are the lines of files that get each other's name: two rotations
\* within a millisecond, and two writers of one file that compress the same leftover.
LinesKept ==
    1..line \subseteq active \cup In(bare) \cup In(gz)
                      \cup unwritten \cup overwritten \cup dropped

\* Once the jobs are done there are MaxFiles archives (README.md:402), and at most one
\* more for each file that a failure or a crash has left and no prune has listed since.
\* The promise needs the jobs to run one after the other (RotatingWriter.ts:106): those
\* of an old and a new writer of the file do not.
ArchivesBounded ==
    (~shared /\ \A w \in Writers : Pending(w) = 0) =>
        Cardinality(DOMAIN gz) <= MaxFiles + Cardinality(left)
=============================================================================
