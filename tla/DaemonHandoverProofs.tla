------------------------ MODULE DaemonHandoverProofs ------------------------
(***************************************************************************)
(* What holds of every handover from one daemon to the next, for any       *)
(* number of daemons, commands, processes, requests, crashes and signals.  *)
(***************************************************************************)
EXTENDS DaemonHandover, TLAPS

Phases == {"unborn", "up", "mcp", "telemetry", "processes", "closing", "down"}
Over   == {"closing", "down"}

DaemonFields == {"phase", "stops", "forced", "taken", "mcp", "server", "key", "guard", "skip"}
ClientFields == {"pc", "kind", "old", "conn", "had", "mcp", "key", "late"}
FileFields   == {"whole", "had", "mcp"}

DaemonShape ==
    /\ DOMAIN daemon = Daemons
    /\ \A d \in Daemons : /\ DOMAIN daemon[d] = DaemonFields
                          /\ daemon[d].phase \in Phases /\ daemon[d].skip \in BOOLEAN
    /\ pidFile \in Daemons \cup {None} /\ socket \in Daemons \cup {None}

ClientShape ==
    /\ DOMAIN client = Clients
    /\ \A c \in Clients : /\ DOMAIN client[c] = ClientFields /\ client[c].late \in BOOLEAN
                          /\ client[c].had \subseteq Names
                          /\ client[c].had \subseteq Names

SnapShape ==
    /\ DOMAIN data = Clients /\ mixed \in BOOLEAN
    /\ \A c \in Clients : DOMAIN data[c] = FileFields

(* The daemons. *)

\* A daemon that crash recovery has taken over from has no files.
Skipped == \A d \in Daemons : daemon[d].skip => pidFile # d /\ socket # d

\* While no shutdown was overtaken, a daemon that has not let go of the files has them.
Owns(d) == \/ daemon[d].phase = "up"
           \/ daemon[d].phase \in {"mcp", "telemetry", "processes"} /\ ~daemon[d].skip
Owners ==
    overtaken = {} => \A d \in Daemons : Owns(d) => pidFile = d /\ (socket = d \/ d \in evicted)

\* A daemon that has ended has stopped what it was running and has no files, ...
Ended == \A d \in Daemons :
             daemon[d].phase \in Over /\ d \notin overtaken =>
                 daemon[d].taken \cap Running(d) = {} /\ pidFile # d /\ socket # d

\* ... and what it was running is all that it ran.
Emptied == overtaken = {} => \A d \in Daemons :
               daemon[d].phase \in {"processes", "closing", "down"} =>
                   Running(d) \subseteq daemon[d].taken

DaemonInv == DaemonShape /\ Skipped /\ Owners /\ Ended /\ Emptied

(* The commands. *)

Answering == {"connect", "connected"}

KillPcs == {"connect", "connected", "closed", "done", "failed"}
\* kill: what it connected to has ended when it is done.
Kill(c) ==
    client[c].kind \in {"kill", "force"} =>
        /\ client[c].pc \in KillPcs
        /\ client[c].pc = "closed" => client[c].old # None
        /\ client[c].pc = "done" => client[c].old # None /\ daemon[client[c].old].phase \in Over

\* The other kinds have nothing to take over before they are answered.
Fresh(c) ==
    client[c].kind \notin {"reload", "recovery"} /\ client[c].pc \in Answering =>
        client[c].old = None /\ client[c].had = {}

\* A predecessor is a daemon there was.
Follows(c) ==
    /\ client[c].pc = "connected" =>
           client[c].conn \in Daemons /\ daemon[client[c].conn].phase # "unborn"
    /\ client[c].kind \in {"kill", "force", "reload", "recovery"} /\ client[c].old # None =>
           client[c].old \in Daemons /\ daemon[client[c].old].phase # "unborn"
    /\ client[c].kind = "recovery" => client[c].old # None
    /\ client[c].kind = "reload" /\ client[c].pc = "files" => client[c].old # None
    /\ client[c].pc = "dead" => client[c].kind = "recovery"
    /\ client[c].pc = "files" => client[c].kind \in {"reload", "recovery"}

\* Unless the wait was too short, a shutdown was overtaken or the daemon crashed meanwhile,
\* a daemon-reload or a recovery finds its predecessor at the end.
InTime(c) == /\ ~client[c].late /\ overtaken = {}
             /\ client[c].kind = "reload" => ~daemon[client[c].old].skip
TakesOver(c) ==
    client[c].kind \in {"reload", "recovery"} /\ client[c].old # None /\ InTime(c) =>
        /\ client[c].pc \in Answering => daemon[client[c].old].phase \in Over
        /\ client[c].pc = "connected" => client[c].conn # client[c].old
        /\ client[c].kind = "recovery" /\ client[c].pc = "files" =>
               daemon[client[c].old].phase = "down"

Good(c) == Kill(c) /\ Fresh(c) /\ Follows(c) /\ TakesOver(c)
ClientInv == ClientShape /\ \A c \in Clients : Good(c)

(* The snapshot. *)

Saving(c) == client[c].pc \in {"writing", "renaming"}
\* The commands that may have created a file.
Saved(c)  == client[c].pc \in {"writing", "renaming", "done", "failed"}

SnapInv ==
    /\ SnapShape
    /\ \A f \in {snapshot, tmp} : f = None \/ (f \in Clients /\ Saved(f))
    /\ ~mixed =>
          /\ snapshot # None => data[snapshot].whole /\ snapshot # tmp
          /\ \A c \in Clients : Saving(c) =>
                /\ client[c].old = tmp /\ tmp # None
                /\ client[c].pc = "renaming" => data[tmp].whole
                /\ \A e \in Clients : Saving(e) => e = c

HandoverInv == DaemonInv /\ ClientInv /\ SnapInv
----------------------------------------------------------------------------
(* Steps of the daemons. *)

\* No daemon comes back, loses its mark or is pardoned.
Onward ==
    /\ \A d \in Daemons :
          /\ daemon[d].phase \in Over => daemon'[d].phase \in Over
          /\ daemon[d].phase = "down" => daemon'[d].phase = "down"
          /\ daemon[d].phase # "unborn" => daemon'[d].phase # "unborn"
          /\ daemon[d].skip => daemon'[d].skip
    /\ overtaken \subseteq overtaken'

Fine == DaemonInv' /\ Onward

LEMMA NoneIsNoDaemon == None \notin Daemons /\ Daemons \subseteq Nat
BY HandoverAssumption DEF Daemons

LEMMA Touched ==
    ASSUME DaemonShape, NEW d \in Daemons, NEW rec, daemon' = [daemon EXCEPT ![d] = rec]
    PROVE  /\ DOMAIN daemon' = Daemons /\ daemon'[d] = rec
           /\ \A e \in Daemons : e # d => daemon'[e] = daemon[e]
BY DEF DaemonShape

\* A step in which every daemon keeps its phase, and the files and processes stay.
Keeps(e) == /\ daemon'[e].phase = daemon[e].phase /\ daemon'[e].skip = daemon[e].skip
            /\ daemon'[e].taken = daemon[e].taken /\ DOMAIN daemon'[e] = DaemonFields
Still == /\ DOMAIN daemon' = Daemons /\ \A e \in Daemons : Keeps(e)
         /\ pidFile' = pidFile /\ socket' = socket /\ kids' = kids /\ overtaken' = overtaken /\ evicted' = evicted

LEMMA StillFine ==
    ASSUME DaemonInv, Still
    PROVE  Fine
<1>1. DaemonShape'
  BY DEF DaemonInv, DaemonShape, Still, Keeps
<1>2. Skipped'
  BY DEF DaemonInv, Skipped, Still, Keeps
<1>3. Owners'
  BY DEF DaemonInv, Owners, Owns, Still, Keeps
<1>4. Ended' /\ Emptied'
  BY DEF DaemonInv, Ended, Emptied, Running, Still, Keeps
<1>5. Onward
  BY DEF Onward, Still, Keeps
<1> QED
  BY <1>1, <1>2, <1>3, <1>4, <1>5 DEF DaemonInv, Fine

LEMMA UnchangedStill ==
    ASSUME DaemonInv, UNCHANGED <<daemon, pidFile, socket, kids, overtaken, evicted>>
    PROVE  Fine
<1>1. Still
  BY DEF DaemonInv, DaemonShape, Still, Keeps
<1> QED
  BY <1>1, StillFine

\* One daemon changes other fields than these.
LEMMA ChangedStill ==
    ASSUME DaemonInv, NEW d \in Daemons, NEW rec, daemon' = [daemon EXCEPT ![d] = rec],
           DOMAIN rec = DaemonFields, rec.phase = daemon[d].phase, rec.skip = daemon[d].skip,
           rec.taken = daemon[d].taken, UNCHANGED <<pidFile, socket, kids, overtaken, evicted>>
    PROVE  Fine
<1>1. /\ DOMAIN daemon' = Daemons /\ daemon'[d] = rec
      /\ \A e \in Daemons : e # d => daemon'[e] = daemon[e]
  BY Touched DEF DaemonInv
<1>2. Still
  BY <1>1 DEF DaemonInv, DaemonShape, Still, Keeps
<1> QED
  BY <1>2, StillFine

\* gracefulShutdown(), begun or overtaken.
LEMMA ShutdownFine ==
    ASSUME DaemonInv, NEW d \in Daemons, Alive(d), NEW rec, Shutdown(d, rec),
           DOMAIN rec = DaemonFields, rec.phase = daemon[d].phase, rec.taken = daemon[d].taken,
           \/ rec.skip = daemon[d].skip /\ UNCHANGED <<pidFile, socket>>
           \/ rec.skip = TRUE /\ pidFile' = None /\ socket' = None,
           kids' = kids, evicted' = evicted
    PROVE  Fine
<1>0. DaemonShape /\ Skipped /\ Owners /\ Ended /\ Emptied
  BY DEF DaemonInv
<1>1. CASE rec.phase = "up"
  <2> DEFINE new == [rec EXCEPT !.phase = "mcp"]
  <2>1. /\ DOMAIN new = DaemonFields /\ new.phase = "mcp" /\ new.skip = rec.skip
        /\ new.taken = daemon[d].taken
    BY DEF DaemonFields
  <2>2. daemon' = [daemon EXCEPT ![d] = new] /\ overtaken' = overtaken
    BY <1>1 DEF Shutdown
  <2> HIDE DEF new
  <2>3. /\ DOMAIN daemon' = Daemons /\ daemon'[d] = new
        /\ \A e \in Daemons : e # d => daemon'[e] = daemon[e]
    BY <1>0, <2>2, Touched
  <2>4. DaemonShape'
    BY <1>0, <2>1, <2>3 DEF DaemonShape, Phases
  <2>5. Skipped'
    BY <1>0, <2>1, <2>3, NoneIsNoDaemon DEF Skipped
  <2>6. Owners'
    BY <1>0, <1>1, <2>1, <2>2, <2>3, ZenonT(60) DEF Owners, Owns
  <2>7. Ended' /\ Emptied'
    BY <1>0, <2>1, <2>2, <2>3, NoneIsNoDaemon DEF Ended, Emptied, Running, Over
  <2>8. Onward
    BY <1>0, <1>1, <2>1, <2>2, <2>3 DEF Onward, Over, DaemonShape
  <2> QED
    BY <2>4, <2>5, <2>6, <2>7, <2>8 DEF DaemonInv, Fine
<1>2. CASE rec.phase # "up"
  <2> DEFINE new == [rec EXCEPT !.phase = "down", !.stops = 0, !.forced = FALSE, !.server = None]
  <2>1. /\ DOMAIN new = DaemonFields /\ new.phase = "down" /\ new.skip = rec.skip
        /\ new.taken = daemon[d].taken
    BY DEF DaemonFields
  <2>2. daemon' = [daemon EXCEPT ![d] = new] /\ overtaken' = overtaken \cup {d}
    BY <1>2 DEF Shutdown, Exit
  <2> HIDE DEF new
  <2>3. /\ DOMAIN daemon' = Daemons /\ daemon'[d] = new
        /\ \A e \in Daemons : e # d => daemon'[e] = daemon[e]
    BY <1>0, <2>2, Touched
  <2>4. DaemonShape'
    BY <1>0, <2>1, <2>3 DEF DaemonShape, Phases
  <2>5. Skipped'
    BY <1>0, <2>1, <2>3, NoneIsNoDaemon DEF Skipped
  <2>6. Owners' /\ Emptied'
    BY <2>2 DEF Owners, Emptied
  <2>7. Ended'
    BY <1>0, <2>1, <2>2, <2>3, NoneIsNoDaemon DEF Ended, Running, Over
  <2>8. Onward
    BY <1>0, <1>2, <2>1, <2>2, <2>3 DEF Onward, Over, DaemonShape
  <2> QED
    BY <2>4, <2>5, <2>6, <2>7, <2>8 DEF DaemonInv, Fine
<1> QED
  BY <1>1, <1>2

\* The shutdown proceeds.
LEMMA McpDownFine ==
    ASSUME DaemonInv, NEW d \in Daemons, McpDown(d)
    PROVE  Fine
<1>0. DaemonShape /\ Skipped /\ Owners /\ Ended /\ Emptied
  BY DEF DaemonInv
<1>1. PICK new : daemon' = [daemon EXCEPT ![d] = new] /\ DOMAIN new = DaemonFields
                 /\ new.phase = "telemetry" /\ new.skip = daemon[d].skip
                 /\ new.taken = daemon[d].taken
  <2> DEFINE off == [daemon[d] EXCEPT !.phase = "telemetry"]
             shut == [daemon[d] EXCEPT !.phase = "telemetry", !.server = None, !.mcp = None]
  <2>1. /\ DOMAIN off = DaemonFields /\ off.phase = "telemetry" /\ off.skip = daemon[d].skip
        /\ off.taken = daemon[d].taken
        /\ DOMAIN shut = DaemonFields /\ shut.phase = "telemetry" /\ shut.skip = daemon[d].skip
        /\ shut.taken = daemon[d].taken
    BY <1>0 DEF DaemonShape, DaemonFields
  <2>2. daemon' = [daemon EXCEPT ![d] = off] \/ daemon' = [daemon EXCEPT ![d] = shut]
    BY DEF McpDown
  <2> HIDE DEF off, shut
  <2> QED
    BY <2>1, <2>2
<1>2. /\ daemon[d].phase = "mcp"
      /\ UNCHANGED <<pidFile, socket, kids, overtaken, evicted>>
  BY DEF McpDown
<1>3. /\ DOMAIN daemon' = Daemons /\ daemon'[d] = new
      /\ \A e \in Daemons : e # d => daemon'[e] = daemon[e]
  BY <1>0, <1>1, Touched
<1>4. DaemonShape'
  BY <1>0, <1>1, <1>2, <1>3 DEF DaemonShape, Phases
<1>5. Skipped' /\ Owners'
  BY <1>0, <1>1, <1>2, <1>3, NoneIsNoDaemon DEF Skipped, Owners, Owns
<1>6. Ended' /\ Emptied'
  BY <1>0, <1>1, <1>2, <1>3, NoneIsNoDaemon DEF Ended, Emptied, Running, Over
<1>7. Onward
  BY <1>0, <1>1, <1>2, <1>3 DEF Onward, Over
<1> QED
  BY <1>4, <1>5, <1>6, <1>7 DEF DaemonInv, Fine

LEMMA TelemetryDownFine ==
    ASSUME DaemonInv, NEW d \in Daemons, TelemetryDown(d)
    PROVE  Fine
<1>0. DaemonShape /\ Skipped /\ Owners /\ Ended /\ Emptied
  BY DEF DaemonInv
<1> DEFINE new == [daemon[d] EXCEPT !.phase = "processes", !.taken = Running(d)]
<1>1. /\ daemon' = [daemon EXCEPT ![d] = new] /\ DOMAIN new = DaemonFields
      /\ new.phase = "processes" /\ new.skip = daemon[d].skip /\ new.taken = Running(d)
  BY <1>0 DEF TelemetryDown, DaemonShape, DaemonFields
<1> HIDE DEF new
<1>2. /\ daemon[d].phase = "telemetry"
      /\ UNCHANGED <<pidFile, socket, kids, overtaken, evicted>>
  BY DEF TelemetryDown
<1>3. /\ DOMAIN daemon' = Daemons /\ daemon'[d] = new
      /\ \A e \in Daemons : e # d => daemon'[e] = daemon[e]
  BY <1>0, <1>1, Touched
<1>4. DaemonShape'
  BY <1>0, <1>1, <1>2, <1>3 DEF DaemonShape, Phases
<1>5. Skipped' /\ Owners'
  BY <1>0, <1>1, <1>2, <1>3, NoneIsNoDaemon DEF Skipped, Owners, Owns
<1>6. Ended' /\ Emptied'
  BY <1>0, <1>1, <1>2, <1>3, NoneIsNoDaemon DEF Ended, Emptied, Running, Over
<1>7. Onward
  BY <1>0, <1>1, <1>2, <1>3 DEF Onward, Over
<1> QED
  BY <1>4, <1>5, <1>6, <1>7 DEF DaemonInv, Fine

LEMMA ProcessStopsFine ==
    ASSUME DaemonInv, NEW d \in Daemons, NEW n \in Names, ProcessStops(d, n)
    PROVE  Fine
<1>0. DaemonShape /\ Skipped /\ Owners /\ Ended /\ Emptied
  BY DEF DaemonInv
<1>1. /\ kids' \subseteq kids /\ UNCHANGED <<daemon, pidFile, socket, overtaken, evicted>>
  BY DEF ProcessStops
<1>2. DaemonShape' /\ Skipped' /\ Owners'
  BY <1>0, <1>1 DEF DaemonShape, Skipped, Owners, Owns
<1>3. Ended' /\ Emptied'
  BY <1>0, <1>1 DEF Ended, Emptied, Running, Over
<1>4. Onward
  BY <1>1 DEF Onward
<1> QED
  BY <1>2, <1>3, <1>4 DEF DaemonInv, Fine

LEMMA Exits ==
    ASSUME DaemonShape, NEW d \in Daemons, Exit(d, daemon[d])
    PROVE  \E new : /\ daemon' = [daemon EXCEPT ![d] = new] /\ DOMAIN new = DaemonFields
                    /\ new.phase = "down" /\ new.skip = daemon[d].skip
                    /\ new.taken = daemon[d].taken
<1> DEFINE end == [daemon[d] EXCEPT !.phase = "down", !.stops = 0, !.forced = FALSE, !.server = None]
<1>1. /\ DOMAIN end = DaemonFields /\ end.phase = "down" /\ end.skip = daemon[d].skip
      /\ end.taken = daemon[d].taken
  BY DEF DaemonShape, DaemonFields
<1>2. daemon' = [daemon EXCEPT ![d] = end]
  BY DEF Exit
<1> HIDE DEF end
<1> QED
  BY <1>1, <1>2

LEMMA FinishFine ==
    ASSUME DaemonInv, NEW d \in Daemons, Finish(d)
    PROVE  Fine
<1>0. DaemonShape /\ Skipped /\ Owners /\ Ended /\ Emptied
  BY DEF DaemonInv
<1>1. PICK new : /\ daemon' = [daemon EXCEPT ![d] = new] /\ DOMAIN new = DaemonFields
                 /\ new.phase \in Over /\ new.skip = daemon[d].skip
                 /\ new.taken = daemon[d].taken
  <2>1. CASE Cleans(d)
    <3> DEFINE closing == [daemon[d] EXCEPT !.phase = "closing"]
    <3>1. /\ daemon' = [daemon EXCEPT ![d] = closing] /\ DOMAIN closing = DaemonFields
          /\ closing.phase \in Over /\ closing.skip = daemon[d].skip
          /\ closing.taken = daemon[d].taken
      BY <1>0, <2>1 DEF Finish, DaemonShape, DaemonFields, Over
    <3> HIDE DEF closing
    <3> QED
      BY <3>1
  <2>2. CASE ~Cleans(d)
    BY <1>0, <2>2, Exits DEF Finish, Over
  <2> QED
    BY <2>1, <2>2
<1>2. /\ daemon[d].phase = "processes" /\ daemon[d].taken \cap Running(d) = {}
      /\ kids' = kids /\ overtaken' = overtaken /\ evicted' = evicted
      /\ IF ~daemon[d].skip THEN pidFile' = None /\ socket' = None
                            ELSE pidFile' = pidFile /\ socket' = socket
  BY DEF Finish, Cleans, Stopped, Cleanup, KeepFiles
<1>3. /\ DOMAIN daemon' = Daemons /\ daemon'[d] = new
      /\ \A e \in Daemons : e # d => daemon'[e] = daemon[e]
  BY <1>0, <1>1, Touched
<1>4. DaemonShape'
  BY <1>0, <1>1, <1>2, <1>3 DEF DaemonShape, Phases, Over
<1>5. Skipped'
  BY <1>0, <1>1, <1>2, <1>3, NoneIsNoDaemon DEF Skipped
<1>6. Owners'
  BY <1>0, <1>1, <1>2, <1>3, NoneIsNoDaemon DEF Owners, Owns, Over
<1>7. Ended'
  BY <1>0, <1>1, <1>2, <1>3, NoneIsNoDaemon DEF Ended, Running, Over, Skipped
<1>8. Emptied'
  BY <1>0, <1>1, <1>2, <1>3 DEF Emptied, Running
<1>9. Onward
  BY <1>0, <1>1, <1>2, <1>3 DEF Onward, Over
<1> QED
  BY <1>4, <1>5, <1>6, <1>7, <1>8, <1>9 DEF DaemonInv, Fine

\* The callback may take the socket of another daemon, which is then marked.
LEMMA CloseFine ==
    ASSUME DaemonInv, NEW d \in Daemons, Close(d)
    PROVE  Fine
<1>0. DaemonShape /\ Skipped /\ Owners /\ Ended /\ Emptied
  BY DEF DaemonInv
<1>1. PICK new : daemon' = [daemon EXCEPT ![d] = new] /\ DOMAIN new = DaemonFields
                 /\ new.phase = "down" /\ new.skip = daemon[d].skip
                 /\ new.taken = daemon[d].taken
  BY <1>0, Exits DEF Close
<1>2. /\ daemon[d].phase = "closing"
      /\ socket' = None /\ evicted' = evicted \cup ({socket} \ {None})
      /\ UNCHANGED <<pidFile, kids, overtaken>>
  BY DEF Close
<1>3. /\ DOMAIN daemon' = Daemons /\ daemon'[d] = new
      /\ \A e \in Daemons : e # d => daemon'[e] = daemon[e]
  BY <1>0, <1>1, Touched
<1>4. DaemonShape'
  BY <1>0, <1>1, <1>2, <1>3 DEF DaemonShape, Phases
<1>5. Skipped' /\ Owners'
  BY <1>0, <1>1, <1>2, <1>3, NoneIsNoDaemon DEF Skipped, Owners, Owns
<1>6. Ended' /\ Emptied'
  BY <1>0, <1>1, <1>2, <1>3, NoneIsNoDaemon DEF Ended, Emptied, Running, Over
<1>7. Onward
  BY <1>0, <1>1, <1>2, <1>3 DEF Onward, Over
<1> QED
  BY <1>4, <1>5, <1>6, <1>7 DEF DaemonInv, Fine

\* A forced kill leaves no process and no file behind.
LEMMA ForceTimerFine ==
    ASSUME DaemonInv, NEW d \in Daemons, ForceTimer(d)
    PROVE  Fine
<1>0. DaemonShape /\ Skipped /\ Owners /\ Ended /\ Emptied
  BY DEF DaemonInv
<1>1. PICK new : daemon' = [daemon EXCEPT ![d] = new] /\ DOMAIN new = DaemonFields
                 /\ new.phase = "down" /\ new.skip = daemon[d].skip
                 /\ new.taken = daemon[d].taken
  BY <1>0, Exits DEF ForceTimer
<1>2. /\ daemon[d].phase \notin {"unborn", "down"} /\ pidFile' = None /\ socket' = None
      /\ kids' \subseteq kids /\ \A n \in Names : <<d, n>> \notin kids'
      /\ overtaken \subseteq overtaken' /\ (daemon[d].phase # "up" => d \in overtaken')
  BY DEF ForceTimer, Cleanup, Alive
<1>3. /\ DOMAIN daemon' = Daemons /\ daemon'[d] = new
      /\ \A e \in Daemons : e # d => daemon'[e] = daemon[e]
  BY <1>0, <1>1, Touched
<1>4. DaemonShape'
  BY <1>0, <1>1, <1>2, <1>3 DEF DaemonShape, Phases
<1>5. Skipped'
  BY <1>0, <1>1, <1>2, <1>3, NoneIsNoDaemon DEF Skipped
<1>6. Owners'
  <2> SUFFICES ASSUME overtaken' = {}, NEW e \in Daemons, Owns(e)'
               PROVE  FALSE
    BY DEF Owners
  <2>1. overtaken = {} /\ daemon[d].phase = "up"
    BY <1>2
  <2>2. Owns(d) /\ e # d /\ Owns(e)
    BY <1>1, <1>3, <2>1 DEF Owns
  <2> QED
    BY <1>0, <2>1, <2>2 DEF Owners
<1>7. Ended'
  BY <1>0, <1>1, <1>2, <1>3, NoneIsNoDaemon DEF Ended, Running, Over
<1>8. Emptied'
  BY <1>0, <1>1, <1>2, <1>3 DEF Emptied, Running
<1>9. Onward
  BY <1>0, <1>1, <1>2, <1>3 DEF Onward, Over
<1> QED
  BY <1>4, <1>5, <1>6, <1>7, <1>8, <1>9 DEF DaemonInv, Fine

LEMMA EndingFine ==
    ASSUME DaemonInv, NEW d \in Daemons, StopTimer(d) \/ Signal(d) \/ Crash(d) \/ Stable(d)
    PROVE  Fine
<1>0. DaemonShape /\ DOMAIN daemon[d] = DaemonFields
  BY DEF DaemonInv, DaemonShape
<1>1. CASE StopTimer(d)
  <2>1. PICK rec : rec = [daemon[d] EXCEPT !.stops = @ - 1]
    OBVIOUS
  <2>2. /\ DOMAIN rec = DaemonFields /\ rec.phase = daemon[d].phase /\ rec.skip = daemon[d].skip
        /\ rec.taken = daemon[d].taken
    BY <1>0, <2>1 DEF DaemonFields
  <2>3. Alive(d) /\ Shutdown(d, rec) /\ UNCHANGED <<kids, evicted, pidFile, socket>>
    BY <1>1, <2>1 DEF StopTimer
  <2> QED
    BY <2>2, <2>3, ShutdownFine
<1>2. CASE Signal(d)
  <2>1. Alive(d) /\ Shutdown(d, daemon[d]) /\ UNCHANGED <<kids, evicted, pidFile, socket>>
    BY <1>2 DEF Signal
  <2> QED
    BY <1>0, <2>1, ShutdownFine
<1>3. CASE Crash(d)
  <2>1. CASE Recovers(d)
    <3>1. PICK rec : rec = [daemon[d] EXCEPT !.skip = TRUE]
      OBVIOUS
    <3>2. /\ DOMAIN rec = DaemonFields /\ rec.phase = daemon[d].phase /\ rec.skip = TRUE
          /\ rec.taken = daemon[d].taken
      BY <1>0, <3>1 DEF DaemonFields
    <3>3. Alive(d) /\ Shutdown(d, rec) /\ UNCHANGED <<kids, evicted>> /\ pidFile' = None /\ socket' = None
      BY <1>3, <2>1, <3>1 DEF Crash, Cleanup
    <3> QED
      BY <3>2, <3>3, ShutdownFine
  <2>2. CASE ~Recovers(d)
    <3>1. Alive(d) /\ Shutdown(d, daemon[d]) /\ UNCHANGED <<kids, evicted, pidFile, socket>>
      BY <1>3, <2>2 DEF Crash, KeepFiles
    <3> QED
      BY <1>0, <3>1, ShutdownFine
  <2> QED
    BY <2>1, <2>2
<1>4. CASE Stable(d)
  <2>1. PICK rec : rec = [daemon[d] EXCEPT !.guard = FALSE]
    OBVIOUS
  <2>2. /\ DOMAIN rec = DaemonFields /\ rec.phase = daemon[d].phase /\ rec.skip = daemon[d].skip
        /\ rec.taken = daemon[d].taken /\ daemon' = [daemon EXCEPT ![d] = rec]
    BY <1>0, <1>4, <2>1 DEF DaemonFields, Stable
  <2> QED
    BY <1>4, <2>2, ChangedStill DEF Stable
<1> QED
  BY <1>1, <1>2, <1>3, <1>4

\* Requests.  Starting a process after the others were told to stop counts as overtaking.
LEMMA StartsFine ==
    ASSUME DaemonInv, NEW d \in Daemons, Answers(d), NEW S, S \cap Known(d) = {},
           kids' = kids \cup {<<d, n>> : n \in S}, Overtakes(d),
           DOMAIN daemon' = Daemons, \A e \in Daemons : Keeps(e), UNCHANGED <<pidFile, socket, evicted>>
    PROVE  Fine
<1>0. DaemonShape /\ Skipped /\ Owners /\ Ended /\ Emptied
  BY DEF DaemonInv
<1>1. /\ daemon[d].phase \in {"up", "mcp", "telemetry", "processes"}
      /\ overtaken \subseteq overtaken' /\ (daemon[d].phase = "processes" => d \in overtaken')
  BY DEF Answers, Overtakes
<1>2. \A e \in Daemons : /\ Running(e)' \subseteq Running(e) \cup (IF e = d THEN S ELSE {})
                         /\ daemon'[e].phase = daemon[e].phase /\ daemon'[e].skip = daemon[e].skip
                         /\ daemon'[e].taken = daemon[e].taken /\ DOMAIN daemon'[e] = DaemonFields
  BY DEF Running, Keeps
<1>3. DaemonShape'
  BY <1>0, <1>2 DEF DaemonShape
<1>4. Skipped' /\ Owners'
  BY <1>0, <1>1, <1>2 DEF Skipped, Owners, Owns
<1>5. Ended'
  <2> SUFFICES ASSUME NEW e \in Daemons, daemon[e].phase \in Over, e \notin overtaken'
               PROVE  /\ daemon[e].taken \cap Running(e)' = {}
                      /\ pidFile # e /\ socket # e
    BY <1>2 DEF Ended
  <2>1. e # d
    BY <1>1 DEF Over
  <2>2. Running(e)' \subseteq Running(e)
    BY <1>2, <2>1
  <2>3. daemon[e].taken \cap Running(e) = {} /\ pidFile # e /\ socket # e
    BY <1>0, <1>1 DEF Ended
  <2> QED
    BY <2>2, <2>3
<1>6. Emptied'
  <2> SUFFICES ASSUME overtaken' = {}, NEW e \in Daemons,
                      daemon[e].phase \in {"processes", "closing", "down"}
               PROVE  Running(e)' \subseteq daemon[e].taken
    BY <1>2 DEF Emptied
  <2>1. e # d /\ overtaken = {}
    BY <1>1
  <2>2. Running(e)' \subseteq Running(e)
    BY <1>2, <2>1
  <2> QED
    BY <1>0, <2>1, <2>2 DEF Emptied
<1>7. Onward
  BY <1>1, <1>2 DEF Onward
<1> QED
  BY <1>3, <1>4, <1>5, <1>6, <1>7 DEF DaemonInv, Fine

LEMMA McpStartedKeeps ==
    ASSUME DaemonShape, NEW d \in Daemons, NEW o
    PROVE  LET rec == McpStarted(d, o)
           IN /\ DOMAIN rec = DaemonFields /\ rec.phase = daemon[d].phase
              /\ rec.skip = daemon[d].skip /\ rec.taken = daemon[d].taken
<1> DEFINE noted == [daemon[d] EXCEPT !.mcp = o]
           runs  == [daemon[d] EXCEPT !.mcp = o, !.server = o]
<1>1. /\ DOMAIN noted = DaemonFields /\ noted.phase = daemon[d].phase
      /\ noted.skip = daemon[d].skip /\ noted.taken = daemon[d].taken
      /\ DOMAIN runs = DaemonFields /\ runs.phase = daemon[d].phase
      /\ runs.skip = daemon[d].skip /\ runs.taken = daemon[d].taken
  BY DEF DaemonShape, DaemonFields
<1>2. McpStarted(d, o) \in {noted, runs, daemon[d]}
  BY DEF McpStarted
<1> HIDE DEF noted, runs
<1> QED
  BY <1>1, <1>2 DEF DaemonShape

LEMMA RestoredKeeps ==
    ASSUME DaemonShape, NEW d \in Daemons, NEW state
    PROVE  LET rec == Restored(d, state)
           IN /\ DOMAIN rec = DaemonFields /\ rec.phase = daemon[d].phase
              /\ rec.skip = daemon[d].skip /\ rec.taken = daemon[d].taken
<1> DEFINE runs == [daemon[d] EXCEPT !.mcp = state.mcp, !.server = state.mcp]
<1>1. /\ DOMAIN runs = DaemonFields /\ runs.phase = daemon[d].phase
      /\ runs.skip = daemon[d].skip /\ runs.taken = daemon[d].taken
  BY DEF DaemonShape, DaemonFields
<1>2. Restored(d, state) \in {runs, daemon[d]}
  BY DEF Restored
<1> HIDE DEF runs
<1> QED
  BY <1>1, <1>2 DEF DaemonShape

LEMMA RequestFine ==
    ASSUME DaemonInv, NEW d \in Daemons,
           \/ \E n \in Names : Up(d, n)
           \/ Configure(d) \/ McpStop(d)
           \/ \E o \in Opts : McpStart(d, o)
           \/ \E enabled \in BOOLEAN : ConfigUpdated(d, enabled)
    PROVE  Fine
<1>0. DaemonShape /\ DOMAIN daemon = Daemons
      /\ \A e \in Daemons : DOMAIN daemon[e] = DaemonFields
  BY DEF DaemonInv, DaemonShape
<1>1. ASSUME NEW n \in Names, Up(d, n)
      PROVE  Fine
  <2>1. /\ Answers(d) /\ {n} \cap Known(d) = {} /\ kids' = kids \cup {<<d, m>> : m \in {n}}
        /\ Overtakes(d) /\ UNCHANGED <<daemon, pidFile, socket, evicted>>
    BY <1>1 DEF Up
  <2>2. DOMAIN daemon' = Daemons /\ \A e \in Daemons : Keeps(e)
    BY <1>0, <2>1 DEF Keeps
  <2> QED
    BY <2>1, <2>2, StartsFine
<1>2. CASE Configure(d)
  <2>1. PICK rec : rec = [daemon[d] EXCEPT !.key = TRUE]
    OBVIOUS
  <2>2. /\ DOMAIN rec = DaemonFields /\ rec.phase = daemon[d].phase /\ rec.skip = daemon[d].skip
        /\ rec.taken = daemon[d].taken /\ Change(d, rec)
    BY <1>0, <1>2, <2>1 DEF Configure, DaemonFields
  <2> QED
    BY <2>2, ChangedStill DEF Change
<1>3. CASE McpStop(d)
  <2>1. PICK rec : rec = [daemon[d] EXCEPT !.mcp = None, !.server = None]
    OBVIOUS
  <2>2. /\ DOMAIN rec = DaemonFields /\ rec.phase = daemon[d].phase /\ rec.skip = daemon[d].skip
        /\ rec.taken = daemon[d].taken /\ Change(d, rec)
    BY <1>0, <1>3, <2>1 DEF McpStop, DaemonFields
  <2> QED
    BY <2>2, ChangedStill DEF Change
<1>4. ASSUME NEW o \in Opts, McpStart(d, o)
      PROVE  Fine
  <2>1. PICK rec : rec = McpStarted(d, o)
    OBVIOUS
  <2>2. /\ DOMAIN rec = DaemonFields /\ rec.phase = daemon[d].phase /\ rec.skip = daemon[d].skip
        /\ rec.taken = daemon[d].taken
    BY <1>0, <2>1, McpStartedKeeps
  <2>3. Change(d, rec)
    BY <1>4, <2>1 DEF McpStart
  <2> QED
    BY <2>2, <2>3, ChangedStill DEF Change
<1>5. ASSUME NEW enabled \in BOOLEAN, ConfigUpdated(d, enabled)
      PROVE  Fine
  <2>1. PICK rec : rec = [daemon[d] EXCEPT !.server = IF enabled THEN daemon[d].mcp ELSE None]
    OBVIOUS
  <2>2. /\ DOMAIN rec = DaemonFields /\ rec.phase = daemon[d].phase /\ rec.skip = daemon[d].skip
        /\ rec.taken = daemon[d].taken
    BY <1>0, <2>1 DEF DaemonFields
  <2>3. Change(d, rec)
    BY <1>5, <2>1 DEF ConfigUpdated
  <2> QED
    BY <2>2, <2>3, ChangedStill DEF Change
<1> QED
  BY <1>1, <1>2, <1>3, <1>4, <1>5

\* A daemon is started where no other has the files.
LEMMA ConnectFine ==
    ASSUME DaemonInv, NEW c \in Clients, ClientConnects(c)
    PROVE  Fine
<1>0. DaemonShape /\ Skipped /\ Owners /\ Ended /\ Emptied
  BY DEF DaemonInv
<1>1. kids' = kids /\ overtaken' = overtaken /\ evicted' = evicted
  BY DEF ClientConnects
<1>2. CASE UNCHANGED <<daemon, pidFile, socket, evicted>>
  BY <1>1, <1>2, UnchangedStill
<1>3. CASE /\ Found /\ UNCHANGED <<pidFile, socket>>
           /\ daemon' = [daemon EXCEPT ![socket].key = TRUE]
  <2>1. PICK d \in Daemons : d = socket
    BY <1>3 DEF Found, Answers
  <2>2. PICK rec : rec = [daemon[d] EXCEPT !.key = TRUE]
    OBVIOUS
  <2>3. /\ DOMAIN rec = DaemonFields /\ rec.phase = daemon[d].phase /\ rec.skip = daemon[d].skip
        /\ rec.taken = daemon[d].taken /\ daemon' = [daemon EXCEPT ![d] = rec]
    BY <1>0, <1>3, <2>1, <2>2 DEF DaemonShape, DaemonFields
  <2> QED
    BY <1>1, <1>3, <2>3, ChangedStill
<1>4. ASSUME NEW d \in Daemons, CanStart, daemon[d] = Unborn,
             daemon' = [daemon EXCEPT ![d] = Started(d, c)], pidFile' = d, socket' = d
      PROVE  Fine
  <2>1. PICK new : new = Started(d, c)
    OBVIOUS
  <2>2. /\ DOMAIN new = DaemonFields /\ new.phase = "up" /\ new.skip = FALSE /\ new.taken = {}
    BY <2>1 DEF Started, Unborn, DaemonFields
  <2>3. /\ DOMAIN daemon' = Daemons /\ daemon'[d] = new
        /\ \A e \in Daemons : e # d => daemon'[e] = daemon[e]
    BY <1>0, <1>4, <2>1, Touched
  <2>4. daemon[d].phase = "unborn" /\ daemon[d].skip = FALSE
    BY <1>4 DEF Unborn
  <2>5. overtaken = {} => \A e \in Daemons : ~Owns(e)
    BY <1>0, <1>4 DEF Owners, Owns, CanStart, Alive
  <2>6. DaemonShape'
    BY <1>0, <1>4, <2>2, <2>3 DEF DaemonShape, Phases
  <2>7. Skipped'
    BY <1>0, <1>4, <2>2, <2>3 DEF Skipped
  <2>8. Owners'
    BY <1>1, <1>4, <2>3, <2>5 DEF Owners, Owns
  <2>9. Ended' /\ Emptied'
    BY <1>0, <1>1, <1>4, <2>2, <2>3 DEF Ended, Emptied, Running, Over
  <2>10. Onward
    BY <1>1, <2>3, <2>4 DEF Onward, Over
  <2> QED
    BY <2>6, <2>7, <2>8, <2>9, <2>10 DEF DaemonInv, Fine
<1> QED
  BY <1>2, <1>3, <1>4 DEF ClientConnects, Connect

LEMMA AnswerFine ==
    ASSUME DaemonInv, ClientInv, NEW c \in Clients,
           KillAnswered(c) \/ RestoreAnswered(c) \/ McpRestored(c) \/ Restore(c)
    PROVE  Fine
<1>0. DaemonShape /\ DOMAIN daemon = Daemons
      /\ \A e \in Daemons : DOMAIN daemon[e] = DaemonFields
  BY DEF DaemonInv, DaemonShape
<1> PICK d : d = client[c].conn
  OBVIOUS
<1>1. Answers(d) => d \in Daemons
  BY DEF Answers
<1>2. CASE KillAnswered(c)
  <2> DEFINE force == [daemon[d] EXCEPT !.forced = TRUE]
             stop  == [daemon[d] EXCEPT !.stops = @ + 1]
  <2>1. d \in Daemons /\ UNCHANGED <<pidFile, socket, kids, overtaken, evicted>>
    BY <1>1, <1>2 DEF KillAnswered
  <2>2. /\ DOMAIN force = DaemonFields /\ force.phase = daemon[d].phase
        /\ force.skip = daemon[d].skip /\ force.taken = daemon[d].taken
        /\ DOMAIN stop = DaemonFields /\ stop.phase = daemon[d].phase
        /\ stop.skip = daemon[d].skip /\ stop.taken = daemon[d].taken
    BY <1>0, <2>1 DEF DaemonFields
  <2>3. daemon' = [daemon EXCEPT ![d] = force] \/ daemon' = [daemon EXCEPT ![d] = stop]
    BY <1>2 DEF KillAnswered
  <2> HIDE DEF force, stop
  <2> QED
    BY <2>1, <2>2, <2>3, ChangedStill
<1>3. CASE RestoreAnswered(c)
  <2>1. PICK S : S = client[c].had \ Known(d)
    OBVIOUS
  <2>2. /\ d \in Daemons /\ Answers(d) /\ S \cap Known(d) = {}
        /\ kids' = kids \cup {<<d, n>> : n \in S} /\ Overtakes(d)
        /\ UNCHANGED <<daemon, pidFile, socket, evicted>>
    BY <1>1, <1>3, <2>1 DEF RestoreAnswered
  <2>3. DOMAIN daemon' = Daemons /\ \A e \in Daemons : Keeps(e)
    BY <1>0, <2>2 DEF Keeps
  <2> QED
    BY <2>2, <2>3, StartsFine
<1>4. CASE McpRestored(c)
  <2>1. CASE Answers(d)
    <3>1. PICK rec : rec = McpStarted(d, client[c].mcp)
      OBVIOUS
    <3>2. d \in Daemons /\ UNCHANGED <<pidFile, socket, kids, overtaken, evicted>>
      BY <1>1, <1>4, <2>1 DEF McpRestored
    <3>3. /\ DOMAIN rec = DaemonFields /\ rec.phase = daemon[d].phase /\ rec.skip = daemon[d].skip
          /\ rec.taken = daemon[d].taken
      BY <1>0, <3>1, <3>2, McpStartedKeeps
    <3>4. daemon' = [daemon EXCEPT ![d] = rec]
      BY <1>4, <2>1, <3>1 DEF McpRestored
    <3> QED
      BY <3>2, <3>3, <3>4, ChangedStill
  <2>2. CASE ~Answers(d)
    BY <1>4, <2>2, UnchangedStill DEF McpRestored
  <2> QED
    BY <2>1, <2>2
<1>5. CASE Restore(c)
  <2>1. PICK state : state = IF snapshot = None THEN Part ELSE data[snapshot]
    OBVIOUS
  <2>2. PICK S : S = state.had \ Known(d)
    OBVIOUS
  <2>3. PICK rec : rec = Restored(d, state)
    OBVIOUS
  <2>4. /\ d \in Daemons /\ Answers(d) /\ S \cap Known(d) = {}
        /\ kids' = kids \cup {<<d, n>> : n \in S} /\ Overtakes(d)
        /\ daemon' = [daemon EXCEPT ![d] = rec] /\ UNCHANGED <<pidFile, socket, evicted>>
    BY <1>1, <1>5, <2>1, <2>2, <2>3 DEF Restore
  <2>5. /\ DOMAIN rec = DaemonFields /\ rec.phase = daemon[d].phase /\ rec.skip = daemon[d].skip
        /\ rec.taken = daemon[d].taken
    BY <1>0, <2>3, <2>4, RestoredKeeps
  <2>6. DOMAIN daemon' = Daemons /\ \A e \in Daemons : Keeps(e)
    BY <1>0, <2>4, <2>5, Touched DEF Keeps
  <2> QED
    BY <2>4, <2>6, StartsFine
<1> QED
  BY <1>2, <1>3, <1>4, <1>5

LEMMA DaemonsFine ==
    ASSUME DaemonInv, ClientInv, [Next]_vars
    PROVE  Fine
<1>1. ASSUME NEW d \in Daemons, DaemonStep(d)
      PROVE  Fine
  BY <1>1, McpDownFine, TelemetryDownFine, ProcessStopsFine, FinishFine, CloseFine, EndingFine,
     ForceTimerFine DEF DaemonStep
<1>2. ASSUME NEW d \in Daemons, Signal(d) \/ Crash(d) \/ Stable(d)
      PROVE  Fine
  BY <1>2, EndingFine
<1>3. ASSUME NEW d \in Daemons,
             \/ \E n \in Names : Up(d, n)
             \/ Configure(d) \/ McpStop(d)
             \/ \E o \in Opts : McpStart(d, o)
             \/ \E enabled \in BOOLEAN : ConfigUpdated(d, enabled)
      PROVE  Fine
  BY <1>3, RequestFine
<1>4. ASSUME NEW c \in Clients,
             \/ Dropped(c) \/ KillEnds(c) \/ Waited(c)
             \/ SnapBegins(c) \/ SnapWritten(c) \/ SnapRenamed(c) \/ SnapLost(c)
             \/ \E kind \in Kinds : Begin(c, kind)
      PROVE  Fine
  BY <1>4, UnchangedStill, Zenon DEF Dropped, KillEnds, Waited, SnapBegins, SnapWritten, SnapRenamed,
     SnapLost, Begin
<1>5. ASSUME NEW c \in Clients, ClientStep(c)
      PROVE  Fine
  BY <1>4, <1>5, ConnectFine, AnswerFine DEF ClientStep
<1>6. CASE UNCHANGED vars
  BY <1>6, UnchangedStill DEF vars
<1> QED
  BY <1>1, <1>2, <1>3, <1>4, <1>5, <1>6 DEF Next
----------------------------------------------------------------------------
(* Steps of the commands. *)

\* A command that takes no step: what is said of it only becomes more true.
LEMMA QuietGood ==
    ASSUME ClientInv, Onward, NEW c \in Clients, client'[c] = client[c]
    PROVE  Good(c)'
<1>0. Kill(c) /\ Fresh(c) /\ Follows(c) /\ TakesOver(c)
  BY DEF ClientInv, Good
<1>1. Kill(c)'
  <2> SUFFICES ASSUME client[c].kind \in {"kill", "force"}
               PROVE  /\ client[c].pc \in KillPcs
                      /\ client[c].pc = "closed" => client[c].old # None
                      /\ client[c].pc = "done" => client[c].old # None
                                                  /\ daemon'[client[c].old].phase \in Over
    BY DEF Kill
  <2>1. client[c].old # None => client[c].old \in Daemons
    BY <1>0 DEF Follows
  <2> QED
    BY <1>0, <2>1 DEF Kill, Onward
<1>2. Fresh(c)'
  BY <1>0 DEF Fresh
<1>3. Follows(c)'
  BY <1>0 DEF Follows, Onward
<1>4. TakesOver(c)'
  <2> SUFFICES ASSUME client[c].kind \in {"reload", "recovery"}, client[c].old # None, InTime(c)'
               PROVE  /\ client[c].pc \in Answering => daemon'[client[c].old].phase \in Over
                      /\ client[c].pc = "connected" => client[c].conn # client[c].old
                      /\ client[c].kind = "recovery" /\ client[c].pc = "files"
                            => daemon'[client[c].old].phase = "down"
    BY DEF TakesOver
  <2>1. client[c].old \in Daemons
    BY <1>0 DEF Follows
  <2>2. InTime(c)
    BY <2>1 DEF InTime, Onward
  <2> QED
    BY <1>0, <2>1, <2>2 DEF TakesOver, Onward
<1> QED
  BY <1>1, <1>2, <1>3, <1>4 DEF Good

LEMMA AllQuiet ==
    ASSUME ClientInv, Onward, client' = client
    PROVE  ClientInv'
BY QuietGood DEF ClientInv, ClientShape

LEMMA HadNames ==
    ASSUME NEW d
    PROVE  Configs(d) \subseteq Names
BY DEF Configs, Running

LEMMA OneMoves ==
    ASSUME ClientInv, Onward, NEW c \in Clients, NEW new, client' = [client EXCEPT ![c] = new],
           DOMAIN new = ClientFields, new.late \in BOOLEAN, new.had \subseteq Names,
           client'[c] = new => Good(c)'
    PROVE  ClientInv'
<1>1. /\ DOMAIN client' = Clients /\ client'[c] = new
      /\ \A e \in Clients : e # c => client'[e] = client[e]
  BY DEF ClientInv, ClientShape
<1>2. \A e \in Clients : Good(e)'
  BY <1>1, QuietGood
<1> QED
  BY <1>1, <1>2 DEF ClientInv, ClientShape

\* A command that is begun, or ends without having reported anything.
LEMMA BeginGood ==
    ASSUME ClientInv, Onward, NEW c \in Clients, NEW kind \in Kinds, Begin(c, kind)
    PROVE  ClientInv'
<1> DEFINE new == [Idle EXCEPT !.kind = kind, !.pc = "connect"]
<1>1. /\ client' = [client EXCEPT ![c] = new] /\ DOMAIN new = ClientFields
      /\ new.pc = "connect" /\ new.kind = kind /\ new.old = None /\ new.had = {}
      /\ new.late = FALSE
  BY DEF Begin, Idle, ClientFields
<1> HIDE DEF new
<1>2. client'[c] = new => Good(c)'
  BY <1>1 DEF Good, Kill, Fresh, Follows, TakesOver, Kinds, KillPcs
<1> QED
  BY <1>1, <1>2, OneMoves

LEMMA FailGood ==
    ASSUME ClientInv, Onward, NEW c \in Clients, client' = [client EXCEPT ![c].pc = "failed"]
    PROVE  ClientInv'
<1>0. /\ DOMAIN client[c] = ClientFields /\ client[c].late \in BOOLEAN
      /\ client[c].had \subseteq Names /\ Follows(c)
  BY DEF ClientInv, ClientShape, Good
<1> DEFINE new == [client[c] EXCEPT !.pc = "failed"]
<1>1. /\ client' = [client EXCEPT ![c] = new] /\ DOMAIN new = ClientFields
      /\ new.pc = "failed" /\ new.kind = client[c].kind /\ new.old = client[c].old
      /\ new.late = client[c].late /\ new.had = client[c].had
  BY <1>0 DEF ClientFields
<1> HIDE DEF new
<1>2. client'[c] = new => Good(c)'
  <2> SUFFICES ASSUME client'[c] = new PROVE Good(c)'
    OBVIOUS
  <2>1. Kill(c)' /\ Fresh(c)' /\ TakesOver(c)'
    BY <1>1 DEF Kill, Fresh, TakesOver, KillPcs, Answering
  <2>2. Follows(c)'
    BY <1>0, <1>1 DEF Follows, Onward
  <2> QED
    BY <2>1, <2>2 DEF Good
<1> QED
  BY <1>0, <1>1, <1>2, OneMoves

\* A request without an answer: a kill has seen the daemon end, a reload goes on.
LEMMA UnheardGood ==
    ASSUME ClientInv, Onward, NEW c \in Clients, NEW d \in Daemons, daemon'[d].phase # "unborn",
           client[c].pc \in Answering, client[c].pc = "connected" => daemon'[d].phase \in Over,
           client' = [client EXCEPT ![c] = Unheard(c, d)]
    PROVE  ClientInv'
<1>0. /\ DOMAIN client[c] = ClientFields /\ client[c].late \in BOOLEAN
      /\ client[c].had \subseteq Names /\ Follows(c) /\ d # None
  BY NoneIsNoDaemon DEF ClientInv, ClientShape, Good
<1>1. CASE client[c].pc = "connected" /\ client[c].kind \in {"kill", "force"}
  <2> DEFINE new == [client[c] EXCEPT !.pc = "done", !.old = d]
  <2>1. /\ client' = [client EXCEPT ![c] = new] /\ DOMAIN new = ClientFields
        /\ new.pc = "done" /\ new.kind = client[c].kind /\ new.old = d
        /\ new.late = client[c].late /\ new.had = client[c].had
    BY <1>0, <1>1 DEF ClientFields, Unheard
  <2> HIDE DEF new
  <2> SUFFICES ASSUME client'[c] = new PROVE Good(c)'
    BY <1>0, <2>1, OneMoves
  <2>2. Kill(c)' /\ Fresh(c)' /\ TakesOver(c)'
    BY <1>0, <1>1, <2>1 DEF Kill, Fresh, TakesOver, KillPcs, Answering
  <2>3. Follows(c)'
    BY <1>0, <1>1, <2>1 DEF Follows
  <2> QED
    BY <2>2, <2>3 DEF Good
<1>2. CASE client[c].kind = "reload" /\ client[c].old = None
  <2> DEFINE new == [client[c] EXCEPT !.pc = "files", !.old = d]
  <2>1. /\ client' = [client EXCEPT ![c] = new] /\ DOMAIN new = ClientFields
        /\ new.pc = "files" /\ new.kind = "reload" /\ new.old = d
        /\ new.late = client[c].late /\ new.had = client[c].had
    BY <1>0, <1>2 DEF ClientFields, Unheard
  <2> HIDE DEF new
  <2> SUFFICES ASSUME client'[c] = new PROVE Good(c)'
    BY <1>0, <2>1, OneMoves
  <2>2. Kill(c)' /\ Fresh(c)' /\ TakesOver(c)'
    BY <2>1 DEF Kill, Fresh, TakesOver, Answering
  <2>3. Follows(c)'
    BY <1>0, <2>1 DEF Follows
  <2> QED
    BY <2>2, <2>3 DEF Good
<1>3. CASE ~(client[c].pc = "connected" /\ client[c].kind \in {"kill", "force"})
           /\ ~(client[c].kind = "reload" /\ client[c].old = None)
  BY <1>3, FailGood DEF Unheard
<1> QED
  BY <1>1, <1>2, <1>3

\* A command that ends well, or goes on where nothing more is said of it.
LEMMA PastGood ==
    ASSUME ClientInv, Onward, NEW c \in Clients, NEW new, client' = [client EXCEPT ![c] = new],
           DOMAIN new = ClientFields, new.kind = client[c].kind, new.late = client[c].late,
           new.had \subseteq Names,
           new.pc \in {"mcp", "done", "writing", "renaming"},
           client[c].kind \notin {"kill", "force"},
           new.old = client[c].old \/ client[c].kind = "snap"
    PROVE  ClientInv'
<1>0. client[c].late \in BOOLEAN /\ client[c].had \subseteq Names /\ Follows(c)
  BY DEF ClientInv, ClientShape, Good
<1>2. client'[c] = new => Good(c)'
  <2> SUFFICES ASSUME client'[c] = new PROVE Good(c)'
    OBVIOUS
  <2>1. Kill(c)' /\ Fresh(c)' /\ TakesOver(c)'
    BY DEF Kill, Fresh, TakesOver, KillPcs, Answering
  <2>2. Follows(c)'
    BY <1>0 DEF Follows, Onward
  <2> QED
    BY <2>1, <2>2 DEF Good
<1> QED
  BY <1>0, <1>2, OneMoves

\* connect(): whoever answers is not the predecessor, if that has ended.
LEMMA ConnectGood ==
    ASSUME DaemonShape, ClientInv, Onward, NEW c \in Clients, ClientConnects(c)
    PROVE  ClientInv'
<1>0. /\ DOMAIN client[c] = ClientFields /\ client[c].late \in BOOLEAN
      /\ client[c].had \subseteq Names
      /\ Kill(c) /\ Fresh(c) /\ Follows(c) /\ TakesOver(c) /\ client[c].pc = "connect"
  BY DEF ClientInv, ClientShape, Good, ClientConnects
<1>1. CASE ~CanStart /\ daemon' = daemon /\ client' = [client EXCEPT ![c] = Unheard(c, pidFile)]
  <2>1. pidFile \in Daemons /\ daemon'[pidFile].phase # "unborn"
    BY <1>1 DEF CanStart, Alive
  <2> QED
    BY <1>0, <1>1, <2>1, UnheardGood DEF Answering
<1>2. ASSUME NEW d \in Daemons, client' = [client EXCEPT ![c].conn = d, ![c].pc = "connected"],
             daemon[d].phase \notin Over, daemon'[d].phase # "unborn"
      PROVE  ClientInv'
  <2> DEFINE new == [client[c] EXCEPT !.conn = d, !.pc = "connected"]
  <2>1. /\ client' = [client EXCEPT ![c] = new] /\ DOMAIN new = ClientFields
        /\ new.pc = "connected" /\ new.kind = client[c].kind /\ new.old = client[c].old
        /\ new.late = client[c].late /\ new.conn = d /\ new.had = client[c].had
    BY <1>0, <1>2 DEF ClientFields
  <2> HIDE DEF new
  <2> SUFFICES ASSUME client'[c] = new PROVE Good(c)'
    BY <1>0, <2>1, OneMoves
  <2>2. Kill(c)' /\ Fresh(c)'
    BY <1>0, <2>1 DEF Kill, Fresh, KillPcs, Answering
  <2>3. Follows(c)'
    BY <1>0, <1>2, <2>1 DEF Follows, Onward
  <2>4. TakesOver(c)'
    <3> SUFFICES ASSUME new.kind \in {"reload", "recovery"}, new.old # None, InTime(c)'
                 PROVE  daemon'[new.old].phase \in Over /\ d # new.old
      BY <2>1 DEF TakesOver
    <3>1. client[c].old \in Daemons
      BY <1>0, <2>1 DEF Follows
    <3>2. InTime(c)
      BY <2>1, <3>1 DEF InTime, Onward
    <3>3. daemon[client[c].old].phase \in Over
      BY <1>0, <2>1, <3>2 DEF TakesOver, Answering
    <3> QED
      BY <1>2, <2>1, <3>1, <3>3 DEF Onward
  <2> QED
    BY <2>2, <2>3, <2>4 DEF Good
<1>3. CASE /\ Found
           /\ client' = [client EXCEPT ![c].conn = socket, ![c].pc = "connected"]
  <2>1. PICK d \in Daemons : d = socket /\ daemon[d].phase \in {"up", "mcp", "telemetry", "processes"}
    BY <1>3 DEF Found, Answers
  <2>2. daemon[d].phase \notin Over /\ daemon'[d].phase # "unborn"
    BY <2>1 DEF Over, Onward
  <2> QED
    BY <1>2, <1>3, <2>1, <2>2
<1>4. ASSUME NEW d \in Daemons, daemon[d] = Unborn, daemon' = [daemon EXCEPT ![d] = Started(d, c)],
             client' = [client EXCEPT ![c].conn = d, ![c].pc = "connected"]
      PROVE  ClientInv'
  <2>1. daemon'[d].phase = "up" /\ daemon[d].phase = "unborn"
    BY <1>4 DEF Started, Unborn, DaemonShape
  <2> QED
    BY <1>2, <1>4, <2>1 DEF Over
<1> QED
  BY <1>1, <1>3, <1>4 DEF ClientConnects, Connect

LEMMA KillAnsweredGood ==
    ASSUME ClientInv, Onward, NEW c \in Clients, KillAnswered(c)
    PROVE  ClientInv'
<1>0. DOMAIN client[c] = ClientFields /\ client[c].late \in BOOLEAN /\ client[c].had \subseteq Names
  BY DEF ClientInv, ClientShape
<1>1. PICK d \in Daemons : d = client[c].conn /\ daemon[d].phase \in {"up", "mcp", "telemetry", "processes"}
  BY DEF KillAnswered, Answers
<1>2. daemon'[d].phase # "unborn" /\ d # None
  BY <1>1, NoneIsNoDaemon DEF Onward
<1> DEFINE new == [client[c] EXCEPT !.old = d, !.had = Configs(d), !.mcp = daemon[d].mcp,
                      !.key = daemon[d].key,
                      !.pc = IF client[c].kind = "reload" THEN "files" ELSE "closed"]
<1>3. /\ client' = [client EXCEPT ![c] = new] /\ DOMAIN new = ClientFields
      /\ new.pc = (IF client[c].kind = "reload" THEN "files" ELSE "closed")
      /\ new.kind = client[c].kind /\ new.old = d /\ new.late = client[c].late
      /\ new.had = Configs(d)
  BY <1>0, <1>1, Zenon DEF ClientFields, KillAnswered
<1>4. client[c].kind \in {"kill", "force", "reload"}
  BY DEF KillAnswered
<1> HIDE DEF new
<1> SUFFICES ASSUME client'[c] = new PROVE Good(c)'
  BY <1>0, <1>3, HadNames, OneMoves
<1>5. Kill(c)' /\ Fresh(c)'
  BY <1>2, <1>3, <1>4 DEF Kill, Fresh, KillPcs, Answering
<1>6. Follows(c)'
  BY <1>2, <1>3, <1>4 DEF Follows
<1>7. TakesOver(c)'
  BY <1>3, <1>4 DEF TakesOver, Answering
<1> QED
  BY <1>5, <1>6, <1>7 DEF Good

LEMMA KillEndsGood ==
    ASSUME ClientInv, Onward, NEW c \in Clients, KillEnds(c)
    PROVE  ClientInv'
<1>0. /\ DOMAIN client[c] = ClientFields /\ client[c].late \in BOOLEAN
      /\ client[c].had \subseteq Names
      /\ Kill(c) /\ Follows(c)
  BY DEF ClientInv, ClientShape, Good
<1>1. CASE client' = [client EXCEPT ![c].pc = "failed"]
  BY <1>1, FailGood
<1>2. CASE daemon[client[c].old].phase \in Over /\ client' = [client EXCEPT ![c].pc = "done"]
  <2> DEFINE new == [client[c] EXCEPT !.pc = "done"]
  <2>1. /\ client' = [client EXCEPT ![c] = new] /\ DOMAIN new = ClientFields
        /\ new.pc = "done" /\ new.kind = client[c].kind /\ new.old = client[c].old
        /\ new.late = client[c].late /\ new.had = client[c].had
    BY <1>0, <1>2 DEF ClientFields
  <2> HIDE DEF new
  <2> SUFFICES ASSUME client'[c] = new PROVE Good(c)'
    BY <1>0, <2>1, OneMoves
  <2>2. Fresh(c)' /\ TakesOver(c)'
    BY <2>1 DEF Fresh, TakesOver, Answering
  <2>3. Follows(c)'
    BY <1>0, <2>1 DEF Follows, Onward
  <2>4. Kill(c)'
    <3> SUFFICES ASSUME client[c].kind \in {"kill", "force"}
                 PROVE  client[c].old # None /\ daemon'[client[c].old].phase \in Over
      BY <2>1 DEF Kill, KillPcs
    <3>1. client[c].old # None
      BY <1>0 DEF Kill, KillEnds
    <3>2. client[c].old \in Daemons
      BY <1>0, <3>1 DEF Follows
    <3> QED
      BY <1>2, <3>1, <3>2 DEF Onward
  <2> QED
    BY <2>2, <2>3, <2>4 DEF Good
<1> QED
  BY <1>1, <1>2 DEF KillEnds, Over

\* The waits: the files are gone only after the old daemon has let go of them.
LEMMA WaitedGood ==
    ASSUME DaemonInv, ClientInv, Onward, NEW c \in Clients, Waited(c)
    PROVE  ClientInv'
<1>0. /\ DOMAIN client[c] = ClientFields /\ client[c].late \in BOOLEAN
      /\ client[c].had \subseteq Names
      /\ Kill(c) /\ Fresh(c) /\ Follows(c) /\ TakesOver(c)
      /\ DaemonShape /\ Owners /\ client[c].pc \in {"dead", "files"}
  BY DEF ClientInv, ClientShape, Good, DaemonInv, Waited
<1>1. UNCHANGED <<daemon, overtaken>>
  BY DEF Waited
<1>2. client[c].kind \in {"reload", "recovery"} /\ client[c].old # None
  BY <1>0 DEF Follows
<1>3. PICK old \in Daemons : old = client[c].old /\ daemon[old].phase # "unborn"
  BY <1>0, <1>2 DEF Follows
<1>4. PICK next : next = IF client[c].pc = "dead" THEN "files" ELSE "connect"
  OBVIOUS
<1>5. PICK late \in BOOLEAN :
         /\ client' = [client EXCEPT ![c].pc = next, ![c].late = late]
         /\ late \/ (WaitIsOver(c) /\ late = client[c].late)
  <2>1. CASE WaitIsOver(c)
    <3>1. client' = [client EXCEPT ![c].pc = next]
      BY <1>4, <2>1 DEF Waited
    <3>2. [client EXCEPT ![c].pc = next] = [client EXCEPT ![c].pc = next, ![c].late = client[c].late]
      BY <1>0 DEF ClientInv, ClientShape, ClientFields
    <3> QED
      BY <1>0, <2>1, <3>1, <3>2
  <2>2. CASE ~WaitIsOver(c)
    BY <1>4, <2>2 DEF Waited
  <2> QED
    BY <2>1, <2>2
<1> DEFINE new == [client[c] EXCEPT !.pc = next, !.late = late]
<1>6. /\ client' = [client EXCEPT ![c] = new] /\ DOMAIN new = ClientFields
      /\ new.pc = next /\ new.kind = client[c].kind /\ new.old = client[c].old
      /\ new.late = late /\ new.had = client[c].had
  BY <1>0, <1>5 DEF ClientFields
<1> HIDE DEF new
<1> SUFFICES ASSUME client'[c] = new PROVE Good(c)'
  BY <1>0, <1>5, <1>6, OneMoves
<1>7. Kill(c)' /\ Fresh(c)'
  BY <1>2, <1>6 DEF Kill, Fresh
<1>8. Follows(c)'
  BY <1>0, <1>1, <1>2, <1>4, <1>6 DEF Follows
<1>9. TakesOver(c)'
  <2> SUFFICES ASSUME InTime(c)'
               PROVE  IF next = "connect" THEN daemon[old].phase \in Over
                                          ELSE client[c].kind = "recovery" /\ daemon[old].phase = "down"
    BY <1>1, <1>3, <1>4, <1>6 DEF TakesOver, Answering, Over
  <2>1. /\ ~late /\ overtaken = {} /\ (client[c].kind = "reload" => ~daemon[old].skip)
    BY <1>1, <1>3, <1>6 DEF InTime
  <2>2. WaitIsOver(c) /\ InTime(c)
    BY <1>3, <1>5, <2>1 DEF InTime
  <2>3. CASE client[c].pc = "dead"
    <3>1. daemon[old].phase = "down"
      BY <1>0, <1>3, <2>2, <2>3 DEF WaitIsOver, Alive
    <3> QED
      BY <1>0, <1>4, <2>3, <3>1 DEF Follows
  <2>4. CASE client[c].pc = "files"
    <3>1. pidFile = None /\ next = "connect"
      BY <1>4, <2>2, <2>4 DEF WaitIsOver
    <3>2. ~Owns(old)
      BY <1>0, <2>1, <3>1, NoneIsNoDaemon DEF Owners
    <3>3. CASE client[c].kind = "reload"
      BY <1>0, <1>3, <2>1, <3>1, <3>2, <3>3 DEF Owns, DaemonShape, Phases, Over
    <3>4. CASE client[c].kind = "recovery"
      BY <1>0, <1>2, <1>3, <2>2, <2>4, <3>1, <3>4 DEF TakesOver, Over
    <3> QED
      BY <1>2, <3>1, <3>3, <3>4
  <2> QED
    BY <1>0, <2>3, <2>4
<1> QED
  BY <1>7, <1>8, <1>9 DEF Good

\* A crash hands the daemon over to a recovery process.
LEMMA CrashGood ==
    ASSUME ClientInv, Onward, NEW d \in Daemons, Crash(d)
    PROVE  ClientInv'
<1>1. CASE client' = client
  BY <1>1, AllQuiet
<1>2. CASE Recovers(d)
  <2> PICK c \in Clients :
         client' = [client EXCEPT ![c] =
                      [Idle EXCEPT !.kind = "recovery", !.pc = "dead", !.old = d,
                                   !.had = Configs(d), !.mcp = daemon[d].mcp, !.key = daemon[d].key]]
    BY <1>2 DEF Crash
  <2> DEFINE new == [Idle EXCEPT !.kind = "recovery", !.pc = "dead", !.old = d,
                                 !.had = Configs(d), !.mcp = daemon[d].mcp, !.key = daemon[d].key]
  <2>1. /\ client' = [client EXCEPT ![c] = new] /\ DOMAIN new = ClientFields
        /\ new.pc = "dead" /\ new.kind = "recovery" /\ new.old = d /\ new.late = FALSE
        /\ new.had = Configs(d)
    BY DEF Idle, ClientFields
  <2>2. daemon'[d].phase # "unborn" /\ d # None
    BY NoneIsNoDaemon DEF Crash, Alive, Onward
  <2> HIDE DEF new
  <2>0. Configs(d) \subseteq Names
    BY HadNames, Zenon
  <2>5. new.had \subseteq Names /\ new.late \in BOOLEAN
    BY ONLY <2>0, <2>1
  <2> SUFFICES ASSUME client'[c] = new PROVE Good(c)'
    BY <2>1, <2>5, OneMoves
  <2>3. Kill(c)' /\ Fresh(c)' /\ TakesOver(c)'
    BY <2>1 DEF Kill, Fresh, TakesOver, Answering
  <2>4. Follows(c)'
    BY <2>1, <2>2 DEF Follows
  <2> QED
    BY <2>3, <2>4 DEF Good
<1> QED
  BY <1>1, <1>2 DEF Crash

\* The answers to daemon-reload, crash recovery, snap and restore.
LEMMA PastStep ==
    ASSUME ClientInv, Onward, NEW c \in Clients, NEW pc \in {"mcp", "done", "writing", "renaming"},
           client' = [client EXCEPT ![c].pc = pc], client[c].kind \notin {"kill", "force"}
    PROVE  ClientInv'
<1>0. DOMAIN client[c] = ClientFields /\ client[c].had \subseteq Names
  BY DEF ClientInv, ClientShape
<1> PICK new : new = [client[c] EXCEPT !.pc = pc]
  OBVIOUS
<1>1. /\ client' = [client EXCEPT ![c] = new] /\ DOMAIN new = ClientFields
      /\ new.kind = client[c].kind /\ new.late = client[c].late /\ new.pc = pc
      /\ new.had = client[c].had
      /\ new.old = client[c].old
  BY <1>0 DEF ClientFields
<1> QED
  BY <1>0, <1>1, PastGood, Zenon

LEMMA AnswersGood ==
    ASSUME ClientInv, Onward, NEW c \in Clients,
           \/ RestoreAnswered(c) \/ McpRestored(c) \/ Restore(c)
           \/ SnapBegins(c) \/ SnapWritten(c) \/ SnapRenamed(c)
    PROVE  ClientInv'
<1>0. DOMAIN client[c] = ClientFields /\ Kill(c) /\ Fresh(c)
  BY DEF ClientInv, ClientShape, Good
<1>1. CASE RestoreAnswered(c)
  <2>1. client[c].kind \notin {"kill", "force"}
    BY <1>0, <1>1 DEF RestoreAnswered, Fresh, Answering
  <2> QED
    BY <1>1, <2>1, PastStep DEF RestoreAnswered
<1>2. CASE McpRestored(c)
  <2>1. client[c].kind \notin {"kill", "force"}
    BY <1>0, <1>2 DEF McpRestored, Kill, KillPcs
  <2> QED
    BY <1>2, <2>1, PastStep DEF McpRestored
<1>3. CASE Restore(c)
  BY <1>3, PastStep DEF Restore
<1>4. CASE SnapWritten(c) \/ SnapRenamed(c)
  <2>1. client[c].kind \notin {"kill", "force"}
    BY <1>0, <1>4 DEF SnapWritten, SnapRenamed, Kill, KillPcs
  <2> QED
    BY <1>4, <2>1, PastStep, FailGood DEF SnapWritten, SnapRenamed
<1>5. CASE SnapBegins(c)
  <2> DEFINE new == [client[c] EXCEPT !.pc = "writing", !.old = Opened(c),
                        !.had = Configs(client[c].conn), !.mcp = daemon[client[c].conn].mcp]
  <2>1. /\ client' = [client EXCEPT ![c] = new] /\ DOMAIN new = ClientFields
        /\ new.kind = client[c].kind /\ new.late = client[c].late /\ new.pc = "writing"
        /\ new.had = Configs(client[c].conn)
    BY <1>0, <1>5 DEF ClientFields, SnapBegins
  <2>2. client[c].kind = "snap"
    BY <1>5 DEF SnapBegins
  <2> HIDE DEF new
  <2> QED
    BY <2>1, <2>2, HadNames, PastGood
<1> QED
  BY <1>1, <1>2, <1>3, <1>4, <1>5

\* Who does not answer any more has ended.
LEMMA DroppedGood ==
    ASSUME DaemonShape, ClientInv, Onward, NEW c \in Clients, Dropped(c)
    PROVE  ClientInv'
<1> DEFINE d == client[c].conn
<1>1. /\ client[c].pc = "connected" /\ d \in Daemons /\ daemon[d].phase # "unborn"
      /\ daemon' = daemon /\ client' = [client EXCEPT ![c] = Unheard(c, d)]
  BY DEF ClientInv, Good, Follows, Dropped
<1>2. daemon[d].phase \in Over
  BY <1>1 DEF Dropped, Answers, DaemonShape, Phases, Over
<1> HIDE DEF d
<1> QED
  BY <1>1, <1>2, UnheardGood DEF Answering

LEMMA ClientsGood ==
    ASSUME DaemonInv, ClientInv, Onward, [Next]_vars
    PROVE  ClientInv'
<1>1. ASSUME NEW d \in Daemons, DaemonStep(d) \/ Signal(d) \/ Stable(d)
      PROVE  ClientInv'
  BY <1>1, AllQuiet DEF DaemonStep, McpDown, TelemetryDown, ProcessStops, Finish, Close, StopTimer,
     ForceTimer, Signal, Stable
<1>2. ASSUME NEW d \in Daemons,
             \/ \E n \in Names : Up(d, n)
             \/ Configure(d) \/ McpStop(d)
             \/ \E o \in Opts : McpStart(d, o)
             \/ \E enabled \in BOOLEAN : ConfigUpdated(d, enabled)
      PROVE  ClientInv'
  BY <1>2, AllQuiet DEF Up, Configure, McpStop, McpStart, ConfigUpdated, Change
<1>3. ASSUME NEW d \in Daemons, Crash(d)
      PROVE  ClientInv'
  BY <1>3, CrashGood
<1>4. ASSUME NEW c \in Clients, ClientStep(c)
      PROVE  ClientInv'
  BY <1>4, ConnectGood, DroppedGood, FailGood, KillAnsweredGood, KillEndsGood, WaitedGood, AnswersGood
     DEF ClientStep, SnapLost, DaemonInv
<1>5. ASSUME NEW c \in Clients, NEW kind \in Kinds, Begin(c, kind)
      PROVE  ClientInv'
  BY <1>5, BeginGood
<1>6. CASE UNCHANGED vars
  BY <1>6, AllQuiet DEF vars
<1> QED
  BY <1>1, <1>2, <1>3, <1>4, <1>5, <1>6 DEF Next
----------------------------------------------------------------------------
(* Steps of the saves. *)

\* No save is begun, and none ends well.
Idles(c) == /\ Saved(c) => Saved(c)'
            /\ Saving(c)' => Saving(c) /\ client'[c] = client[c]

LEMMA IdlesQuiet ==
    ASSUME SnapInv, UNCHANGED saves, \A c \in Clients : Idles(c)
    PROVE  SnapInv'
<1>1. SnapShape'
  BY DEF SnapInv, SnapShape, saves
<1>2. \A f \in {snapshot', tmp'} : f = None \/ (f \in Clients /\ Saved(f)')
  BY DEF SnapInv, Idles, saves
<1>3. ASSUME ~mixed'
      PROVE  /\ snapshot' # None => data'[snapshot'].whole /\ snapshot' # tmp'
             /\ \A c \in Clients : Saving(c)' =>
                   /\ client'[c].old = tmp' /\ tmp' # None
                   /\ client'[c].pc = "renaming" => data'[tmp'].whole
                   /\ \A e \in Clients : Saving(e)' => e = c
  BY <1>3 DEF SnapInv, Idles, saves
<1> QED
  BY <1>1, <1>2, <1>3 DEF SnapInv

\* One command takes a step that has nothing to do with saving, or gives up.
LEMMA OneIdles ==
    ASSUME SnapInv, ClientShape, UNCHANGED saves, NEW c \in Clients, NEW new,
           client' = [client EXCEPT ![c] = new],
           new.pc \notin {"writing", "renaming"},
           client[c].pc \notin {"done", "failed"},
           Saving(c) => new.pc = "failed"
    PROVE  SnapInv'
<1>1. client'[c] = new /\ \A e \in Clients : e # c => client'[e] = client[e]
  BY DEF ClientShape
<1>2. \A e \in Clients : Idles(e)
  BY <1>1 DEF Idles, Saved, Saving
<1> QED
  BY <1>2, IdlesQuiet

LEMMA AllIdle ==
    ASSUME SnapInv, UNCHANGED saves, client' = client
    PROVE  SnapInv'
BY IdlesQuiet DEF Idles, Saved, Saving

\* A command that goes on to another place of its program.
LEMMA Turns ==
    ASSUME SnapInv, ClientShape, UNCHANGED saves, NEW c \in Clients, NEW pc,
           client' = [client EXCEPT ![c].pc = pc], pc \notin {"writing", "renaming"},
           client[c].pc \notin {"done", "failed"}, Saving(c) => pc = "failed"
    PROVE  SnapInv'
<1> PICK new : new = [client[c] EXCEPT !.pc = pc]
  OBVIOUS
<1>1. client' = [client EXCEPT ![c] = new] /\ new.pc = pc
  BY DEF ClientShape, ClientFields
<1> QED
  BY <1>1, OneIdles, Zenon

LEMMA UnheardIdles ==
    ASSUME SnapInv, ClientShape, UNCHANGED saves, NEW c \in Clients, NEW d,
           client[c].pc \in Answering, client' = [client EXCEPT ![c] = Unheard(c, d)]
    PROVE  SnapInv'
<1> PICK new : new = Unheard(c, d)
  OBVIOUS
<1>1. new.pc \in {"done", "files", "failed"}
  BY DEF Unheard, ClientShape, ClientFields
<1> QED
  BY <1>1, OneIdles DEF Saving, Answering

LEMMA OthersIdle ==
    ASSUME SnapInv, ClientShape, NEW c \in Clients,
           \/ ClientConnects(c) \/ Dropped(c) \/ KillAnswered(c) \/ KillEnds(c) \/ Waited(c)
           \/ RestoreAnswered(c) \/ McpRestored(c) \/ Restore(c) \/ SnapLost(c)
           \/ \E kind \in Kinds : Begin(c, kind)
    PROVE  SnapInv'
<1>0. DOMAIN client[c] = ClientFields
  BY DEF ClientShape
<1>6. CASE Dropped(c)
  <2>1. /\ UNCHANGED saves /\ client[c].pc \in Answering
        /\ client' = [client EXCEPT ![c] = Unheard(c, client[c].conn)]
    BY <1>6 DEF Dropped, Answering
  <2> QED
    BY <2>1, UnheardIdles, Zenon
<1>1. CASE KillEnds(c) \/ RestoreAnswered(c) \/ McpRestored(c) \/ Restore(c) \/ SnapLost(c)
  <2>1. PICK pc : /\ client' = [client EXCEPT ![c].pc = pc] /\ pc \notin {"writing", "renaming"}
                  /\ client[c].pc \in {"connected", "closed", "mcp"} \/ (Saving(c) /\ pc = "failed")
    BY <1>1, SMTT(20) DEF KillEnds, RestoreAnswered, McpRestored, Restore, SnapLost, Saving
  <2>2. UNCHANGED saves
    BY <1>1 DEF KillEnds, RestoreAnswered, McpRestored, Restore, SnapLost
  <2> QED
    BY <2>1, <2>2, Turns DEF Saving
<1>2. ASSUME NEW kind \in Kinds, Begin(c, kind)
      PROVE  SnapInv'
  <2> PICK new : new = [Idle EXCEPT !.kind = kind, !.pc = "connect"]
    OBVIOUS
  <2>1. /\ client' = [client EXCEPT ![c] = new] /\ new.pc = "connect" /\ client[c].pc = "idle"
        /\ UNCHANGED saves
    BY <1>2 DEF Begin, Idle
  <2> QED
    BY <2>1, OneIdles DEF Saving
<1>3. CASE ClientConnects(c)
  <2>1. /\ UNCHANGED saves /\ client[c].pc = "connect"
        /\ \/ client' = [client EXCEPT ![c] = Unheard(c, pidFile)]
           \/ \E d : client' = [client EXCEPT ![c].conn = d, ![c].pc = "connected"]
    BY <1>3 DEF ClientConnects, Connect
  <2>2. CASE client' = [client EXCEPT ![c] = Unheard(c, pidFile)]
    <3>1. UNCHANGED saves /\ client[c].pc \in Answering
      BY <2>1 DEF Answering
    <3> QED
      BY <2>2, <3>1, UnheardIdles, Zenon
  <2>3. ASSUME NEW d, client' = [client EXCEPT ![c].conn = d, ![c].pc = "connected"]
        PROVE  SnapInv'
    <3> PICK new : new = [client[c] EXCEPT !.conn = d, !.pc = "connected"]
      OBVIOUS
    <3>1. client' = [client EXCEPT ![c] = new] /\ new.pc = "connected"
      BY <1>0, <2>3 DEF ClientFields
    <3> QED
      BY <2>1, <3>1, OneIdles DEF Saving
  <2> QED
    BY <2>1, <2>2, <2>3
<1>4. CASE KillAnswered(c)
  <2> PICK d : d = client[c].conn
    OBVIOUS
  <2> PICK new : new = [client[c] EXCEPT !.old = d, !.had = Configs(d), !.mcp = daemon[d].mcp,
                           !.key = daemon[d].key,
                           !.pc = IF client[c].kind = "reload" THEN "files" ELSE "closed"]
    OBVIOUS
  <2>1. /\ client' = [client EXCEPT ![c] = new] /\ new.pc \in {"files", "closed"}
        /\ client[c].pc = "connected" /\ UNCHANGED saves
    BY <1>0, <1>4, Zenon DEF KillAnswered, ClientFields
  <2> QED
    BY <2>1, OneIdles DEF Saving
<1>5. CASE Waited(c)
  <2>1. PICK pc \in {"files", "connect"} :
           \/ client' = [client EXCEPT ![c].pc = pc]
           \/ client' = [client EXCEPT ![c].pc = pc, ![c].late = TRUE]
    BY <1>5 DEF Waited
  <2>2. UNCHANGED saves /\ client[c].pc \in {"dead", "files"}
    BY <1>5 DEF Waited
  <2>3. CASE client' = [client EXCEPT ![c].pc = pc]
    BY <2>2, <2>3, Turns DEF Saving
  <2>4. CASE client' = [client EXCEPT ![c].pc = pc, ![c].late = TRUE]
    <3> PICK new : new = [client[c] EXCEPT !.pc = pc, !.late = TRUE]
      OBVIOUS
    <3>1. client' = [client EXCEPT ![c] = new] /\ new.pc = pc
      BY <1>0, <2>4 DEF ClientFields
    <3> QED
      BY <2>2, <3>1, OneIdles DEF Saving
  <2> QED
    BY <2>1, <2>3, <2>4
<1> QED
  BY <1>1, <1>2, <1>3, <1>4, <1>5, <1>6

LEMMA CrashIdles ==
    ASSUME SnapInv, ClientShape, NEW d \in Daemons, Crash(d)
    PROVE  SnapInv'
<1>1. UNCHANGED saves
  BY DEF Crash
<1>2. CASE client' = client
  BY <1>1, <1>2, AllIdle
<1>3. ASSUME NEW c \in Clients, client[c].pc = "idle",
             client' = [client EXCEPT ![c] =
                          [Idle EXCEPT !.kind = "recovery", !.pc = "dead", !.old = d,
                               !.had = Configs(d), !.mcp = daemon[d].mcp, !.key = daemon[d].key]]
      PROVE  SnapInv'
  <2> PICK new : new = [Idle EXCEPT !.kind = "recovery", !.pc = "dead", !.old = d,
                            !.had = Configs(d), !.mcp = daemon[d].mcp, !.key = daemon[d].key]
    OBVIOUS
  <2>1. client' = [client EXCEPT ![c] = new] /\ new.pc = "dead"
    BY <1>3 DEF Idle
  <2> QED
    BY <1>1, <1>3, <2>1, OneIdles DEF Saving
<1> QED
  BY <1>2, <1>3 DEF Crash

\* The temporary file is another one than the snapshot, unless two saves are under way.
LEMMA SnapBeginsKeeps ==
    ASSUME SnapInv, ClientShape, NEW c \in Clients, SnapBegins(c)
    PROVE  SnapInv'
<1>0. DOMAIN client[c] = ClientFields /\ client[c].pc = "connected" /\ snapshot' = snapshot
  BY DEF ClientShape, SnapBegins
<1> PICK file : file = Opened(c)
  OBVIOUS
<1> DEFINE new == [client[c] EXCEPT !.pc = "writing", !.old = file,
                      !.had = Configs(client[c].conn), !.mcp = daemon[client[c].conn].mcp]
<1>1. /\ client' = [client EXCEPT ![c] = new] /\ new.pc = "writing" /\ new.old = file
  BY <1>0 DEF ClientFields, SnapBegins
<1> HIDE DEF new
<1>2. client'[c] = new /\ \A e \in Clients : e # c => client'[e] = client[e]
  BY <1>1 DEF ClientShape
<1>3. ~Saved(c) /\ ~Saving(c)
  BY <1>0 DEF Saved, Saving
<1>4. file \in Clients /\ ((file = c /\ tmp = None) \/ (file = tmp /\ tmp # None))
  BY DEF SnapInv, Opened
<1>5. tmp' = file /\ data' = [data EXCEPT ![file] = Part] /\ file # None
  BY <1>4, HandoverAssumption DEF SnapBegins
<1>6. mixed' = (mixed \/ \E e \in Clients : Saving(e))
  BY DEF SnapBegins, Saving
<1>7. SnapShape'
  BY <1>4, <1>5, <1>6 DEF SnapInv, SnapShape, Part, FileFields
<1>8. \A f \in {snapshot', tmp'} : f = None \/ (f \in Clients /\ Saved(f)')
  BY <1>0, <1>1, <1>2, <1>4, <1>5 DEF SnapInv, Saved
<1>9. ASSUME ~mixed'
      PROVE  /\ snapshot' # None => data'[snapshot'].whole /\ snapshot' # tmp'
             /\ \A e \in Clients : Saving(e)' =>
                   /\ client'[e].old = tmp' /\ tmp' # None
                   /\ client'[e].pc = "renaming" => data'[tmp'].whole
                   /\ \A e2 \in Clients : Saving(e2)' => e2 = e
  <2>1. ~mixed /\ \A e \in Clients : ~Saving(e)
    BY <1>6, <1>9
  <2>2. snapshot # None => snapshot \in Clients /\ snapshot # file /\ data[snapshot].whole
    BY <1>3, <1>4, <2>1 DEF SnapInv
  <2>3. snapshot # None => data'[snapshot].whole
    BY <1>5, <2>2 DEF SnapInv, SnapShape
  <2>4. \A e \in Clients : Saving(e)' => e = c
    BY <1>2, <2>1 DEF Saving
  <2> QED
    BY <1>0, <1>1, <1>2, <1>5, <2>2, <2>3, <2>4
<1> QED
  BY <1>7, <1>8, <1>9 DEF SnapInv

LEMMA SnapWrittenKeeps ==
    ASSUME SnapInv, ClientShape, NEW c \in Clients, SnapWritten(c)
    PROVE  SnapInv'
<1>0. DOMAIN client[c] = ClientFields /\ Saving(c) /\ UNCHANGED <<snapshot, tmp, mixed>>
  BY DEF ClientShape, SnapWritten, Saving
<1> DEFINE new  == [client[c] EXCEPT !.pc = "renaming"]
           full == [whole |-> TRUE, had |-> client[c].had, mcp |-> client[c].mcp]
<1>1. /\ client' = [client EXCEPT ![c] = new] /\ new.pc = "renaming" /\ new.old = client[c].old
      /\ data' = [data EXCEPT ![new.old] = full] /\ full.whole /\ DOMAIN full = FileFields
  BY <1>0 DEF ClientFields, SnapWritten, FileFields
<1> HIDE DEF new, full
<1>2. client'[c] = new /\ \A e \in Clients : e # c => client'[e] = client[e]
  BY <1>1 DEF ClientShape
<1>3. \A e \in Clients : (Saved(e) => Saved(e)') /\ (Saving(e)' => Saving(e))
  BY <1>0, <1>1, <1>2 DEF Saved, Saving
<1>4. SnapShape'
  BY <1>0, <1>1 DEF SnapInv, SnapShape
<1>5. \A f \in {snapshot', tmp'} : f = None \/ (f \in Clients /\ Saved(f)')
  BY <1>0, <1>3 DEF SnapInv
<1>6. ASSUME ~mixed'
      PROVE  /\ snapshot' # None => data'[snapshot'].whole /\ snapshot' # tmp'
             /\ \A e \in Clients : Saving(e)' =>
                   /\ client'[e].old = tmp' /\ tmp' # None
                   /\ client'[e].pc = "renaming" => data'[tmp'].whole
                   /\ \A e2 \in Clients : Saving(e2)' => e2 = e
  <2>1. /\ client[c].old = tmp /\ tmp # None /\ tmp \in Clients
        /\ \A e \in Clients : Saving(e) => e = c
    BY <1>0, <1>6 DEF SnapInv
  <2>2. /\ data'[tmp] = full /\ \A f \in Clients : f # tmp => data'[f] = data[f]
    BY <1>1, <2>1 DEF SnapInv, SnapShape
  <2>3. snapshot # None => snapshot \in Clients /\ snapshot # tmp /\ data[snapshot].whole
    BY <1>0, <1>6 DEF SnapInv
  <2>4. snapshot # None => data'[snapshot].whole
    BY <2>2, <2>3
  <2> QED
    BY <1>0, <1>1, <1>2, <1>3, <2>1, <2>2, <2>3, <2>4
<1> QED
  BY <1>4, <1>5, <1>6 DEF SnapInv

LEMMA SnapRenamedKeeps ==
    ASSUME SnapInv, ClientShape, NEW c \in Clients, SnapRenamed(c)
    PROVE  SnapInv'
<1>0. /\ DOMAIN client[c] = ClientFields /\ Saving(c) /\ UNCHANGED <<data, mixed>>
      /\ client[c].pc = "renaming"
  BY DEF ClientShape, SnapRenamed, Saving
<1>1. PICK pc \in {"failed", "done"} :
         /\ client' = [client EXCEPT ![c].pc = pc]
         /\ IF tmp = None THEN UNCHANGED <<snapshot, tmp>> ELSE snapshot' = tmp /\ tmp' = None
  BY DEF SnapRenamed
<1> DEFINE new == [client[c] EXCEPT !.pc = pc]
<1>2. client' = [client EXCEPT ![c] = new] /\ new.pc = pc
  BY <1>0, <1>1 DEF ClientFields
<1> HIDE DEF new
<1>3. client'[c] = new /\ \A e \in Clients : e # c => client'[e] = client[e]
  BY <1>2 DEF ClientShape
<1>4. \A e \in Clients : (Saved(e) => Saved(e)') /\ (Saving(e)' => Saving(e) /\ e # c)
  BY <1>1, <1>2, <1>3 DEF Saved, Saving
<1>5. SnapShape'
  BY <1>0 DEF SnapInv, SnapShape
<1>6. \A f \in {snapshot', tmp'} : f = None \/ (f \in Clients /\ Saved(f)')
  BY <1>1, <1>4 DEF SnapInv
<1>7. ASSUME ~mixed'
      PROVE  /\ snapshot' # None => data'[snapshot'].whole /\ snapshot' # tmp'
             /\ \A e \in Clients : Saving(e)' =>
                   /\ client'[e].old = tmp' /\ tmp' # None
                   /\ client'[e].pc = "renaming" => data'[tmp'].whole
                   /\ \A e2 \in Clients : Saving(e2)' => e2 = e
  <2>1. /\ tmp # None /\ data[tmp].whole /\ \A e \in Clients : Saving(e) => e = c
    BY <1>0, <1>7 DEF SnapInv
  <2> QED
    BY <1>0, <1>1, <1>4, <2>1
<1> QED
  BY <1>5, <1>6, <1>7 DEF SnapInv

LEMMA SavesKept ==
    ASSUME ClientShape, SnapInv, [Next]_vars
    PROVE  SnapInv'
<1>1. ASSUME NEW d \in Daemons, DaemonStep(d) \/ Signal(d) \/ Stable(d)
      PROVE  SnapInv'
  BY <1>1, AllIdle DEF DaemonStep, McpDown, TelemetryDown, ProcessStops, Finish, Close, StopTimer,
     ForceTimer, Signal, Stable
<1>2. ASSUME NEW d \in Daemons,
             \/ \E n \in Names : Up(d, n)
             \/ Configure(d) \/ McpStop(d)
             \/ \E o \in Opts : McpStart(d, o)
             \/ \E enabled \in BOOLEAN : ConfigUpdated(d, enabled)
      PROVE  SnapInv'
  BY <1>2, AllIdle DEF Up, Configure, McpStop, McpStart, ConfigUpdated, Change
<1>3. ASSUME NEW d \in Daemons, Crash(d)
      PROVE  SnapInv'
  BY <1>3, CrashIdles
<1>4. ASSUME NEW c \in Clients, ClientStep(c) \/ \E kind \in Kinds : Begin(c, kind)
      PROVE  SnapInv'
  BY <1>4, OthersIdle, SnapBeginsKeeps, SnapWrittenKeeps, SnapRenamedKeeps DEF ClientStep
<1>5. CASE UNCHANGED vars
  BY <1>5, AllIdle DEF vars
<1> QED
  BY <1>1, <1>2, <1>3, <1>4, <1>5 DEF Next
----------------------------------------------------------------------------
LEMMA InitHandover ==
    ASSUME Init
    PROVE  HandoverInv
<1>1. PICK key \in BOOLEAN :
         daemon = [d \in Daemons |-> IF d = 1 THEN [Unborn EXCEPT !.phase = "up", !.key = key]
                                              ELSE Unborn]
  BY DEF Init
<1>2. /\ pidFile = 1 /\ socket = 1 /\ kids = {} /\ client = [c \in Clients |-> Idle]
      /\ snapshot = None /\ tmp = None /\ data = [c \in Clients |-> Part] /\ mixed = FALSE
  BY DEF Init
<1> DEFINE first == [Unborn EXCEPT !.phase = "up", !.key = key]
<1>3. /\ DOMAIN first = DaemonFields /\ first.phase = "up" /\ first.skip = FALSE
      /\ DOMAIN Unborn = DaemonFields /\ Unborn.phase = "unborn" /\ Unborn.skip = FALSE
  BY DEF Unborn, DaemonFields
<1>4. /\ DOMAIN daemon = Daemons
      /\ \A d \in Daemons : daemon[d] = IF d = 1 THEN first ELSE Unborn
  BY <1>1
<1> HIDE DEF first
<1>5. 1 \in Daemons
  BY HandoverAssumption DEF Daemons
<1>6. DaemonInv
  <2>1. DaemonShape
    BY <1>2, <1>3, <1>4, <1>5 DEF DaemonShape, Phases
  <2>2. Skipped /\ Owners
    BY <1>2, <1>3, <1>4 DEF Skipped, Owners, Owns
  <2>3. Ended /\ Emptied
    BY <1>3, <1>4 DEF Ended, Emptied, Over
  <2> QED
    BY <2>1, <2>2, <2>3 DEF DaemonInv
<1>7. ClientInv
  <2>1. /\ DOMAIN Idle = ClientFields /\ Idle.pc = "idle" /\ Idle.kind = "none" /\ Idle.late = FALSE
        /\ Idle.had = {}
    BY DEF Idle, ClientFields
  <2>2. DOMAIN client = Clients /\ \A c \in Clients : client[c] = Idle
    BY <1>2
  <2>3. ASSUME NEW c \in Clients
        PROVE  Good(c)
    BY <2>1, <2>2 DEF Good, Kill, Fresh, Follows, TakesOver, Answering
  <2> QED
    BY <2>1, <2>2, <2>3 DEF ClientInv, ClientShape
<1>8. SnapInv
  BY <1>2 DEF SnapInv, SnapShape, Part, FileFields, Saving, Idle
<1> QED
  BY <1>6, <1>7, <1>8 DEF HandoverInv

LEMMA StepHandover ==
    ASSUME HandoverInv, [Next]_vars
    PROVE  HandoverInv'
BY DaemonsFine, ClientsGood, SavesKept DEF HandoverInv, Fine, ClientInv

\* The invariant behind the next three: who has the files and who has ended, how far each
\* command is with its predecessor, and which file is whole.
THEOREM HandoverInvariant == Spec => []HandoverInv
<1>1. Init => HandoverInv
  BY InitHandover
<1>2. HandoverInv /\ [Next]_vars => HandoverInv'
  BY StepHandover
<1> QED
  BY <1>1, <1>2, PTL DEF Spec

\* `orkify kill` that reports success has waited for a daemon that stopped all it was
\* running and whose files are gone (kill.ts:15-22, 30-32), unless a second shutdown overtook it.
THEOREM KillIsTrue == Spec => []KilledIsGone
<1>1. HandoverInv => KilledIsGone
  <2> SUFFICES ASSUME HandoverInv, NEW c \in Clients,
                      client[c].kind \in {"kill", "force"}, client[c].pc = "done",
                      client[c].old \notin overtaken
               PROVE  /\ daemon[client[c].old].taken \cap Running(client[c].old) = {}
                      /\ pidFile # client[c].old /\ socket # client[c].old
    BY DEF KilledIsGone
  <2>1. Kill(c) /\ Follows(c) /\ Ended
    BY DEF HandoverInv, ClientInv, Good, DaemonInv
  <2>2. client[c].old \in Daemons /\ daemon[client[c].old].phase \in Over
    BY <2>1 DEF Kill, Follows
  <2> QED
    BY <2>1, <2>2 DEF Ended
<1> QED
  BY <1>1, HandoverInvariant, PTL

\* A daemon that is up can be found by its files (startDaemon.ts:803-808), and the snapshot a
\* restore would read is whole (StateStore.ts:31), with the exceptions the properties name.
THEOREM FilesAreSound == Spec => []FilesSound
<1>1. HandoverInv => FilesSound
  BY DEF HandoverInv, DaemonInv, SnapInv, FilesSound, Findable, Owners, Owns, SnapshotWhole
<1> QED
  BY <1>1, HandoverInvariant, PTL

\* Only two steps end a connected command well that is not a kill.
LEMMA Reports ==
    ASSUME ClientShape, [Next]_vars, NEW c \in Clients,
           client[c].pc = "connected", client'[c].pc \in {"mcp", "done"}
    PROVE  RestoreAnswered(c) \/ Restore(c) \/ client[c].kind \in {"kill", "force"}
<1>0. DOMAIN client = Clients /\ DOMAIN client[c] = ClientFields
  BY DEF ClientShape
<1>1. client' # client
  OBVIOUS
<1>2. ASSUME NEW d \in Daemons, DaemonStep(d) \/ Signal(d) \/ Stable(d)
      PROVE  FALSE
  BY <1>1, <1>2 DEF DaemonStep, McpDown, TelemetryDown, ProcessStops, Finish, Close, StopTimer,
     ForceTimer, Signal, Stable
<1>3. ASSUME NEW d \in Daemons,
             \/ \E n \in Names : Up(d, n)
             \/ Configure(d) \/ McpStop(d)
             \/ \E o \in Opts : McpStart(d, o)
             \/ \E enabled \in BOOLEAN : ConfigUpdated(d, enabled)
      PROVE  FALSE
  BY <1>1, <1>3 DEF Up, Configure, McpStop, McpStart, ConfigUpdated, Change
<1>4. ASSUME NEW d \in Daemons, Crash(d)
      PROVE  FALSE
  <2>1. \E e \in Clients : client[e].pc = "idle" /\ \E new : client' = [client EXCEPT ![e] = new]
    BY <1>1, <1>4 DEF Crash
  <2> QED
    BY <1>0, <2>1
<1>5. ASSUME NEW e \in Clients, e # c, ClientStep(e) \/ \E kind \in Kinds : Begin(e, kind)
      PROVE  FALSE
  <2>1. client'[c] = client[c]
    BY <1>0, <1>5, Zenon DEF ClientStep, Begin, ClientConnects, Connect, Dropped, KillAnswered, KillEnds,
       Waited, RestoreAnswered, McpRestored, SnapBegins, SnapWritten, SnapRenamed, SnapLost, Restore
  <2> QED
    BY <2>1
<1>6. ASSUME \E kind \in Kinds : Begin(c, kind)
      PROVE  FALSE
  BY <1>6 DEF Begin
<1>7. ASSUME \/ ClientConnects(c) \/ KillEnds(c) \/ Waited(c) \/ McpRestored(c)
             \/ SnapWritten(c) \/ SnapRenamed(c) \/ SnapLost(c)
      PROVE  FALSE
  BY <1>7 DEF ClientConnects, KillEnds, Waited, McpRestored, SnapWritten, SnapRenamed, SnapLost
<1>8. ASSUME Dropped(c) \/ KillAnswered(c) \/ SnapBegins(c)
      PROVE  Dropped(c) /\ client[c].kind \in {"kill", "force"}
  <2>1. CASE Dropped(c)
    BY <1>0, <2>1 DEF Dropped, Unheard, ClientFields
  <2>2. CASE KillAnswered(c)
    BY <1>0, <2>2 DEF KillAnswered, ClientFields
  <2>3. CASE SnapBegins(c)
    BY <1>0, <2>3 DEF SnapBegins, ClientFields
  <2> QED
    BY <1>8, <2>1, <2>2, <2>3
<1>9. ~(UNCHANGED vars)
  BY <1>1 DEF vars
<1> QED
  BY <1>2, <1>3, <1>4, <1>5, <1>6, <1>7, <1>8, <1>9 DEF Next, ClientStep

\* A restore is answered by a daemon that took over: another one than the predecessor, which
\* runs none of the processes any more (restoreDaemon.ts:7), with the exceptions the property
\* names.
THEOREM TakenOver == Spec => Handover
<1> DEFINE Answered(c) ==
        /\ client[c].pc = "connected" /\ client'[c].pc \in {"mcp", "done"}
        /\ ~client[c].late /\ overtaken = {}
        /\ client[c].kind = "reload" => ~daemon[client[c].old].skip
<1>1. ASSUME HandoverInv, [Next]_vars, NEW c \in Clients, Answered(c)
      PROVE  /\ client[c].conn # client[c].old
             /\ \A n \in client[c].had : <<client[c].old, n>> \notin kids'
  <2>0. /\ ClientShape /\ Fresh(c) /\ Follows(c) /\ TakesOver(c) /\ Ended /\ Emptied
        /\ client[c].pc = "connected" /\ client[c].had \subseteq Names
    BY <1>1 DEF HandoverInv, ClientInv, ClientShape, Good, DaemonInv
  <2>1. RestoreAnswered(c) \/ Restore(c) \/ client[c].kind \in {"kill", "force"}
    BY <1>1, <2>0, Reports
  <2>2. CASE client[c].kind \notin {"reload", "recovery"}
    <3>1. client[c].old = None /\ client[c].had = {} /\ client[c].conn \in Daemons
      BY <2>0, <2>2 DEF Fresh, Follows, Answering
    <3> QED
      BY <3>1, NoneIsNoDaemon
  <2>3. CASE client[c].kind \in {"reload", "recovery"}
    <3>1. RestoreAnswered(c)
      BY <2>1, <2>3 DEF Restore
    <3>2. client[c].old # None /\ InTime(c)
      BY <1>1, <3>1 DEF RestoreAnswered, InTime
    <3>3. PICK old \in Daemons : old = client[c].old
      BY <2>0, <2>3, <3>2 DEF Follows
    <3>4. daemon[old].phase \in Over /\ client[c].conn # old
      BY <2>0, <2>3, <3>2, <3>3 DEF TakesOver, Answering
    <3>5. Running(old) = {}
      BY <1>1, <2>0, <3>4 DEF Ended, Emptied, Over
    <3>6. kids' = kids \cup {<<client[c].conn, n>> : n \in client[c].had \ Known(client[c].conn)}
      BY <3>1 DEF RestoreAnswered
    <3>7. ASSUME NEW n \in client[c].had
          PROVE  <<old, n>> \notin kids'
      <4>1. <<old, n>> \notin kids
        BY <2>0, <3>5 DEF Running
      <4> QED
        BY <3>4, <3>6, <4>1
    <3> QED
      BY <3>3, <3>4, <3>7
  <2> QED
    BY <2>2, <2>3
<1>2. HandoverInv /\ [Next]_vars => [\A c \in Clients : Answered(c) =>
         /\ client[c].conn # client[c].old
         /\ \A n \in client[c].had : <<client[c].old, n>> \notin kids']_vars
  BY <1>1
<1> QED
  BY <1>2, HandoverInvariant, PTL DEF Spec, Handover
=============================================================================
