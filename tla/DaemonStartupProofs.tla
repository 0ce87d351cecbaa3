--------------------------- MODULE DaemonStartupProofs ---------------------------
(***************************************************************************)
(* What holds of commands and daemons that meet at the lock, the PID file  *)
(* and the socket, for every number of them, whatever earlier processes    *)
(* left at these paths and however often commands follow one another.      *)
(*                                                                         *)
(* The argument: an exclusion holds because whoever is in the section is   *)
(* the process the file belongs to.  That is lost when a takeover removes  *)
(* the file of a live process, so each part says so (misjudged).           *)
(***************************************************************************)
EXTENDS DaemonStartup, FiniteSetTheorems, TLAPS

\* The file at path p is the one process me created.
Held(p, me) == path[p] # Absent /\ Holder(p) = me

\* From the lock's creation to its release a command holds the lock ...
LockHeld == "lock" \notin misjudged => \A c \in Starting : Held("lock", c)

\* ... and a daemon its PID file, which is complete before it reaches for the socket.
PidHolder == {d \in Cli : daemon[d] \in {"write", "clear", "bind", "serving", "unpid"}}
PidHeld == "pid" \notin misjudged => \A d \in PidHolder : Held("pid", d)

PidOwned ==
    \A d \in Cli : Held("pid", d) =>
        /\ d \in PidHolder \/ daemon[d] = "killed"
        /\ daemon[d] \in {"clear", "bind", "serving"} => path["pid"].written

\* The socket is out of the way of the one daemon about to bind, and stays with it until
\* it removes it, if no other daemon that is slow to stop does.
SocketKept ==
    misjudged = {} =>
        \A d \in Cli :
            /\ daemon[d] = "bind" => path["socket"] = Absent
            /\ ~evicted /\ daemon[d] \in {"serving", "unpid"} => Held("socket", d)

\* While nothing stops or crashes a daemon that listens goes on listening, so that a
\* socket that was seen is there when it is connected to.
Quiet ==
    /\ \A d \in Cli : daemon[d] \notin {"unpid", "unsocket", "closing", "killed"}
    /\ path["socket"] # Absent => Holder("socket") \in Serving
    /\ \A c \in Cli : cli[c] \in {"look", "settle", "connect"} => path["socket"] # Absent
    /\ refused = {}

QuietUntilSetback == stops = 0 /\ crashes = 0 /\ misjudged = {} => Quiet

\* A command that has not spawned a daemon has none.
Unspawned ==
    \A c \in Cli :
        cli[c] \in {"idle", "look", "lock", "write", "judge", "takeover", "relock", "spawn"}
        => daemon[c] = "none"

StartupInv ==
    /\ TypeOK /\ Unspawned
    /\ LockHeld /\ PidHeld /\ PidOwned /\ SocketKept /\ QuietUntilSetback
----------------------------------------------------------------------------
(* What a system call does to its path, and that it leaves the others alone. *)

Files == [Paths -> File \cup {Absent}]
Elsewhere(p) == \A q \in Paths \ {p} : path'[q] = path[q]

LEMMA CreateDoes ==
    ASSUME path \in Files, NEW p \in Paths, NEW me \in Cli, Create(p, me)
    PROVE  path' \in Files /\ Held(p, me)' /\ Elsewhere(p)
<1> DEFINE f == [by |-> me, written |-> FALSE]
<1>1. f \in File /\ f.by = me
  BY DEF File
<1>2. f # Absent
  BY <1>1, StartupAssumption
<1> HIDE DEF f
<1>3. path' = [path EXCEPT ![p] = f]
  BY DEF Create, f
<1> QED
  BY <1>1, <1>2, <1>3 DEF Files, Held, Holder, Elsewhere

LEMMA UnlinkDoes ==
    ASSUME path \in Files, NEW p \in Paths, Unlink(p)
    PROVE  path' \in Files /\ path'[p] = Absent /\ Elsewhere(p)
BY DEF Files, Unlink, Elsewhere

LEMMA WriteDoes ==
    ASSUME path \in Files, NEW p \in Paths, NEW me \in Cli, WritePid(p, me)
    PROVE  /\ path' \in Files /\ Elsewhere(p)
           /\ \A c \in Cli : Held(p, c)' <=> Held(p, c)
           /\ Held(p, me) => path'[p].written
<1>1. CASE Held(p, me)
  <2>1. path[p] \in File /\ path[p].by = me
    BY <1>1 DEF Held, Holder, Files
  <2>2. path' = [path EXCEPT ![p] = [path[p] EXCEPT !.written = TRUE]]
    BY <1>1 DEF WritePid, Held
  <2>3. path'[p] \in File /\ path'[p].by = me /\ path'[p].written
    BY <2>1, <2>2 DEF Files, File
  <2>4. path' \in Files /\ Elsewhere(p)
    BY <2>2, <2>3 DEF Files, Elsewhere
  <2> QED
    BY <1>1, <2>1, <2>3, <2>4, StartupAssumption DEF Held, Holder
<1>2. CASE ~Held(p, me)
  BY <1>2 DEF WritePid, Held, Holder, Elsewhere
<1> QED
  BY <1>1, <1>2

----------------------------------------------------------------------------
(* Init. *)

LEMMA InitStartup == Init => StartupInv
<1> SUFFICES ASSUME Init PROVE StartupInv
  OBVIOUS
<1>0. Stale \in File /\ Stale.by = Nobody /\ Stale # Absent /\ Nobody \notin Cli
  <2>1. Stale \in File /\ Stale.by = Nobody
    BY DEF Stale, File
  <2> QED
    BY <2>1, StartupAssumption
<1>1. PICK left \in Leftovers :
          /\ path = [p \in Paths |-> IF p \in left THEN Stale ELSE Absent]
          /\ crashes = IF left = {} THEN 0 ELSE 1
  BY DEF Init
<1>2. path \in Files /\ \A p \in Paths : path[p] # Absent => path[p].by = Nobody
  BY <1>0, <1>1 DEF Files
<1>3. crashes = 0 => path["socket"] = Absent
  BY <1>1 DEF Paths
<1>4. crashes \in 0..MaxSetbacks + 1
  BY <1>1, StartupAssumption
<1>5. TypeOK
  <2>1. /\ again = 0 /\ stops = 0 /\ timeouts = 0 /\ closes = {}
        /\ misjudged = {} /\ evicted = FALSE /\ refused = {}
    BY DEF Init
  <2>2. 0 \in 0..MaxAgain /\ 0 \in 0..MaxSetbacks + 1
    BY StartupAssumption
  <2>3. cli \in [Cli -> CliPc] /\ daemon \in [Cli -> DaemonPc]
    BY DEF Init, CliPc, DaemonPc
  <2> QED
    BY <1>2, <1>4, <2>1, <2>2, <2>3 DEF TypeOK, Files
<1>6. \A d \in Cli, p \in Paths : ~Held(p, d)
  BY <1>0, <1>2 DEF Held, Holder
<1>7. \A c \in Cli : cli[c] = "idle" /\ daemon[c] = "none"
  BY DEF Init
<1>8. QuietUntilSetback
  BY <1>3, <1>7 DEF Init, QuietUntilSetback, Quiet
<1> QED
  BY <1>5, <1>6, <1>7, <1>8 DEF Init, StartupInv, Unspawned, LockHeld, Starting, PidHeld,
     PidHolder, PidOwned, SocketKept, Paths

----------------------------------------------------------------------------
(* Steps of a command.  They touch no file but the lock, so that what is known of the  *)
(* daemons stays; SpawnDaemon() is the exception.                                      *)

LEMMA LockOnly ==
    ASSUME StartupInv, path' \in Files, Elsewhere("lock"), UNCHANGED <<daemon, evicted>>,
           misjudged \subseteq misjudged'
    PROVE  PidHeld' /\ PidOwned' /\ SocketKept'
<1>1. path'["pid"] = path["pid"] /\ path'["socket"] = path["socket"]
  BY DEF Elsewhere, Paths
<1>2. \A d \in Cli : (Held("pid", d)' <=> Held("pid", d)) /\ (Held("socket", d)' <=> Held("socket", d))
  BY <1>1 DEF Held, Holder
<1>3. PidHeld'
  BY <1>2 DEF StartupInv, PidHeld, PidHolder
<1>4. PidOwned'
  BY <1>1, <1>2 DEF StartupInv, PidOwned, PidHolder
<1>5. SocketKept'
  BY <1>1, <1>2 DEF StartupInv, SocketKept
<1> QED
  BY <1>3, <1>4, <1>5

\* Commands that neither take nor give back the lock.
LEMMA CliMoves ==
    ASSUME StartupInv, NEW c \in Cli, NEW from, NEW to \in CliPc, CliGoes(c, from, to),
           path' \in Files, Elsewhere("lock"), UNCHANGED <<daemon, closes, counts, evicted>>,
           misjudged \subseteq misjudged', misjudged' \subseteq Paths, refused' \subseteq Cli,
           refused' = refused \/ stops # 0 \/ crashes # 0 \/ misjudged # {},
           to # "idle",
           to \in {"look", "lock", "write", "judge", "takeover", "relock", "spawn"}
              => from \in {"idle", "look", "lock", "write", "judge", "takeover", "relock"},
           to \in {"look", "settle", "connect"} /\ Quiet => path["socket"] # Absent,
           LockHeld'
    PROVE  StartupInv'
<1>1. TypeOK'
  BY DEF StartupInv, TypeOK, Files, CliGoes, counts
<1>2. Unspawned'
  BY DEF StartupInv, TypeOK, Unspawned, CliGoes
<1>3. QuietUntilSetback'
  <2> SUFFICES ASSUME stops' = 0, crashes' = 0, misjudged' = {} PROVE Quiet'
    BY DEF QuietUntilSetback
  <2>1. Quiet /\ refused' = refused
    BY DEF StartupInv, QuietUntilSetback, counts
  <2>2. path'["socket"] = path["socket"]
    BY DEF Elsewhere, Paths
  <2> QED
    BY <2>1, <2>2 DEF StartupInv, TypeOK, Quiet, CliGoes, Serving, Holder
<1> QED
  BY <1>1, <1>2, <1>3, LockOnly DEF StartupInv

\* The lock is its holder's: whoever else is in the section would hold it too.
LEMMA LockSame ==
    ASSUME StartupInv, NEW c \in Cli, NEW from, NEW to, CliGoes(c, from, to),
           misjudged \subseteq misjudged',
           \A b \in Cli : Held("lock", b) => Held("lock", b)',
           to \in {"write", "spawn", "await", "settle"}
              => from \in {"write", "spawn", "await", "settle"} \/ Held("lock", c)'
    PROVE  LockHeld'
BY DEF StartupInv, TypeOK, LockHeld, Starting, CliGoes

LEMMA LockTaken ==
    ASSUME StartupInv, NEW c \in Cli, NEW from, NEW to, CliGoes(c, from, to),
           misjudged \subseteq misjudged', "lock" \notin misjudged' => Starting \subseteq {c},
           Held("lock", c)' \/ to \notin {"write", "spawn", "await", "settle"}
    PROVE  LockHeld'
BY DEF StartupInv, TypeOK, LockHeld, Starting, CliGoes

LEMMA LookMoves ==
    ASSUME StartupInv, NEW c \in Cli,
           LookSocket(c) \/ LookPid(c) \/ JudgeLock(c) \/ SeesSocket(c) \/ Connect(c)
    PROVE  StartupInv'
<1> USE DEF CliOnly
<1>0. path \in Files /\ misjudged \subseteq Paths /\ refused \subseteq Cli
  BY DEF StartupInv, TypeOK, Files
<1>1. path' = path /\ misjudged' = misjudged /\ Elsewhere("lock")
  BY DEF LookSocket, LookPid, JudgeLock, SeesSocket, Connect, history, Elsewhere
<1>2. \A b \in Cli : Held("lock", b) => Held("lock", b)'
  BY <1>1 DEF Held, Holder
<1> USE <1>0, <1>1, <1>2
<1>3. CASE LookSocket(c)
  <2>1. PICK to \in {"lock", "look"} : /\ CliGoes(c, "idle", to)
                                       /\ to = "look" => path["socket"] # Absent
    BY <1>3 DEF LookSocket
  <2>2. LockHeld'
    BY <2>1, LockSame
  <2> QED
    BY <1>3, <2>1, <2>2, CliMoves DEF LookSocket, history, CliPc
<1>4. CASE LookPid(c)
  <2>1. PICK to \in {"connect", "lock"} : CliGoes(c, "look", to)
    BY <1>4 DEF LookPid
  <2>2. LockHeld'
    BY <2>1, LockSame
  <2>3. Quiet => path["socket"] # Absent
    BY <2>1 DEF Quiet, CliGoes
  <2> QED
    BY <1>4, <2>1, <2>2, <2>3, CliMoves DEF LookPid, history, CliPc
<1>5. CASE JudgeLock(c)
  <2>1. PICK to \in {"wait", "takeover"} : CliGoes(c, "judge", to)
    BY <1>5 DEF JudgeLock
  <2>2. LockHeld'
    BY <2>1, LockSame
  <2> QED
    BY <1>5, <2>1, <2>2, CliMoves DEF JudgeLock, history, CliPc
<1>6. CASE SeesSocket(c)
  <2>1. PICK from \in {"await", "wait"}, to \in {"settle", "connect"} :
            CliGoes(c, from, to) /\ (from = "wait" => to = "connect")
    BY <1>6 DEF SeesSocket
  <2>2. LockHeld'
    BY <2>1, LockSame
  <2> QED
    BY <1>6, <2>1, <2>2, CliMoves DEF SeesSocket, SocketSeen, history, CliPc
<1>7. CASE Connect(c)
  <2>1. PICK to \in {"connected", "failed"} : CliGoes(c, "connect", to)
    BY <1>7 DEF Connect
  <2>2. LockHeld'
    BY <2>1, LockSame
  <2>3. refused' \subseteq Cli /\ evicted' = evicted
    BY <1>7 DEF Connect
  <2>4. stops = 0 /\ crashes = 0 /\ misjudged = {} => refused' = refused
    <3> SUFFICES ASSUME Quiet PROVE refused' = refused
      BY DEF StartupInv, QuietUntilSetback
    <3>1. path["socket"] # Absent
      BY <2>1 DEF Quiet, CliGoes
    <3>2. Answered
      BY <3>1, StartupAssumption DEF Quiet, Answered, Serving, Listening
    <3> QED
      BY <1>7, <3>2 DEF Connect
  <2> QED
    BY <1>7, <2>1, <2>2, <2>3, <2>4, CliMoves DEF Connect, CliPc
<1> QED
  BY <1>3, <1>4, <1>5, <1>6, <1>7

LEMMA LockMoves ==
    ASSUME StartupInv, NEW c \in Cli, TryLock(c) \/ WriteLock(c) \/ Relock(c) \/ ReleaseLock(c)
    PROVE  StartupInv'
<1> USE DEF CliOnly
<1>0. /\ path \in Files /\ misjudged \subseteq Paths /\ refused \subseteq Cli /\ "lock" \in Paths
      /\ misjudged' = misjudged /\ refused' = refused /\ evicted' = evicted
      /\ UNCHANGED <<daemon, closes, counts>>
  BY DEF StartupInv, TypeOK, Files, Paths, TryLock, WriteLock, Relock, ReleaseLock, history
<1> USE <1>0
<1>1. ASSUME path["lock"] = Absent, Create("lock", c), NEW from \in {"lock", "relock"},
             CliGoes(c, from, "write")
      PROVE  StartupInv'
  <2>1. path' \in Files /\ Elsewhere("lock") /\ Held("lock", c)'
    BY <1>1, CreateDoes
  <2>2. "lock" \notin misjudged => Starting = {}
    BY <1>1 DEF StartupInv, LockHeld, Held
  <2>3. LockHeld'
    BY <1>1, <2>1, <2>2, LockTaken
  <2> QED
    BY <1>1, <2>1, <2>3, CliMoves DEF CliPc
<1>2. ASSUME UNCHANGED path, NEW from \in {"lock", "relock"}, NEW to \in {"judge", "wait"},
             CliGoes(c, from, to)
      PROVE  StartupInv'
  <2>1. path' \in Files /\ Elsewhere("lock") /\ \A b \in Cli : Held("lock", b) => Held("lock", b)'
    BY <1>2 DEF Elsewhere, Held, Holder
  <2>2. LockHeld'
    BY <1>2, <2>1, LockSame
  <2> QED
    BY <1>2, <2>1, <2>2, CliMoves DEF CliPc
<1>3. CASE WriteLock(c)
  <2>1. CliGoes(c, "write", "spawn") /\ WritePid("lock", c)
    BY <1>3 DEF WriteLock
  <2>2. path' \in Files /\ Elsewhere("lock") /\ \A b \in Cli : Held("lock", b) => Held("lock", b)'
    BY <2>1, WriteDoes
  <2>3. LockHeld'
    BY <2>1, <2>2, LockSame
  <2> QED
    BY <2>1, <2>2, <2>3, CliMoves DEF CliPc
<1>4. CASE ReleaseLock(c)
  <2>1. CliGoes(c, "settle", "connect") /\ Unlink("lock")
    BY <1>4 DEF ReleaseLock, Release
  <2>2. path' \in Files /\ Elsewhere("lock")
    BY <2>1, UnlinkDoes
  <2>3. "lock" \notin misjudged => Starting \subseteq {c}
    BY <2>1 DEF StartupInv, LockHeld, Held, Starting, CliGoes
  <2>4. LockHeld'
    BY <2>1, <2>3, LockTaken
  <2>5. Quiet => path["socket"] # Absent
    BY <2>1 DEF Quiet, CliGoes
  <2> QED
    BY <2>1, <2>2, <2>4, <2>5, CliMoves DEF CliPc
<1>5. CASE TryLock(c)
  BY <1>1, <1>2, <1>5 DEF TryLock
<1>6. CASE Relock(c)
  BY <1>1, <1>2, <1>6 DEF Relock
<1> QED
  BY <1>3, <1>4, <1>5, <1>6

LEMMA TakeOverLockMoves ==
    ASSUME StartupInv, NEW c \in Cli, TakeOverLock(c) PROVE StartupInv'
<1> USE DEF CliOnly
<1>0. /\ path \in Files /\ misjudged \subseteq Paths /\ refused \subseteq Cli /\ "lock" \in Paths
      /\ UNCHANGED <<daemon, closes, counts>>
  BY DEF StartupInv, TypeOK, Files, Paths, TakeOverLock
<1> USE <1>0
<1>1. CASE TakeOver("lock") /\ CliGoes(c, "takeover", "relock")
  <2>1. /\ path' \in Files /\ Elsewhere("lock") /\ evicted' = evicted /\ refused' = refused
        /\ misjudged \subseteq misjudged' /\ misjudged' \subseteq Paths
    BY <1>1, UnlinkDoes DEF TakeOver
  <2>2. ASSUME "lock" \notin misjudged', NEW b \in Starting PROVE FALSE
    <3>1. "lock" \notin misjudged /\ ~HolderAlive("lock")
      BY <1>1, <2>2 DEF TakeOver
    <3>2. Holder("lock") = b /\ b \in Cli /\ cli[b] # "dead"
      BY <2>2, <3>1 DEF StartupInv, LockHeld, Held, Starting
    <3> QED
      BY <3>1, <3>2, StartupAssumption DEF HolderAlive, CliAlive
  <2>3. LockHeld'
    BY <1>1, <2>1, <2>2, LockTaken
  <2> QED
    BY <1>1, <2>1, <2>3, CliMoves DEF CliPc
<1>2. CASE path["lock"] = Absent /\ UNCHANGED <<path, history>> /\ CliGoes(c, "takeover", "wait")
  <2>1. path' \in Files /\ Elsewhere("lock") /\ \A b \in Cli : Held("lock", b) => Held("lock", b)'
    BY <1>2 DEF Elsewhere, Held, Holder
  <2>2. LockHeld'
    BY <1>2, <2>1, LockSame DEF history
  <2> QED
    BY <1>2, <2>1, <2>2, CliMoves DEF CliPc, history
<1> QED
  BY <1>1, <1>2 DEF TakeOverLock

\* The daemon that comes into being is a new one: its command had none.
LEMMA SpawnMoves ==
    ASSUME StartupInv, NEW c \in Cli, SpawnDaemon(c) PROVE StartupInv'
<1>0. /\ CliGoes(c, "spawn", "await") /\ daemon[c] = "none" /\ daemon' = [daemon EXCEPT ![c] = "open"]
      /\ UNCHANGED <<path, closes, counts, history>>
  BY DEF SpawnDaemon, StartupInv, Unspawned, CliGoes
<1> USE <1>0
<1>1. \A b \in Cli, p \in Paths : Held(p, b)' <=> Held(p, b)
  BY DEF Held, Holder
<1>2. LockHeld'
  BY <1>1, LockSame DEF history, Paths
<1>3. TypeOK' /\ Unspawned'
  BY DEF StartupInv, TypeOK, Unspawned, CliGoes, CliPc, DaemonPc, counts, history
<1>4. PidHeld' /\ PidOwned' /\ SocketKept'
  BY <1>1 DEF StartupInv, TypeOK, PidHeld, PidHolder, PidOwned, SocketKept, history, Paths
<1>5. QuietUntilSetback'
  BY DEF StartupInv, TypeOK, QuietUntilSetback, Quiet, Serving, Holder, CliGoes, counts, history
<1> QED
  BY <1>2, <1>3, <1>4, <1>5 DEF StartupInv

LEMMA TimeoutMoves ==
    ASSUME StartupInv, NEW c \in Cli, StartTimeout(c) PROVE StartupInv'
<1>0. /\ path \in Files /\ "lock" \in Paths /\ misjudged' = misjudged /\ evicted' = evicted
      /\ UNCHANGED <<daemon, closes, again, stops, crashes, history>>
      /\ timeouts' = timeouts + 1 /\ MaySetBack
  BY DEF StartupInv, TypeOK, Files, Paths, StartTimeout, history
<1>1. PICK from \in {"await", "wait"} :
          /\ CliGoes(c, from, "failed")
          /\ (from = "await" /\ Unlink("lock")) \/ (from = "wait" /\ UNCHANGED path)
  <2>1. CASE CliGoes(c, "await", "failed") /\ Unlink("lock")
    BY <2>1, Zenon
  <2>2. CASE CliGoes(c, "wait", "failed") /\ UNCHANGED path
    BY <2>2, Zenon
  <2> QED
    BY <2>1, <2>2 DEF StartTimeout, Release, GiveUp
<1>2. path' \in Files /\ Elsewhere("lock")
  BY <1>0, <1>1, UnlinkDoes DEF Elsewhere
<1>3. LockHeld'
  <2>1. CASE from = "await" /\ Unlink("lock")
    <3>1. "lock" \notin misjudged => Starting \subseteq {c}
      BY <1>1, <2>1 DEF StartupInv, LockHeld, Held, Starting, CliGoes
    <3> QED
      BY <1>0, <1>1, <3>1, LockTaken
  <2>2. CASE UNCHANGED path
    <3>1. \A b \in Cli : Held("lock", b) => Held("lock", b)'
      BY <2>2 DEF Held, Holder
    <3> QED
      BY <1>0, <1>1, <3>1, LockSame
  <2> QED
    BY <1>1, <2>1, <2>2
<1>4. timeouts' \in 0..MaxSetbacks + 1
  BY <1>0, StartupAssumption DEF StartupInv, TypeOK, MaySetBack
<1>5. TypeOK'
  BY <1>0, <1>1, <1>2, <1>4 DEF StartupInv, TypeOK, Files, CliGoes, CliPc, history
<1>6. Unspawned'
  BY <1>0, <1>1 DEF StartupInv, TypeOK, Unspawned, CliGoes
<1>7. path'["socket"] = path["socket"]
  BY <1>2 DEF Elsewhere, Paths
<1>8. QuietUntilSetback'
  BY <1>0, <1>1, <1>7 DEF StartupInv, TypeOK, QuietUntilSetback, Quiet, Serving, Holder, CliGoes,
     history
<1> QED
  BY <1>0, <1>2, <1>3, <1>5, <1>6, <1>8, LockOnly DEF StartupInv

LEMMA CrashMoves ==
    ASSUME StartupInv, NEW c \in Cli, CliCrash(c) \/ DaemonCrash(c) PROVE StartupInv'
<1>0. /\ UNCHANGED <<path, closes, again, stops, timeouts, history>>
      /\ crashes' = crashes + 1 /\ MaySetBack
      /\ \/ cli' = [cli EXCEPT ![c] = "dead"] /\ daemon' = daemon
         \/ cli' = cli /\ daemon' = [daemon EXCEPT ![c] = "killed"] /\ DaemonAlive(c)
  BY DEF CliCrash, DaemonCrash, MayCrash
<1>1. crashes' \in 1..MaxSetbacks + 1
  BY <1>0, StartupAssumption DEF StartupInv, TypeOK, MaySetBack
<1>2. TypeOK'
  BY <1>0, <1>1 DEF StartupInv, TypeOK, CliPc, DaemonPc, history
<1>3. Unspawned'
  BY <1>0 DEF StartupInv, TypeOK, Unspawned, DaemonAlive
<1>4. \A b \in Cli, p \in Paths : Held(p, b)' <=> Held(p, b)
  BY <1>0 DEF Held, Holder
<1>5. LockHeld' /\ PidHeld' /\ PidOwned' /\ SocketKept'
  BY <1>0, <1>4 DEF StartupInv, TypeOK, LockHeld, Starting, PidHeld, PidHolder, PidOwned,
     SocketKept, history, Paths
<1>6. QuietUntilSetback'
  BY <1>1 DEF QuietUntilSetback
<1> QED
  BY <1>2, <1>3, <1>5, <1>6 DEF StartupInv

\* A command and its daemon are gone: nothing they own is needed by anyone.
LEMMA NextCommandMoves ==
    ASSUME StartupInv, NEW c \in Cli, NextCommand(c) PROVE StartupInv'
<1>0. /\ again < MaxAgain /\ again' = again + 1
      /\ cli[c] \in {"connected", "failed", "dead"} /\ daemon[c] \in {"none", "dead", "killed"}
      /\ cli' = [cli EXCEPT ![c] = "idle"] /\ daemon' = [daemon EXCEPT ![c] = "none"]
      /\ closes' = closes \ {c}
      /\ UNCHANGED <<stops, timeouts, crashes, history>>
  BY DEF NextCommand, DaemonAlive
<1>1. ASSUME NEW p \in Paths
      PROVE  /\ path'[p] \in File \cup {Absent}
             /\ path'[p] = Absent <=> path[p] = Absent
             /\ \A b \in Cli : Held(p, b)' <=> Held(p, b) /\ b # c
             /\ ~Held(p, c) => path'[p] = path[p]
  <2>1. path[p] \in File \cup {Absent}
    BY <1>1 DEF StartupInv, TypeOK
  <2>2. path'[p] = IF path[p] # Absent /\ path[p].by = c
                   THEN [path[p] EXCEPT !.by = Nobody] ELSE path[p]
    BY <1>1 DEF NextCommand, Holder
  <2>3. CASE path[p] # Absent /\ path[p].by = c
    <3>1. path'[p] \in File /\ path'[p].by = Nobody
      BY <2>1, <2>2, <2>3 DEF File
    <3> QED
      BY <2>3, <3>1, StartupAssumption DEF Held, Holder
  <2>4. CASE ~(path[p] # Absent /\ path[p].by = c)
    BY <2>1, <2>2, <2>4, StartupAssumption DEF Held, Holder
  <2> QED
    BY <2>3, <2>4
<1>2. path' \in Files
  <2>1. path' = [p \in Paths |-> path'[p]]
    BY DEF NextCommand
  <2> QED
    BY <1>1, <2>1 DEF Files
<1>3. TypeOK'
  BY <1>0, <1>2, StartupAssumption DEF StartupInv, TypeOK, Files, CliPc, DaemonPc, history
<1>4. Unspawned'
  BY <1>0 DEF StartupInv, TypeOK, Unspawned
<1>5. LockHeld' /\ PidHeld'
  BY <1>0, <1>1 DEF StartupInv, TypeOK, LockHeld, Starting, PidHeld, PidHolder, history, Paths
<1>6. PidOwned'
  BY <1>0, <1>1, StartupAssumption DEF StartupInv, TypeOK, PidOwned, PidHolder, Paths, Held, Holder
<1>7. SocketKept'
  BY <1>0, <1>1 DEF StartupInv, TypeOK, SocketKept, history, Paths
<1>8. QuietUntilSetback'
  <2> SUFFICES ASSUME Quiet PROVE Quiet'
    BY <1>0 DEF StartupInv, QuietUntilSetback, history
  <2>1. path["socket"] # Absent => Holder("socket") # c /\ Holder("socket") \in Serving
    BY <1>0 DEF Quiet, Serving
  <2>2. path'["socket"] = path["socket"]
    BY <1>1, <2>1 DEF Paths, Held
  <2> QED
    BY <1>0, <2>1, <2>2 DEF StartupInv, TypeOK, Quiet, Serving, Holder, history
<1> QED
  BY <1>3, <1>4, <1>5, <1>6, <1>7, <1>8 DEF StartupInv

----------------------------------------------------------------------------
(* Steps of a daemon.  They leave the lock and the commands alone. *)

LEMMA NotLock ==
    ASSUME StartupInv, NEW p \in {"pid", "socket"}, Elsewhere(p), cli' = cli,
           misjudged \subseteq misjudged'
    PROVE  LockHeld'
<1>1. path'["lock"] = path["lock"]
  BY DEF Elsewhere, Paths
<1> QED
  BY <1>1 DEF StartupInv, LockHeld, Starting, Held, Holder

\* A daemon steps, and what is left to see is the PID file and the socket.
LEMMA DaemonMoves ==
    ASSUME StartupInv, NEW d \in Cli, NEW from, NEW to \in DaemonPc, DaemonGoes(d, from, to),
           from \notin {"none"}, path' \in Files, NEW p \in {"pid", "socket"}, Elsewhere(p),
           cli' = cli, UNCHANGED <<again, timeouts, crashes, refused>>,
           closes' \subseteq Cli, stops' \in 0..MaxSetbacks + 1,
           misjudged \subseteq misjudged', misjudged' \subseteq Paths, evicted' \in BOOLEAN,
           PidHeld', PidOwned', SocketKept', QuietUntilSetback'
    PROVE  StartupInv'
<1>1. LockHeld'
  BY NotLock
<1>2. TypeOK'
  BY DEF StartupInv, TypeOK, Files, DaemonGoes
<1>3. Unspawned'
  BY DEF StartupInv, TypeOK, Unspawned, DaemonGoes
<1> QED
  BY <1>1, <1>2, <1>3 DEF StartupInv

\* A step that changes nothing at the socket disturbs no one, if the daemon does not
\* start or stop listening.
LEMMA SocketApart ==
    ASSUME StartupInv, NEW d \in Cli, NEW from, NEW to, DaemonGoes(d, from, to),
           Elsewhere("pid"), cli' = cli, UNCHANGED <<stops, crashes, refused, evicted>>,
           misjudged \subseteq misjudged',
           from \notin {"serving", "unpid"} \/ (from = "unpid" /\ to = "unsocket"),
           to \in {"write", "clear", "judge", "takeover", "recreate", "dead", "unsocket"},
           to = "unsocket" => from = "unpid"
    PROVE  SocketKept' /\ QuietUntilSetback'
<1>1. path'["socket"] = path["socket"]
  BY DEF Elsewhere, Paths
<1>2. SocketKept'
  BY <1>1 DEF StartupInv, TypeOK, SocketKept, DaemonGoes, Held, Holder
<1>3. QuietUntilSetback'
  <2> SUFFICES ASSUME Quiet, misjudged = {} PROVE Quiet'
    BY DEF StartupInv, QuietUntilSetback
  <2>1. from \notin {"serving", "unpid"}
    BY DEF Quiet, DaemonGoes
  <2> QED
    BY <1>1, <2>1 DEF StartupInv, TypeOK, Quiet, Serving, Holder, DaemonGoes
<1> QED
  BY <1>2, <1>3

LEMMA PidMoves ==
    ASSUME StartupInv, NEW d \in Cli,
           OpenPid(d) \/ WriteDaemonPid(d) \/ JudgePid(d) \/ RecreatePid(d) \/ CleanupFirst(d)
    PROVE  StartupInv'
<1> USE DEF DaemonOnly
<1>0. /\ path \in Files /\ misjudged \subseteq Paths /\ evicted \in BOOLEAN /\ "pid" \in Paths
      /\ closes \subseteq Cli /\ stops \in 0..MaxSetbacks + 1
      /\ misjudged' = misjudged /\ refused' = refused /\ UNCHANGED <<cli, closes, counts>>
  BY DEF StartupInv, TypeOK, Files, Paths, OpenPid, WriteDaemonPid, JudgePid, RecreatePid,
     CleanupFirst, Remove, history
<1>1. evicted' = evicted
  BY <1>0 DEF OpenPid, WriteDaemonPid, JudgePid, RecreatePid, CleanupFirst, Remove, Evicts,
     CleanupOrder, history
<1> USE <1>0, <1>1 DEF counts
<1>2. ASSUME path["pid"] = Absent, Create("pid", d), NEW from \in {"open", "recreate"},
             DaemonGoes(d, from, "write")
      PROVE  StartupInv'
  <2>1. path' \in Files /\ Elsewhere("pid") /\ Held("pid", d)'
    BY <1>2, CreateDoes
  <2>2. "pid" \notin misjudged => PidHolder = {}
    BY <1>2 DEF StartupInv, PidHeld, Held
  <2>3. PidHeld' /\ PidOwned'
    BY <1>2, <2>1, <2>2 DEF StartupInv, TypeOK, PidHeld, PidHolder, PidOwned, DaemonGoes, Held,
       Holder
  <2> QED
    BY <1>2, <2>1, <2>3, SocketApart, DaemonMoves DEF DaemonPc
<1>3. ASSUME UNCHANGED path, NEW from \in {"open", "judge", "recreate"},
             NEW to \in {"judge", "takeover", "dead"}, DaemonGoes(d, from, to)
      PROVE  StartupInv'
  <2>1. path' \in Files /\ Elsewhere("pid") /\ \A b \in Cli : Held("pid", b)' <=> Held("pid", b)
    BY <1>3 DEF Elsewhere, Held, Holder
  <2>2. PidHeld' /\ PidOwned'
    BY <1>3, <2>1 DEF StartupInv, TypeOK, PidHeld, PidHolder, PidOwned, DaemonGoes
  <2> QED
    BY <1>3, <2>1, <2>2, SocketApart, DaemonMoves DEF DaemonPc
<1>4. CASE WriteDaemonPid(d)
  <2>1. DaemonGoes(d, "write", "clear") /\ WritePid("pid", d)
    BY <1>4 DEF WriteDaemonPid
  <2>2. /\ path' \in Files /\ Elsewhere("pid")
        /\ \A b \in Cli : Held("pid", b)' <=> Held("pid", b)
        /\ Held("pid", d) => path'["pid"].written
    BY <2>1, WriteDoes
  <2>3. PidHeld'
    BY <2>1, <2>2 DEF StartupInv, TypeOK, PidHeld, PidHolder, DaemonGoes
  <2>4. PidOwned'
    <3> SUFFICES ASSUME NEW b \in Cli, Held("pid", b)'
                 PROVE  /\ b \in PidHolder' \/ daemon'[b] = "killed"
                        /\ daemon'[b] \in {"clear", "bind", "serving"} => path'["pid"].written
      BY DEF PidOwned
    <3>1. Held("pid", b)
      BY <2>2
    <3>2. CASE b = d
      BY <2>1, <2>2, <3>1, <3>2 DEF StartupInv, TypeOK, PidHolder, DaemonGoes
    <3>3. CASE b # d
      <4>1. path' = path
        BY <2>1, <3>1, <3>3 DEF WritePid, Held
      <4> QED
        BY <2>1, <3>1, <3>3, <4>1 DEF StartupInv, TypeOK, PidOwned, PidHolder, DaemonGoes
    <3> QED
      BY <3>2, <3>3
  <2> QED
    BY <2>1, <2>2, <2>3, <2>4, SocketApart, DaemonMoves DEF DaemonPc
<1>5. CASE CleanupFirst(d)
  <2>1. DaemonGoes(d, "unpid", "unsocket") /\ Unlink("pid")
    BY <1>5 DEF CleanupFirst, CleanupOrder, Remove
  <2>2. path' \in Files /\ Elsewhere("pid") /\ path'["pid"] = Absent
    BY <2>1, UnlinkDoes
  <2>3. PidHeld'
    BY <2>1, <2>2 DEF StartupInv, TypeOK, PidHeld, PidHolder, DaemonGoes, Held
  <2>4. PidOwned'
    BY <2>2 DEF PidOwned, Held
  <2> QED
    BY <2>1, <2>2, <2>3, <2>4, SocketApart, DaemonMoves DEF DaemonPc
<1>6. CASE OpenPid(d) \/ RecreatePid(d)
  BY <1>2, <1>3, <1>6 DEF OpenPid, RecreatePid, LostTo
<1>7. CASE JudgePid(d)
  BY <1>3, <1>7 DEF JudgePid, LostTo
<1> QED
  BY <1>4, <1>5, <1>6, <1>7

LEMMA TakeOverPidMoves ==
    ASSUME StartupInv, NEW d \in Cli, TakeOverPid(d) PROVE StartupInv'
<1> USE DEF DaemonOnly, counts
<1>0. /\ path \in Files /\ misjudged \subseteq Paths /\ evicted \in BOOLEAN /\ "pid" \in Paths
      /\ closes \subseteq Cli /\ stops \in 0..MaxSetbacks + 1
      /\ evicted' = evicted /\ refused' = refused /\ UNCHANGED <<cli, closes, counts>>
  BY DEF StartupInv, TypeOK, Files, Paths, TakeOverPid, TakeOver, history
<1> USE <1>0
<1>1. CASE TakeOver("pid") /\ DaemonGoes(d, "takeover", "recreate")
  <2>1. /\ path' \in Files /\ Elsewhere("pid") /\ path'["pid"] = Absent
        /\ misjudged \subseteq misjudged' /\ misjudged' \subseteq Paths
    BY <1>1, UnlinkDoes DEF TakeOver
  <2>2. ASSUME "pid" \notin misjudged', NEW e \in PidHolder PROVE FALSE
    <3>1. "pid" \notin misjudged /\ ~HolderAlive("pid")
      BY <1>1, <2>2 DEF TakeOver
    <3>2. Holder("pid") = e /\ e \in Cli /\ daemon[e] \notin {"none", "dead", "killed"}
      BY <2>2, <3>1 DEF StartupInv, PidHeld, Held, PidHolder
    <3> QED
      BY <3>1, <3>2, StartupAssumption DEF HolderAlive, DaemonAlive
  <2>3. PidHeld'
    BY <1>1, <2>2 DEF StartupInv, TypeOK, PidHeld, PidHolder, DaemonGoes
  <2>4. PidOwned'
    BY <2>1 DEF PidOwned, Held
  <2> QED
    BY <1>1, <2>1, <2>3, <2>4, SocketApart, DaemonMoves DEF DaemonPc
<1>2. CASE path["pid"] = Absent /\ UNCHANGED <<path, history>> /\ DaemonGoes(d, "takeover", "dead")
  <2>1. path' \in Files /\ Elsewhere("pid") /\ misjudged' = misjudged /\ ~\E b \in Cli : Held("pid", b)'
    BY <1>2 DEF Elsewhere, Held, history
  <2>2. PidHeld' /\ PidOwned'
    BY <1>2, <2>1 DEF StartupInv, TypeOK, PidHeld, PidHolder, PidOwned, DaemonGoes, Held
  <2> QED
    BY <1>2, <2>1, <2>2, SocketApart, DaemonMoves DEF DaemonPc
<1> QED
  BY <1>1, <1>2 DEF TakeOverPid, LostTo

\* A daemon steps and the PID file stays.
LEMMA PidSame ==
    ASSUME StartupInv, NEW d \in Cli, NEW from, NEW to, DaemonGoes(d, from, to),
           Elsewhere("socket"), misjudged' = misjudged,
           to \in {"write", "clear", "bind", "serving", "unpid"} <=>
               from \in {"write", "clear", "bind", "serving", "unpid"},
           from # "killed",
           to \in {"clear", "bind", "serving"} => from \in {"clear", "bind", "serving"}
    PROVE  PidHeld' /\ PidOwned'
<1>1. path'["pid"] = path["pid"] /\ \A b \in Cli : Held("pid", b)' <=> Held("pid", b)
  BY DEF Elsewhere, Paths, Held, Holder
<1> QED
  BY <1>1 DEF StartupInv, TypeOK, PidHeld, PidOwned, PidHolder, DaemonGoes

\* Only one daemon has the PID file, so that no other is about to bind, or serves.
LEMMA OneHolder ==
    ASSUME StartupInv, misjudged = {}, NEW d \in PidHolder, NEW e \in PidHolder PROVE d = e
BY DEF StartupInv, PidHeld, Held

LEMMA SocketMoves ==
    ASSUME StartupInv, NEW d \in Cli, ClearSocket(d) \/ Bind(d) PROVE StartupInv'
<1> USE DEF DaemonOnly, counts, history
<1>0. /\ path \in Files /\ misjudged \subseteq Paths /\ evicted \in BOOLEAN /\ "socket" \in Paths
      /\ closes \subseteq Cli /\ stops \in 0..MaxSetbacks + 1
      /\ UNCHANGED <<cli, closes, counts, history>>
  BY DEF StartupInv, TypeOK, Files, Paths, ClearSocket, Bind
<1> USE <1>0
<1>1. CASE ClearSocket(d)
  <2>1. DaemonGoes(d, "clear", "bind") /\ Unlink("socket")
    BY <1>1 DEF ClearSocket, Clears
  <2>2. path' \in Files /\ Elsewhere("socket") /\ path'["socket"] = Absent
    BY <2>1, UnlinkDoes
  <2>3. PidHeld' /\ PidOwned'
    BY <2>1, <2>2, PidSame
  <2>4. d \in PidHolder
    BY <2>1 DEF PidHolder, DaemonGoes
  <2>5. ASSUME misjudged = {}, NEW e \in Cli, daemon[e] \in {"serving", "unpid"} PROVE FALSE
    <3>1. e \in PidHolder /\ e # d
      BY <2>1, <2>5 DEF PidHolder, DaemonGoes
    <3> QED
      BY <2>4, <2>5, <3>1, OneHolder
  <2>6. SocketKept'
    BY <2>1, <2>2, <2>5 DEF StartupInv, TypeOK, SocketKept, DaemonGoes
  <2>7. QuietUntilSetback'
    <3> SUFFICES ASSUME Quiet, misjudged = {} PROVE Quiet'
      BY DEF StartupInv, QuietUntilSetback
    <3>1. path["socket"] = Absent
      BY <2>5 DEF Quiet, Serving
    <3> QED
      BY <2>1, <2>2, <3>1 DEF StartupInv, TypeOK, Quiet, DaemonGoes
  <2> QED
    BY <2>1, <2>2, <2>3, <2>6, <2>7, DaemonMoves DEF DaemonPc
<1>2. CASE /\ path["socket"] = Absent
           /\ path' = [path EXCEPT !["socket"] = [by |-> d, written |-> TRUE]]
           /\ DaemonGoes(d, "bind", "serving")
  <2> DEFINE f == [by |-> d, written |-> TRUE]
  <2>1. f \in File /\ f.by = d
    BY DEF File
  <2>2. f # Absent
    BY <2>1, StartupAssumption
  <2>3. path' = [path EXCEPT !["socket"] = f]
    BY <1>2
  <2> HIDE DEF f
  <2>4. /\ path' \in Files /\ Elsewhere("socket") /\ Held("socket", d)'
        /\ path'["socket"] # Absent /\ Holder("socket")' = d
    BY <2>1, <2>2, <2>3 DEF Files, Elsewhere, Held, Holder
  <2>5. PidHeld' /\ PidOwned'
    BY <1>2, <2>4, PidSame
  <2>6. ASSUME misjudged = {}, NEW e \in Cli, daemon[e] \in {"serving", "unpid", "bind"}
        PROVE  e = d
    <3>1. e \in PidHolder /\ d \in PidHolder
      BY <1>2, <2>6 DEF PidHolder, DaemonGoes
    <3> QED
      BY <2>6, <3>1, OneHolder
  <2>7. SocketKept'
    BY <1>2, <2>4, <2>6 DEF StartupInv, TypeOK, SocketKept, DaemonGoes
  <2>8. QuietUntilSetback'
    BY <1>2, <2>4 DEF StartupInv, TypeOK, QuietUntilSetback, Quiet, Serving, DaemonGoes
  <2>9. DaemonGoes(d, "bind", "serving") /\ "serving" \in DaemonPc /\ "bind" \notin {"none"}
    BY <1>2 DEF DaemonPc
  <2> QED
    BY <2>4, <2>5, <2>7, <2>8, <2>9, DaemonMoves
<1>3. CASE path["socket"] # Absent /\ UNCHANGED path /\ DaemonGoes(d, "bind", "unpid")
  <2>1. path' \in Files /\ Elsewhere("socket")
    BY <1>3 DEF Elsewhere
  <2>2. PidHeld' /\ PidOwned'
    BY <1>3, <2>1, PidSame
  <2>3. misjudged # {}
    BY <1>3 DEF StartupInv, SocketKept, DaemonGoes
  <2>4. SocketKept' /\ QuietUntilSetback'
    BY <2>3 DEF SocketKept, QuietUntilSetback
  <2> QED
    BY <1>3, <2>1, <2>2, <2>4, DaemonMoves DEF DaemonPc
<1> QED
  BY <1>1, <1>2, <1>3 DEF Bind

\* A daemon that stops late takes the socket of another with it, and says so.
LEMMA CleanupMoves ==
    ASSUME StartupInv, NEW d \in Cli, CleanupLast(d) \/ ServerClosed(d) PROVE StartupInv'
<1> USE DEF DaemonOnly, counts
<1>1. PICK from \in {"unsocket", "closing"}, to \in {"closing", "dead"} : DaemonGoes(d, from, to)
  BY DEF CleanupLast, ServerClosed
<1>2. /\ Unlink("socket") /\ evicted' = (evicted \/ Evicts(d, "socket"))
      /\ UNCHANGED <<misjudged, refused, cli, closes, counts>>
  BY DEF CleanupLast, ServerClosed, Remove, CleanupOrder
<1>3. /\ path \in Files /\ misjudged \subseteq Paths /\ evicted' \in BOOLEAN /\ "socket" \in Paths
      /\ closes \subseteq Cli /\ stops \in 0..MaxSetbacks + 1
  BY <1>2 DEF StartupInv, TypeOK, Files, Paths, Evicts
<1>4. path' \in Files /\ Elsewhere("socket") /\ path'["socket"] = Absent
  BY <1>2, <1>3, UnlinkDoes
<1>5. PidHeld' /\ PidOwned'
  BY <1>1, <1>2, <1>4, PidSame
<1>6. SocketKept'
  <2> SUFFICES ASSUME misjudged = {}, ~evicted', NEW e \in Cli, daemon'[e] \in {"serving", "unpid"}
               PROVE  FALSE
    BY <1>2, <1>4 DEF SocketKept
  <2>1. e # d /\ daemon[e] \in {"serving", "unpid"} /\ ~evicted /\ ~Evicts(d, "socket")
    BY <1>1, <1>2 DEF StartupInv, TypeOK, DaemonGoes
  <2>2. Held("socket", e)
    BY <2>1 DEF StartupInv, SocketKept
  <2> QED
    BY <2>1, <2>2, StartupAssumption DEF Evicts, Held, Listening
<1>7. QuietUntilSetback'
  <2>1. ~Quiet
    BY <1>1 DEF Quiet, DaemonGoes
  <2> QED
    BY <1>2, <2>1 DEF StartupInv, QuietUntilSetback
<1> QED
  BY <1>1, <1>2, <1>3, <1>4, <1>5, <1>6, <1>7, DaemonMoves DEF DaemonPc

LEMMA StopMoves ==
    ASSUME StartupInv, NEW d \in Cli, Stop(d) PROVE StartupInv'
<1>0. /\ DaemonGoes(d, "serving", "unpid") /\ stops' = stops + 1 /\ MaySetBack
      /\ closes' \in {closes, closes \cup {d}}
      /\ UNCHANGED <<path, cli, again, timeouts, crashes, history>>
  BY DEF Stop
<1>1. stops' \in 1..MaxSetbacks + 1
  BY <1>0, StartupAssumption DEF StartupInv, TypeOK, MaySetBack
<1>2. path' \in Files /\ Elsewhere("socket") /\ closes' \subseteq Cli /\ evicted' \in BOOLEAN
      /\ misjudged' \subseteq Paths
  BY <1>0 DEF StartupInv, TypeOK, Files, Elsewhere, history
<1>3. PidHeld' /\ PidOwned'
  BY <1>0, <1>2, PidSame DEF history
<1>4. SocketKept'
  BY <1>0 DEF StartupInv, TypeOK, SocketKept, DaemonGoes, Held, Holder, history
<1>5. QuietUntilSetback'
  BY <1>1 DEF QuietUntilSetback
<1> QED
  BY <1>0, <1>1, <1>2, <1>3, <1>4, <1>5, DaemonMoves DEF history, DaemonPc

LEMMA NextStartup == StartupInv /\ [Next]_vars => StartupInv'
<1> SUFFICES ASSUME StartupInv, [Next]_vars PROVE StartupInv'
  OBVIOUS
<1>1. ASSUME NEW c \in Cli, LookSocket(c) \/ CliStep(c) \/ StartTimeout(c) \/ CliCrash(c) \/ NextCommand(c)
      PROVE  StartupInv'
  BY <1>1, LookMoves, LockMoves, TakeOverLockMoves, SpawnMoves, TimeoutMoves, CrashMoves,
     NextCommandMoves DEF CliStep
<1>2. ASSUME NEW d \in Cli, DaemonStep(d) \/ Stop(d) \/ DaemonCrash(d) PROVE StartupInv'
  BY <1>2, PidMoves, TakeOverPidMoves, SocketMoves, CleanupMoves, StopMoves, CrashMoves
     DEF DaemonStep
<1>3. CASE UNCHANGED vars
  BY <1>3 DEF vars, counts, history, StartupInv, TypeOK, Unspawned, LockHeld, Starting, PidHeld,
     PidHolder, PidOwned, SocketKept, QuietUntilSetback, Quiet, Serving, Held, Holder
<1> QED
  BY <1>1, <1>2, <1>3 DEF Next

----------------------------------------------------------------------------
(* Theorems. *)

\* Through every interleaving of commands and daemons, and their deaths, files belong to
\* the processes that rely on them, as far as no takeover misjudged one.
THEOREM StartupInvariant == Spec => []StartupInv
BY InitStartup, NextStartup, PTL DEF Spec

\* At most one command starts a daemon, and at most one daemon serves, at any time, while
\* no takeover removes the file of a live process (startDaemon.ts:77-84, pid-file.ts:10-23).
THEOREM Exclusion == Spec => []Exclusive
<1>1. StartupInv => Exclusive
  <2> SUFFICES ASSUME StartupInv PROVE Exclusive
    OBVIOUS
  <2>1. ASSUME NEW S, NEW x, S \subseteq {x} PROVE Cardinality(S) <= 1
    <3>1. IsFiniteSet({x}) /\ Cardinality({x}) = 1
      BY FS_Singleton
    <3> QED
      BY <2>1, <3>1, FS_Subset
  <2>2. "lock" \notin misjudged => Starting \subseteq {Holder("lock")}
    BY DEF StartupInv, LockHeld, Held
  <2>3. "pid" \notin misjudged => Serving \subseteq {Holder("pid")}
    BY DEF StartupInv, PidHeld, PidHolder, Held, Serving
  <2> QED
    BY <2>1, <2>2, <2>3 DEF StartupInv, Exclusive, OneStarter, OneDaemon
<1> QED
  BY <1>1, StartupInvariant, PTL

\* A serving daemon is named by the PID file, the PID file of a daemon is gone before its
\* socket is, and a command that found the socket is answered (startDaemon.ts:807-810,
\* DaemonClient.ts:109-125).
THEOREM Reachability == Spec => []Reachable
<1>1. StartupInv => PidIsServed
  <2> SUFFICES ASSUME StartupInv, misjudged = {}, ~evicted, NEW d \in Cli
               PROVE  /\ daemon[d] = "serving" => path["pid"] = [by |-> d, written |-> TRUE]
                      /\ daemon[d] \in {"serving", "unpid", "unsocket", "closing"}
                         /\ path["pid"] # Absent /\ Holder("pid") = d
                         => path["socket"] # Absent /\ Holder("socket") = d
    BY DEF PidIsServed
  <2>1. ASSUME daemon[d] = "serving" PROVE path["pid"] = [by |-> d, written |-> TRUE]
    <3>1. Held("pid", d) /\ path["pid"].written
      BY <2>1 DEF StartupInv, PidHeld, PidHolder, PidOwned
    <3>2. path["pid"] \in File
      BY <3>1 DEF StartupInv, TypeOK, Held, Paths
    <3> QED
      BY <3>1, <3>2 DEF Held, Holder, File
  <2>2. Held("pid", d) /\ daemon[d] \in {"serving", "unpid", "unsocket", "closing"}
        => Held("socket", d)
    BY DEF StartupInv, PidOwned, PidHolder, SocketKept
  <2> QED
    BY <2>1, <2>2 DEF Held
<1>2. StartupInv => FoundSocketAnswers
  BY DEF StartupInv, QuietUntilSetback, Quiet, FoundSocketAnswers
<1>3. StartupInv => Reachable
  BY <1>1, <1>2 DEF Reachable
<1> QED
  BY <1>3, StartupInvariant, PTL

=============================================================================
