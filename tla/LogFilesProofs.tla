----------------------------- MODULE LogFilesProofs -----------------------------
(***************************************************************************)
(* What holds of the log files of a stream, for every size, number and age *)
(* of them, every number of lines, writers and restarts, and whenever the  *)
(* daemon fails or dies.                                                   *)
(*                                                                         *)
(* A line that was written is found or accounted for after every step, as  *)
(* long as a job creates an archive for a file it has seen.  The number of *)
(* archives is bounded because a rotated file is known to someone: it      *)
(* waits in a chain, is being compressed, or was left by a failure.        *)
(***************************************************************************)
EXTENDS LogFiles, FiniteSetTheorems, WellFoundedInduction, TLAPS

FiniteNat(S) == IsFiniteSet(S) /\ S \subseteq Nat

JobFields == {"pc", "ts", "own", "seen", "bares", "archives", "gone", "lines"}
IsJob(j) ==
    /\ DOMAIN j = JobFields
    /\ j.pc \in {"list", "open", "copy", "prune", "unlink"}
    /\ j.ts \in Nat
    /\ j.own \in BOOLEAN
    /\ j.bares \subseteq Nat
    /\ FiniteNat(j.archives)
    /\ j.pc \in {"prune", "unlink"} => ~j.own

\* A job opens the archive of a file it has seen, and removes archives while there are
\* some to remove.
Ready(j) ==
    /\ j.pc = "open" => j.seen
    /\ j.pc = "list" => j.own
    /\ j.pc = "unlink" => j.gone # {} \/ TooMany(j.archives)

Busy(w) == job[w] # Idle

Pruning(w) == Prune(w) \/ Unlinks(w) \/ UnlinkFails(w)
JobStep(w) ==
    \/ StartJob(w) \/ Open(w) \/ Compressed(w) \/ CompressionFails(w)
    \/ List(w) \/ ListFails(w) \/ Pruning(w)

Jobs ==
    /\ DOMAIN job = Writers
    /\ \A w \in Writers : Busy(w) => IsJob(job[w]) /\ Ready(job[w])

Types ==
    /\ line \in Nat /\ now \in Nat
    /\ writer \in Writers
    /\ chain \in [Writers -> Seq(Nat)]
    /\ FiniteNat(DOMAIN bare) /\ FiniteNat(DOMAIN gz) /\ FiniteNat(left)
    /\ shared \in BOOLEAN

KeepInv == Types /\ Jobs /\ LinesKept

\* Who knows of a rotated file: a chain, a job that began with it, or no one but a prune.
Waits(t) == \E w \in Writers : \E i \in DOMAIN chain[w] : chain[w][i] = t
Works(t) == \E w \in Writers :
                Busy(w) /\ job[w].own /\ job[w].pc \in {"open", "copy"} /\ job[w].ts = t
KnownLater(t) == t \in left \/ Waits(t)

BareKnown == \A t \in DOMAIN bare : KnownLater(t) \/ Works(t)

\* A job that has read the directory will prune it down to the archives it has seen; those
\* that have come since are of files that someone knows.
Listed(w) == Busy(w) /\ ~job[w].own
KnowsList(w) ==
    /\ \A t \in DOMAIN gz \ job[w].archives : KnownLater(t)
    /\ job[w].pc \in {"open", "copy"} =>
           KnownLater(job[w].ts) /\ \A t \in job[w].bares : KnownLater(t)
ListKnown == ~shared => \A w \in Writers : Listed(w) => KnowsList(w)

OneJob == ~shared => \A v, w \in Writers : Busy(v) /\ Busy(w) => v = w

\* The archives that no chain, no failure and no job of theirs accounts for are few, until
\* a job reads the directory again.
Holds(t) == \E w \in Writers : Busy(w) /\ job[w].own /\ job[w].ts = t
Settled == {t \in DOMAIN gz : ~KnownLater(t) /\ ~Holds(t)}
FewSettled ==
    (~shared /\ \A w \in Writers : ~Listed(w)) => Cardinality(Settled) <= MaxFiles

BoundInv == Types /\ Jobs /\ BareKnown /\ ListKnown /\ OneJob /\ FewSettled
----------------------------------------------------------------------------
(* Sets of numbers, and the files of a directory. *)

\* A set of numbers is searched from below: were there no least element, the intervals up
\* to its elements would descend for ever.
LEMMA LeastElement ==
    ASSUME NEW S, S \subseteq Nat, S # {}
    PROVE  \E w \in S : \A v \in S : w <= v
<1> DEFINE D == {0..n : n \in S}
<1>1. \A n \in Nat : 0..n \in FiniteSubsetsOf(Nat)
  BY FS_Interval DEF FiniteSubsetsOf
<1>2. D \subseteq FiniteSubsetsOf(Nat) /\ D # {}
  BY <1>1
<1>3. PICK T \in D : \A U \in D : ~(<<U, T>> \in StrictSubsetOrdering(Nat))
  BY <1>2, FS_StrictSubsetOrderingWellFounded, WFMin
<1>4. PICK w \in S : T = 0..w
  OBVIOUS
<1>5. ASSUME NEW v \in S, v < w PROVE FALSE
  <2>1. 0..v \in D /\ 0..v \subseteq 0..w /\ w \in 0..w /\ w \notin 0..v /\ 0..w \subseteq Nat
    BY <1>5
  <2>2. <<0..v, T>> \in StrictSubsetOrdering(Nat)
    BY <2>1, <1>4 DEF StrictSubsetOrdering
  <2> QED
    BY <2>1, <2>2, <1>3
<1> QED
  BY <1>5

LEMMA MinIsElement == ASSUME NEW S, S \subseteq Nat, S # {} PROVE Min(S) \in S
BY LeastElement DEF Min

\* What is in the directory after a file has been written under name t.
LEMMA InWith ==
    ASSUME NEW f, NEW t, NEW S, NEW x, x \in In(f)
    PROVE  x \in At(f, t) \/ x \in In(With(f, t, S))
<1>1. PICK u \in DOMAIN f : x \in f[u]
  BY DEF In
<1> DEFINE g == With(f, t, S)
<1>2. u # t => u \in DOMAIN g /\ g[u] = f[u]
  BY DEF With
<1>3. CASE u = t
  BY <1>1, <1>3 DEF At
<1>4. CASE u # t
  BY <1>1, <1>2, <1>4 DEF In
<1> QED
  BY <1>3, <1>4

LEMMA InWritten == ASSUME NEW f, NEW t, NEW S PROVE S \subseteq In(With(f, t, S))
<1> DEFINE g == With(f, t, S)
<1>1. t \in DOMAIN g /\ g[t] = S
  BY DEF With
<1> QED
  BY <1>1 DEF In

LEMMA InWithout ==
    ASSUME NEW f, NEW T, NEW x, x \in In(f)
    PROVE  x \in In(Without(f, T)) \/ \E t \in T : x \in At(f, t)
<1>1. PICK u \in DOMAIN f : x \in f[u]
  BY DEF In
<1> DEFINE g == Without(f, T)
<1>2. u \notin T => u \in DOMAIN g /\ g[u] = f[u]
  BY DEF Without
<1>3. CASE u \in T
  BY <1>1, <1>3 DEF At
<1>4. CASE u \notin T
  BY <1>1, <1>2, <1>4 DEF In
<1> QED
  BY <1>3, <1>4

\* What is in a directory is in one of two parts of it.
LEMMA InParts ==
    ASSUME NEW f, NEW T, NEW x, x \in In(f)
    PROVE  x \in In(Without(f, DOMAIN f \ T)) \/ x \in In(Without(f, T))
<1>1. PICK u \in DOMAIN f : x \in f[u]
  BY DEF In
<1> DEFINE g == Without(f, DOMAIN f \ T)
           h == Without(f, T)
<1>2. /\ u \in T => u \in DOMAIN g /\ g[u] = f[u]
      /\ u \notin T => u \in DOMAIN h /\ h[u] = f[u]
  BY <1>1 DEF Without
<1>3. CASE u \in T
  BY <1>1, <1>2, <1>3 DEF In
<1>4. CASE u \notin T
  BY <1>1, <1>2, <1>4 DEF In
<1> QED
  BY <1>3, <1>4

LEMMA DomainWith == ASSUME NEW f, NEW t, NEW S PROVE DOMAIN With(f, t, S) = DOMAIN f \cup {t}
BY DEF With

----------------------------------------------------------------------------
(* Jobs. *)

LEMMA OpeningIsJob ==
    ASSUME NEW j, IsJob(j), NEW t \in Nat, t \in DOMAIN bare
    PROVE  LET k == Opening(j, t)
           IN IsJob(k) /\ k.pc = "open" /\ k.seen /\ k.ts = t /\ k.own = j.own
              /\ k.bares = j.bares /\ k.archives = j.archives
BY DEF Opening, IsJob, JobFields

\* Where a job goes next: to the directory if it is at its own file, otherwise to a bare
\* file of its list, or to the pruning.
Moved(j, k) ==
    /\ IsJob(k) /\ Ready(k)
    /\ k.own = j.own /\ k.archives = j.archives /\ k.bares \subseteq j.bares
    /\ k.pc = "open" => ~j.own /\ k.ts \in j.bares
    /\ k.own => k.ts = j.ts
    /\ k.pc \in {"list", "open", "prune"}

LEMMA NextFileMoves ==
    ASSUME NEW j, IsJob(j), NEW there, there \subseteq DOMAIN bare
    PROVE  Moved(j, NextFile(j, there))
<1> DEFINE S == j.bares \cap there
           k == NextFile(j, there)
<1>1. CASE j.own
  <2>1. k = [j EXCEPT !.pc = "list"]
    BY <1>1 DEF NextFile
  <2> QED
    BY <1>1, <2>1 DEF Moved, Ready, IsJob, JobFields
<1>2. CASE ~j.own /\ S = {}
  <2>1. k = [j EXCEPT !.pc = "prune"]
    BY <1>2 DEF NextFile
  <2> QED
    BY <1>2, <2>1 DEF Moved, Ready, IsJob, JobFields
<1>3. CASE ~j.own /\ S # {}
  <2> DEFINE t == Min(S)
             o == Opening(j, t)
  <2>1. t \in S
    BY <1>3, MinIsElement DEF IsJob
  <2>2. k = [o EXCEPT !.bares = @ \ {t}]
    BY <1>3 DEF NextFile
  <2>3. t \in Nat /\ t \in DOMAIN bare /\ t \in j.bares
    BY <2>1 DEF IsJob
  <2> HIDE DEF t
  <2>4. /\ IsJob(o) /\ o.pc = "open" /\ o.seen /\ o.ts = t /\ o.own = j.own
        /\ o.bares = j.bares /\ o.archives = j.archives
    BY <2>3, OpeningIsJob
  <2> HIDE DEF o
  <2> QED
    BY <1>3, <2>2, <2>3, <2>4 DEF Moved, Ready, IsJob, JobFields
<1> QED
  BY <1>1, <1>2, <1>3

LEMMA StartedJob ==
    ASSUME NEW t \in Nat, NEW j, IsJob(j), j.pc = "list", j.own
    PROVE  LET k == IF FileThere(t) THEN Opening(j, t) ELSE j
           IN /\ IsJob(k) /\ Ready(k) /\ k.own /\ (j.ts = t => k.ts = t)
              /\ (k.pc = "open" /\ k.ts = t) \/ (k.pc = "list" /\ t \notin DOMAIN bare)
<1>1. CASE t \in DOMAIN bare
  BY <1>1, OpeningIsJob DEF FileThere, Ready
<1>2. CASE t \notin DOMAIN bare
  BY <1>2 DEF FileThere, Ready
<1> QED
  BY <1>1, <1>2

LEMMA NotIdle == ASSUME NEW j, IsJob(j) PROVE j # Idle
<1>1. Idle.pc = "idle"
  BY DEF Idle
<1> QED
  BY <1>1 DEF IsJob

\* Writer w's job becomes k, and no other job changes.
Becomes(w, k) ==
    /\ DOMAIN job' = DOMAIN job
    /\ job'[w] = k
    /\ \A v \in Writers \ {w} : job'[v] = job[v]

LEMMA JobsStay ==
    ASSUME Jobs, NEW w \in Writers, NEW k, Becomes(w, k), k = Idle \/ (IsJob(k) /\ Ready(k))
    PROVE  Jobs'
BY DEF Jobs, Becomes, Busy

LEMMA JobAt ==
    ASSUME Jobs, NEW w \in Writers, job[w].pc # "idle"
    PROVE  Busy(w) /\ IsJob(job[w]) /\ Ready(job[w])
<1>1. Idle.pc = "idle"
  BY DEF Idle
<1> QED
  BY <1>1 DEF Jobs, Busy

LEMMA OpenDoes ==
    ASSUME Jobs, NEW w \in Writers, Open(w)
    PROVE  /\ Busy(w) /\ IsJob(job[w]) /\ job[w].pc = "open" /\ job[w].seen
           /\ IsJob(job'[w]) /\ Ready(job'[w]) /\ Becomes(w, job'[w])
           /\ \/ job'[w].pc = "copy" /\ job'[w].ts = job[w].ts /\ job'[w].own = job[w].own
                 /\ job'[w].bares = job[w].bares /\ job'[w].archives = job[w].archives
              \/ job[w].ts \notin DOMAIN bare /\ Moved(job[w], job'[w])
<1> DEFINE j == job[w]
           c == [j EXCEPT !.pc = "copy", !.lines = bare[j.ts]]
           n == NextFile(j, DOMAIN bare)
<1>1. j.pc = "open"
  BY DEF Open
<1>2. Busy(w) /\ IsJob(j) /\ j.seen
  BY <1>1, JobAt DEF Ready
<1>3. job' = [job EXCEPT ![w] = IF j.ts \in DOMAIN bare THEN c ELSE n]
  BY DEF Open
<1>4. Becomes(w, job'[w]) /\ job'[w] = IF j.ts \in DOMAIN bare THEN c ELSE n
  BY <1>3 DEF Becomes, Jobs
<1>5. IsJob(c) /\ c.pc = "copy" /\ c.ts = j.ts /\ c.own = j.own /\ c.bares = j.bares
      /\ c.archives = j.archives
  BY <1>2 DEF IsJob, JobFields
<1>6. Moved(j, n)
  BY <1>2, NextFileMoves
<1> HIDE DEF c, n
<1>7. CASE j.ts \in DOMAIN bare
  BY <1>1, <1>2, <1>4, <1>5, <1>7 DEF Ready
<1>8. CASE j.ts \notin DOMAIN bare
  BY <1>1, <1>2, <1>4, <1>6, <1>8 DEF Moved
<1> QED
  BY <1>7, <1>8

LEMMA CopyDoes ==
    ASSUME Jobs, NEW w \in Writers, Compressed(w) \/ CompressionFails(w)
    PROVE  /\ Busy(w) /\ IsJob(job[w]) /\ job[w].pc = "copy"
           /\ Moved(job[w], job'[w]) /\ Becomes(w, job'[w])
<1> DEFINE j == job[w]
           c == [j EXCEPT !.lines = {}]
           n == NextFile(c, DOMAIN bare')
<1>1. j.pc = "copy"
  BY DEF Compressed, CompressionFails
<1>2. Busy(w) /\ IsJob(j)
  BY <1>1, JobAt
<1>3. job' = [job EXCEPT ![w] = n] /\ DOMAIN bare' \subseteq DOMAIN bare
  BY DEF Compressed, CompressionFails, WithoutLines, Without
<1>4. IsJob(c) /\ c.own = j.own /\ c.ts = j.ts /\ c.archives = j.archives /\ c.bares = j.bares
  BY <1>2 DEF IsJob, JobFields
<1> HIDE DEF c
<1>5. Moved(c, n)
  BY <1>3, <1>4, NextFileMoves
<1> HIDE DEF n
<1>6. Moved(j, n)
  BY <1>4, <1>5 DEF Moved
<1> QED
  BY <1>1, <1>2, <1>3, <1>6 DEF Becomes, Jobs

LEMMA ListDoes ==
    ASSUME Jobs, NEW w \in Writers, List(w), Types
    PROVE  /\ Busy(w) /\ IsJob(job[w]) /\ job[w].pc = "list"
           /\ IsJob(job'[w]) /\ Ready(job'[w]) /\ Becomes(w, job'[w])
           /\ ~job'[w].own /\ job'[w].archives = DOMAIN gz /\ job'[w].bares \subseteq DOMAIN bare
           /\ job'[w].pc \in {"open", "copy"} => job'[w].ts \in DOMAIN bare
<1> DEFINE j == job[w]
           c == [j EXCEPT !.own = FALSE, !.bares = DOMAIN bare, !.archives = DOMAIN gz]
           n == NextFile(c, DOMAIN bare)
<1>1. j.pc = "list"
  BY DEF List
<1>2. Busy(w) /\ IsJob(j)
  BY <1>1, JobAt
<1>3. job' = [job EXCEPT ![w] = n]
  BY DEF List
<1>4. IsJob(c) /\ ~c.own /\ c.archives = DOMAIN gz /\ c.bares = DOMAIN bare
  BY <1>2 DEF IsJob, JobFields, Types, FiniteNat
<1> HIDE DEF c
<1>5. Moved(c, n)
  BY <1>4, NextFileMoves
<1> HIDE DEF n
<1> QED
  BY <1>1, <1>2, <1>3, <1>4, <1>5 DEF Becomes, Jobs, Moved

LEMMA StartDoes ==
    ASSUME Jobs, NEW w \in Writers, StartJob(w), chain[w] \in Seq(Nat)
    PROVE  /\ ~Busy(w) /\ Busy(w)' /\ Becomes(w, job'[w])
           /\ IsJob(job'[w]) /\ Ready(job'[w]) /\ job'[w].own /\ job'[w].ts = Head(chain[w])
           /\ \/ job'[w].pc = "open" /\ job'[w].ts = Head(chain[w])
              \/ job'[w].pc = "list" /\ Head(chain[w]) \notin DOMAIN bare
<1> DEFINE t == Head(chain[w])
           j == [pc |-> "list", ts |-> t, own |-> TRUE, seen |-> FALSE,
                 bares |-> {}, archives |-> {}, gone |-> {}, lines |-> {}]
           k == IF FileThere(t) THEN Opening(j, t) ELSE j
<1>1. job[w] = Idle /\ t \in Nat /\ job' = [job EXCEPT ![w] = k]
  BY DEF StartJob
<1>2. IsJob(j) /\ j.pc = "list" /\ j.own /\ j.ts = t
  BY <1>1, FS_EmptySet DEF IsJob, JobFields, FiniteNat
<1> HIDE DEF j
<1>3. /\ IsJob(k) /\ Ready(k) /\ k.own /\ k.ts = t
      /\ (k.pc = "open" /\ k.ts = t) \/ (k.pc = "list" /\ t \notin DOMAIN bare)
  BY <1>1, <1>2, StartedJob
<1> HIDE DEF k
<1> QED
  BY <1>1, <1>3, NotIdle DEF Becomes, Jobs, Busy
----------------------------------------------------------------------------
(* Types. *)

LEMMA FiniteNatAdd == ASSUME NEW S, FiniteNat(S), NEW t \in Nat PROVE FiniteNat(S \cup {t})
BY FS_AddElement DEF FiniteNat

LEMMA FiniteNatMinus == ASSUME NEW S, FiniteNat(S), NEW T PROVE FiniteNat(S \ T)
BY FS_Subset DEF FiniteNat

LEMMA FiniteNatUnion ==
    ASSUME NEW S, FiniteNat(S), NEW T, FiniteNat(T) PROVE FiniteNat(S \cup T)
BY FS_Union DEF FiniteNat

LEMMA FiniteNatWith ==
    ASSUME NEW f, FiniteNat(DOMAIN f), NEW t \in Nat, NEW S PROVE FiniteNat(DOMAIN With(f, t, S))
<1>1. FiniteNat(DOMAIN f \cup {t})
  BY FiniteNatAdd
<1>2. DOMAIN With(f, t, S) = DOMAIN f \cup {t}
  BY DomainWith
<1> QED
  BY <1>1, <1>2

LEMMA FiniteNatWithout ==
    ASSUME NEW f, FiniteNat(DOMAIN f), NEW T PROVE FiniteNat(DOMAIN Without(f, T))
BY FiniteNatMinus DEF Without

LEMMA InitTypes == Init => Types /\ Jobs
<1> SUFFICES ASSUME Init PROVE Types /\ Jobs
  OBVIOUS
<1>1. /\ line = 0 /\ now = 0 /\ writer = 1 /\ bare = <<>> /\ gz = <<>> /\ left = {} /\ shared = FALSE
      /\ chain = [w \in Writers |-> <<>>] /\ job = [w \in Writers |-> Idle]
  BY DEF Init
<1>2. 1 \in Writers
  BY LogAssumption DEF Writers
<1>3. DOMAIN <<>> = {} /\ FiniteNat({})
  BY FS_EmptySet DEF FiniteNat
<1>4. chain \in [Writers -> Seq(Nat)]
  BY <1>1
<1>5. Jobs
  BY <1>1 DEF Jobs, Busy
<1> QED
  BY <1>1, <1>2, <1>3, <1>4, <1>5 DEF Types

LEMMA WriteTypes == ASSUME Types, Jobs, Write \/ WriteFails PROVE Types' /\ Jobs'
<1>1. Jobs'
  BY DEF Write, WriteFails, Jobs, Busy
<1>2. /\ line' = line + 1 /\ now' = now /\ writer' = writer /\ gz' = gz /\ shared' = shared
      /\ chain' = chain \/ chain' = [chain EXCEPT ![writer] = Append(@, now)]
      /\ bare' = bare \/ \E lines : bare' = With(bare, now, lines)
      /\ left' = left \/ left' = left \cup {now}
  BY DEF Write, WriteFails, Rotated, RotationFails, Kept, Renamed
<1>3. chain' \in [Writers -> Seq(Nat)]
  <2>1. Append(chain[writer], now) \in Seq(Nat)
    BY DEF Types
  <2> QED
    BY <1>2, <2>1 DEF Types
<1>4. FiniteNat(DOMAIN bare') /\ FiniteNat(left')
  BY <1>2, FiniteNatWith, FiniteNatAdd DEF Types
<1> QED
  BY <1>1, <1>2, <1>3, <1>4 DEF Types

LEMMA ListFailsAt ==
    ASSUME Jobs, NEW w \in Writers, ListFails(w)
    PROVE  /\ Busy(w) /\ IsJob(job[w]) /\ job[w].pc = "list" /\ job[w].own
           /\ job[w].ts \in Nat
<1>1. job[w].pc = "list"
  BY DEF ListFails
<1> QED
  BY <1>1, JobAt DEF IsJob, Ready

\* What a step of the pruning leaves to be pruned: an archive that is not in the list any
\* more is gone, or counts as left.
StillToPrune(w, k) ==
    /\ IsJob(k) /\ k.pc = "unlink" /\ ~k.own /\ Prunes(w, k)
    /\ k.archives \subseteq job[w].archives
    /\ \A t \in job[w].archives \ k.archives : t \in left' \/ t \notin DOMAIN gz'
    /\ \A t \in left : t \in left' \/ t \in k.archives

LEMMA MinOfMany ==
    ASSUME NEW S, FiniteNat(S), TooMany(S) PROVE Min(S) \in S
<1>1. S # {}
  BY FS_EmptySet, LogAssumption DEF TooMany
<1> QED
  BY <1>1, MinIsElement DEF FiniteNat

LEMMA PruningDoes ==
    ASSUME Types, Jobs, NEW w \in Writers, Pruning(w)
    PROVE  /\ Busy(w) /\ IsJob(job[w]) /\ ~job[w].own /\ job[w].pc \in {"prune", "unlink"}
           /\ FiniteNat(DOMAIN gz') /\ FiniteNat(left') /\ DOMAIN gz' \subseteq DOMAIN gz
           /\ UNCHANGED <<bare, chain, shared>>
           /\ \A t \in left \cap DOMAIN bare : t \in left'
           /\ \E k : StillToPrune(w, k)
<1> DEFINE j == job[w]
<1>1. j.pc \in {"prune", "unlink"}
  BY DEF Pruning, Prune, Unlinks, UnlinkFails
<1>2. Busy(w) /\ IsJob(j) /\ Ready(j) /\ ~j.own /\ FiniteNat(j.archives)
  BY <1>1, JobAt DEF IsJob
<1>3. CASE Prune(w)
  <2> DEFINE listed == j.archives
             k == [j EXCEPT !.pc = "unlink", !.gone = {t \in listed : Expired(t)}]
  <2>1. /\ left' = left \ (listed \ DOMAIN bare) /\ Prunes(w, k)
        /\ UNCHANGED <<bare, gz, chain, shared>>
    BY <1>3 DEF Prune
  <2>2. IsJob(k) /\ k.pc = "unlink" /\ ~k.own /\ k.archives = listed
    BY <1>2 DEF IsJob, JobFields
  <2> HIDE DEF k
  <2>3. StillToPrune(w, k)
    BY <2>1, <2>2 DEF StillToPrune
  <2>4. FiniteNat(DOMAIN gz') /\ FiniteNat(left')
    BY <2>1, FiniteNatMinus DEF Types
  <2> QED
    BY <1>1, <1>2, <2>1, <2>3, <2>4
<1>4. CASE Unlinks(w)
  <2> DEFINE u == NextOut(j)
             k == [j EXCEPT !.gone = @ \ {u}, !.archives = @ \ {u}]
  <2>1. /\ j.pc = "unlink" /\ gz' = Without(gz, {u}) /\ Prunes(w, k)
        /\ UNCHANGED <<bare, left, chain, shared>>
    BY <1>4 DEF Unlinks
  <2>2. FiniteNat(j.archives \ {u}) /\ FiniteNat(DOMAIN gz')
    BY <1>2, <2>1, FiniteNatMinus, FiniteNatWithout DEF Types
  <2>3. IsJob(k) /\ k.pc = "unlink" /\ ~k.own /\ k.archives = j.archives \ {u}
    BY <1>2, <2>1, <2>2 DEF IsJob, JobFields
  <2>4. DOMAIN gz' = DOMAIN gz \ {u}
    BY <2>1 DEF Without
  <2> HIDE DEF k, u
  <2>5. StillToPrune(w, k)
    BY <2>1, <2>3, <2>4 DEF StillToPrune
  <2> QED
    BY <1>1, <1>2, <2>1, <2>2, <2>4, <2>5 DEF Types
<1>5. CASE UnlinkFails(w)
  <2> DEFINE u   == NextOut(j)
             old == j.gone # {}
             k   == [j EXCEPT !.gone = @ \ {u}, !.archives = IF old THEN @ ELSE @ \ {u}]
  <2>1. /\ j.pc = "unlink" /\ left' = (IF old THEN left ELSE left \cup {u}) /\ Prunes(w, k)
        /\ UNCHANGED <<bare, gz, chain, shared>>
    BY <1>5 DEF UnlinkFails
  <2>2. ASSUME ~old PROVE u \in Nat
    <3>1. TooMany(j.archives)
      BY <1>2, <2>1, <2>2 DEF Ready
    <3>2. u = Min(j.archives)
      BY <2>2 DEF NextOut
    <3> QED
      BY <1>2, <3>1, <3>2, MinOfMany DEF FiniteNat
  <2>3. FiniteNat(j.archives \ {u}) /\ FiniteNat(left')
    BY <1>2, <2>1, <2>2, FiniteNatMinus, FiniteNatAdd DEF Types
  <2>4. /\ IsJob(k) /\ k.pc = "unlink" /\ ~k.own
        /\ k.archives = IF old THEN j.archives ELSE j.archives \ {u}
    BY <1>2, <2>1, <2>3 DEF IsJob, JobFields
  <2> HIDE DEF k, u, old
  <2>5. StillToPrune(w, k)
    BY <2>1, <2>4 DEF StillToPrune
  <2> QED
    BY <1>1, <1>2, <2>1, <2>3, <2>5 DEF Types
<1> QED
  BY <1>3, <1>4, <1>5 DEF Pruning

\* The job goes on, or is done because little is left.
LEMMA PrunesJob ==
    ASSUME Jobs, NEW w \in Writers, NEW k, StillToPrune(w, k)
    PROVE  /\ Becomes(w, job'[w])
           /\ \/ job'[w] = k /\ Ready(k)
              \/ job'[w] = Idle /\ ~TooMany(k.archives)
<1>1. CASE k.gone = {} /\ ~TooMany(k.archives)
  <2>1. job' = [job EXCEPT ![w] = Idle]
    BY <1>1 DEF StillToPrune, Prunes, Ends
  <2> QED
    BY <1>1, <2>1 DEF Becomes, Jobs
<1>2. CASE ~(k.gone = {} /\ ~TooMany(k.archives))
  <2>1. job' = [job EXCEPT ![w] = k]
    BY <1>2 DEF StillToPrune, Prunes
  <2> QED
    BY <1>2, <2>1 DEF Becomes, Jobs, Ready, StillToPrune
<1> QED
  BY <1>1, <1>2

LEMMA PrunesJobs ==
    ASSUME Jobs, NEW w \in Writers, \E k : StillToPrune(w, k) PROVE Jobs'
<1>1. PICK k : StillToPrune(w, k)
  OBVIOUS
<1> QED
  BY <1>1, PrunesJob, JobsStay DEF StillToPrune

LEMMA JobTypes ==
    ASSUME Types, Jobs, NEW w \in Writers,
           JobStep(w)
    PROVE  Types' /\ Jobs'
<1> DEFINE j == job[w]
<1>0. UNCHANGED <<line, now, writer>>
  BY DEF StartJob, Open, Compressed, CompressionFails, List, ListFails,
         Prune, Unlinks, UnlinkFails, JobStep, Pruning
<1>1. CASE StartJob(w)
  <2>1. chain[w] \in Seq(Nat) /\ chain[w] # <<>> /\ chain' = [chain EXCEPT ![w] = Tail(@)]
        /\ UNCHANGED <<bare, gz, left>>
        /\ shared' = (shared \/ \E v \in Writers \ {w} : job[v] # Idle)
    BY <1>1 DEF StartJob, Types
  <2>2. Jobs'
    BY <1>1, <2>1, StartDoes, JobsStay
  <2> QED
    BY <1>0, <2>1, <2>2 DEF Types
<1>2. CASE Open(w)
  <2>1. Jobs' /\ j.ts \in Nat
    BY <1>2, OpenDoes, JobsStay DEF IsJob
  <2>2. /\ gz' = With(gz, j.ts, {}) /\ UNCHANGED <<bare, chain, shared>>
        /\ left' = left \/ left' = left \cup {j.ts}
    BY <1>2 DEF Open
  <2>3. FiniteNat(DOMAIN With(gz, j.ts, {})) /\ FiniteNat(left \cup {j.ts})
    BY <2>1, FiniteNatWith, FiniteNatAdd DEF Types
  <2> QED
    BY <1>0, <2>1, <2>2, <2>3 DEF Types
<1>3. CASE Compressed(w) \/ CompressionFails(w)
  <2>1. Jobs' /\ j.ts \in Nat
    BY <1>3, CopyDoes, JobsStay DEF IsJob, Moved
  <2>2. /\ gz' = gz \/ gz' = With(gz, j.ts, j.lines)
        /\ bare' = bare \/ bare' = Without(bare, {j.ts})
        /\ left' = left \/ left' = left \cup {j.ts}
        /\ UNCHANGED <<chain, shared>>
    BY <1>3 DEF Compressed, CompressionFails
  <2>3. /\ FiniteNat(DOMAIN With(gz, j.ts, j.lines)) /\ FiniteNat(left \cup {j.ts})
        /\ FiniteNat(DOMAIN Without(bare, {j.ts}))
    BY <2>1, FiniteNatWith, FiniteNatWithout, FiniteNatAdd DEF Types
  <2> QED
    BY <1>0, <2>1, <2>2, <2>3 DEF Types
<1>4. CASE List(w)
  <2>1. Jobs'
    BY <1>4, ListDoes, JobsStay
  <2> QED
    BY <1>0, <1>4, <2>1 DEF Types, List, history
<1>5. CASE ListFails(w)
  <2>1. /\ job' = [job EXCEPT ![w] = Idle] /\ left' = left \cup {j.ts}
        /\ UNCHANGED <<bare, gz, chain, shared>>
    BY <1>5 DEF ListFails, Ends
  <2>2. j.ts \in Nat
    BY <1>5, ListFailsAt
  <2>3. Jobs' /\ FiniteNat(left')
    BY <2>1, <2>2, JobsStay, FiniteNatAdd DEF Becomes, Jobs, Types
  <2> QED
    BY <1>0, <2>1, <2>3 DEF Types
<1>6. CASE Pruning(w)
  <2>1. /\ FiniteNat(DOMAIN gz') /\ FiniteNat(left') /\ Jobs'
        /\ UNCHANGED <<bare, chain, shared>>
    BY <1>6, PruningDoes, PrunesJobs
  <2> QED
    BY <1>0, <2>1 DEF Types
<1> QED
  BY <1>1, <1>2, <1>3, <1>4, <1>5, <1>6 DEF JobStep

LEMMA OtherTypes ==
    ASSUME Types, Jobs,
           Tick \/ (\E w \in Writers : Flushed(w)) \/ Flush \/ End \/ Reuse \/ Restart \/ Crash
           \/ UNCHANGED vars
    PROVE  Types' /\ Jobs'
<1>1. CASE Tick \/ Flush \/ End \/ Reuse \/ UNCHANGED vars
  BY <1>1 DEF Types, Jobs, Busy, Tick, Flush, End, Reuse, vars, history
<1>2. ASSUME NEW w \in Writers, Flushed(w) PROVE Types' /\ Jobs'
  <2>1. /\ \E T : bare' = Without(bare, T)
        /\ \E T : gz' = Without(gz, T)
        /\ UNCHANGED <<line, now, writer, chain, job, left, shared>>
    BY <1>2 DEF Flushed
  <2>2. FiniteNat(DOMAIN bare') /\ FiniteNat(DOMAIN gz')
    BY <2>1, FiniteNatWithout DEF Types
  <2> QED
    BY <2>1, <2>2 DEF Types, Jobs, Busy
<1>3. ASSUME Made PROVE writer' \in Writers
  BY <1>3, LogAssumption DEF Made, Types, Writers
<1>4. CASE Restart
  BY <1>3, <1>4 DEF Restart, Types, Jobs, Busy, history
<1>5. CASE Crash
  <2>1. /\ chain' = [w \in Writers |-> <<>>] /\ job' = [w \in Writers |-> Idle]
        /\ left' = left \cup DOMAIN bare \cup DOMAIN gz /\ DOMAIN gz' = DOMAIN gz
        /\ UNCHANGED <<bare, now, line, shared>> /\ Made
    BY <1>5 DEF Crash
  <2>2. FiniteNat(left')
    BY <2>1, FiniteNatUnion DEF Types
  <2>3. chain' \in [Writers -> Seq(Nat)] /\ Jobs'
    BY <2>1 DEF Jobs, Busy
  <2> QED
    BY <1>3, <2>1, <2>2, <2>3 DEF Types
<1> QED
  BY <1>1, <1>2, <1>4, <1>5

----------------------------------------------------------------------------
(* No line is lost. *)

Traced(x) ==
    \/ x \in active \/ x \in In(bare) \/ x \in In(gz)
    \/ x \in unwritten \/ x \in overwritten \/ x \in dropped

LEMMA KeptIsTraced == LinesKept <=> \A x \in 1..line : Traced(x)
BY DEF LinesKept, Traced

\* A step that writes no line.
LEMMA StillKept ==
    ASSUME KeepInv, line' = line, Types', Jobs', \A x \in Nat : Traced(x) => Traced(x)'
    PROVE  KeepInv'
<1>1. \A x \in 1..line : x \in Nat /\ Traced(x)
  BY KeptIsTraced DEF KeepInv
<1>2. LinesKept' <=> \A x \in 1..line' : Traced(x)'
  BY DEF LinesKept, Traced
<1> QED
  BY <1>1, <1>2 DEF KeepInv

\* The files keep what they have, and the history does.
Steady(x) ==
    /\ x \in active => x \in active' \/ x \in In(bare') \/ x \in dropped'
    /\ x \in In(bare) => x \in In(bare') \/ x \in In(gz') \/ x \in overwritten' \/ x \in dropped'
    /\ x \in In(gz) => x \in In(gz') \/ x \in In(bare') \/ x \in overwritten' \/ x \in dropped'
    /\ x \in unwritten => x \in unwritten'
    /\ x \in overwritten => x \in overwritten'
    /\ x \in dropped => x \in dropped'

LEMMA SteadyIsTraced == ASSUME NEW x, Steady(x), Traced(x) PROVE Traced(x)'
BY DEF Steady, Traced

LEMMA RenameSteady ==
    ASSUME NEW x, NEW lines, Renamed(lines),
           UNCHANGED <<gz, dropped>>, x \in unwritten => x \in unwritten', active \subseteq lines
    PROVE  Steady(x) /\ lines \subseteq In(bare')
<1>1. /\ bare' = With(bare, now, lines) /\ overwritten' = overwritten \cup At(bare, now)
      /\ active' = {}
  BY DEF Renamed
<1>2. lines \subseteq In(bare')
  BY <1>1, InWritten
<1>3. x \in In(bare) => x \in At(bare, now) \/ x \in In(bare')
  BY <1>1, InWith
<1> QED
  BY <1>1, <1>2, <1>3 DEF Steady

LEMMA WriteKeeps == ASSUME KeepInv, Write \/ WriteFails, Types', Jobs' PROVE KeepInv'
<1>0. line \in Nat /\ line' = line + 1
  BY DEF KeepInv, Types, Write, WriteFails
<1>n. PICK n : n = line + 1
  OBVIOUS
<1>2. ASSUME \A x \in 1..line : Traced(x) => Traced(x)', Traced(n)' PROVE KeepInv'
  <2>1. \A x \in 1..line : Traced(x)'
    BY <1>2, KeptIsTraced DEF KeepInv
  <2>2. \A x \in 1..line' : x \in 1..line \/ x = n
    BY <1>0, <1>n
  <2>3. LinesKept' <=> \A x \in 1..line' : Traced(x)'
    BY DEF LinesKept, Traced
  <2> QED
    BY <1>2, <2>1, <2>2, <2>3 DEF KeepInv
<1>3. CASE WriteFails
  <2>1. /\ unwritten' = unwritten \cup {n}
        /\ UNCHANGED <<active, bare, gz, overwritten, dropped>>
    BY <1>n, <1>3 DEF WriteFails
  <2>2. \A x : Steady(x)
    BY <2>1 DEF Steady
  <2> QED
    BY <1>2, <2>1, <2>2, SteadyIsTraced DEF Traced
<1>4. CASE Write
  <2> DEFINE lost  == fd = "reused"
             lines == IF lost THEN active ELSE active \cup {n}
  <2>1. /\ unwritten' = IF lost THEN unwritten \cup {n} ELSE unwritten
        /\ UNCHANGED <<gz, dropped>>
        /\ \E today \in day..DayOf(now) :
               IF RotationDue(today) THEN Rotated(lines, today) \/ RotationFails(lines) ELSE Kept(lines)
    BY <1>n, <1>4 DEF Write
  <2>2. Renamed(lines) \/ (active' = lines /\ UNCHANGED <<bare, overwritten>>)
    BY <2>1 DEF Rotated, RotationFails, Kept
  <2>3. active \subseteq lines /\ unwritten \subseteq unwritten' /\ (n \in lines \/ n \in unwritten')
    BY <2>1
  <2> HIDE DEF lost, lines
  <2>4. CASE Renamed(lines)
    <3>1. \A x : Steady(x) /\ lines \subseteq In(bare')
      BY <2>1, <2>3, <2>4, RenameSteady
    <3>2. Traced(n)'
      BY <2>3, <3>1 DEF Traced
    <3> QED
      BY <1>2, <3>1, <3>2, SteadyIsTraced
  <2>5. CASE active' = lines /\ UNCHANGED <<bare, overwritten>>
    <3>1. \A x : Steady(x)
      BY <2>1, <2>3, <2>5 DEF Steady
    <3>2. Traced(n)'
      BY <2>3, <2>5 DEF Traced
    <3> QED
      BY <1>2, <3>1, <3>2, SteadyIsTraced
  <2> QED
    BY <2>2, <2>4, <2>5
<1> QED
  BY <1>3, <1>4

LEMMA CompressKeeps ==
    ASSUME KeepInv, NEW w \in Writers,
           JobStep(w),
           Types', Jobs'
    PROVE  KeepInv'
<1> DEFINE j == job[w]
<1>0. line' = line /\ Jobs
  BY DEF KeepInv, StartJob, Open, Compressed, CompressionFails, List, ListFails,
         Prune, Unlinks, UnlinkFails, JobStep, Pruning
<1>1. SUFFICES ASSUME NEW x PROVE Steady(x)
  BY <1>0, SteadyIsTraced, StillKept
<1>2. CASE StartJob(w) \/ List(w) \/ ListFails(w)
  BY <1>2 DEF StartJob, List, ListFails, Steady, history
<1>3. CASE Open(w)
  <2>1. j.seen
    BY <1>0, <1>3, OpenDoes
  <2>2. /\ gz' = With(gz, j.ts, {}) /\ UNCHANGED <<active, bare, unwritten, dropped>>
        /\ overwritten' = IF j.seen THEN overwritten \cup (At(gz, j.ts) \ At(bare, j.ts))
                                    ELSE overwritten
    BY <1>3 DEF Open
  <2>3. overwritten' = overwritten \cup (At(gz, j.ts) \ At(bare, j.ts))
    BY <2>1, <2>2
  <2>4. x \in In(gz) => x \in At(gz, j.ts) \/ x \in In(gz')
    BY <2>2, InWith
  <2>5. x \in At(bare, j.ts) => x \in In(bare)
    BY DEF At, In
  <2> QED
    BY <2>2, <2>3, <2>4, <2>5 DEF Steady
<1>4. CASE Compressed(w)
  <2>1. /\ gz' = IF j.ts \in DOMAIN gz THEN With(gz, j.ts, j.lines) ELSE gz
        /\ overwritten' = overwritten \cup ((At(gz, j.ts) \cup At(bare, j.ts)) \ j.lines)
        /\ dropped' = IF j.ts \in DOMAIN gz THEN dropped ELSE dropped \cup j.lines
        /\ bare' = Without(bare, {j.ts}) \/ bare' = bare
        /\ UNCHANGED <<active, unwritten>>
    BY <1>4 DEF Compressed
  <2>2. \A y \in j.lines : y \in In(gz') \/ y \in dropped'
    BY <2>1, InWritten
  <2>3. x \in In(gz) => x \in At(gz, j.ts) \/ x \in In(gz')
    BY <2>1, InWith
  <2>4. x \in In(bare) => x \in At(bare, j.ts) \/ x \in In(bare')
    BY <2>1, InWithout
  <2> QED
    BY <2>1, <2>2, <2>3, <2>4 DEF Steady
<1>5. CASE CompressionFails(w)
  <2>1. /\ \/ bare' = bare /\ dropped' = dropped
           \/ bare' = Without(bare, {j.ts}) /\ dropped' = dropped \cup At(bare, j.ts)
        /\ UNCHANGED <<active, gz, unwritten, overwritten>>
    BY <1>5 DEF CompressionFails
  <2>2. x \in In(bare) => x \in In(bare') \/ x \in dropped'
    BY <2>1, InWithout
  <2> QED
    BY <2>1, <2>2 DEF Steady
<1>6. CASE Pruning(w)
  <2>1. CASE Unlinks(w)
    <3> DEFINE u == NextOut(j)
    <3>1. /\ gz' = Without(gz, {u}) /\ dropped' = dropped \cup gz[u] /\ u \in DOMAIN gz
          /\ UNCHANGED <<active, bare, unwritten, overwritten>>
      BY <2>1 DEF Unlinks
    <3> HIDE DEF u
    <3>2. x \in In(gz) => x \in In(gz') \/ x \in At(gz, u)
      BY <3>1, InWithout
    <3> QED
      BY <3>1, <3>2 DEF Steady, At
  <2> QED
    BY <1>6, <2>1 DEF Pruning, Prune, UnlinkFails, Steady
<1> QED
  BY <1>2, <1>3, <1>4, <1>5, <1>6 DEF JobStep

LEMMA OtherKeeps ==
    ASSUME KeepInv, Types', Jobs',
           Tick \/ (\E w \in Writers : Flushed(w)) \/ Flush \/ End \/ Reuse \/ Restart \/ Crash
           \/ UNCHANGED vars
    PROVE  KeepInv'
<1>0. line' = line
  BY DEF Tick, Flushed, Flush, End, Reuse, Restart, Crash, vars
<1>1. SUFFICES ASSUME NEW x PROVE Steady(x)
  BY <1>0, SteadyIsTraced, StillKept
<1>2. CASE Tick \/ Flush \/ End \/ Reuse \/ Restart \/ UNCHANGED vars
  BY <1>2 DEF Tick, Flush, End, Reuse, Restart, vars, history, Steady
<1>3. ASSUME NEW w \in Writers, Flushed(w) PROVE Steady(x)
  <2>1. PICK keptBare \in SUBSET DOMAIN bare, keptGz \in SUBSET DOMAIN gz :
            /\ bare' = Without(bare, DOMAIN bare \ keptBare)
            /\ gz' = Without(gz, DOMAIN gz \ keptGz)
            /\ dropped' = dropped \cup (active \ active')
                          \cup In(Without(bare, keptBare)) \cup In(Without(gz, keptGz))
            /\ UNCHANGED <<unwritten, overwritten>>
    BY <1>3 DEF Flushed
  <2>2. x \in In(bare) => x \in In(bare') \/ x \in In(Without(bare, keptBare))
    BY <2>1, InParts
  <2>3. x \in In(gz) => x \in In(gz') \/ x \in In(Without(gz, keptGz))
    BY <2>1, InParts
  <2> QED
    BY <2>1, <2>2, <2>3 DEF Steady
<1>4. CASE Crash
  <2> DEFINE cut == {job[w].ts : w \in {v \in Writers : job[v].pc = "copy"}} \cap DOMAIN gz
  <2>1. /\ gz' = [t \in DOMAIN gz |-> IF t \in cut THEN {} ELSE gz[t]]
        /\ overwritten' = overwritten \cup ((UNION {gz[t] : t \in cut}) \ In(bare))
        /\ UNCHANGED <<active, bare, unwritten, dropped>>
    BY <1>4 DEF Crash
  <2> HIDE DEF cut
  <2>o. PICK torn : /\ torn = UNION {gz[t] : t \in cut}
                    /\ overwritten' = overwritten \cup (torn \ In(bare))
    BY <2>1
  <2>t. ASSUME NEW u \in cut PROVE gz[u] \subseteq torn
    <3>1. gz[u] \in {gz[t] : t \in cut}
      OBVIOUS
    <3> QED
      BY <3>1, <2>o
  <2>2. ASSUME x \in In(gz) PROVE x \in In(gz') \/ x \in In(bare') \/ x \in overwritten'
    <3>1. PICK t \in DOMAIN gz : x \in gz[t]
      BY <2>2 DEF In
    <3>2. CASE t \in cut
      <4>1. x \in torn
        BY <3>1, <3>2, <2>t
      <4>2. x \in In(bare) \/ x \in overwritten'
        BY <2>o, <4>1
      <4> QED
        BY <2>1, <4>2
    <3>3. CASE t \notin cut
      <4>1. t \in DOMAIN gz' /\ x \in gz'[t]
        BY <2>1, <3>1, <3>3
      <4> QED
        BY <4>1 DEF In
    <3> QED
      BY <3>2, <3>3
  <2> QED
    BY <2>1, <2>2 DEF Steady
<1> QED
  BY <1>2, <1>3, <1>4

LEMMA NextKeeps == KeepInv /\ [Next]_vars => KeepInv'
<1> SUFFICES ASSUME KeepInv, [Next]_vars PROVE KeepInv'
  OBVIOUS
<1>0. Types /\ Jobs
  BY DEF KeepInv
<1>1. CASE Write \/ WriteFails
  BY <1>0, <1>1, WriteTypes, WriteKeeps
<1>2. ASSUME NEW w \in Writers,
             JobStep(w)
      PROVE  KeepInv'
  BY <1>0, <1>2, JobTypes, CompressKeeps
<1>3. CASE Tick \/ (\E w \in Writers : Flushed(w)) \/ Flush \/ End \/ Reuse \/ Restart \/ Crash
           \/ UNCHANGED vars
  BY <1>0, <1>3, OtherTypes, OtherKeeps
<1> QED
  BY <1>1, <1>2, <1>3 DEF Next, JobStep, Pruning

LEMMA InitKeeps == Init => KeepInv
<1>1. Init => line = 0
  BY DEF Init
<1> QED
  BY <1>1, InitTypes DEF KeepInv, LinesKept

\* A line that was written is in the log or an archive until it is pruned or flushed,
\* whatever fails and whenever the daemon dies, but for files that get each other's name
\* (RotatingWriter.ts:125-127).
THEOREM NoLineLost == Spec => []LinesKept
<1>1. Spec => []KeepInv
  BY InitKeeps, NextKeeps, PTL DEF Spec
<1>2. KeepInv => LinesKept
  BY DEF KeepInv
<1> QED
  BY <1>1, <1>2, PTL

----------------------------------------------------------------------------
(* The archives that are kept. *)

\* What someone knew of, someone knows of still.
Grows == \A t : KnownLater(t) => KnownLater(t)'

LEMMA GrowsAnyway ==
    ASSUME left \subseteq left', chain' = chain PROVE Grows
BY DEF Grows, KnownLater, Waits

\* Whoever is listed now was before, and no archive has come that no one accounts for.
LEMMA SettledStays ==
    ASSUME Types, FewSettled, shared => shared',
           (\A w \in Writers : ~Listed(w)') => \A w \in Writers : ~Listed(w),
           \A t \in DOMAIN gz' : KnownLater(t)' \/ Holds(t)' \/ t \in Settled
    PROVE  FewSettled'
<1> SUFFICES ASSUME ~shared', \A w \in Writers : ~Listed(w)'
             PROVE  Cardinality(Settled') <= MaxFiles
  BY DEF FewSettled
<1>1. Cardinality(Settled) <= MaxFiles
  BY DEF FewSettled
<1>2. IsFiniteSet(Settled)
  BY FS_Subset DEF Types, FiniteNat, Settled
<1>3. Settled' \subseteq Settled
  BY DEF Settled
<1>4. PICK L, M : L = Settled /\ M = Settled'
  OBVIOUS
<1>5. Cardinality(M) <= Cardinality(L) /\ Cardinality(M) \in Nat /\ Cardinality(L) \in Nat
  BY <1>2, <1>3, <1>4, FS_Subset, FS_CardinalityType
<1>6. Cardinality(M) <= MaxFiles
  BY <1>1, <1>4, <1>5, LogAssumption
<1> QED
  BY <1>4, <1>6

\* Jobs and chains unchanged.
LEMMA StillBound ==
    ASSUME BoundInv, Types', UNCHANGED <<job, chain, shared>>, left \subseteq left',
           DOMAIN gz' \subseteq DOMAIN gz, \A t \in DOMAIN bare' : t \in DOMAIN bare \/ t \in left'
    PROVE  BoundInv'
<1>0. Grows /\ Types
  BY GrowsAnyway DEF BoundInv
<1>1. Jobs' /\ OneJob'
  BY DEF BoundInv, Jobs, OneJob, Busy
<1>2. BareKnown'
  BY <1>0 DEF BoundInv, BareKnown, Grows, KnownLater, Works, Busy
<1>3. ListKnown'
  BY <1>0 DEF BoundInv, ListKnown, Grows, Listed, KnowsList, Busy
<1>4. \A w \in Writers : Listed(w)' <=> Listed(w)
  BY DEF Listed, Busy
<1>5. \A t : Holds(t) => Holds(t)'
  BY DEF Holds, Busy
<1>6. FewSettled'
  BY <1>0, <1>4, <1>5, SettledStays DEF BoundInv, Settled, Grows
<1> QED
  BY <1>1, <1>2, <1>3, <1>6 DEF BoundInv

LEMMA WriteBound == ASSUME BoundInv, Write \/ WriteFails PROVE BoundInv'
<1>0. Types /\ Types' /\ Jobs'
  BY WriteTypes DEF BoundInv
<1>1. UNCHANGED <<gz, job, shared>>
  BY DEF Write, WriteFails
<1>2. CASE /\ chain' = chain /\ left \subseteq left'
           /\ \A t \in DOMAIN bare' : t \in DOMAIN bare \/ t \in left'
  BY <1>0, <1>1, <1>2, StillBound
<1>3. ASSUME NEW lines, bare' = With(bare, now, lines),
             chain' = [chain EXCEPT ![writer] = Append(@, now)], left' = left
      PROVE  BoundInv'
  <2>1. writer \in Writers /\ now \in Nat /\ chain[writer] \in Seq(Nat)
    BY <1>0 DEF Types
  <2>2. /\ chain'[writer] = Append(chain[writer], now)
        /\ \A w \in Writers \ {writer} : chain'[w] = chain[w]
    BY <1>0, <1>3 DEF Types
  <2>3. /\ Len(chain[writer]) + 1 \in DOMAIN chain'[writer]
        /\ chain'[writer][Len(chain[writer]) + 1] = now
        /\ \A i \in DOMAIN chain[writer] :
               i \in DOMAIN chain'[writer] /\ chain'[writer][i] = chain[writer][i]
        /\ chain'[writer] # <<>>
    BY <2>1, <2>2
  <2>4. Waits(now)'
    <3>1. Waits(now)' <=> \E w \in Writers : \E i \in DOMAIN chain'[w] : chain'[w][i] = now'
      BY DEF Waits
    <3>2. now' = now
      BY <1>3 DEF Write, WriteFails
    <3> QED
      BY <2>1, <2>3, <3>1, <3>2
  <2>5. Grows
    <3>1. ASSUME NEW t, Waits(t) PROVE Waits(t)'
      BY <2>2, <2>3, <3>1 DEF Waits
    <3> QED
      BY <1>3, <3>1 DEF Grows, KnownLater
  <2>6. DOMAIN bare' = DOMAIN bare \cup {now} /\ now' = now
    BY <1>3, DomainWith DEF Write, WriteFails
  <2>7. BareKnown'
    BY <1>1, <2>4, <2>5, <2>6 DEF BoundInv, BareKnown, Grows, KnownLater, Works, Busy
  <2>8. ListKnown'
    BY <1>1, <2>5 DEF BoundInv, ListKnown, Grows, Listed, KnowsList, Busy
  <2>9. \A w \in Writers : Listed(w)' <=> Listed(w)
    BY <1>1 DEF Listed, Busy
  <2>10. \A t : Holds(t) => Holds(t)'
    BY <1>1 DEF Holds, Busy
  <2>11. FewSettled'
    BY <1>0, <1>1, <2>5, <2>9, <2>10, SettledStays DEF BoundInv, Settled, Grows
  <2>12. OneJob'
    BY <1>1 DEF BoundInv, OneJob, Busy
  <2> QED
    BY <1>0, <2>7, <2>8, <2>11, <2>12 DEF BoundInv
<1>4. CASE WriteFails
  BY <1>2, <1>4 DEF WriteFails
<1>5. CASE Write
  <2>1. PICK lines : \E today \in day..DayOf(now) :
               IF RotationDue(today) THEN Rotated(lines, today) \/ RotationFails(lines) ELSE Kept(lines)
    BY <1>5 DEF Write
  <2>2. CASE \E today \in day..DayOf(now) : Rotated(lines, today)
    BY <1>3, <2>2 DEF Rotated, Renamed
  <2>3. CASE RotationFails(lines)
    <3>1. bare' = bare \/ (bare' = With(bare, now, lines) /\ left' = left \cup {now})
      BY <2>3 DEF RotationFails, Renamed
    <3>2. DOMAIN With(bare, now, lines) = DOMAIN bare \cup {now}
      BY DomainWith
    <3>3. chain' = chain /\ left \subseteq left'
      BY <2>3 DEF RotationFails
    <3> QED
      BY <1>2, <3>1, <3>2, <3>3
  <2>4. CASE Kept(lines)
    BY <1>2, <2>4 DEF Kept
  <2> QED
    BY <2>1, <2>2, <2>3, <2>4
<1> QED
  BY <1>4, <1>5

LEMMA StartBound == ASSUME BoundInv, NEW w \in Writers, StartJob(w) PROVE BoundInv'
<1>0. Types /\ Types' /\ Jobs /\ Jobs'
  BY JobTypes DEF BoundInv, JobStep
<1>1. /\ chain[w] \in Seq(Nat) /\ chain[w] # <<>> /\ chain' = [chain EXCEPT ![w] = Tail(@)]
      /\ UNCHANGED <<bare, gz, left>>
      /\ shared' = (shared \/ \E v \in Writers \ {w} : job[v] # Idle)
  BY <1>0 DEF StartJob, Types
<1>2. /\ ~Busy(w) /\ Busy(w)' /\ Becomes(w, job'[w]) /\ job'[w].own
      /\ job'[w].ts = Head(chain[w])
      /\ \/ job'[w].pc = "open" /\ job'[w].ts = Head(chain[w])
         \/ job'[w].pc = "list" /\ Head(chain[w]) \notin DOMAIN bare
  BY <1>0, <1>1, StartDoes
<1>3. chain'[w] = Tail(chain[w]) /\ \A v \in Writers \ {w} : chain'[v] = chain[v]
  BY <1>0, <1>1 DEF Types
<1>4. ASSUME NEW t, Waits(t) PROVE Waits(t)' \/ t = Head(chain[w])
  <2>0. PICK v \in Writers : \E i \in DOMAIN chain[v] : chain[v][i] = t
    BY <1>4 DEF Waits
  <2>1. PICK i \in DOMAIN chain[v] : chain[v][i] = t
    BY <2>0
  <2>2. CASE v # w
    BY <1>3, <2>1, <2>2 DEF Waits
  <2>3. CASE v = w /\ i # 1
    <3>1. i - 1 \in DOMAIN Tail(chain[w]) /\ Tail(chain[w])[i - 1] = t
      BY <1>1, <2>1, <2>3, SMTT(20)
    <3> QED
      BY <1>3, <3>1 DEF Waits
  <2>4. CASE v = w /\ i = 1
    BY <1>1, <2>1, <2>4
  <2> QED
    BY <2>2, <2>3, <2>4
<1>5. BareKnown'
  <2> SUFFICES ASSUME NEW t \in DOMAIN bare PROVE KnownLater(t)' \/ Works(t)'
    BY <1>1 DEF BareKnown
  <2>1. KnownLater(t) \/ Works(t)
    BY DEF BoundInv, BareKnown
  <2>2. CASE t = Head(chain[w])
    <3>1. job'[w].pc = "open" /\ job'[w].ts = t
      BY <1>2, <2>2
    <3> QED
      BY <1>2, <3>1 DEF Works
  <2>3. CASE t # Head(chain[w])
    BY <1>1, <1>2, <1>4, <2>1, <2>3 DEF KnownLater, Works, Becomes, Busy
  <2> QED
    BY <2>2, <2>3
<1>6. OneJob'
  BY <1>1, <1>2 DEF OneJob, Becomes, Busy
<1>7. ListKnown'
  <2> SUFFICES ASSUME ~shared', NEW v \in Writers, Listed(v)' PROVE FALSE
    BY DEF ListKnown
  <2>1. v # w
    BY <1>2 DEF Listed
  <2> QED
    BY <1>1, <1>2, <2>1 DEF Listed, Becomes, Busy
<1>8. FewSettled'
  <2>1. \A v \in Writers : Listed(v) => Listed(v)'
    BY <1>2 DEF Listed, Becomes, Busy
  <2>2. \A t : Holds(t) => Holds(t)'
    BY <1>2 DEF Holds, Becomes, Busy
  <2>3. ASSUME NEW t \in DOMAIN gz' PROVE KnownLater(t)' \/ Holds(t)' \/ t \in Settled
    <3>1. PICK h : h = Head(chain[w])
      OBVIOUS
    <3>2. Holds(h)'
      BY <1>2, <3>1 DEF Holds
    <3>3. KnownLater(t) => KnownLater(t)' \/ t = h
      BY <1>1, <1>4, <3>1 DEF KnownLater
    <3> QED
      BY <1>1, <2>2, <3>2, <3>3 DEF Settled
  <2> QED
    BY <1>0, <1>1, <2>1, <2>3, SettledStays DEF BoundInv
<1> QED
  BY <1>0, <1>5, <1>6, <1>7, <1>8 DEF BoundInv

LEMMA KnowsListNow ==
    ASSUME NEW w \in Writers,
           job'[w].pc \in {"open", "copy"} => \A x : x = job'[w].ts => KnownLater(x)',
           \A t \in DOMAIN gz' \ job'[w].archives : KnownLater(t)',
           \A t \in job'[w].bares : KnownLater(t)'
    PROVE  KnowsList(w)'
<1> DEFINE Known(t) == t \in left' \/ \E v \in Writers : \E i \in DOMAIN chain'[v] : chain'[v][i] = t
<1>1. \A t : KnownLater(t)' <=> Known(t)
  BY DEF KnownLater, Waits
<1>2. KnowsList(w)' <=> /\ \A t \in DOMAIN gz' \ job'[w].archives : Known(t)
                        /\ job'[w].pc \in {"open", "copy"} =>
                               Known(job'[w].ts) /\ \A t \in job'[w].bares : Known(t)
  BY DEF KnowsList, KnownLater, Waits
<1> HIDE DEF Known
<1> QED
  BY <1>1, <1>2

\* A job goes on.  It still knows its file, or has handed it over.
LEMMA MoveBound ==
    ASSUME BoundInv, NEW w \in Writers, Types', Jobs', Busy(w), IsJob(job'[w]),
           Becomes(w, job'[w]), UNCHANGED <<chain, shared>>, left \subseteq left',
           \A t \in DOMAIN bare' : t \in DOMAIN bare /\ (t = job[w].ts /\ Works(t) => KnownLater(t)' \/ Works(t)'),
           job'[w].own => job[w].own /\ job'[w].ts = job[w].ts,
           \A t \in DOMAIN gz' : t \in DOMAIN gz \/ t = job[w].ts,
           ~shared /\ Listed(w)' => KnowsList(w)'
    PROVE  BoundInv'
<1>1. Grows /\ Busy(w)'
  BY GrowsAnyway, NotIdle DEF Busy
<1>2. ASSUME NEW t, Works(t), t # job[w].ts PROVE Works(t)'
  BY <1>2 DEF Works, Becomes, Busy
<1>3. BareKnown'
  <2> SUFFICES ASSUME NEW t \in DOMAIN bare' PROVE KnownLater(t)' \/ Works(t)'
    BY DEF BareKnown
  <2>1. KnownLater(t) \/ Works(t)
    BY DEF BoundInv, BareKnown
  <2> QED
    BY <1>1, <1>2, <2>1 DEF Grows
<1>4. OneJob'
  BY <1>1 DEF BoundInv, OneJob, Becomes, Busy
<1>5. ListKnown'
  <2> SUFFICES ASSUME ~shared', NEW v \in Writers, Listed(v)'
               PROVE  KnowsList(v)'
    BY DEF ListKnown
  <2>1. v = w
    BY <1>1, <1>4 DEF OneJob, Listed
  <2> QED
    BY <2>1
<1>6. FewSettled'
  <2>1. CASE job'[w].own
    <3>1. \A v \in Writers : Listed(v) => Listed(v)'
      BY <1>1, <2>1 DEF Listed, Becomes, Busy
    <3>2. \A t : Holds(t) => Holds(t)'
      BY <1>1, <2>1 DEF Holds, Becomes, Busy
    <3>3. \A t : t = job[w].ts => Holds(t)'
      BY <1>1, <2>1 DEF Holds
    <3>4. \A t \in DOMAIN gz' : KnownLater(t)' \/ Holds(t)' \/ t \in Settled
      BY <1>1, <3>2, <3>3 DEF Settled, Grows
    <3> QED
      BY <3>1, <3>4, SettledStays DEF BoundInv
  <2>2. CASE ~job'[w].own
    BY <1>1, <2>2 DEF FewSettled, Listed
  <2> QED
    BY <2>1, <2>2
<1> QED
  BY <1>3, <1>4, <1>5, <1>6 DEF BoundInv

LEMMA OpenBound == ASSUME BoundInv, NEW w \in Writers, Open(w) PROVE BoundInv'
<1> DEFINE j == job[w]
           k == job'[w]
<1>0. Types' /\ Jobs' /\ Jobs
  BY JobTypes DEF BoundInv, JobStep
<1>1. /\ Busy(w) /\ IsJob(j) /\ j.pc = "open" /\ IsJob(k) /\ Becomes(w, k)
      /\ \/ k.pc = "copy" /\ k.ts = j.ts /\ k.own = j.own /\ k.bares = j.bares /\ k.archives = j.archives
         \/ j.ts \notin DOMAIN bare /\ Moved(j, k)
  BY <1>0, OpenDoes
<1>2. /\ gz' = With(gz, j.ts, {}) /\ UNCHANGED <<bare, chain, shared>> /\ left \subseteq left'
  BY DEF Open
<1>3. DOMAIN gz' = DOMAIN gz \cup {j.ts}
  BY <1>2, DomainWith
<1>4. Grows
  BY <1>2, GrowsAnyway
<1>5. ASSUME NEW t \in DOMAIN bare, t = j.ts, Works(t) PROVE KnownLater(t)' \/ Works(t)'
  <2>1. k.pc = "copy" /\ k.ts = j.ts /\ k.own = j.own
    BY <1>1, <1>5
  <2>2. CASE j.own
    <3>1. Busy(w)'
      BY <1>1, NotIdle DEF Busy
    <3> QED
      BY <1>5, <2>1, <2>2, <3>1 DEF Works
  <2>3. CASE ~j.own
    <3>1. PICK v \in Writers : Busy(v) /\ job[v].own /\ job[v].pc \in {"open", "copy"} /\ job[v].ts = t
      BY <1>5 DEF Works
    <3>2. v # w
      BY <2>3, <3>1
    <3> QED
      BY <1>1, <3>1, <3>2 DEF Works, Becomes, Busy
  <2> QED
    BY <2>2, <2>3
<1>6. ASSUME ~shared, Listed(w)'
      PROVE  KnowsList(w)'
  <2>1. ~j.own /\ k.archives = j.archives /\ k.bares \subseteq j.bares
        /\ (k.pc \in {"open", "copy"} => k.ts = j.ts \/ k.ts \in j.bares)
    BY <1>1, <1>6 DEF Listed, Moved
  <2>2. /\ \A t \in DOMAIN gz \ j.archives : KnownLater(t)
        /\ \A t \in j.bares : KnownLater(t)
        /\ KnownLater(j.ts)
    BY <1>1, <1>6, <2>1 DEF BoundInv, ListKnown, Listed, KnowsList
  <2>3. \A t : KnownLater(t) => KnownLater(t)'
    BY <1>4 DEF Grows
  <2>4. k.pc \in {"open", "copy"} => \A x : x = k.ts => KnownLater(x)'
    BY <2>1, <2>2, <2>3
  <2>5. /\ \A t \in DOMAIN gz' \ k.archives : KnownLater(t)'
        /\ \A t \in k.bares : KnownLater(t)'
    BY <1>3, <2>1, <2>2, <2>3
  <2> QED
    BY <2>4, <2>5, KnowsListNow
<1>7. k.own => j.own /\ k.ts = j.ts
  BY <1>1 DEF Moved
<1> HIDE DEF j, k
<1> QED
  BY <1>0, <1>1, <1>2, <1>3, <1>5, <1>6, <1>7, MoveBound DEF j, k

LEMMA CopyBound ==
    ASSUME BoundInv, NEW w \in Writers, Compressed(w) \/ CompressionFails(w) PROVE BoundInv'
<1> DEFINE j == job[w]
           k == job'[w]
<1>0. Types' /\ Jobs' /\ Jobs
  BY JobTypes DEF BoundInv, JobStep
<1>1. Busy(w) /\ IsJob(j) /\ j.pc = "copy" /\ Moved(j, k) /\ Becomes(w, k)
  BY <1>0, CopyDoes
<1>2. /\ DOMAIN gz' \subseteq DOMAIN gz /\ UNCHANGED <<chain, shared>> /\ left \subseteq left'
      /\ \A t \in DOMAIN bare' : t \in DOMAIN bare
      /\ (j.ts \in DOMAIN bare' => j.ts \in left')
  <2>1. CASE Compressed(w)
    <3>1. /\ \/ bare' = Without(bare, {j.ts}) /\ left' = left
             \/ bare' = bare /\ left' = left \cup {j.ts}
          /\ UNCHANGED <<chain, shared>>
          /\ gz' = IF j.ts \in DOMAIN gz THEN With(gz, j.ts, j.lines) ELSE gz
      BY <2>1 DEF Compressed
    <3>2. DOMAIN With(gz, j.ts, j.lines) = DOMAIN gz \cup {j.ts}
      BY DomainWith
    <3>3. DOMAIN gz' = DOMAIN gz
      BY <3>1, <3>2
    <3> QED
      BY <3>1, <3>3 DEF Without
  <2>2. CASE CompressionFails(w)
    <3>1. /\ \/ bare' = Without(bare, {j.ts}) /\ left' = left
             \/ bare' = bare /\ left' = left \cup {j.ts}
          /\ UNCHANGED <<chain, shared, gz>>
      BY <2>2 DEF CompressionFails
    <3> QED
      BY <3>1 DEF Without
  <2> QED
    BY <2>1, <2>2
<1>3. Grows
  BY <1>2, GrowsAnyway
<1>4. ASSUME NEW t \in DOMAIN bare', t = j.ts PROVE KnownLater(t)'
  BY <1>2, <1>4 DEF KnownLater
<1>5. ASSUME ~shared, Listed(w)'
      PROVE  KnowsList(w)'
  <2>1. ~j.own /\ k.archives = j.archives /\ k.bares \subseteq j.bares
        /\ (k.pc \in {"open", "copy"} => k.ts \in j.bares)
    BY <1>1, <1>5 DEF Listed, Moved
  <2>2. /\ \A t \in DOMAIN gz \ j.archives : KnownLater(t)
        /\ \A t \in j.bares : KnownLater(t)
    BY <1>1, <1>5, <2>1 DEF BoundInv, ListKnown, Listed, KnowsList
  <2>3. \A t : KnownLater(t) => KnownLater(t)'
    BY <1>3 DEF Grows
  <2>4. k.pc \in {"open", "copy"} => \A x : x = k.ts => KnownLater(x)'
    BY <2>1, <2>2, <2>3
  <2>5. /\ \A t \in DOMAIN gz' \ k.archives : KnownLater(t)'
        /\ \A t \in k.bares : KnownLater(t)'
    BY <1>2, <2>1, <2>2, <2>3
  <2> QED
    BY <2>4, <2>5, KnowsListNow
<1>6. IsJob(k) /\ (k.own => j.own /\ k.ts = j.ts)
  BY <1>1 DEF Moved
<1> HIDE DEF j, k
<1> QED
  BY <1>0, <1>1, <1>2, <1>4, <1>5, <1>6, MoveBound DEF j, k

LEMMA ListBound == ASSUME BoundInv, NEW w \in Writers, List(w) PROVE BoundInv'
<1> DEFINE j == job[w]
           k == job'[w]
<1>0. Types /\ Types' /\ Jobs' /\ Jobs
  BY JobTypes DEF BoundInv, JobStep
<1>1. /\ Busy(w) /\ IsJob(j) /\ j.pc = "list" /\ IsJob(k) /\ Becomes(w, k)
      /\ ~k.own /\ k.archives = DOMAIN gz /\ k.bares \subseteq DOMAIN bare
      /\ k.pc \in {"open", "copy"} => k.ts \in DOMAIN bare
  BY <1>0, ListDoes
<1>2. UNCHANGED <<gz, bare, left, chain, shared>>
  BY DEF List, history
<1>3. Grows
  BY <1>2, GrowsAnyway
<1>4. ASSUME NEW t, t = j.ts, Works(t) PROVE Works(t)'
  <2>1. PICK v \in Writers : Busy(v) /\ job[v].own /\ job[v].pc \in {"open", "copy"} /\ job[v].ts = t
    BY <1>4 DEF Works
  <2>2. v # w
    BY <1>1, <2>1
  <2> QED
    BY <1>1, <2>1, <2>2 DEF Works, Becomes, Busy
<1>5. ASSUME ~shared, NEW t \in DOMAIN bare PROVE KnownLater(t)'
  <2>1. ~Works(t)
    BY <1>1, <1>5 DEF BoundInv, OneJob, Works
  <2> QED
    BY <1>3, <2>1 DEF BoundInv, BareKnown, Grows
<1>6. ASSUME ~shared
      PROVE  KnowsList(w)'
  <2>1. k.pc \in {"open", "copy"} => \A x : x = k.ts => KnownLater(x)'
    BY <1>1, <1>5, <1>6
  <2>2. /\ \A t \in DOMAIN gz' \ k.archives : KnownLater(t)'
        /\ \A t \in k.bares : KnownLater(t)'
    BY <1>1, <1>2, <1>5, <1>6
  <2> QED
    BY <2>1, <2>2, KnowsListNow
<1> HIDE DEF j, k
<1> QED
  BY <1>0, <1>1, <1>2, <1>4, <1>6, MoveBound DEF j, k

\* The archive of the job counts as left.
LEMMA ListFailsBound == ASSUME BoundInv, NEW w \in Writers, ListFails(w) PROVE BoundInv'
<1> DEFINE j == job[w]
<1>0. Types /\ Types' /\ Jobs' /\ Jobs
  BY JobTypes DEF BoundInv, JobStep
<1>1. Busy(w) /\ IsJob(j) /\ j.pc = "list" /\ j.own
  BY <1>0, ListFailsAt
<1>2. /\ job' = [job EXCEPT ![w] = Idle] /\ left' = left \cup {j.ts}
      /\ UNCHANGED <<gz, bare, chain, shared>>
  BY DEF ListFails, Ends
<1>3. job'[w] = Idle /\ \A v \in Writers \ {w} : job'[v] = job[v]
  BY <1>0, <1>2 DEF Jobs
<1>4. Grows
  BY <1>2, GrowsAnyway
<1>5. BareKnown'
  <2>1. \A t : Works(t) => Works(t)'
    BY <1>1, <1>3 DEF Works, Busy
  <2> QED
    BY <1>2, <1>4, <2>1 DEF BoundInv, BareKnown, Grows
<1>6. OneJob'
  BY <1>2, <1>3 DEF BoundInv, OneJob, Busy
<1>7. ListKnown'
  <2> SUFFICES ASSUME ~shared', NEW v \in Writers, Listed(v)' PROVE FALSE
    BY DEF ListKnown
  <2>1. v # w /\ Busy(v)
    BY <1>3 DEF Listed, Busy
  <2> QED
    BY <1>1, <1>2, <2>1 DEF BoundInv, OneJob
<1>8. FewSettled'
  <2> SUFFICES ASSUME ~shared PROVE FewSettled'
    BY <1>2 DEF FewSettled
  <2>1. \A t : Holds(t) => Holds(t)' \/ t = j.ts
    BY <1>3 DEF Holds, Busy
  <2>2. \A t : t = j.ts => KnownLater(t)'
    BY <1>2 DEF KnownLater
  <2>3. \A t \in DOMAIN gz' : KnownLater(t)' \/ Holds(t)' \/ t \in Settled
    BY <1>2, <1>4, <2>1, <2>2 DEF Settled, Grows
  <2>4. \A v \in Writers : Listed(v) => Listed(v)'
    BY <1>1, <1>3 DEF Listed, Busy
  <2> QED
    BY <1>0, <1>2, <2>3, <2>4, SettledStays DEF BoundInv
<1> QED
  BY <1>0, <1>5, <1>6, <1>7, <1>8 DEF BoundInv

\* What the job has still to prune, and what someone knows of, are all the archives; when
\* it is done there are MaxFiles of the former.
LEMMA PruneBound == ASSUME BoundInv, NEW w \in Writers, Pruning(w) PROVE BoundInv'
<1> DEFINE j == job[w]
<1>0. Types /\ Types' /\ Jobs' /\ Jobs
  BY JobTypes DEF BoundInv, JobStep
<1>1. /\ Busy(w) /\ IsJob(j) /\ ~j.own /\ j.pc \in {"prune", "unlink"}
      /\ DOMAIN gz' \subseteq DOMAIN gz
      /\ UNCHANGED <<bare, chain, shared>>
      /\ \A t \in left \cap DOMAIN bare : t \in left'
  BY <1>0, PruningDoes
<1>2. PICK k : StillToPrune(w, k)
  BY <1>0, PruningDoes
<1>3. /\ Becomes(w, job'[w])
      /\ \/ job'[w] = k
         \/ job'[w] = Idle /\ ~TooMany(k.archives)
  BY <1>0, <1>2, PrunesJob
<1>4. IsJob(k) /\ k.pc = "unlink" /\ ~k.own
  BY <1>2 DEF StillToPrune
<1>5. BareKnown'
  <2> SUFFICES ASSUME NEW t \in DOMAIN bare PROVE KnownLater(t)' \/ Works(t)'
    BY <1>1 DEF BareKnown
  <2>1. KnownLater(t) => KnownLater(t)'
    BY <1>1 DEF KnownLater, Waits
  <2>2. Works(t) => Works(t)'
    BY <1>1, <1>3 DEF Works, Becomes, Busy
  <2> QED
    BY <2>1, <2>2 DEF BoundInv, BareKnown
<1>6. OneJob'
  BY <1>1, <1>3 DEF BoundInv, OneJob, Becomes, Busy
<1>7. ASSUME ~shared, NEW t \in DOMAIN gz', t \notin k.archives PROVE KnownLater(t)'
  <2>1. CASE t \in j.archives
    BY <1>2, <1>7, <2>1 DEF StillToPrune, KnownLater
  <2>2. CASE t \notin j.archives
    <3>1. KnownLater(t)
      BY <1>1, <1>7, <2>2 DEF BoundInv, ListKnown, Listed, KnowsList
    <3> QED
      BY <1>1, <1>2, <1>7, <3>1 DEF StillToPrune, KnownLater, Waits
  <2> QED
    BY <2>1, <2>2
<1>8. ListKnown'
  <2> SUFFICES ASSUME ~shared', NEW v \in Writers, Listed(v)' PROVE KnowsList(v)'
    BY DEF ListKnown
  <2>1. v = w
    BY <1>1, <1>3 DEF BoundInv, OneJob, Listed, Becomes, Busy
  <2>2. job'[w] = k
    BY <1>3, <2>1 DEF Listed, Busy
  <2> QED
    BY <1>1, <1>4, <1>7, <2>1, <2>2 DEF KnowsList
<1>9. FewSettled'
  <2> SUFFICES ASSUME ~shared', \A v \in Writers : ~Listed(v)'
               PROVE  Cardinality(Settled') <= MaxFiles
    BY DEF FewSettled
  <2>1. job'[w] # k
    BY <1>4, NotIdle DEF Listed, Busy
  <2>2. ~TooMany(k.archives) /\ FiniteNat(k.archives)
    BY <1>3, <1>4, <2>1 DEF IsJob
  <2>3. Settled' \subseteq k.archives
    BY <1>1, <1>7 DEF Settled
  <2>4. PICK M, K : M = Settled' /\ K = k.archives
    OBVIOUS
  <2>5. Cardinality(M) <= Cardinality(K) /\ Cardinality(M) \in Nat /\ Cardinality(K) \in Nat
    BY <2>2, <2>3, <2>4, FS_Subset, FS_CardinalityType DEF FiniteNat
  <2>6. Cardinality(K) <= MaxFiles
    BY <2>2, <2>4, <2>5, LogAssumption DEF TooMany
  <2>7. Cardinality(M) <= MaxFiles
    BY <2>5, <2>6, LogAssumption
  <2> QED
    BY <2>4, <2>7
<1> QED
  BY <1>0, <1>5, <1>6, <1>8, <1>9 DEF BoundInv

LEMMA OtherBound ==
    ASSUME BoundInv,
           Tick \/ (\E w \in Writers : Flushed(w)) \/ Flush \/ End \/ Reuse \/ Restart \/ Crash
           \/ UNCHANGED vars
    PROVE  BoundInv'
<1>0. Types /\ Types' /\ Jobs'
  BY OtherTypes DEF BoundInv
<1>1. CASE Tick \/ Flush \/ End \/ Reuse \/ Restart \/ UNCHANGED vars
  <2>1. UNCHANGED <<job, chain, shared, left, gz, bare>>
    BY <1>1 DEF Tick, Flush, End, Reuse, Restart, vars, history
  <2> QED
    BY <1>0, <2>1, StillBound
<1>2. ASSUME NEW w \in Writers, Flushed(w) PROVE BoundInv'
  <2>1. /\ \E T : bare' = Without(bare, T)
        /\ \E T : gz' = Without(gz, T)
        /\ UNCHANGED <<job, chain, shared, left>>
    BY <1>2 DEF Flushed
  <2>2. DOMAIN bare' \subseteq DOMAIN bare /\ DOMAIN gz' \subseteq DOMAIN gz
    BY <2>1 DEF Without
  <2> QED
    BY <1>0, <2>1, <2>2, StillBound
<1>3. CASE Crash
  <2>1. /\ job' = [w \in Writers |-> Idle] /\ left' = left \cup DOMAIN bare \cup DOMAIN gz
        /\ DOMAIN gz' = DOMAIN gz /\ bare' = bare
    BY <1>3 DEF Crash
  <2>2. BareKnown' /\ ListKnown' /\ OneJob'
    BY <2>1 DEF BareKnown, ListKnown, OneJob, KnownLater, Listed, Busy
  <2>3. Settled' = {}
    BY <2>1 DEF Settled, KnownLater
  <2>4. Cardinality({}) <= MaxFiles
    BY FS_EmptySet, LogAssumption
  <2>5. FewSettled'
    BY <2>3, <2>4 DEF FewSettled
  <2> QED
    BY <1>0, <2>2, <2>5 DEF BoundInv
<1> QED
  BY <1>1, <1>2, <1>3

LEMMA InitBound == Init => BoundInv
<1> SUFFICES ASSUME Init PROVE BoundInv
  OBVIOUS
<1>1. DOMAIN bare = {} /\ DOMAIN gz = {} /\ job = [w \in Writers |-> Idle]
  BY DEF Init
<1>2. BareKnown /\ ListKnown /\ OneJob
  BY <1>1 DEF BareKnown, ListKnown, OneJob, Listed, Busy
<1>3. Cardinality(Settled) <= MaxFiles
  <2>1. Settled = {}
    BY <1>1 DEF Settled
  <2> QED
    BY <2>1, FS_EmptySet, LogAssumption
<1> QED
  BY <1>2, <1>3, InitTypes DEF BoundInv, FewSettled

LEMMA NextBound == BoundInv /\ [Next]_vars => BoundInv'
<1> SUFFICES ASSUME BoundInv, [Next]_vars PROVE BoundInv'
  OBVIOUS
<1>1. ASSUME NEW w \in Writers,
             JobStep(w)
      PROVE  BoundInv'
  BY <1>1, StartBound, OpenBound, CopyBound, ListBound, ListFailsBound, PruneBound DEF JobStep
<1> QED
  BY <1>1, WriteBound, OtherBound DEF Next, JobStep, Pruning

Resting == \A w \in Writers : Pending(w) = 0

\* At rest there are MaxFiles archives, and one more at most for each file that a failure
\* or a crash has left and no prune has seen, while the jobs ran one after the other
\* (README.md:402, RotatingWriter.ts:106).
THEOREM ArchiveBound == Spec => []ArchivesBounded
<1>1. Spec => []BoundInv
  BY InitBound, NextBound, PTL DEF Spec
<1>2. BoundInv => ArchivesBounded
  <2> SUFFICES ASSUME BoundInv, ~shared, Resting
               PROVE  Cardinality(DOMAIN gz) <= MaxFiles + Cardinality(left)
    BY DEF ArchivesBounded, Resting
  <2> DEFINE L == DOMAIN gz \ left
             K == DOMAIN gz \cap left
  <2>r. ASSUME NEW w \in Writers PROVE job[w] = Idle /\ chain[w] = <<>>
    <3>1. PICK c \in Seq(Nat) : c = chain[w]
      BY DEF BoundInv, Types
    <3>2. Len(c) \in Nat /\ (Len(c) = 0 => c = <<>>)
      OBVIOUS
    <3>3. Len(c) + (IF job[w] = Idle THEN 0 ELSE 1) = 0
      BY <3>1 DEF Resting, Pending
    <3>4. job[w] = Idle
      BY <3>2, <3>3
    <3> QED
      BY <3>1, <3>2, <3>3, <3>4
  <2>1. Cardinality(L) <= MaxFiles
    <3>1. \A t : ~Waits(t) /\ ~Holds(t)
      BY <2>r DEF Waits, Holds, Busy
    <3>2. \A w \in Writers : ~Listed(w)
      BY <2>r DEF Listed, Busy
    <3>3. L = Settled
      BY <3>1 DEF Settled, KnownLater
    <3> QED
      BY <3>2, <3>3 DEF BoundInv, FewSettled
  <2>2. IsFiniteSet(DOMAIN gz) /\ IsFiniteSet(left)
    BY DEF BoundInv, Types, FiniteNat
  <2>3. IsFiniteSet(L) /\ IsFiniteSet(K) /\ K \subseteq left
    BY <2>2, FS_Subset
  <2>4. DOMAIN gz = L \cup K /\ L \cap K = {}
    OBVIOUS
  <2> HIDE DEF L, K
  <2>5. /\ Cardinality(L \cup K) = Cardinality(L) + Cardinality(K) - Cardinality(L \cap K)
        /\ Cardinality(K) <= Cardinality(left)
        /\ Cardinality(L) \in Nat /\ Cardinality(K) \in Nat /\ Cardinality(left) \in Nat
    BY <2>2, <2>3, FS_Union, FS_Subset, FS_CardinalityType
  <2>6. Cardinality(L \cap K) = 0
    BY <2>4, FS_EmptySet
  <2> QED
    BY <2>1, <2>4, <2>5, <2>6, LogAssumption
<1> QED
  BY <1>1, <1>2, PTL
=============================================================================
