----------------------------- MODULE DeployProofs -----------------------------
(***************************************************************************)
(* What holds of deploys, for any deploys and releases and any number of   *)
(* releases kept, as long as they come one at a time.                      *)
(***************************************************************************)
EXTENDS Deploy, SequenceTheorems, TLAPS

(* The state. *)

Typed ==
    /\ commands \subseteq Deploys
    /\ executors \in [Deploys -> {None} \cup Executor]
    /\ asking \in {None} \cup [deploy : Deploys, waits : BOOLEAN]
    /\ last \in {None} \cup [deploy : Deploys, phase : {"success", "failed", "rolled_back"}]
    /\ releases \in Seq(Releases) /\ IsInjective(releases) /\ tars \subseteq Releases
    /\ files \in [Releases -> Deploys \cup {None}]
    /\ current \in Releases \cup {None} /\ running \in Deploys \cup {None}
    /\ before \in [current : Releases \cup {None}, running : Deploys \cup {None}]
    /\ kept \in Releases \cup {None}
    /\ restoring \in BOOLEAN /\ swapped \in BOOLEAN /\ overlapped \in BOOLEAN

There(r) == r = None \/ Contains(releases, r)

\* One deploy or restore at a time, and what is linked or to be gone back to is on the disk.
OneAtATime ==
    /\ \A d, e \in Active : d = e
    /\ restoring => Active = {}
    /\ There(current) /\ There(kept) /\ There(before.current)

\* Nothing is linked yet, and nothing of it runs.
Unswapped(d) ==
    /\ ~swapped /\ current = before.current /\ running = before.running
    /\ executors[d].previous = None

Written(d) == Contains(releases, Rel(d)) /\ files[Rel(d)] = d

\* The link has moved, and the release before it is known.
Moved(d) == swapped /\ executors[d].previous = before.current

\* The release is linked, and the newest.
Linked(d) == current = Rel(d) /\ Written(d) /\ releases[Len(releases)] = Rel(d)

\* How a deploy under way stands.
Stands(d) ==
    LET at == executors[d].at
    IN /\ at \in {"downloading", "verifying", "preparing", "building"} => Unswapped(d)
       /\ at \in {"preparing", "building"} => Written(d)
       /\ at \in {"reconciling", "monitoring", "crashed", "rolling back"} => Moved(d)
       /\ at \in {"reconciling", "monitoring", "crashed"} => Linked(d)
       /\ at = "reconciling" => running = before.running
       /\ at \in {"monitoring", "crashed", "rolling back"} => running \in {before.running, d}
       /\ at = "rolling back" => current = before.current /\ current # None

\* How deploy d leaves things when it ends in a phase.
Leaves(d, phase) ==
    \/ phase = "success" /\ current = Rel(d) /\ running \in {d, before.running}
    \/ phase = "rolled_back" /\ current = before.current
       /\ running \in {d, before.running, files[current]}
    \/ phase = "failed" /\ (swapped \/ (current = before.current /\ running = before.running))

Told == last # None /\ Active = {} => Leaves(last.deploy, last.phase)

\* The inductive invariant.
DeployInv == Typed /\ (~overlapped => OneAtATime /\ (\A d \in Active : Stands(d)) /\ Told)
----------------------------------------------------------------------------
(* Sequences without repetition. *)

LEMMA Removed ==
    ASSUME NEW S, NEW s \in Seq(S), NEW i \in DOMAIN s
    PROVE  /\ RemoveAt(s, i) \in Seq(S) /\ Len(RemoveAt(s, i)) = Len(s) - 1
           /\ \A k \in 1..Len(s) - 1 : RemoveAt(s, i)[k] = IF k < i THEN s[k] ELSE s[k + 1]
<1> DEFINE left == SubSeq(s, 1, i - 1)
           right == SubSeq(s, i + 1, Len(s))
<1>1. Len(s) \in Nat /\ DOMAIN s = 1..Len(s) /\ i \in 1..Len(s) /\ \A k \in 1..Len(s) : s[k] \in S
  OBVIOUS
<1>2. left \in Seq(S) /\ Len(left) = i - 1 /\ \A k \in 1..i - 1 : left[k] = s[k]
  <2>1. 1 \in Int /\ i - 1 \in Int /\ \A k \in 1..i - 1 : s[k] \in S
    BY <1>1
  <2>2. /\ left \in Seq(S) /\ Len(left) = IF 1 <= i - 1 THEN i - 1 - 1 + 1 ELSE 0
        /\ \A k \in 1..i - 1 - 1 + 1 : left[k] = s[1 + k - 1]
    BY <2>1, SubSeqProperties
  <2> HIDE DEF left
  <2>3. i \in Int /\ 1 <= i /\ i - 1 - 1 + 1 = i - 1 /\ \A k \in 1..i - 1 : 1 + k - 1 = k
    BY <1>1
  <2>4. Len(left) = i - 1
    BY ONLY <2>2, <2>3
  <2>5. \A k \in 1..i - 1 : left[k] = s[k]
    BY ONLY <2>2, <2>3
  <2> QED
    BY <2>2, <2>4, <2>5
<1>3. right \in Seq(S) /\ Len(right) = Len(s) - i /\ \A k \in 1..Len(s) - i : right[k] = s[i + k]
  <2>1. i + 1 \in Int /\ Len(s) \in Int /\ \A k \in i + 1..Len(s) : s[k] \in S
    BY <1>1
  <2>2. /\ right \in Seq(S) /\ Len(right) = IF i + 1 <= Len(s) THEN Len(s) - (i + 1) + 1 ELSE 0
        /\ \A k \in 1..Len(s) - (i + 1) + 1 : right[k] = s[i + 1 + k - 1]
    BY <2>1, SubSeqProperties
  <2> HIDE DEF right
  <2>3. /\ i \in Int /\ Len(s) \in Int /\ i <= Len(s) /\ Len(s) - (i + 1) + 1 = Len(s) - i
        /\ \A k \in 1..Len(s) - i : i + 1 + k - 1 = i + k
    BY <1>1
  <2>4. Len(right) = Len(s) - i
    BY ONLY <2>2, <2>3
  <2>5. \A k \in 1..Len(s) - i : right[k] = s[i + k]
    BY ONLY <2>2, <2>3
  <2> QED
    BY <2>2, <2>4, <2>5
<1>4. RemoveAt(s, i) = left \o right
  BY DEF RemoveAt
<1> HIDE DEF left, right
<1>5. /\ left \o right \in Seq(S) /\ Len(left \o right) = Len(left) + Len(right)
      /\ \A k \in 1..Len(left) + Len(right) :
            (left \o right)[k] = IF k <= Len(left) THEN left[k] ELSE right[k - Len(left)]
  BY <1>2, <1>3, ConcatProperties
<1> DEFINE t == RemoveAt(s, i)
<1>6. t \in Seq(S) /\ Len(t) = Len(s) - 1
  BY <1>1, <1>2, <1>3, <1>4, <1>5
<1>7. ASSUME NEW k \in 1..Len(s) - 1
      PROVE  t[k] = IF k < i THEN s[k] ELSE s[k + 1]
  <2>1. t[k] = IF k <= i - 1 THEN left[k] ELSE right[k - (i - 1)]
    BY <1>1, <1>2, <1>3, <1>4, <1>5, SMTT(20)
  <2>2. CASE k < i
    BY <1>1, <1>2, <2>1, <2>2
  <2>3. CASE ~(k < i)
    <3>1. k - (i - 1) \in 1..Len(s) - i /\ i + (k - (i - 1)) = k + 1
      BY <1>1, <2>3
    <3>2. right[k - (i - 1)] = s[k + 1]
      BY <1>3, <3>1
    <3> QED
      BY <1>1, <2>1, <2>3, <3>2
  <2> QED
    BY <2>2, <2>3
<1> QED
  BY <1>6, <1>7

\* The directory written to becomes the newest; the others stay.
LEMMA TouchedKeeps ==
    ASSUME releases \in Seq(Releases), IsInjective(releases), NEW r \in Releases
    PROVE  LET t == Touched(r)
           IN /\ t \in Seq(Releases) /\ IsInjective(t) /\ t[Len(t)] = r
              /\ Contains(t, r) /\ \A q : Contains(releases, q) => Contains(t, q)
<1> DEFINE s == IF Exists(r) THEN RemoveAt(releases, Place(r)) ELSE releases
           t == Touched(r)
<1>1. Len(releases) \in Nat /\ DOMAIN releases = 1..Len(releases) /\ r # None
  BY DeployAssumption
<1>2. /\ s \in Seq(Releases) /\ IsInjective(s) /\ ~Contains(s, r)
      /\ \A q : Contains(releases, q) => q = r \/ Contains(s, q)
  <2>1. CASE ~Exists(r)
    BY <1>1, <2>1 DEF Exists
  <2>2. CASE Exists(r)
    <3> DEFINE i == Place(r)
    <3>1. i \in DOMAIN releases /\ releases[i] = r
      <4>1. \E k \in DOMAIN releases : releases[k] = r
        BY <1>1, <2>2 DEF Exists, Contains
      <4> QED
        BY <4>1 DEF Place
    <3> HIDE DEF i
    <3>2. s = RemoveAt(releases, i)
      BY <2>2 DEF i
    <3> HIDE DEF s
    <3>3. /\ s \in Seq(Releases) /\ Len(s) = Len(releases) - 1
          /\ \A k \in 1..Len(releases) - 1 : s[k] = IF k < i THEN releases[k] ELSE releases[k + 1]
      BY <3>1, <3>2, Removed
    <3>4. DOMAIN s = 1..Len(releases) - 1
      BY <3>3
    <3>5. \A a, b \in DOMAIN releases : releases[a] = releases[b] => a = b
      BY DEF IsInjective
    <3>6. IsInjective(s)
      <4> SUFFICES ASSUME NEW a \in DOMAIN s, NEW b \in DOMAIN s, s[a] = s[b]
                   PROVE  a = b
        BY DEF IsInjective
      <4>1. /\ a \in 1..Len(releases) - 1 /\ b \in 1..Len(releases) - 1 /\ i \in 1..Len(releases)
        BY <1>1, <3>1, <3>4
      <4>2. PICK x \in DOMAIN releases : s[a] = releases[x] /\ x = IF a < i THEN a ELSE a + 1
        BY <1>1, <3>3, <4>1
      <4>3. PICK y \in DOMAIN releases : s[b] = releases[y] /\ y = IF b < i THEN b ELSE b + 1
        BY <1>1, <3>3, <4>1
      <4>4. x = y
        BY <3>5, <4>2, <4>3
      <4> QED
        BY ONLY <1>1, <4>1, <4>2, <4>3, <4>4
    <3>7. ~Contains(s, r)
      <4> SUFFICES ASSUME NEW k \in 1..Len(s), s[k] = r
                   PROVE  FALSE
        BY DEF Contains
      <4>1. k \in 1..Len(releases) - 1 /\ i \in 1..Len(releases)
        BY <1>1, <3>1, <3>3
      <4>2. PICK x \in DOMAIN releases : s[k] = releases[x] /\ x = IF k < i THEN k ELSE k + 1
        BY <1>1, <3>3, <4>1
      <4>3. x = i
        BY <3>1, <3>5, <4>2
      <4> QED
        BY ONLY <1>1, <4>1, <4>2, <4>3
    <3>8. ASSUME NEW q, Contains(releases, q), q # r
          PROVE  Contains(s, q)
      <4>1. PICK k \in 1..Len(releases) : releases[k] = q
        BY <3>8 DEF Contains
      <4>2. k # i /\ i \in 1..Len(releases)
        BY <1>1, <3>1, <3>8, <4>1
      <4>3. CASE k < i
        BY <1>1, <3>3, <4>1, <4>2, <4>3 DEF Contains
      <4>4. CASE k > i
        <5>1. k - 1 \in 1..Len(releases) - 1 /\ ~(k - 1 < i) /\ k - 1 + 1 = k
          BY <1>1, <4>2, <4>4
        <5>2. s[k - 1] = q
          BY <3>3, <4>1, <5>1
        <5> QED
          BY <3>3, <5>1, <5>2 DEF Contains
      <4> QED
        BY <1>1, <4>2, <4>3, <4>4
    <3> QED
      BY <3>3, <3>6, <3>7, <3>8
  <2> QED
    BY <2>1, <2>2
<1>3. t = Append(s, r)
  BY DEF Touched
<1> HIDE DEF s, t
<1>4. /\ t \in Seq(Releases) /\ Len(t) = Len(s) + 1 /\ t[Len(s) + 1] = r
      /\ \A k \in 1..Len(s) : t[k] = s[k]
  BY <1>2, <1>3, AppendProperties
<1>5. Len(s) \in Nat /\ DOMAIN s = 1..Len(s) /\ DOMAIN t = 1..Len(s) + 1
  BY <1>2, <1>4
<1>6. t[Len(t)] = r /\ Contains(t, r)
  BY <1>4, <1>5 DEF Contains
<1>7. \A q : Contains(s, q) => Contains(t, q)
  BY <1>4, <1>5 DEF Contains
<1>8. IsInjective(t)
  <2> SUFFICES ASSUME NEW a \in DOMAIN t, NEW b \in DOMAIN t, t[a] = t[b]
               PROVE  a = b
    BY DEF IsInjective
  <2>1. \A k \in 1..Len(s) : t[k] # r
    BY <1>2, <1>4 DEF Contains
  <2>2. \A x, y \in 1..Len(s) : s[x] = s[y] => x = y
    BY <1>2, <1>5 DEF IsInjective
  <2>3. \A x \in DOMAIN t : x \in 1..Len(s) \/ x = Len(s) + 1
    BY <1>5
  <2> QED
    BY <1>4, <2>1, <2>2, <2>3
<1>9. \A q : Contains(releases, q) => Contains(t, q)
  BY <1>2, <1>6, <1>7
<1> QED
  BY <1>4, <1>6, <1>8, <1>9 DEF t
\* The cleanup spares the newest releases and the previous one.
LEMMA CleanedKeeps ==
    ASSUME releases \in Seq(Releases), IsInjective(releases), NEW previous \in Releases \cup {None}
    PROVE  LET t == Cleaned(previous)
           IN /\ t \in Seq(Releases) /\ IsInjective(t)
              /\ There(previous) /\ previous # None => Contains(t, previous)
              /\ releases # <<>> => Contains(t, releases[Len(releases)])
<1> DEFINE n == Len(releases)
           newest == SubSeq(releases, n - Keep + 1, n)
           t == Cleaned(previous)
<1>1. n \in Nat /\ DOMAIN releases = 1..n /\ Keep \in Nat \ {0} /\ None \notin Releases
      /\ \A k \in 1..n : releases[k] \in Releases
  BY DeployAssumption
<1>2. releases # <<>> => n > 0
  BY <1>1
<1>3. CASE n <= Keep
  <2>1. t = releases
    BY <1>3 DEF Cleaned
  <2> QED
    BY <1>1, <1>2, <2>1 DEF There, Contains
<1>4. CASE ~(n <= Keep)
  <2>1. n - Keep + 1 \in 1..n /\ n - (n - Keep + 1) + 1 = Keep
    BY <1>1, <1>4
  <2>2. /\ newest \in Seq(Releases) /\ Len(newest) = Keep
        /\ \A k \in 1..Keep : newest[k] = releases[n - Keep + k]
    <3>1. n - Keep + 1 \in Int /\ n \in Int /\ \A k \in n - Keep + 1..n : releases[k] \in Releases
      BY <1>1, <2>1
    <3>2. /\ newest \in Seq(Releases)
          /\ Len(newest) = IF n - Keep + 1 <= n THEN n - (n - Keep + 1) + 1 ELSE 0
          /\ \A k \in 1..n - (n - Keep + 1) + 1 : newest[k] = releases[n - Keep + 1 + k - 1]
      BY <3>1, SubSeqProperties
    <3> HIDE DEF newest, n
    <3>3. \A k \in 1..Keep : n - Keep + 1 + k - 1 = n - Keep + k
      BY <1>1
    <3>4. Len(newest) = Keep
      BY <2>1, <3>2
    <3>5. \A k \in 1..Keep : newest[k] = releases[n - Keep + k]
      BY ONLY <2>1, <3>2, <3>3
    <3> QED
      BY <3>2, <3>4, <3>5
  <2>3. t = IF Exists(previous) /\ ~Contains(newest, previous) THEN <<previous>> \o newest ELSE newest
    BY <1>4 DEF Cleaned
  <2> HIDE DEF newest, n, t
  <2>4. DOMAIN newest = 1..Keep
    BY <2>2
  <2>5. IsInjective(newest)
    <3> SUFFICES ASSUME NEW a \in 1..Keep, NEW b \in 1..Keep, newest[a] = newest[b]
                 PROVE  a = b
      BY <2>4 DEF IsInjective
    <3>1. n - Keep + a \in 1..n /\ n - Keep + b \in 1..n
      BY <1>1, <1>4
    <3>2. releases[n - Keep + a] = releases[n - Keep + b]
      BY <2>2
    <3>3. n - Keep + a = n - Keep + b
      BY <1>1, <3>1, <3>2 DEF IsInjective
    <3> QED
      BY <1>1, <3>3
  <2>6. Contains(newest, releases[n])
    <3>1. Keep \in 1..Keep /\ n - Keep + Keep = n
      BY <1>1
    <3> QED
      BY <2>2, <3>1 DEF Contains
  <2>7. CASE ~(Exists(previous) /\ ~Contains(newest, previous))
    BY <2>2, <2>3, <2>5, <2>6, <2>7 DEF Exists, There, n, t
  <2>8. CASE Exists(previous) /\ ~Contains(newest, previous)
    <3> DEFINE one == <<previous>>
    <3>1. previous \in Releases
      BY <2>8 DEF Exists
    <3>2. one \in Seq(Releases) /\ Len(one) = 1 /\ one[1] = previous
      BY <3>1
    <3>3. t = one \o newest
      BY <2>3, <2>8
    <3> HIDE DEF one
    <3>4. /\ t \in Seq(Releases) /\ Len(t) = 1 + Keep
          /\ \A k \in 1..1 + Keep : t[k] = IF k <= 1 THEN one[k] ELSE newest[k - 1]
      <4>1. /\ one \o newest \in Seq(Releases)
            /\ Len(one \o newest) = Len(one) + Len(newest)
            /\ \A k \in 1..Len(one) + Len(newest) :
                  (one \o newest)[k] = IF k <= Len(one) THEN one[k] ELSE newest[k - Len(one)]
        BY <2>2, <3>2, ConcatProperties
      <4> QED
        BY <2>2, <3>2, <3>3, <4>1
    <3>5. DOMAIN t = 1..1 + Keep /\ 1 \in 1..1 + Keep
      BY <1>1, <3>4
    <3>6. t[1] = previous /\ \A k \in 1..Keep : t[k + 1] = newest[k]
      <4>1. \A k \in 1..Keep : k + 1 \in 1..1 + Keep /\ ~(k + 1 <= 1) /\ k + 1 - 1 = k
        BY <1>1
      <4> QED
        BY <3>2, <3>4, <3>5, <4>1
    <3>7. Contains(t, previous)
      BY <3>4, <3>5, <3>6 DEF Contains
    <3>8. Contains(t, releases[n])
      <4>1. PICK k \in 1..Keep : newest[k] = releases[n]
        BY <2>2, <2>6 DEF Contains
      <4>2. k + 1 \in 1..Len(t) /\ t[k + 1] = releases[n]
        BY <1>1, <3>4, <3>6, <4>1
      <4> QED
        BY <4>2 DEF Contains
    <3>9. IsInjective(t)
      <4> SUFFICES ASSUME NEW a \in DOMAIN t, NEW b \in DOMAIN t, t[a] = t[b]
                   PROVE  a = b
        BY DEF IsInjective
      <4>1. \A x \in DOMAIN t : x = 1 \/ \E k \in 1..Keep : x = k + 1
        <5> SUFFICES ASSUME NEW x \in DOMAIN t, x # 1
                     PROVE  \E k \in 1..Keep : x = k + 1
          OBVIOUS
        <5>1. x - 1 \in 1..Keep /\ x = x - 1 + 1
          BY <1>1, <3>5
        <5> QED
          BY <5>1
      <4>2. \A k \in 1..Keep : newest[k] # previous
        BY <2>2, <2>8 DEF Contains
      <4>3. \A x, y \in 1..Keep : newest[x] = newest[y] => x = y
        BY <2>4, <2>5 DEF IsInjective
      <4> QED
        BY <3>6, <4>1, <4>2, <4>3
    <3> QED
      BY <3>4, <3>7, <3>8, <3>9 DEF n, t
  <2> QED
    BY <2>7, <2>8 DEF t
<1> QED
  BY <1>3, <1>4
----------------------------------------------------------------------------
(* What a step makes of the executors. *)

LEMMA DeployFits ==
    ASSUME Typed, NEW d \in Deploys
    PROVE  /\ Rel(d) \in Releases /\ Rel(d) # None /\ d # None
           /\ executors[d] # None => executors[d] \in Executor
BY DeployAssumption DEF Typed, Rel

LEMMA StartedFits == ASSUME Typed PROVE Started \in Deploys \cup {None}
BY DEF Started, Exists, Typed

Executors == [Deploys -> {None} \cup Executor]

\* The executor of d is another; those of the others stay.
Turns(d, e) ==
    /\ executors' \in Executors /\ executors'[d] = e
    /\ \A o \in Deploys \ {d} : executors'[o] = executors[o]
    /\ Active' = IF e = None THEN Active \ {d} ELSE Active \cup {d}

LEMMA ExecutorSet ==
    ASSUME Typed, NEW d \in Deploys, NEW e \in {None} \cup Executor,
           executors' = [executors EXCEPT ![d] = e]
    PROVE  Turns(d, e)
<1>1. executors \in Executors
  BY DEF Typed, Executors
<1>2. /\ executors' \in Executors /\ executors'[d] = e
      /\ \A o \in Deploys \ {d} : executors'[o] = executors[o]
  BY <1>1 DEF Executors
<1>3. Active' = IF e = None THEN Active \ {d} ELSE Active \cup {d}
  BY <1>2 DEF Active
<1> QED
  BY <1>2, <1>3 DEF Turns

Stages == {"downloading", "verifying", "preparing", "building",
           "reconciling", "monitoring", "crashed", "rolling back"}

LEMMA ExecutorGoes ==
    ASSUME Typed, NEW d \in Deploys, NEW at \in Stages, NEW from, At(d, from), Goes(d, at)
    PROVE  \E e \in Executor : /\ Turns(d, e) /\ e.at = at /\ e.previous = executors[d].previous
                               /\ e # None
<1>1. PICK f : f = executors[d]
  OBVIOUS
<1>2. f \in Executor
  BY <1>1, DeployFits DEF At, Active
<1>3. PICK e : e = [f EXCEPT !.at = at]
  OBVIOUS
<1>4. e \in Executor /\ e.at = at /\ e.previous = f.previous
  BY <1>2, <1>3 DEF Executor, Stages
<1>5. executors' = [executors EXCEPT ![d] = e]
  BY <1>1, <1>3 DEF Goes
<1>6. e # None
  BY <1>4, DeployAssumption
<1> QED
  BY <1>1, <1>4, <1>5, <1>6, ExecutorSet

LEMMA ExecutorEnds ==
    ASSUME Typed, NEW d \in Deploys, NEW ph \in {"success", "failed", "rolled_back"}, Ends(d, ph)
    PROVE  /\ Turns(d, None)
           /\ last' \in {None} \cup [deploy : Deploys, phase : {"success", "failed", "rolled_back"}]
           /\ asking' \in {None} \cup [deploy : Deploys, waits : BOOLEAN]
           /\ ~overlapped => last'.deploy = d /\ last'.phase = ph
<1>1. Turns(d, None)
  BY ExecutorSet DEF Ends
<1>2. last' = IF overlapped THEN None ELSE [deploy |-> d, phase |-> ph]
  BY DEF Ends
<1>3. asking' \in {None} \cup [deploy : Deploys, waits : BOOLEAN]
  <2>1. Falls(d) \in [deploy : Deploys, waits : BOOLEAN]
    BY DEF Falls
  <2> QED
    BY <2>1 DEF Ends, Typed
<1> QED
  BY <1>1, <1>2, <1>3
----------------------------------------------------------------------------
(* A deploy goes on. *)

\* Alone, a deploy under way stands as it should.
LEMMA AloneStands ==
    ASSUME DeployInv, ~overlapped, NEW d \in Active
    PROVE  Active = {d} /\ ~restoring /\ Stands(d) /\ OneAtATime /\ Typed
<1>1. OneAtATime /\ Stands(d) /\ Typed
  BY DEF DeployInv
<1> QED
  BY <1>1 DEF OneAtATime, Typed

\* No release leaves the disk.
KeepsAll == \A q : Contains(releases, q) => Contains(releases', q)

\* What is left to show of a step of d that keeps it under way.
LEMMA GoneOn ==
    ASSUME DeployInv, NEW d \in Active, NEW e, e # None, Turns(d, e), Typed', KeepsAll, Same,
           kept' = kept, ~overlapped => There(current)' /\ Stands(d)'
    PROVE  DeployInv'
<1>1. overlapped' = overlapped /\ restoring' = restoring /\ before' = before
  BY DEF Same
<1>2. ASSUME ~overlapped
      PROVE  OneAtATime' /\ (\A x \in Active' : Stands(x)') /\ Told'
  <2>1. Active = {d} /\ ~restoring /\ OneAtATime
    BY <1>2, AloneStands
  <2>2. Active' = {d}
    BY <2>1 DEF Turns
  <2>3. There(before.current)' /\ There(kept)'
    BY <1>1, <2>1 DEF OneAtATime, There, KeepsAll
  <2> QED
    BY <1>1, <1>2, <2>1, <2>2, <2>3 DEF OneAtATime, Told
<1> QED
  BY <1>1, <1>2 DEF DeployInv

LEMMA SameDisk == ASSUME UNCHANGED releases PROVE KeepsAll
BY DEF KeepsAll

\* Downloaded, or prepared.
LEMMA EarlyKeep ==
    ASSUME DeployInv, NEW d \in Deploys
    PROVE  Downloaded(d) \/ Prepared(d) => DeployInv'
<1>1. Typed /\ Rel(d) \in Releases
  BY DeployFits DEF DeployInv
<1>2. ASSUME NEW from \in {"downloading", "preparing"}, NEW at \in {"verifying", "building"},
             from = "preparing" <=> at = "building",
             At(d, from), Goes(d, at), Same, tars' \subseteq Releases,
             UNCHANGED <<releases, files, current, running, swapped, last, kept, asking>>
      PROVE  DeployInv'
  <2>1. PICK e \in Executor : /\ Turns(d, e) /\ e.at = at /\ e.previous = executors[d].previous
                              /\ e # None
    <3>1. at \in Stages /\ At(d, from) /\ Goes(d, at)
      BY <1>2 DEF Stages
    <3> QED
      BY <1>1, <3>1, ExecutorGoes
  <2>2. Typed'
    BY <1>1, <1>2, <2>1 DEF Typed, Turns, Executors, Same
  <2>3. d \in Active /\ executors[d].at = from
    BY <1>2 DEF At
  <2>4. ASSUME ~overlapped
        PROVE  There(current)' /\ Stands(d)'
    <3>1. OneAtATime /\ Stands(d)
      BY <2>3, <2>4, AloneStands
    <3>2. executors'[d].at = at /\ executors'[d].previous = executors[d].previous
      BY <2>1 DEF Turns
    <3>3. Unswapped(d) /\ (from = "preparing" => Written(d))
      BY <1>2, <2>3, <3>1 DEF Stands
    <3>4. Unswapped(d)'
      BY <1>2, <3>2, <3>3 DEF Unswapped, Same
    <3>5. at = "building" => Written(d)'
      BY <1>2, <3>3 DEF Written, Rel
    <3>6. There(current)'
      BY <1>2, <3>1 DEF OneAtATime, There
    <3> QED
      BY <1>2, <3>2, <3>4, <3>5, <3>6 DEF Stands
  <2> QED
    BY <1>2, <2>1, <2>2, <2>3, <2>4, GoneOn, SameDisk
<1>3. Downloaded(d) => DeployInv'
  <2> SUFFICES ASSUME Downloaded(d)
               PROVE  DeployInv'
    OBVIOUS
  <2>1. tars' \subseteq Releases
    BY <1>1 DEF Downloaded, Typed
  <2>2. /\ At(d, "downloading") /\ Goes(d, "verifying") /\ Same
        /\ UNCHANGED <<releases, files, current, running, swapped, last, kept, asking>>
    BY DEF Downloaded
  <2> QED
    BY <1>2, <2>1, <2>2
<1>4. Prepared(d) => DeployInv'
  BY <1>1, <1>2 DEF Prepared, Typed, disk
<1> QED
  BY <1>3, <1>4

LEMMA ExtractedKeeps ==
    ASSUME DeployInv, NEW d \in Deploys, Extracted(d)
    PROVE  DeployInv'
<1>1. Typed /\ Rel(d) \in Releases
  BY DeployFits DEF DeployInv
<1>2. PICK e \in Executor : /\ Turns(d, e) /\ e.at = "preparing"
                            /\ e.previous = executors[d].previous /\ e # None
  BY <1>1, ExecutorGoes DEF Stages, Extracted
<1>3. /\ releases' = Touched(Rel(d)) /\ files' = [files EXCEPT ![Rel(d)] = d] /\ Same
      /\ tars' = tars \ {Rel(d)} /\ d \in Active /\ executors[d].at = "verifying"
      /\ UNCHANGED <<current, running, swapped, last, kept, asking>>
  BY DEF Extracted, At
<1>4. /\ releases' \in Seq(Releases) /\ IsInjective(releases') /\ Contains(releases', Rel(d))
      /\ KeepsAll
  BY <1>1, <1>3, TouchedKeeps DEF Typed, KeepsAll
<1>5. files' \in [Releases -> Deploys \cup {None}] /\ files'[Rel(d)] = d
  BY <1>1, <1>3 DEF Typed
<1>6. Typed'
  BY <1>1, <1>2, <1>3, <1>4, <1>5 DEF Typed, Turns, Executors, Same
<1>7. ASSUME ~overlapped
      PROVE  There(current)' /\ Stands(d)'
  <2>1. OneAtATime /\ Unswapped(d)
    BY <1>3, <1>7, AloneStands DEF Stands
  <2>2. executors'[d].at = "preparing" /\ executors'[d].previous = executors[d].previous
    BY <1>2 DEF Turns
  <2>3. Unswapped(d)'
    BY <1>3, <2>1, <2>2 DEF Unswapped, Same
  <2>4. Written(d)'
    BY <1>4, <1>5 DEF Written, Rel
  <2>5. There(current)'
    BY <1>3, <1>4, <2>1 DEF OneAtATime, There, KeepsAll
  <2> QED
    BY <2>2, <2>3, <2>4, <2>5 DEF Stands
<1> QED
  BY <1>2, <1>3, <1>4, <1>6, <1>7, GoneOn

\* The link moves; the release before it is the one to go back to.
LEMMA SwapsKeep ==
    ASSUME DeployInv, NEW d \in Deploys, Swaps(d)
    PROVE  DeployInv'
<1> DEFINE previous == IF Exists(current) THEN current ELSE None
           e == [at |-> "reconciling", previous |-> previous]
<1>1. Typed /\ Rel(d) \in Releases /\ Rel(d) # None
  BY DeployFits DEF DeployInv
<1>2. previous \in Releases \cup {None}
  BY <1>1 DEF Typed
<1>3. e \in Executor /\ e # None /\ e.at = "reconciling" /\ e.previous = previous
  <2> HIDE DEF previous
  <2>1. e \in Executor
    BY <1>2 DEF Executor
  <2> QED
    BY <2>1, DeployAssumption
<1>4. /\ executors' = [executors EXCEPT ![d] = e] /\ Same /\ current' = Rel(d) /\ swapped' = TRUE
      /\ releases' = IF Exists(Rel(d)) THEN Touched(Rel(d)) ELSE releases
      /\ d \in Active /\ executors[d].at = "building"
      /\ UNCHANGED <<files, tars, running, last, kept, asking>>
  BY DEF Swaps, At
<1> HIDE DEF e
<1>5. Turns(d, e)
  BY <1>1, <1>3, <1>4, ExecutorSet
<1>6. releases' \in Seq(Releases) /\ IsInjective(releases') /\ KeepsAll
  BY <1>1, <1>4, TouchedKeeps DEF Typed, KeepsAll
<1>7. Typed'
  BY <1>1, <1>4, <1>5, <1>6 DEF Typed, Turns, Executors, Same
<1>8. ASSUME ~overlapped
      PROVE  There(current)' /\ Stands(d)'
  <2>1. OneAtATime /\ Unswapped(d) /\ Written(d) /\ running = before.running
    BY <1>4, <1>8, AloneStands DEF Stands, Unswapped
  <2>2. previous = before.current
    BY <2>1 DEF OneAtATime, Unswapped, There, Exists
  <2>3. executors'[d].at = "reconciling" /\ executors'[d].previous = previous
    BY <1>3, <1>5 DEF Turns
  <2>4. Moved(d)'
    BY <1>4, <2>2, <2>3 DEF Moved, Same
  <2>5. Contains(releases', Rel(d)) /\ releases'[Len(releases')] = Rel(d)
    BY <1>1, <1>4, <2>1, TouchedKeeps DEF Typed, Written, Exists
  <2>6. Linked(d)'
    BY <1>4, <2>1, <2>5 DEF Linked, Written, Rel
  <2>7. There(current)'
    BY <1>4, <2>5 DEF There
  <2> QED
    BY <1>4, <2>1, <2>3, <2>4, <2>6, <2>7 DEF Stands, Same
<1> QED
  BY <1>3, <1>4, <1>5, <1>6, <1>7, <1>8, GoneOn
LEMMA ReconciledKeeps ==
    ASSUME DeployInv, NEW d \in Deploys, Reconciled(d)
    PROVE  DeployInv'
<1>1. Typed
  BY DEF DeployInv
<1>2. PICK e \in Executor : /\ Turns(d, e) /\ e.at = "monitoring"
                            /\ e.previous = executors[d].previous /\ e # None
  BY <1>1, ExecutorGoes DEF Stages, Reconciled
<1>3. /\ d \in Active /\ executors[d].at = "reconciling" /\ running' \in {running, Started} /\ Same
      /\ UNCHANGED <<releases, files, tars, current, swapped, last, kept, asking>>
  BY DEF Reconciled, At, disk
<1>4. Typed'
  BY <1>1, <1>2, <1>3, StartedFits DEF Typed, Turns, Executors, Same
<1>5. ASSUME ~overlapped
      PROVE  There(current)' /\ Stands(d)'
  <2>1. OneAtATime /\ Moved(d) /\ Linked(d) /\ running = before.running
    BY <1>3, <1>5, AloneStands DEF Stands
  <2>2. executors'[d].at = "monitoring" /\ executors'[d].previous = executors[d].previous
    BY <1>2 DEF Turns
  <2>3. current # None
    BY <1>1, <2>1, DeployFits DEF Linked
  <2>4. Started = d
    BY <2>1, <2>3 DEF Started, Linked, Written, Exists
  <2>5. Moved(d)' /\ Linked(d)' /\ There(current)'
    BY <1>3, <2>1, <2>2 DEF Moved, Linked, Written, Same, Rel, There, OneAtATime
  <2>6. running' \in {before.running, d} /\ before' = before
    BY <1>3, <2>1, <2>4 DEF Same
  <2> QED
    BY <2>2, <2>5, <2>6 DEF Stands
<1> QED
  BY <1>2, <1>3, <1>4, <1>5, GoneOn, SameDisk

\* What is left to show of a step that ends d.
LEMMA Ended ==
    ASSUME DeployInv, NEW d \in Active, NEW ph \in {"success", "failed", "rolled_back"}, Ends(d, ph),
           Typed', Same,
           ~overlapped => /\ There(current)' /\ There(kept)' /\ There(before.current)'
                          /\ Leaves(d, ph)'
    PROVE  DeployInv'
<1>1. overlapped' = overlapped /\ restoring' = restoring /\ before' = before
  BY DEF Same
<1>2. d \in Deploys /\ Typed
  BY DEF Active, DeployInv
<1>3. Turns(d, None) /\ (~overlapped => last'.deploy = d /\ last'.phase = ph)
  BY <1>2, ExecutorEnds
<1>4. ASSUME ~overlapped
      PROVE  OneAtATime' /\ (\A x \in Active' : Stands(x)') /\ Told'
  <2>1. Active = {d} /\ ~restoring /\ OneAtATime
    BY <1>4, AloneStands
  <2>2. Active' = {}
    BY <1>3, <2>1 DEF Turns
  <2> QED
    BY <1>1, <1>3, <1>4, <2>1, <2>2 DEF OneAtATime, Told
<1> QED
  BY <1>1, <1>4 DEF DeployInv

\* The failures.
LEMMA FailuresKeep ==
    ASSUME DeployInv, NEW d \in Deploys
    PROVE  ExtractFails(d) \/ DownloadFails(d) \/ CommandFails(d) \/ ReconcileFails(d) => DeployInv'
<1>1. Typed /\ Rel(d) \in Releases
  BY DeployFits DEF DeployInv
<1>2. ASSUME d \in Active, Ends(d, "failed"), Same, UNCHANGED <<tars, current, swapped, kept>>,
             releases' = releases \/ releases' = Touched(Rel(d)),
             files' \in [Releases -> Deploys \cup {None}],
             \/ /\ executors[d].at \in {"downloading", "verifying", "building"}
                /\ running' = running
             \/ /\ executors[d].at \in {"reconciling", "rolling back"}
                /\ running' \in Deploys \cup {None}
      PROVE  DeployInv'
  <2>1. Turns(d, None) /\ last' \in {None} \cup [deploy : Deploys, phase : {"success", "failed", "rolled_back"}]
        /\ asking' \in {None} \cup [deploy : Deploys, waits : BOOLEAN]
    BY <1>1, <1>2, ExecutorEnds
  <2>2. releases' \in Seq(Releases) /\ IsInjective(releases') /\ KeepsAll
    <3>1. CASE releases' = releases
      BY <1>1, <3>1 DEF Typed, KeepsAll
    <3>2. CASE releases' = Touched(Rel(d))
      BY <1>1, <3>2, TouchedKeeps DEF Typed, KeepsAll
    <3> QED
      BY <1>2, <3>1, <3>2
  <2>3. running' \in Deploys \cup {None}
    BY <1>1, <1>2 DEF Typed
  <2>4. Typed'
    BY <1>1, <1>2, <2>1, <2>2, <2>3 DEF Typed, Turns, Executors, Same
  <2>5. ASSUME ~overlapped
        PROVE  /\ There(current)' /\ There(kept)' /\ There(before.current)'
               /\ Leaves(d, "failed")'
    <3>1. OneAtATime /\ Stands(d)
      BY <1>2, <2>5, AloneStands
    <3>2. There(current)' /\ There(kept)' /\ There(before.current)'
      BY <1>2, <2>2, <3>1 DEF OneAtATime, There, KeepsAll, Same
    <3>3. CASE executors[d].at \in {"downloading", "verifying", "building"} /\ running' = running
      BY <1>2, <3>1, <3>2, <3>3 DEF Stands, Unswapped, Leaves, Same
    <3>4. CASE executors[d].at \in {"reconciling", "rolling back"}
      BY <1>2, <3>1, <3>2, <3>4 DEF Stands, Moved, Leaves
    <3> QED
      BY <1>2, <3>2, <3>3, <3>4
  <2> QED
    BY <1>2, <2>4, <2>5, Ended
<1>3. ASSUME ExtractFails(d)
      PROVE  DeployInv'
  <2>1. files' \in [Releases -> Deploys \cup {None}]
    BY <1>1, <1>3 DEF ExtractFails, Typed
  <2> QED
    BY <1>2, <1>3, <2>1 DEF ExtractFails, At
<1>4. ASSUME DownloadFails(d)
      PROVE  DeployInv'
  BY <1>1, <1>2, <1>4 DEF DownloadFails, At, disk, Typed
<1>5. ASSUME CommandFails(d)
      PROVE  DeployInv'
  BY <1>1, <1>2, <1>5 DEF CommandFails, At, disk, Typed
<1>6. ASSUME ReconcileFails(d)
      PROVE  DeployInv'
  <2>1. running' \in Deploys \cup {None}
    BY <1>1, <1>6, StartedFits DEF ReconcileFails, Typed
  <2> QED
    BY <1>1, <1>2, <1>6, <2>1 DEF ReconcileFails, At, disk, Typed
<1> QED
  BY <1>3, <1>4, <1>5, <1>6

\* The way back, if there is one.
LEMMA GoesBackKeeps ==
    ASSUME DeployInv, NEW d \in Deploys, GoesBack(d)
    PROVE  DeployInv'
<1>1. Typed /\ executors[d] \in Executor /\ d \in Active /\ executors[d].at = "crashed"
  BY DeployFits DEF DeployInv, GoesBack, At, Active
<1>2. UNCHANGED <<releases, files, tars, running, swapped, kept>> /\ Same
  BY DEF GoesBack
<1>3. CASE Exists(executors[d].previous)
  <2>1. Goes(d, "rolling back") /\ current' = executors[d].previous /\ UNCHANGED <<last, asking>>
    BY <1>3 DEF GoesBack, Links
  <2>2. PICK e \in Executor : /\ Turns(d, e) /\ e.at = "rolling back"
                              /\ e.previous = executors[d].previous /\ e # None
    BY <1>1, <2>1, ExecutorGoes DEF Stages, GoesBack
  <2>3. executors[d].previous \in Releases
    BY <1>1, <1>3 DEF Executor, Exists
  <2>4. Typed'
    BY <1>1, <1>2, <2>1, <2>2, <2>3, ZenonT(60) DEF Typed, Turns, Executors, Same
  <2>5. ASSUME ~overlapped
        PROVE  There(current)' /\ Stands(d)'
    <3>1. OneAtATime /\ Moved(d) /\ running \in {before.running, d}
      BY <1>1, <2>5, AloneStands DEF Stands
    <3>2. executors'[d].at = "rolling back" /\ executors'[d].previous = executors[d].previous
      BY <2>2 DEF Turns
    <3>3. Moved(d)' /\ current' = before.current /\ current' # None /\ There(current)'
      BY <1>2, <1>3, <2>1, <3>1, <3>2 DEF Moved, Same, Exists, There
    <3> QED
      BY <1>2, <3>1, <3>2, <3>3 DEF Stands, Same
  <2> QED
    BY <1>1, <1>2, <2>1, <2>2, <2>4, <2>5, GoneOn, SameDisk
<1>4. CASE ~Exists(executors[d].previous)
  <2>1. Ends(d, "failed") /\ current' = current
    BY <1>4 DEF GoesBack
  <2>2. Turns(d, None) /\ last' \in {None} \cup [deploy : Deploys, phase : {"success", "failed", "rolled_back"}]
        /\ asking' \in {None} \cup [deploy : Deploys, waits : BOOLEAN]
    BY <1>1, <2>1, ExecutorEnds
  <2>3. Typed'
    BY <1>1, <1>2, <2>1, <2>2 DEF Typed, Turns, Executors, Same
  <2>4. ASSUME ~overlapped
        PROVE  /\ There(current)' /\ There(kept)' /\ There(before.current)'
               /\ Leaves(d, "failed")'
    <3>1. OneAtATime /\ Moved(d)
      BY <1>1, <2>4, AloneStands DEF Stands
    <3> QED
      BY <1>2, <2>1, <3>1 DEF OneAtATime, There, Moved, Leaves, Same
  <2> QED
    BY <1>1, <1>2, <2>1, <2>3, <2>4, Ended
<1> QED
  BY <1>3, <1>4

LEMMA WentBackKeeps ==
    ASSUME DeployInv, NEW d \in Deploys, WentBack(d)
    PROVE  DeployInv'
<1>1. Typed /\ d \in Active /\ executors[d].at = "rolling back" /\ Ends(d, "rolled_back")
      /\ running' \in {running, Started} /\ Same
      /\ UNCHANGED <<releases, files, tars, current, swapped, kept>>
  BY DEF DeployInv, WentBack, At, disk
<1>2. Turns(d, None) /\ last' \in {None} \cup [deploy : Deploys, phase : {"success", "failed", "rolled_back"}]
      /\ asking' \in {None} \cup [deploy : Deploys, waits : BOOLEAN]
  BY <1>1, ExecutorEnds
<1>3. Typed'
  BY <1>1, <1>2, StartedFits DEF Typed, Turns, Executors, Same
<1>4. ASSUME ~overlapped
      PROVE  /\ There(current)' /\ There(kept)' /\ There(before.current)'
             /\ Leaves(d, "rolled_back")'
  <2>1. OneAtATime /\ current = before.current /\ current # None /\ running \in {before.running, d}
    BY <1>1, <1>4, AloneStands DEF Stands
  <2>2. Started = files[current]
    BY <2>1 DEF Started, OneAtATime, There, Exists
  <2>3. There(current)' /\ There(kept)' /\ There(before.current)'
    BY <1>1, <2>1 DEF OneAtATime, There, Same
  <2> QED
    BY <1>1, <2>1, <2>2, <2>3 DEF Leaves, Same
<1> QED
  BY <1>1, <1>3, <1>4, Ended

\* The cleanup that ends a success spares what is linked and what was linked before.
LEMMA SucceedsKeeps ==
    ASSUME DeployInv, NEW d \in Deploys, Succeeds(d)
    PROVE  DeployInv'
<1> DEFINE previous == executors[d].previous
<1>1. /\ Typed /\ d \in Active /\ executors[d].at = "monitoring" /\ Ends(d, "success")
      /\ executors[d] \in Executor /\ releases' = Cleaned(previous)
      /\ files' = [r \in Releases |-> IF Contains(releases', r) THEN files[r] ELSE None]
      /\ kept' = previous /\ Same /\ UNCHANGED <<tars, current, running, swapped>>
  BY DeployFits DEF DeployInv, Succeeds, At, Active
<1>2. Turns(d, None) /\ last' \in {None} \cup [deploy : Deploys, phase : {"success", "failed", "rolled_back"}]
      /\ asking' \in {None} \cup [deploy : Deploys, waits : BOOLEAN]
  BY <1>1, ExecutorEnds
<1>3. previous \in Releases \cup {None}
  BY <1>1 DEF Executor
<1>4. /\ releases' \in Seq(Releases) /\ IsInjective(releases')
      /\ There(previous) /\ previous # None => Contains(releases', previous)
      /\ releases # <<>> => Contains(releases', releases[Len(releases)])
  BY <1>1, <1>3, CleanedKeeps DEF Typed
<1> HIDE DEF previous
<1>5. files' \in [Releases -> Deploys \cup {None}]
  BY <1>1 DEF Typed
<1>6. Typed'
  BY <1>1, <1>2, <1>3, <1>4, <1>5 DEF Typed, Turns, Executors, Same
<1>7. ASSUME ~overlapped
      PROVE  /\ There(current)' /\ There(kept)' /\ There(before.current)'
             /\ Leaves(d, "success")'
  <2>1. OneAtATime /\ Moved(d) /\ Linked(d) /\ running \in {before.running, d}
    BY <1>1, <1>7, AloneStands DEF Stands
  <2>2. previous = before.current /\ There(previous)
    BY <2>1 DEF previous, Moved, OneAtATime
  <2>3. There(kept)' /\ There(before.current)'
    BY <1>1, <1>4, <2>2 DEF There, Same
  <2>4. releases # <<>>
    BY <2>1 DEF Linked, Written, Contains
  <2>5. There(current)'
    BY <1>1, <1>4, <2>1, <2>4 DEF There, Linked
  <2>6. Leaves(d, "success")'
    BY <1>1, <2>1 DEF Leaves, Linked, Same, Rel
  <2> QED
    BY <2>3, <2>5, <2>6
<1> QED
  BY <1>1, <1>6, <1>7, Ended
----------------------------------------------------------------------------
(* Deploys begin. *)

Begun(S, at) ==
    /\ executors' \in Executors /\ Active' = Active \cup S
    /\ \A d \in S : executors'[d].at = at /\ executors'[d].previous = None

LEMMA UnderBegins ==
    ASSUME Typed, NEW S \in SUBSET Deploys, NEW at \in Stages, Under(S, at)
    PROVE  Begun(S, at)
<1>1. PICK e : e = [at |-> at, previous |-> None]
  OBVIOUS
<1>2. e \in Executor /\ e # None /\ e.at = at /\ e.previous = None
  <2>1. e \in Executor /\ e.at = at /\ e.previous = None
    BY <1>1 DEF Executor, Stages
  <2> QED
    BY <2>1, DeployAssumption
<1>3. executors' = [d \in Deploys |-> IF d \in S THEN e ELSE executors[d]]
  BY <1>1 DEF Under
<1>4. executors' \in Executors
  BY <1>2, <1>3 DEF Typed, Executors
<1>5. \A d \in Deploys : executors'[d] = IF d \in S THEN e ELSE executors[d]
  BY <1>3
<1>6. Active' = Active \cup S
  BY <1>2, <1>5 DEF Active
<1> QED
  BY <1>2, <1>4, <1>5, <1>6 DEF Begun

\* What begins alone finds no other and no restore.
LEMMA BeginsAlone ==
    ASSUME DeployInv, NEW S \in SUBSET Deploys, Begins(S), ~overlapped'
    PROVE  /\ ~overlapped /\ ~restoring /\ OneAtATime /\ Told
           /\ \E d \in S : S = {d} /\ Active \subseteq {d}
<1>1. ~overlapped /\ ~restoring /\ S # {} /\ \A d, e \in S \cup Active : d = e
  BY Zenon DEF Begins
<1>2. PICK d : d \in S
  BY <1>1
<1>3. S = {d} /\ Active \subseteq {d}
  BY <1>1, <1>2
<1> QED
  BY <1>1, <1>2, <1>3 DEF DeployInv

\* What is linked and runs then is what there was before.
LEMMA BeginsTyped ==
    ASSUME Typed, NEW S \in SUBSET Deploys, Begins(S)
    PROVE  /\ commands' \subseteq Deploys /\ overlapped' \in BOOLEAN /\ swapped' = FALSE
           /\ before' \in [current : Releases \cup {None}, running : Deploys \cup {None}]
           /\ before'.current = current /\ before'.running = running
           /\ UNCHANGED <<tars, current, running, restoring, kept>>
<1>1. before' = [current |-> current, running |-> running]
  BY DEF Begins
<1>2. overlapped' \in BOOLEAN
  BY Zenon DEF Begins, Typed
<1> QED
  BY <1>1, <1>2 DEF Begins, Typed

\* What is left to show of a step in which deploys begin, and go on.
LEMMA BegunKeeps ==
    ASSUME DeployInv, NEW S \in SUBSET Deploys, NEW at \in {"downloading", "building"},
           Begins(S), Begun(S, at), Typed', KeepsAll, at = "building" => \A d \in S : Written(d)'
    PROVE  DeployInv'
<1>1. Typed
  BY DEF DeployInv
<1>2. /\ swapped' = FALSE /\ before'.current = current /\ before'.running = running
      /\ UNCHANGED <<current, running, restoring, kept>>
  BY <1>1, BeginsTyped
<1>3. ASSUME ~overlapped'
      PROVE  OneAtATime' /\ (\A x \in Active' : Stands(x)') /\ Told'
  <2>1. ~restoring /\ OneAtATime /\ \E d \in S : S = {d} /\ Active \subseteq {d}
    BY <1>3, BeginsAlone
  <2>2. PICK d \in S : S = {d} /\ Active \subseteq {d}
    BY <2>1
  <2>3. Active' = {d} /\ executors'[d].at = at /\ executors'[d].previous = None
    BY <2>2 DEF Begun
  <2>4. Unswapped(d)' /\ (at = "building" => Written(d)')
    BY <1>2, <2>2, <2>3 DEF Unswapped
  <2>5. There(current)' /\ There(kept)' /\ There(before.current)'
    BY <1>2, <2>1 DEF OneAtATime, There, KeepsAll
  <2>6. Stands(d)'
    BY <2>3, <2>4 DEF Stands
  <2> QED
    BY <1>2, <2>1, <2>3, <2>5, <2>6 DEF OneAtATime, Told
<1> QED
  BY <1>3 DEF DeployInv

LEMMA PollKeeps ==
    ASSUME DeployInv, NEW S \in SUBSET Deploys, Poll(S)
    PROVE  DeployInv'
<1>1. /\ Typed /\ Begins(S) /\ Under(S, "downloading")
      /\ UNCHANGED <<asking, releases, files, last>>
  BY DEF DeployInv, Poll
<1>2. Begun(S, "downloading")
  BY <1>1, UnderBegins DEF Stages
<1>3. Typed'
  BY <1>1, <1>2, BeginsTyped DEF Typed, Begun, Executors
<1> QED
  BY <1>1, <1>2, <1>3, BegunKeeps, SameDisk

LEMMA RestoringKeeps ==
    ASSUME DeployInv, NEW d \in Deploys, DeployRestore(d)
    PROVE  DeployInv'
<1>1. /\ Typed /\ Begins({d}) /\ Under({d}, "downloading") /\ asking' = Waits(d)
      /\ UNCHANGED <<releases, files, last>>
  BY DEF DeployInv, DeployRestore
<1>2. Begun({d}, "downloading")
  BY <1>1, UnderBegins DEF Stages
<1>3. Waits(d) \in [deploy : Deploys, waits : BOOLEAN]
  BY DEF Waits
<1>4. Typed'
  BY <1>1, <1>2, <1>3, BeginsTyped DEF Typed, Begun, Executors
<1> QED
  BY <1>1, <1>2, <1>4, BegunKeeps, SameDisk
LEMMA LocalKeeps ==
    ASSUME DeployInv, NEW d \in Deploys, DeployLocal(d)
    PROVE  DeployInv'
<1>1. Typed /\ Begins({d}) /\ Rel(d) \in Releases
  BY DeployFits DEF DeployInv, DeployLocal
<1>2. /\ commands' \subseteq Deploys /\ overlapped' \in BOOLEAN /\ swapped' = FALSE
      /\ before' \in [current : Releases \cup {None}, running : Deploys \cup {None}]
      /\ before'.current = current /\ before'.running = running
      /\ UNCHANGED <<tars, current, running, restoring, kept>>
  BY <1>1, BeginsTyped
<1>3. Touched(Rel(d)) \in Seq(Releases) /\ IsInjective(Touched(Rel(d)))
      /\ Contains(Touched(Rel(d)), Rel(d))
      /\ \A q : Contains(releases, q) => Contains(Touched(Rel(d)), q)
  BY <1>1, TouchedKeeps DEF Typed
<1>4. ASSUME Under({d}, "building"), releases' = Touched(Rel(d)),
             files' = [files EXCEPT ![Rel(d)] = d], UNCHANGED <<asking, last>>
      PROVE  DeployInv'
  <2>1. Begun({d}, "building")
    BY <1>1, <1>4, UnderBegins DEF Stages
  <2>2. files' \in [Releases -> Deploys \cup {None}] /\ files'[Rel(d)] = d
    BY <1>1, <1>4 DEF Typed
  <2>3. Typed'
    BY <1>1, <1>2, <1>3, <1>4, <2>1, <2>2 DEF Typed, Begun, Executors
  <2>4. Written(d)'
    BY <1>3, <1>4, <2>2 DEF Written, Rel
  <2> QED
    BY <1>1, <1>3, <1>4, <2>1, <2>3, <2>4, BegunKeeps DEF KeepsAll
<1>5. ASSUME Ends(d, "failed"),
             releases' = releases \/ releases' = Touched(Rel(d)),
             files' \in [Releases -> Deploys \cup {None}]
      PROVE  DeployInv'
  <2>1. /\ Turns(d, None)
        /\ last' \in {None} \cup [deploy : Deploys, phase : {"success", "failed", "rolled_back"}]
        /\ asking' \in {None} \cup [deploy : Deploys, waits : BOOLEAN]
        /\ ~overlapped => last'.deploy = d /\ last'.phase = "failed"
    BY <1>1, <1>5, ExecutorEnds
  <2>2. releases' \in Seq(Releases) /\ IsInjective(releases') /\ KeepsAll
    BY <1>1, <1>3, <1>5 DEF Typed, KeepsAll
  <2>3. Typed'
    BY <1>1, <1>2, <1>5, <2>1, <2>2 DEF Typed, Turns, Executors
  <2>4. ASSUME ~overlapped'
        PROVE  OneAtATime' /\ (\A x \in Active' : Stands(x)') /\ Told'
    <3>1. ~overlapped /\ ~restoring /\ OneAtATime /\ Active \subseteq {d}
      BY <1>1, <2>4, BeginsAlone
    <3>2. Active' = {}
      BY <2>1, <3>1 DEF Turns
    <3>3. There(current)' /\ There(kept)' /\ There(before.current)'
      BY <1>2, <2>2, <3>1 DEF OneAtATime, There, KeepsAll
    <3>4. Leaves(d, "failed")'
      BY <1>2 DEF Leaves
    <3> QED
      BY <1>2, <2>1, <3>1, <3>2, <3>3, <3>4 DEF OneAtATime, Told
  <2> QED
    BY <2>3, <2>4 DEF DeployInv
<1>6. files \in [Releases -> Deploys \cup {None}]
      /\ [files EXCEPT ![Rel(d)] = None] \in [Releases -> Deploys \cup {None}]
  BY <1>1 DEF Typed
<1> QED
  BY <1>4, <1>5, <1>6 DEF DeployLocal
----------------------------------------------------------------------------
(* A process crashes; restores. *)

LEMMA CrashKeeps ==
    ASSUME DeployInv, Crash
    PROVE  DeployInv'
<1>1. Typed
  BY DEF DeployInv
<1>2. /\ executors' = [d \in Deploys |-> IF At(d, "monitoring") THEN [executors[d] EXCEPT !.at = "crashed"]
                                         ELSE executors[d]]
      /\ UNCHANGED <<commands, asking, disk, running, restoring, history>>
  BY DEF Crash
<1>3. ASSUME NEW d \in Deploys
      PROVE  /\ executors'[d] \in {None} \cup Executor
             /\ executors'[d] = None <=> executors[d] = None
             /\ executors[d] # None =>
                   /\ executors'[d].previous = executors[d].previous
                   /\ executors'[d].at = IF executors[d].at = "monitoring" THEN "crashed"
                                         ELSE executors[d].at
  <2>1. executors[d] \in {None} \cup Executor
    BY <1>1 DEF Typed
  <2>2. CASE ~At(d, "monitoring")
    <3>1. executors'[d] = executors[d]
      BY <1>2, <2>2
    <3> QED
      BY <2>1, <2>2, <3>1 DEF At, Active
  <2>3. CASE At(d, "monitoring")
    <3>1. PICK f : f = executors[d]
      OBVIOUS
    <3>2. f \in Executor /\ f.at = "monitoring"
      BY <2>1, <2>3, <3>1 DEF At, Active
    <3>3. PICK e : e = [f EXCEPT !.at = "crashed"]
      OBVIOUS
    <3>4. e \in Executor /\ e.at = "crashed" /\ e.previous = f.previous
      BY <3>2, <3>3 DEF Executor
    <3>5. executors'[d] = e
      BY <1>2, <2>3, <3>1, <3>3
    <3>6. e # None /\ f # None
      BY <3>2, <3>4, DeployAssumption
    <3> QED
      BY <3>1, <3>2, <3>4, <3>5, <3>6
  <2> QED
    BY <2>2, <2>3
<1>4. executors' \in [Deploys -> {None} \cup Executor]
  <2>1. \A d \in Deploys : executors'[d] \in {None} \cup Executor
    BY <1>3
  <2>2. \E v : executors' = [d \in Deploys |-> v[d]]
    <3>1. PICK v : v = executors'
      OBVIOUS
    <3>2. v = [d \in Deploys |-> v[d]]
      BY <1>2, <3>1
    <3> QED
      BY <3>1, <3>2
  <2> QED
    BY <2>1, <2>2
<1>5. Active' = Active
  BY <1>3 DEF Active
<1>6. Typed'
  BY <1>1, <1>2, <1>4 DEF Typed, disk, history
<1>7. ASSUME ~overlapped
      PROVE  OneAtATime' /\ (\A x \in Active' : Stands(x)') /\ Told'
  <2>1. OneAtATime /\ (\A x \in Active : Stands(x)) /\ Told
    BY <1>7 DEF DeployInv
  <2>2. OneAtATime' /\ Told'
    BY <1>2, <1>5, <2>1 DEF OneAtATime, There, Told, Leaves, disk, history, Rel
  <2>3. ASSUME NEW x \in Active
        PROVE  Stands(x)'
    <3>1. x \in Deploys /\ executors[x] # None
      BY DEF Active
    <3>2. /\ executors'[x].previous = executors[x].previous
          /\ executors'[x].at = IF executors[x].at = "monitoring" THEN "crashed" ELSE executors[x].at
      BY <1>3, <3>1
    <3>3. /\ Unswapped(x) => Unswapped(x)'
          /\ Written(x) => Written(x)'
          /\ Moved(x) => Moved(x)'
          /\ Linked(x) => Linked(x)'
      BY <1>2, <3>2 DEF Unswapped, Written, Moved, Linked, disk, history, Rel
    <3>4. current' = current /\ running' = running /\ before' = before
      BY <1>2 DEF disk, history
    <3> QED
      BY <2>1, <3>2, <3>3, <3>4 DEF Stands
  <2> QED
    BY <1>5, <2>2, <2>3
<1> QED
  BY <1>2, <1>6, <1>7 DEF DeployInv, history
LEMMA RestoresKeep ==
    ASSUME DeployInv
    PROVE  (\E d \in Deploys : GivesUp(d) \/ FallsBack(d)) \/ Restore \/ Restored => DeployInv'
<1>1. Typed /\ Started \in Deploys \cup {None}
  BY StartedFits DEF DeployInv
<1>2. ASSUME UNCHANGED <<commands, executors, disk, before, swapped, kept>>,
             asking' \in {None} \cup [deploy : Deploys, waits : BOOLEAN],
             running' \in Deploys \cup {None}, restoring' \in BOOLEAN, overlapped' \in BOOLEAN,
             last' = None \/ last' = last,
             ~overlapped' => /\ ~overlapped
                             /\ \/ Active = {} /\ last' = None
                                \/ Active = {} /\ running' = running
                                \/ running' = running /\ restoring' = restoring /\ last' = last
      PROVE  DeployInv'
  <2>1. Active' = Active
    BY <1>2 DEF Active
  <2>2. Typed'
    BY <1>1, <1>2 DEF Typed, disk
  <2>3. ASSUME ~overlapped'
        PROVE  OneAtATime' /\ (\A x \in Active' : Stands(x)') /\ Told'
    <3>1. OneAtATime /\ (\A x \in Active : Stands(x)) /\ Told
      BY <1>2, <2>3 DEF DeployInv
    <3>2. There(current)' /\ There(kept)' /\ There(before.current)'
      BY <1>2, <3>1 DEF OneAtATime, There, disk
    <3>3. CASE Active = {} /\ last' = None
      BY <2>1, <3>2, <3>3 DEF OneAtATime, Told
    <3>4. CASE Active = {} /\ running' = running
      BY <1>2, <2>1, <3>1, <3>2, <3>4 DEF OneAtATime, Told, Leaves, Rel, disk
    <3>5. CASE running' = running /\ restoring' = restoring /\ last' = last
      <4>1. ASSUME NEW x \in Active
            PROVE  Stands(x)'
        <5>1. Stands(x)
          BY <3>1
        <5> QED
          BY <1>2, <3>5, <5>1
             DEF Stands, Unswapped, Written, Moved, Linked, Rel, disk
      <4> QED
        BY <1>2, <2>1, <3>1, <3>2, <3>5, <4>1 DEF OneAtATime, Told, Leaves, Rel, disk
    <3> QED
      BY <1>2, <2>3, <3>3, <3>4, <3>5
  <2> QED
    BY <2>2, <2>3 DEF DeployInv
<1>3. ASSUME NEW d \in Deploys, GivesUp(d)
      PROVE  DeployInv'
  <2>1. asking' \in [deploy : Deploys, waits : BOOLEAN]
    BY <1>3 DEF GivesUp, Falls
  <2> QED
    BY <1>1, <1>2, <1>3, <2>1 DEF GivesUp, Typed, history
<1>4. ASSUME NEW d \in Deploys, FallsBack(d)
      PROVE  DeployInv'
  <2>1. overlapped' \in BOOLEAN /\ (~overlapped' => ~overlapped /\ Active = {})
    BY <1>1, <1>4, Zenon DEF FallsBack, Typed
  <2>2. running' \in Deploys \cup {None}
    BY <1>1, <1>4 DEF FallsBack, Typed
  <2> QED
    BY <1>1, <1>2, <1>4, <2>1, <2>2 DEF FallsBack, Typed
<1>5. ASSUME Restore
      PROVE  DeployInv'
  <2>1. overlapped' \in BOOLEAN /\ (~overlapped' => ~overlapped /\ Active = {})
    BY <1>1, <1>5, Zenon DEF Restore, Typed
  <2> QED
    BY <1>1, <1>2, <1>5, <2>1 DEF Restore, Typed
<1>6. ASSUME Restored
      PROVE  DeployInv'
  <2>1. ~overlapped => Active = {}
    BY <1>6 DEF Restored, DeployInv, OneAtATime
  <2> QED
    BY <1>1, <1>2, <1>6, <2>1 DEF Restored, Typed
<1> QED
  BY <1>3, <1>4, <1>5, <1>6
----------------------------------------------------------------------------
(* The invariant. *)

LEMMA DeployStart ==
    ASSUME Init
    PROVE  DeployInv
<1>1. commands = Deploys /\ executors = [d \in Deploys |-> None] /\ asking = None /\ last = None
      /\ releases = <<>> /\ tars = {} /\ files = [r \in Releases |-> None]
      /\ current = None /\ running = None /\ restoring = FALSE /\ swapped = FALSE
      /\ before = [current |-> None, running |-> None] /\ kept = None /\ overlapped = FALSE
  BY DEF Init
<1>2. Active = {}
  BY <1>1 DEF Active
<1>3. releases \in Seq(Releases) /\ IsInjective(releases)
  <2>1. <<>> \in Seq(Releases) /\ DOMAIN <<>> = {}
    OBVIOUS
  <2> QED
    BY <1>1, <2>1 DEF IsInjective
<1>4. Typed
  BY <1>1, <1>3 DEF Typed
<1> QED
  BY <1>1, <1>2, <1>4 DEF DeployInv, OneAtATime, There, Told

LEMMA DeployStep ==
    ASSUME DeployInv, [Next]_vars
    PROVE  DeployInv'
<1>1. CASE \E S \in SUBSET Deploys : Poll(S)
  BY <1>1, PollKeeps
<1>2. CASE \E d \in Deploys : Advances(d)
  <2>1. PICK d \in Deploys : Advances(d)
    BY <1>2
  <2> QED
    BY <2>1, EarlyKeep, ExtractedKeeps, SwapsKeep, ReconciledKeeps, FailuresKeep, GoesBackKeeps,
       WentBackKeeps, SucceedsKeeps DEF Advances
<1>3. CASE \E d \in Deploys : DeployLocal(d) \/ DeployRestore(d)
  BY <1>3, LocalKeeps, RestoringKeeps
<1>4. CASE (\E d \in Deploys : GivesUp(d) \/ FallsBack(d)) \/ Restore \/ Restored
  BY <1>4, RestoresKeep
<1>5. CASE Crash
  BY <1>5, CrashKeeps
<1>6. CASE UNCHANGED vars
  <2>1. /\ commands' = commands /\ executors' = executors /\ asking' = asking /\ last' = last
        /\ releases' = releases /\ tars' = tars /\ files' = files
        /\ current' = current /\ running' = running /\ restoring' = restoring
        /\ swapped' = swapped /\ before' = before /\ kept' = kept /\ overlapped' = overlapped
    BY <1>6 DEF vars, disk, history
  <2>2. Typed => Typed'
    BY <2>1 DEF Typed
  <2>3. OneAtATime => OneAtATime'
    BY <2>1 DEF OneAtATime, There, Active
  <2>4. Active' = Active
    BY <2>1 DEF Active
  <2>5. \A x \in Active : Stands(x) => Stands(x)'
    BY <2>1 DEF Stands, Unswapped, Written, Moved, Linked, Rel
  <2>6. Told => Told'
    BY <2>1, <2>4 DEF Told, Leaves, Rel
  <2> QED
    BY <2>1, <2>2, <2>3, <2>4, <2>5, <2>6 DEF DeployInv
<1>7. QED
  BY <1>1, <1>2, <1>3, <1>4, <1>5, <1>6 DEF Next
----------------------------------------------------------------------------
(* The theorems. *)

\* DeployInv, the inductive invariant, holds.
THEOREM DeployInvariant == Spec => []DeployInv
<1>1. Init => DeployInv
  BY DeployStart
<1>2. DeployInv /\ [Next]_vars => DeployInv'
  BY DeployStep
<1> QED
  BY <1>1, <1>2, PTL DEF Spec

LEMMA KeptThere ==
    ASSUME DeployInv
    PROVE  ReleasesKept
<1> SUFFICES ASSUME ~overlapped
             PROVE  /\ current # None => Exists(current)
                    /\ kept # None => Exists(kept)
                    /\ \A d \in Active : executors[d].previous # None => Exists(executors[d].previous)
  BY DEF ReleasesKept
<1>1. OneAtATime /\ Typed
  BY DEF DeployInv
<1>2. (current # None => Exists(current)) /\ (kept # None => Exists(kept))
  BY <1>1 DEF OneAtATime, There, Exists
<1>3. ASSUME NEW d \in Active, executors[d].previous # None
      PROVE  Exists(executors[d].previous)
  <2>1. Stands(d) /\ executors[d].at \in Stages
    BY <1>1, AloneStands, DeployFits DEF Active, Executor, Stages
  <2>2. Unswapped(d) \/ Moved(d)
    BY <2>1 DEF Stands, Stages
  <2> QED
    BY <1>1, <1>3, <2>2 DEF Unswapped, Moved, OneAtATime, There, Exists
<1> QED
  BY <1>2, <1>3

\* Deploys one at a time, the release that is linked, the one to go back to and the one the last
\* success kept are on the disk: however many releases there are and however few the cleanup keeps.
THEOREM WhatRunsIsKept == Spec => []ReleasesKept
<1>1. DeployInv => ReleasesKept
  BY KeptThere
<1> QED
  BY <1>1, DeployInvariant, PTL

LEMMA ToldTrue ==
    ASSUME DeployInv
    PROVE  OutcomeTrue
<1> SUFFICES ASSUME ~overlapped, Active = {}, last # None
             PROVE  Leaves(last.deploy, last.phase)
  BY DEF OutcomeTrue, Leaves
<1> QED
  BY DEF DeployInv, Told

\* Deploys one at a time, the final phase that is reported is true: of the release that is linked,
\* and of what the processes may run.
THEOREM OutcomesAreTrue == Spec => []OutcomeTrue
<1>1. DeployInv => OutcomeTrue
  BY ToldTrue
<1> QED
  BY <1>1, DeployInvariant, PTL

LEMMA DeployTypes ==
    ASSUME DeployInv
    PROVE  TypeOK
BY DEF DeployInv, Typed, TypeOK

\* Every variable keeps its type, and no release is listed twice on the disk.
THEOREM DeployTypeInvariant == Spec => []TypeOK
<1>1. DeployInv => TypeOK
  BY DeployTypes
<1> QED
  BY <1>1, DeployInvariant, PTL
==============================================================================
