-------------------------------- MODULE Deploy --------------------------------
(***************************************************************************)
(* Deploy: the CommandPoller, the DeployExecutors it starts (without       *)
(* waiting for one another), the releases on disk with the link to the     *)
(* current one, and the processes reconciled with it.                      *)
(*                                                                         *)
(* A release is a directory, named for the version and artifact deployed:  *)
(* to deploy these again is to extract over it.  Of the processes only     *)
(* the deploy whose files they were started from is kept.                  *)
(*                                                                         *)
(* A command may ask for a deploy as well: `orkify deploy local` for one   *)
(* of a tarball it brings, `orkify restore` for the release the server has *)
(* now; the latter falls back on the snapshot when no success comes back.  *)
(***************************************************************************)
EXTENDS Integers, FiniteSets, SequencesExt

CONSTANTS Deploys, Releases,
          Local,      \* the deploys of a tarball a command brings
          ReleaseOf,  \* the release of each deploy
          Keep,       \* releases that cleanup keeps
          MaxActive,  \* bound on deploys at once
          None        \* "nothing"

\* Where a deploy under way is, and its previousDir.
Executor ==
    [at : {"downloading", "verifying", "preparing", "building",
           "reconciling", "monitoring", "crashed", "rolling back"},
     previous : Releases \cup {None}]

ASSUME DeployAssumption ==
    /\ Local \subseteq Deploys
    /\ ReleaseOf \in [Deploys -> Releases] /\ Keep \in Nat \ {0} /\ MaxActive \in Nat \ {0}
    /\ None \notin Deploys \cup Releases \cup Executor

VARIABLES commands,   \* deploys that have not begun
          asking,     \* the restore that asked for a deploy, one at a time: the deploy, and
                      \* whether it waits for it or falls back on the snapshot
          executors,  \* each deploy under way
          releases,   \* the release directories, the newest last
          files,      \* the deploy whose files each directory has, None if half of them
          tars,       \* tarballs, by release
          current,    \* what the link "current" points to
          running,    \* the deploy whose files the processes run
          restoring,  \* DEPLOY_RESTORE: a reconcile of what is there
          before, swapped,  \* history: current and running when the last deploy began; it swapped
          last,       \* history: the final phase of the deploy that ended last, if nothing was restored since
          kept,       \* history: the previous release of the last success
          overlapped  \* history: a deploy or a restore began during another

disk == <<releases, files, tars, current>>
history == <<before, swapped, last, kept, overlapped>>
vars == <<commands, asking, executors, disk, running, restoring, history>>

Active == {d \in Deploys : executors[d] # None}
At(d, step) == d \in Active /\ executors[d].at = step
Rel(d) == ReleaseOf[d]

Exists(r) == r # None /\ Contains(releases, r)

Init ==
    /\ commands = Deploys /\ asking = None
    /\ executors = [d \in Deploys |-> None]
    /\ releases = <<>> /\ files = [r \in Releases |-> None] /\ tars = {}
    /\ current = None /\ running = None /\ restoring = FALSE
    /\ before = [current |-> None, running |-> None] /\ swapped = FALSE
    /\ last = None /\ kept = None /\ overlapped = FALSE
----------------------------------------------------------------------------
(* CommandPoller. *)

\* fetchAndExecute() on commands:pending, and execute() up to the await of its download for each
\* command handed out.  A poll that fails, finds another under way or gets no command changes
\* nothing.
Begins(S) ==
    /\ S # {} /\ S \subseteq commands
    /\ Cardinality(S \cup Active) <= MaxActive
    /\ commands' = commands \ S
    /\ overlapped' = (overlapped \/ restoring \/ \E d, e \in S \cup Active : d # e)
    /\ before' = [current |-> current, running |-> running] /\ swapped' = FALSE
    /\ UNCHANGED <<tars, current, running, restoring, kept>>

Under(S, at) == executors' = [d \in Deploys |-> IF d \in S THEN [at |-> at, previous |-> None]
                                                ELSE executors[d]]

Poll(S) ==
    /\ S \cap Local = {} /\ Begins(S)
    /\ Under(S, "downloading")
    /\ UNCHANGED <<asking, releases, files, last>>
----------------------------------------------------------------------------
(* execute(), from one await to the next. *)

Goes(d, at) == executors' = [executors EXCEPT ![d].at = at]
Same == UNCHANGED <<commands, restoring, before, overlapped>>

Waits(d) == [deploy |-> d, waits |-> TRUE]
Falls(d) == [deploy |-> d, waits |-> FALSE]

\* reportPhase() of a final phase, and the result of execute(), which answers who asked.
Ends(d, ph) ==
    /\ executors' = [executors EXCEPT ![d] = None]
    /\ last' = IF overlapped THEN None ELSE [deploy |-> d, phase |-> ph]
    /\ asking' = IF asking # Waits(d) THEN asking
                  ELSE IF ph = "success" THEN None ELSE Falls(d)

Downloaded(d) ==
    /\ At(d, "downloading") /\ Goes(d, "verifying")
    /\ tars' = tars \cup {Rel(d)}
    /\ UNCHANGED <<releases, files, current, running, swapped, last, kept, asking>> /\ Same

\* A directory that is written to is the newest.
Place(r) == CHOOSE i \in DOMAIN releases : releases[i] = r
Touched(r) == Append(IF Exists(r) THEN RemoveAt(releases, Place(r)) ELSE releases, r)

\* Verified, the tarball is extracted and removed.
Extracted(d) ==
    /\ At(d, "verifying") /\ Rel(d) \in tars /\ Goes(d, "preparing")
    /\ releases' = Touched(Rel(d))
    /\ files' = [files EXCEPT ![Rel(d)] = d]
    /\ tars' = tars \ {Rel(d)}
    /\ UNCHANGED <<current, running, swapped, last, kept, asking>> /\ Same

\* tar fails, as it does when another deploy of this release has removed the tarball.
ExtractFails(d) ==
    /\ At(d, "verifying") /\ Ends(d, "failed")
    /\ releases' = Touched(Rel(d))
    /\ files' = [files EXCEPT ![Rel(d)] = IF Rel(d) \in tars THEN None ELSE @]
    /\ UNCHANGED <<tars, current, running, swapped, kept>> /\ Same

\* Secrets are fetched, or there are none: a failure is only logged.
Prepared(d) ==
    /\ At(d, "preparing") /\ Goes(d, "building")
    /\ UNCHANGED <<disk, running, swapped, last, kept, asking>> /\ Same

\* A download or its verification fails ...
DownloadFails(d) ==
    /\ At(d, "downloading") \/ At(d, "verifying")
    /\ Ends(d, "failed")
    /\ UNCHANGED <<disk, running, swapped, kept>> /\ Same

\* ... or a command that installs or builds.
CommandFails(d) ==
    /\ At(d, "building")
    /\ Ends(d, "failed")
    /\ UNCHANGED <<disk, running, swapped, kept>> /\ Same

\* swapSymlink()
LinksNot(r) == current
Links(r) == r

\* Installed and built, the release is linked, what was linked before is kept in mind, and the
\* processes are reconciled.
Swaps(d) ==
    /\ At(d, "building")
    /\ executors' = [executors EXCEPT ![d] = [at |-> "reconciling",
                                              previous |-> IF Exists(current) THEN current ELSE None]]
    /\ releases' = IF Exists(Rel(d)) THEN Touched(Rel(d)) ELSE releases
    /\ current' = Rel(d) /\ swapped' = TRUE
    /\ UNCHANGED <<files, tars, running, last, kept, asking>> /\ Same

\* What processes run that are started anew.
Started == IF Exists(current) THEN files[current] ELSE None

\* A reload whose new workers do not come up keeps the old ones, and counts as done.
Reconciled(d) ==
    /\ At(d, "reconciling") /\ Goes(d, "monitoring")
    /\ running' \in {running, Started}
    /\ UNCHANGED <<disk, swapped, last, kept, asking>> /\ Same

\* There is nothing to reconcile with, or a process does not start: no way back is taken.
ReconcileFails(d) ==
    /\ At(d, "reconciling") \/ At(d, "rolling back")
    /\ Ends(d, "failed")
    /\ running' \in {running, Started}
    /\ UNCHANGED <<disk, swapped, kept>> /\ Same

\* worker:exit with an error, of any process: every deploy being monitored takes it for its own.
Crash ==
    /\ \E d \in Deploys : At(d, "monitoring")
    /\ executors' = [d \in Deploys |-> IF At(d, "monitoring") THEN [executors[d] EXCEPT !.at = "crashed"]
                                       ELSE executors[d]]
    /\ UNCHANGED <<commands, asking, disk, running, restoring, history>>

GoesBackIfPrevious(d) ==
    /\ At(d, "crashed") /\ Exists(executors[d].previous)
    /\ Goes(d, "rolling back") /\ current' = Links(executors[d].previous)
    /\ UNCHANGED <<releases, files, tars, running, swapped, last, kept, asking>> /\ Same
GoesBack(d) ==
    /\ At(d, "crashed")
    /\ IF Exists(executors[d].previous)
       THEN /\ Goes(d, "rolling back") /\ current' = Links(executors[d].previous)
            /\ UNCHANGED <<last, asking>>
       ELSE Ends(d, "failed") /\ UNCHANGED current
    /\ UNCHANGED <<releases, files, tars, running, swapped, kept>> /\ Same

WentBack(d) ==
    /\ At(d, "rolling back") /\ Ends(d, "rolled_back")
    /\ running' \in {running, Started}
    /\ UNCHANGED <<disk, swapped, kept>> /\ Same

\* cleanupOldReleases()
CleanedIgnoring(previous) == IF Len(releases) <= Keep THEN releases
                             ELSE SubSeq(releases, Len(releases) - Keep + 1, Len(releases))
Cleaned(previous) ==
    LET newest == SubSeq(releases, Len(releases) - Keep + 1, Len(releases))
        spared == Exists(previous) /\ ~Contains(newest, previous)
    IN IF Len(releases) <= Keep THEN releases
       ELSE IF spared THEN <<previous>> \o newest ELSE newest

\* The window is over.
Succeeds(d) ==
    /\ At(d, "monitoring") /\ Ends(d, "success")
    /\ releases' = Cleaned(executors[d].previous)
    /\ files' = [r \in Releases |-> IF Contains(releases', r) THEN files[r] ELSE None]
    /\ kept' = executors[d].previous
    /\ UNCHANGED <<tars, current, running, swapped>> /\ Same
----------------------------------------------------------------------------
(* Deploys and restores that commands ask for. *)

\* DEPLOY_LOCAL: the tarball is copied, extracted and removed before anything is waited for;
\* or that fails, at the copy or in tar.
DeployLocal(d) ==
    /\ d \in Local /\ Begins({d})
    /\ \/ /\ Under({d}, "building")
          /\ releases' = Touched(Rel(d)) /\ files' = [files EXCEPT ![Rel(d)] = d]
          /\ UNCHANGED <<asking, last>>
       \/ /\ Ends(d, "failed")
          /\ \/ UNCHANGED <<releases, files>>
             \/ releases' = Touched(Rel(d)) /\ files' = [files EXCEPT ![Rel(d)] = None]

\* DEPLOY_RESTORE when the server has another release than the one that is linked.
DeployRestore(d) ==
    /\ d \notin Local /\ Started # None
    /\ asking = None /\ Begins({d})
    /\ Under({d}, "downloading") /\ asking' = Waits(d)
    /\ UNCHANGED <<releases, files, last>>

\* The command waits ten minutes, or loses its connection; the deploy goes on.
GivesUp(d) ==
    /\ asking = Waits(d)
    /\ asking' = Falls(d)
    /\ UNCHANGED <<commands, executors, disk, running, restoring, history>>

\* RESTORE: processes of the snapshot that are not there are started, by way of the link.
FallsBack(d) ==
    /\ asking = Falls(d) /\ asking' = None
    /\ running' \in IF running = None THEN {None, Started} ELSE {running}
    /\ last' = None /\ overlapped' = (overlapped \/ Active # {})
    /\ UNCHANGED <<commands, executors, disk, restoring, before, swapped, kept>>

\* DEPLOY_RESTORE of what is there already.
Restore ==
    /\ ~restoring /\ Started # None /\ restoring' = TRUE
    /\ overlapped' = (overlapped \/ Active # {})
    /\ UNCHANGED <<commands, asking, executors, disk, running, before, swapped, last, kept>>

Restored ==
    /\ restoring /\ restoring' = FALSE
    /\ running' \in {running, Started} /\ last' = None
    /\ UNCHANGED <<commands, asking, executors, disk, before, swapped, kept, overlapped>>

Advances(d) ==
    \/ Downloaded(d) \/ Extracted(d) \/ ExtractFails(d) \/ Prepared(d) \/ DownloadFails(d)
    \/ CommandFails(d) \/ Swaps(d)
    \/ Reconciled(d) \/ ReconcileFails(d) \/ GoesBack(d) \/ WentBack(d) \/ Succeeds(d)

Next ==
    \/ \E S \in SUBSET Deploys : Poll(S)
    \/ \E d \in Deploys : \/ Advances(d) \/ DeployLocal(d) \/ DeployRestore(d)
                          \/ GivesUp(d) \/ FallsBack(d)
    \/ Crash \/ Restore \/ Restored

Spec == Init /\ [][Next]_vars

\* Downloads, commands and reconciles end, and so does the window.
FairSpec == Spec /\ (\A d \in Deploys : WF_executors(Advances(d)))
----------------------------------------------------------------------------
(* Properties. *)

TypeOK ==
    /\ executors \in [Deploys -> {None} \cup Executor]
    /\ asking \in {None} \cup [deploy : Deploys, waits : BOOLEAN]
    /\ last \in {None} \cup [deploy : Deploys, phase : {"success", "failed", "rolled_back"}]
    /\ releases \in Seq(Releases) /\ IsInjective(releases) /\ tars \subseteq Releases
    /\ files \in [Releases -> Deploys \cup {None}]
    /\ current \in Releases \cup {None} /\ running \in Deploys \cup {None}

\* What runs is never removed from the disk, nor is what a failing deploy would go back to:
\* "The daemon keeps the previous release on disk" (README.md:925), deploys one at a time.
ReleasesKept ==
    ~overlapped =>
        /\ current # None => Exists(current)
        /\ kept # None => Exists(kept)
        /\ \A d \in Active : executors[d].previous # None => Exists(executors[d].previous)

\* The final phase of a deploy tells what is linked and what may run (DeployExecutor.ts:175-212),
\* deploys one at a time: after a success the new release, after a rollback the release before
\* it, after a failure that came before the swap what was there.
OutcomeTrue ==
    ~overlapped /\ Active = {} /\ last # None =>
        \/ last.phase = "success" /\ current = Rel(last.deploy) /\ running \in {last.deploy, before.running}
        \/ last.phase = "rolled_back" /\ current = before.current
           /\ running \in {last.deploy, before.running, files[current]}
        \/ last.phase = "failed" /\ (swapped \/ (current = before.current /\ running = before.running))

\* Every deploy that begins reports an end, whatever the others do.  (Each begins once, so that
\* in the end none is under way.)
DeploysEnd == <>[](Active = {})

\* "Success -- health checks are now handled per-process during reconcile/reload"
\* (DeployExecutor.ts:203): after a success, deploys one at a time, its files run.
SuccessRuns ==
    ~overlapped /\ Active = {} /\ last # None /\ last.phase = "success" => running = last.deploy
=============================================================================
