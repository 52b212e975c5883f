----------------------------- MODULE Diagnosis -----------------------------
(***************************************************************************)
(* Diagnose, diagnosis/engine.go: the diagnoses that run at the same time  *)
(* on one project.  They share the project's working copy, under the lock  *)
(* of project/source.go, and the stored reports, from which a diagnosis of *)
(* the same fingerprint may take its answer (diagnosis/fingerprint.go).    *)
(* Other projects have another lock, directory and fingerprint.            *)
(*                                                                         *)
(* git, the Amp process and the store are external: a call of them may     *)
(* fail at any time, be it for the network or because the context of the   *)
(* diagnosis is done.  The git commands before the Amp process are one     *)
(* step, and so are those after it: nobody else may touch the working copy *)
(* then, for the lock is held.                                             *)
(*                                                                         *)
(* A definition named Slip... is the one below it as a plausible bug would *)
(* have it; the specification does not use it.                             *)
(***************************************************************************)
EXTENDS Integers, FiniteSets

CONSTANTS
  Jobs,         \* the calls of Diagnose, for events of one fingerprint
  Earlier,      \* those that have ended, with a report that may be reused
  MaxCommits,   \* bound: how many commits the remote branch gets
  Writes,       \* the kinds of changes an Amp process may make
  NoJob

ASSUME DiagnosisAssumption ==
  /\ IsFiniteSet(Jobs) /\ Earlier \subseteq Jobs
  /\ MaxCommits \in Nat \ {0}
  /\ NoJob \notin Jobs

VARIABLES
  upstream,   \* the head of the remote branch
  repo,       \* the working copy: its state on disk, its HEAD, its changes
  lock,       \* who holds the project's mutex
  reports,    \* the saved reports
  built,      \* how many reports were built; stands for the clock
  pc,         \* where each diagnosis is
  severity,   \* the severity of its event, chosen where it is first read
  cached,     \* the report fingerprintLookup gave it, or NoReport
  commit,     \* its commitHash
  tainted,    \* its tainted
  report,     \* the report it returns
  \* History, read by the properties only.
  prepared,   \* the head that its last Prepare left, unless it failed
  wrote,      \* the changes that its Amp process made
  blind,      \* the diagnoses whose HasChanges failed or took a warning for a change
  leaks       \* the diagnoses that did not clean up where there were new files

repoVars == <<upstream, repo>>
jobVars == <<pc, severity, cached, commit, tainted, report>>
history == <<prepared, wrote, blind, leaks>>
vars == <<repoVars, lock, reports, built, jobVars, history>>

-----------------------------------------------------------------------------
Unknown == 0                     \* the commit hash ""
Commits == 1..MaxCommits
\* git tells changes in the index from those of tracked files and new files.
Changes == {"staged", "tracked", "untracked"}
ASSUME WritesAssumption == Writes \subseteq Changes

Clone(head, changes) == [clone |-> TRUE, head |-> head, changes |-> changes]
\* The directory is missing, or what git or RemoveAll left when they were stopped.
NoClone == [clone |-> FALSE, head |-> Unknown, changes |-> {}]
Repos == {Clone(h, c) : h \in Commits, c \in SUBSET Changes} \cup {NoClone}

\* worthy stands for what canReuse asks of a report's content: its conclusion is
\* not insufficient_information, its score is not below the minimum, and no flag
\* says that a code location was made up.
Reports ==
  [job : Jobs, at : Nat, tainted : BOOLEAN, worthy : BOOLEAN,
   commit : Commits \cup {Unknown}, reusedFrom : Jobs \cup {NoJob}, stale : BOOLEAN]
NoReport == [job |-> NoJob]
Severities == {"critical", "warning"}

\* What an earlier diagnosis has left.
EarlierReport(j) ==
  [job |-> j, at |-> 0, tainted |-> FALSE, worthy |-> TRUE, commit |-> 1,
   reusedFrom |-> NoJob, stale |-> FALSE]

Init ==
  /\ upstream = 1
  /\ repo = IF Earlier = {} THEN NoClone ELSE Clone(1, {})
  /\ lock = NoJob
  /\ reports = {EarlierReport(j) : j \in Earlier}
  /\ built = 0
  /\ pc = [j \in Jobs |-> IF j \in Earlier THEN "done" ELSE "start"]
  /\ severity = [j \in Jobs |-> "warning"]  \* unless Decide needs to know
  /\ cached = [j \in Jobs |-> NoReport]
  /\ commit = [j \in Jobs |-> Unknown]
  /\ tainted = [j \in Jobs |-> FALSE]
  /\ report = [j \in Jobs |-> IF j \in Earlier THEN EarlierReport(j) ELSE NoReport]
  /\ prepared = [j \in Jobs |-> IF j \in Earlier THEN 1 ELSE Unknown]
  /\ wrote = [j \in Jobs |-> {}]
  /\ blind = {}
  /\ leaks = {}

Goto(j, place) == pc' = [pc EXCEPT ![j] = place]

\* The variables of Diagnose that are not read any more.
DropLocals(j) ==
  /\ cached' = [cached EXCEPT ![j] = NoReport]
  /\ commit' = [commit EXCEPT ![j] = Unknown]
  /\ tainted' = [tainted EXCEPT ![j] = FALSE]

-----------------------------------------------------------------------------
(* project/source.go *)

\* Slip: the mutex does not exclude.
SlipLock(j) == lock' = j

Lock(j) == lock = NoJob /\ lock' = j
Unlock == lock' = NoJob

\* What git fetch and git reset --hard leave: new files stay where they are.
Pulled == Clone(upstream, repo.changes \cap {"untracked"})

\* Prepare succeeds: by a pull, or by a clone into a directory made empty.
Prepare(j) ==
  /\ repo' \in (IF repo.clone THEN {Pulled} ELSE {}) \cup {Clone(upstream, {})}
  /\ prepared' = [prepared EXCEPT ![j] = upstream]

\* It fails: the directory could not be removed, wholly or at all, or the clone
\* into its place failed.
PrepareFails == repo' \in {repo, NoClone}

\* CommitHash, whose error is ignored.
ReadHash(j) == commit' \in {[commit EXCEPT ![j] = c] : c \in {upstream, Unknown}}

Leak(j) == leaks' = IF "untracked" \in repo'.changes THEN leaks \cup {j} ELSE leaks

\* git status --porcelain has changes to print.
HasChanges == repo.changes # {}

\* Slip: ResetChanges does not remove new files.
SlipReset == repo.changes \cap {"staged", "untracked"}

\* What git checkout -- . and git clean -fd leave: checkout takes files from the index.
Reset == repo.changes \cap {"staged"}

-----------------------------------------------------------------------------
(* diagnosis/fingerprint.go and the stores *)

\* Slip: a report that was itself reused can be found again.
SlipOriginals == reports

\* FindRecentReportByFingerprint: the latest of the reports that are not reused.
Originals == {r \in reports : r.reusedFrom = NoJob}
Latest == {r \in Originals : \A s \in Originals : s.at <= r.at}

CommitMatch(r, hash) == hash = Unknown \/ r.commit = Unknown \/ hash = r.commit

CanReuse(r, hash, sev) ==
  /\ ~r.tainted
  /\ r.worthy
  /\ CommitMatch(r, hash) \/ sev # "critical"

\* buildReusedReport.
ReusedReport(j) ==
  [job |-> j, at |-> built, tainted |-> FALSE, worthy |-> cached[j].worthy,
   commit |-> commit[j], reusedFrom |-> cached[j].job,
   stale |-> ~CommitMatch(cached[j], commit[j])]

\* The report at the end of Diagnose.
FreshReport(j, worthy) ==
  [job |-> j, at |-> built, tainted |-> tainted[j], worthy |-> worthy,
   commit |-> commit[j], reusedFrom |-> NoJob, stale |-> FALSE]

-----------------------------------------------------------------------------
(* Diagnose, before the lock *)

\* The project is gone from the registry since the event was reported.
ProjectUnknown(j) ==
  /\ pc[j] = "start"
  /\ Goto(j, "failed")
  /\ UNCHANGED <<repoVars, lock, reports, built, severity, cached, commit, tainted,
                 report, history>>

\* fingerprintLookup finds the latest report, unless reuse is not configured, the
\* lookup fails, or the report is older than the reuse window.
Lookup(j) ==
  /\ pc[j] = "start"
  /\ \/ Goto(j, "lock") /\ UNCHANGED cached
     \/ \E r \in Latest : cached' = [cached EXCEPT ![j] = r] /\ Goto(j, "reuseLock")
  /\ UNCHANGED <<repoVars, lock, reports, built, severity, commit, tainted, report,
                 history>>

\* Slip: the reuse path uses the working copy without the lock.
SlipReuseLocks(j) ==
  /\ pc[j] = "reuseLock"
  /\ Goto(j, "reusePrepare")
  /\ UNCHANGED <<repoVars, lock, reports, built, severity, cached, commit, tainted,
                 report, history>>

\* The lock is taken to learn the current commit, ...
ReuseLocks(j) ==
  /\ pc[j] = "reuseLock"
  /\ Lock(j)
  /\ Goto(j, "reusePrepare")
  /\ UNCHANGED <<repoVars, reports, built, severity, cached, commit, tainted, report,
                 history>>

\* ... which is "" if git rev-parse fails, and given back.
ReusePrepares(j) ==
  /\ pc[j] = "reusePrepare"
  /\ \/ /\ Prepare(j)
        /\ ReadHash(j)
        /\ Goto(j, "decide")
        /\ UNCHANGED <<cached, tainted>>
     \/ /\ PrepareFails
        /\ DropLocals(j)
        /\ Goto(j, "lock")
        /\ UNCHANGED prepared
  /\ Unlock
  /\ UNCHANGED <<upstream, reports, built, severity, report, wrote, blind, leaks>>

\* A report that may be reused is the answer; else the project is diagnosed.
Decide(j) ==
  /\ pc[j] = "decide"
  /\ \E sev \in Severities :
       /\ severity' = [severity EXCEPT ![j] = sev]
       /\ IF CanReuse(cached[j], commit[j], sev)
          THEN /\ report' = [report EXCEPT ![j] = ReusedReport(j)]
               /\ built' = built + 1
               /\ Goto(j, "save")
          ELSE /\ Goto(j, "lock")
               /\ UNCHANGED <<report, built>>
  /\ DropLocals(j)
  /\ UNCHANGED <<repoVars, lock, reports, history>>

-----------------------------------------------------------------------------
(* Diagnose, under the lock *)

Locks(j) ==
  /\ pc[j] = "lock"
  /\ Lock(j)
  /\ Goto(j, "prepare")
  /\ UNCHANGED <<repoVars, reports, built, severity, cached, commit, tainted, report,
                 history>>

\* Slip: the return for a failed Prepare does not unlock.
SlipPreparesSource(j) ==
  /\ pc[j] = "prepare"
  /\ \/ Prepare(j) /\ ReadHash(j) /\ Goto(j, "amp")
     \/ /\ PrepareFails
        /\ Goto(j, "failed")
        /\ prepared' = [prepared EXCEPT ![j] = Unknown]
        /\ UNCHANGED commit
  /\ UNCHANGED <<upstream, lock, reports, built, severity, cached, tainted, report,
                 wrote, blind, leaks>>

\* Then the Amp process starts.
PreparesSource(j) ==
  /\ pc[j] = "prepare"
  /\ \/ Prepare(j) /\ ReadHash(j) /\ Goto(j, "amp") /\ UNCHANGED lock
     \/ /\ PrepareFails
        /\ Goto(j, "failed")
        /\ Unlock
        /\ prepared' = [prepared EXCEPT ![j] = Unknown]
        /\ UNCHANGED commit
  /\ UNCHANGED <<upstream, reports, built, severity, cached, tainted, report, wrote,
                 blind, leaks>>

\* Amp ends; it may have changed files, in spite of its permissions.  If it failed
\* or was killed at the timeout Diagnose returns at once.
AmpEnds(j) ==
  /\ pc[j] = "amp"
  /\ \E c \in SUBSET Writes :
       /\ repo' = [repo EXCEPT !.changes = @ \cup c]
       /\ wrote' = [wrote EXCEPT ![j] = c]
  /\ \/ Goto(j, "check")
        /\ UNCHANGED <<lock, leaks, prepared, cached, commit, tainted>>
     \/ /\ Goto(j, "failed")
        /\ DropLocals(j)
        /\ Unlock
        /\ Leak(j)
        /\ prepared' = [prepared EXCEPT ![j] = Unknown]
  /\ UNCHANGED <<upstream, reports, built, severity, report, blind>>

\* Slip: a safety check that fails finds no changes.
SlipCheckFails(j) ==
  /\ blind' = blind \cup {j}
  /\ UNCHANGED <<repo, tainted>>

\* The safety check itself fails: the diagnosis counts as tainted, and what changes
\* there are stay.  Or git says of a clean copy that all is well, with a warning: the
\* command's stderr is part of its output, so that this counts as a change, and
\* ResetChanges finds nothing to do.
CheckFails(j) ==
  /\ blind' = blind \cup {j}
  /\ tainted' = [tainted EXCEPT ![j] = TRUE]
  /\ UNCHANGED repo

\* ResetChanges may fail before it did anything or half way; that is only logged.
ChecksSafety(j) ==
  /\ pc[j] = "check"
  /\ \/ /\ CheckFails(j)
        /\ Leak(j)
     \/ /\ HasChanges
        /\ tainted' = [tainted EXCEPT ![j] = TRUE]
        /\ \/ repo' = [repo EXCEPT !.changes = Reset] /\ UNCHANGED leaks
           \/ /\ repo' \in {repo, [repo EXCEPT !.changes = @ \ {"tracked"}]}
              /\ Leak(j)
        /\ UNCHANGED blind
     \/ /\ ~HasChanges
        /\ UNCHANGED <<repo, tainted, blind, leaks>>
  /\ Goto(j, "verify")
  /\ UNCHANGED <<upstream, lock, reports, built, severity, cached, commit, report,
                 prepared, wrote>>

\* The answer is parsed, its code locations are looked up, and the lock is free.
Verifies(j) ==
  /\ pc[j] = "verify"
  /\ Unlock
  /\ Goto(j, "build")
  /\ UNCHANGED <<repoVars, reports, built, severity, cached, commit, tainted, report,
                 history>>

\* Scoring and the report; an error answer or a text that is no JSON is not worthy.
BuildsReport(j) ==
  /\ pc[j] = "build"
  /\ \E worthy \in BOOLEAN : report' = [report EXCEPT ![j] = FreshReport(j, worthy)]
  /\ built' = built + 1
  /\ Goto(j, "save")
  /\ DropLocals(j)
  /\ UNCHANGED <<repoVars, lock, reports, severity, history>>

\* The caller saves the report; a failure is only logged.
SavesReport(j) ==
  /\ pc[j] = "save"
  /\ reports' \in {reports, reports \cup {report[j]}}
  /\ Goto(j, "done")
  /\ UNCHANGED <<repoVars, lock, built, severity, cached, commit, tainted, report,
                 history>>

\* Somebody pushes to the branch.
Push ==
  /\ upstream < MaxCommits
  /\ upstream' = upstream + 1
  /\ UNCHANGED <<repo, lock, reports, built, jobVars, history>>

-----------------------------------------------------------------------------
Diagnose(j) ==
  \/ ProjectUnknown(j)
  \/ Lookup(j)
  \/ ReuseLocks(j)
  \/ ReusePrepares(j)
  \/ Decide(j)
  \/ Locks(j)
  \/ PreparesSource(j)
  \/ AmpEnds(j)
  \/ ChecksSafety(j)
  \/ Verifies(j)
  \/ BuildsReport(j)
  \/ SavesReport(j)

Ended == {"done", "failed"}

AllEnded ==
  /\ \A j \in Jobs : pc[j] \in Ended
  /\ UNCHANGED vars

Next ==
  \/ \E j \in Jobs : Diagnose(j)
  \/ Push
  \/ AllEnded

\* Every call returns: git and Amp run under the timeout of the diagnosis, the
\* safety check under its own, the store under that of the driver or of storeCtx.
\* The mutex is handed over: Go's sync.Mutex starves no waiter.
Fairness ==
  \A j \in Jobs \ Earlier :
    /\ WF_vars(Diagnose(j) /\ pc[j] \notin {"reuseLock", "lock"})
    /\ SF_vars(ReuseLocks(j) \/ Locks(j))

Safety == Init /\ [][Next]_vars
Spec == Safety /\ Fairness

-----------------------------------------------------------------------------
(* Invariants *)

\* Where a diagnosis holds the lock, and where it reads what Prepare fetched.
Holding == {"reusePrepare", "prepare", "amp", "check", "verify"}
Reading == {"amp", "check", "verify"}
Places ==
  {"start", "reuseLock", "reusePrepare", "decide", "lock", "prepare",
   "amp", "check", "verify", "build", "save"} \cup Ended

TypeOK ==
  /\ upstream \in Commits
  /\ repo \in Repos
  /\ lock \in Jobs \cup {NoJob}
  /\ reports \subseteq Reports
  /\ built \in 0..Cardinality(Jobs)
  /\ pc \in [Jobs -> Places]
  /\ severity \in [Jobs -> Severities]
  /\ cached \in [Jobs -> Reports \cup {NoReport}]
  /\ commit \in [Jobs -> Commits \cup {Unknown}]
  /\ tainted \in [Jobs -> BOOLEAN]
  /\ report \in [Jobs -> Reports \cup {NoReport}]
  /\ prepared \in [Jobs -> Commits \cup {Unknown}]
  /\ wrote \in [Jobs -> SUBSET Changes]
  /\ blind \subseteq Jobs /\ leaks \subseteq Jobs

\* The lock is held, and by one diagnosis, wherever the working copy is used; and
\* from Prepare to the verification of the answer the copy stays at the commit that
\* Prepare fetched, however often the others pull or remove it in their turn.
OneCommitPerDiagnosis ==
  \A j \in Jobs :
    /\ pc[j] \in Holding <=> lock = j
    /\ pc[j] \in Reading => repo.clone /\ repo.head = prepared[j]

Fresh(j) == report[j] # NoReport /\ report[j].reusedFrom = NoJob
Reused(j) == report[j] # NoReport /\ report[j].reusedFrom # NoJob

\* Fail-closed: a report that is not tainted comes from an Amp process that left
\* the working copy as it was, also when git could not say so.
UntaintedWroteNothing ==
  \A j \in Jobs : Fresh(j) /\ ~report[j].tainted => wrote[j] = {}

\* A reused answer is at one remove from a diagnosis that did run, untainted and
\* worthy; and that diagnosis read the commit of this one, unless the report
\* says that it is stale and the event is not critical, or a hash is not known.
ReuseFits ==
  \A j \in Jobs :
    Reused(j) =>
      LET o == report[j].reusedFrom IN
      /\ Fresh(o) /\ ~report[o].tainted /\ report[o].worthy
      /\ \/ prepared[j] = prepared[o]
         \/ report[j].stale /\ severity[j] # "critical"
         \/ Unknown \in {report[j].commit, report[o].commit}

\* A report is tainted for what its own Amp process did, because the check failed or was
\* misled, or by new files of a diagnosis that let go of the lock without cleaning up.
TaintHasCause ==
  \A j \in Jobs :
    Fresh(j) /\ report[j].tainted =>
      \/ wrote[j] # {}
      \/ j \in blind
      \/ leaks \ {j} # {}

\* What engine.go says of the safety check, that it must run even when the context
\* of the diagnosis is done: what Amp changed is noticed before the diagnosis ends.
ChangesAreNoticed ==
  \A j \in Jobs :
    pc[j] \in Ended /\ wrote[j] # {} => Fresh(j) /\ report[j].tainted

-----------------------------------------------------------------------------
(* Temporal properties *)

\* Every diagnosis ends: no path leaves the lock taken, and none takes it twice.
EveryDiagnosisEnds == \A j \in Jobs \ Earlier : pc[j] # "start" ~> pc[j] \in Ended
=============================================================================
