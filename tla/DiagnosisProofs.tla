--------------------------- MODULE DiagnosisProofs ---------------------------
(***************************************************************************)
(* Proofs about Diagnosis: IInv is inductive, for any diagnoses, of which  *)
(* any have ended before, any number of commits and any writes of Amp.     *)
(***************************************************************************)
EXTENDS Diagnosis, FiniteSetTheorems, TLAPS

\* Where a diagnosis has a report in its hands, where its answer counts as checked,
\* and where it has read a commit hash.
Offered == {"reuseLock", "reusePrepare", "decide"}
Checked == {"verify", "build"}
Hashed == {"decide", "amp", "check", "verify", "build"}
Reported == {"save", "done"}
BeforeAmpEnds == Offered \cup {"start", "lock", "prepare", "amp"}

TypeCore ==
  /\ upstream \in Commits
  /\ repo \in Repos
  /\ lock \in Jobs \cup {NoJob}
  /\ reports \subseteq Reports
  /\ built \in Nat
  /\ pc \in [Jobs -> Places]
  /\ severity \in [Jobs -> Severities]
  /\ cached \in [Jobs -> Reports \cup {NoReport}]
  /\ commit \in [Jobs -> Commits \cup {Unknown}]
  /\ tainted \in [Jobs -> BOOLEAN]
  /\ report \in [Jobs -> Reports \cup {NoReport}]
  /\ prepared \in [Jobs -> Commits \cup {Unknown}]
  /\ wrote \in [Jobs -> SUBSET Changes]
  /\ blind \subseteq Jobs /\ leaks \subseteq Jobs

\* built counts the reports.
Builders == {j \in Jobs \ Earlier : pc[j] \in Reported}
CountInv ==
  /\ \A j \in Earlier : pc[j] = "done"
  /\ built = Cardinality(Builders)

\* What a diagnosis has at each place.
Stage(j) ==
  /\ pc[j] \in Offered => cached[j] \in Originals
  /\ pc[j] \in Hashed => commit[j] \in {Unknown, prepared[j]}
  /\ pc[j] \in BeforeAmpEnds => wrote[j] = {}
  /\ pc[j] \in BeforeAmpEnds \cup {"check"} => ~tainted[j] /\ j \notin leaks
  /\ pc[j] \in Reported => report[j] \in Reports
  /\ pc[j] \notin Reported => report[j] = NoReport
StageInv == \A j \in Jobs : Stage(j)

\* A saved report is the one that its diagnosis returned.
ReportsInv ==
  /\ \A r \in reports : pc[r.job] = "done" /\ r = report[r.job]
  /\ \A j \in Jobs : pc[j] \in Reported => report[j].job = j
  /\ \A j \in Jobs : Fresh(j) => report[j].commit \in {Unknown, prepared[j]}

\* The safety check sees what Amp wrote, and nothing that came from elsewhere but new
\* files, which somebody has left there.
Causes(j) == wrote[j] # {} \/ j \in blind \/ leaks \ {j} # {}
TaintInv ==
  /\ \A j \in Jobs :
       /\ pc[j] = "amp" => repo.changes \subseteq {"untracked"}
       /\ pc[j] = "check" => /\ wrote[j] \subseteq repo.changes
                             /\ repo.changes \subseteq wrote[j] \cup {"untracked"}
       /\ pc[j] \in Checked => (wrote[j] = {} \/ tainted[j])
       /\ pc[j] \in Checked /\ tainted[j] => Causes(j)
  /\ "untracked" \in repo.changes =>
       leaks # {} \/ \E j \in Jobs : pc[j] = "check" /\ "untracked" \in wrote[j]

IInv ==
  /\ TypeCore
  /\ CountInv
  /\ OneCommitPerDiagnosis
  /\ StageInv
  /\ ReportsInv
  /\ TaintInv
  /\ UntaintedWroteNothing
  /\ TaintHasCause
  /\ ReuseFits

-----------------------------------------------------------------------------
(* The operators of the model *)

LEMMA Constants ==
  /\ MaxCommits \in Nat \ {0}
  /\ 1 \in Commits /\ Unknown \notin Commits
  /\ NoJob \notin Jobs /\ Earlier \subseteq Jobs
BY DiagnosisAssumption DEF DiagnosisAssumption, Commits, Unknown

LEMMA ReportShape ==
  /\ NoReport \notin Reports
  /\ \A r \in Reports : /\ r.job \in Jobs /\ r.tainted \in BOOLEAN /\ r.worthy \in BOOLEAN
                        /\ r.commit \in Commits \cup {Unknown}
                        /\ r.reusedFrom \in Jobs \cup {NoJob}
BY Constants DEF NoReport, Reports

LEMMA RepoShape ==
  /\ NoClone \in Repos
  /\ \A h \in Commits, c \in SUBSET Changes : Clone(h, c) \in Repos
  /\ \A r \in Repos : /\ r.clone \in BOOLEAN /\ r.changes \in SUBSET Changes
                      /\ r.head \in Commits \cup {Unknown}
                      /\ r.clone => r.head \in Commits
                      /\ ~r.clone => r = NoClone
  /\ NoClone.changes = {} /\ NoClone.clone = FALSE
<1>1. NoClone \in Repos /\ \A h \in Commits, c \in SUBSET Changes : Clone(h, c) \in Repos
  BY DEF Repos
<1>2. /\ NoClone.changes = {} /\ NoClone.clone = FALSE /\ NoClone.head = Unknown
  BY DEF NoClone
<1>3. ASSUME NEW r \in Repos, r # NoClone
      PROVE  r.clone = TRUE /\ r.changes \in SUBSET Changes /\ r.head \in Commits
  <2>1. PICK h \in Commits, c \in SUBSET Changes : r = Clone(h, c)
    BY <1>3 DEF Repos
  <2> QED
    BY <2>1 DEF Clone
<1> QED
  BY <1>1, <1>2, <1>3

\* Changes in a working copy leave a working copy.
LEMMA ChangedRepo ==
  ASSUME NEW r \in Repos, NEW c \in SUBSET Changes, r.clone
  PROVE  /\ [r EXCEPT !.changes = c] \in Repos
         /\ [r EXCEPT !.changes = c].changes = c
         /\ [r EXCEPT !.changes = c].clone
         /\ [r EXCEPT !.changes = c].head = r.head
<1> DEFINE Records == [clone : BOOLEAN, head : Commits, changes : SUBSET Changes]
           s == [r EXCEPT !.changes = c]
<1>1. r \in Records
  <2>1. PICK h \in Commits, d \in SUBSET Changes : r = Clone(h, d)
    BY RepoShape DEF Repos
  <2> QED
    BY <2>1 DEF Clone
<1>2. s \in Records /\ s.changes = c /\ s.clone = r.clone /\ s.head = r.head
  BY <1>1
<1>3. \A q \in Records : q = [clone |-> q.clone, head |-> q.head, changes |-> q.changes]
  OBVIOUS
<1> HIDE DEF s
<1>4. s = Clone(r.head, c)
  <2>1. s = [clone |-> s.clone, head |-> s.head, changes |-> s.changes]
    BY <1>2, <1>3
  <2>2. r.clone = TRUE
    BY RepoShape
  <2> QED
    BY <1>2, <2>1, <2>2 DEF Clone
<1> QED
  BY <1>1, <1>2, <1>4, RepoShape DEF s

LEMMA PrepareEffect ==
  ASSUME TypeCore, NEW j \in Jobs, Prepare(j)
  PROVE  /\ repo' \in Repos
         /\ repo'.clone /\ repo'.head = upstream
         /\ repo'.changes \subseteq repo.changes \cap {"untracked"}
         /\ prepared' = [prepared EXCEPT ![j] = upstream]
BY RepoShape DEF TypeCore, Prepare, Pulled, Clone, Changes

LEMMA PrepareFailsEffect ==
  ASSUME TypeCore, PrepareFails
  PROVE  /\ repo' \in Repos
         /\ repo' = repo \/ repo'.changes = {}
BY RepoShape DEF TypeCore, PrepareFails

\* The reports that Diagnose builds are reports.
LEMMA BuiltReports ==
  ASSUME TypeCore, NEW j \in Jobs
  PROVE  /\ \A worthy \in BOOLEAN : FreshReport(j, worthy) \in Reports
         /\ cached[j] \in Reports => ReusedReport(j) \in Reports
<1>1. commit[j] \in Commits \cup {Unknown} /\ tainted[j] \in BOOLEAN /\ built \in Nat
  BY DEF TypeCore
<1>2. \A worthy \in BOOLEAN : FreshReport(j, worthy) \in Reports
  BY <1>1 DEF FreshReport, Reports
<1>3. ASSUME cached[j] \in Reports PROVE ReusedReport(j) \in Reports
  <2>1. CommitMatch(cached[j], commit[j]) \in BOOLEAN
    BY DEF CommitMatch
  <2>2. cached[j].worthy \in BOOLEAN /\ cached[j].job \in Jobs \cup {NoJob}
    BY <1>3 DEF Reports
  <2> QED
    BY <1>1, <2>1, <2>2 DEF ReusedReport, Reports
<1> QED
  BY <1>2, <1>3

-----------------------------------------------------------------------------
(* What a step leaves alone *)

\* A diagnosis changes what is its own, and of the others nothing.
LEMMA OthersKeep ==
  ASSUME TypeCore, NEW j \in Jobs, Diagnose(j), NEW k \in Jobs, k # j
  PROVE  /\ pc'[k] = pc[k] /\ severity'[k] = severity[k] /\ cached'[k] = cached[k]
         /\ commit'[k] = commit[k] /\ tainted'[k] = tainted[k] /\ report'[k] = report[k]
         /\ prepared'[k] = prepared[k] /\ wrote'[k] = wrote[k]
         /\ k \in blind' <=> k \in blind
         /\ k \in leaks' <=> k \in leaks
<1> USE DEF TypeCore, Goto, DropLocals, history
<1>1. CASE ProjectUnknown(j)
  BY <1>1 DEF ProjectUnknown
<1>2. CASE Lookup(j)
  BY <1>2 DEF Lookup
<1>3. CASE ReuseLocks(j)
  BY <1>3 DEF ReuseLocks
<1>4. CASE ReusePrepares(j)
  BY <1>4 DEF ReusePrepares, Prepare, ReadHash
<1>5. CASE Decide(j)
  BY <1>5 DEF Decide
<1>6. CASE Locks(j)
  BY <1>6 DEF Locks
<1>7. CASE PreparesSource(j)
  BY <1>7 DEF PreparesSource, Prepare, ReadHash
<1>8. CASE AmpEnds(j)
  BY <1>8 DEF AmpEnds, Leak
<1>9. CASE ChecksSafety(j)
  BY <1>9 DEF ChecksSafety, CheckFails, Leak
<1>10. CASE Verifies(j)
  BY <1>10 DEF Verifies
<1>11. CASE BuildsReport(j)
  BY <1>11 DEF BuildsReport
<1>12. CASE SavesReport(j)
  BY <1>12 DEF SavesReport
<1> QED
  BY <1>1, <1>2, <1>3, <1>4, <1>5, <1>6, <1>7, <1>8, <1>9, <1>10, <1>11, <1>12 DEF Diagnose

-----------------------------------------------------------------------------
(* Types *)

LEMMA InitType == Init => TypeCore
<1> SUFFICES ASSUME Init PROVE TypeCore
  OBVIOUS
<1> USE Constants DEF Init
<1>1. upstream \in Commits /\ repo \in Repos /\ lock \in Jobs \cup {NoJob} /\ built \in Nat
  BY RepoShape
<1>2. \A j \in Earlier : EarlierReport(j) \in Reports
  BY DEF EarlierReport, Reports
<1>3. reports \subseteq Reports /\ report \in [Jobs -> Reports \cup {NoReport}]
  BY <1>2
<1>4. /\ pc \in [Jobs -> Places] /\ severity \in [Jobs -> Severities]
      /\ cached \in [Jobs -> Reports \cup {NoReport}]
      /\ commit \in [Jobs -> Commits \cup {Unknown}] /\ tainted \in [Jobs -> BOOLEAN]
  BY DEF Places, Ended, Severities
<1>5. /\ prepared \in [Jobs -> Commits \cup {Unknown}]
      /\ wrote \in [Jobs -> SUBSET Changes] /\ blind \subseteq Jobs /\ leaks \subseteq Jobs
  OBVIOUS
<1> QED
  BY <1>1, <1>3, <1>4, <1>5 DEF TypeCore

LEMMA StepType ==
  ASSUME TypeCore, StageInv, OneCommitPerDiagnosis, [Next]_vars
  PROVE  TypeCore'
<1> USE Constants DEF TypeCore
<1>1. ASSUME NEW j \in Jobs, Diagnose(j) PROVE TypeCore'
  <2> USE DEF Goto, DropLocals, history, repoVars, Lock, Unlock
  <2>0. Places = {"start", "reuseLock", "reusePrepare", "decide", "lock", "prepare", "amp",
                  "check", "verify", "build", "save", "done", "failed"}
    BY DEF Places, Ended
  <2>1. CASE ProjectUnknown(j)
    BY <2>0, <2>1 DEF ProjectUnknown
  <2>2. CASE Lookup(j)
    BY <2>0, <2>2 DEF Lookup, Latest, Originals
  <2>3. CASE ReuseLocks(j)
    BY <2>0, <2>3 DEF ReuseLocks
  <2>4. CASE ReusePrepares(j)
    <3>1. repo' \in Repos
      BY <2>4, PrepareEffect, PrepareFailsEffect DEF ReusePrepares
    <3>2. /\ pc' \in [Jobs -> Places] /\ cached' \in [Jobs -> Reports \cup {NoReport}]
          /\ commit' \in [Jobs -> Commits \cup {Unknown}] /\ tainted' \in [Jobs -> BOOLEAN]
          /\ prepared' \in [Jobs -> Commits \cup {Unknown}]
      <4>1. CASE Prepare(j) /\ ReadHash(j) /\ Goto(j, "decide") /\ UNCHANGED <<cached, tainted>>
        BY <2>0, <4>1 DEF Prepare, ReadHash
      <4>2. CASE DropLocals(j) /\ Goto(j, "lock") /\ UNCHANGED prepared
        BY <2>0, <4>2
      <4> QED
        BY <2>4, <4>1, <4>2 DEF ReusePrepares
    <3> QED
      BY <2>4, <3>1, <3>2 DEF ReusePrepares
  <2>5. CASE Decide(j)
    <3>1. ReusedReport(j) \in Reports
      <4>1. cached[j] \in Reports
        BY <2>5 DEF Decide, StageInv, Stage, Offered, Originals
      <4> QED
        BY <4>1, BuiltReports
    <3>2. report' \in [Jobs -> Reports \cup {NoReport}] /\ built' \in Nat
      BY <2>5, <3>1 DEF Decide
    <3>3. /\ pc' \in [Jobs -> Places] /\ severity' \in [Jobs -> Severities]
      BY <2>0, <2>5 DEF Decide
    <3> QED
      BY <2>5, <3>2, <3>3 DEF Decide
  <2>6. CASE Locks(j)
    BY <2>0, <2>6 DEF Locks
  <2>7. CASE PreparesSource(j)
    <3>1. repo' \in Repos
      BY <2>7, PrepareEffect, PrepareFailsEffect DEF PreparesSource
    <3>2. /\ pc' \in [Jobs -> Places] /\ commit' \in [Jobs -> Commits \cup {Unknown}]
          /\ prepared' \in [Jobs -> Commits \cup {Unknown}] /\ lock' \in Jobs \cup {NoJob}
      BY <2>0, <2>7 DEF PreparesSource, Prepare, ReadHash
    <3> QED
      BY <2>7, <3>1, <3>2 DEF PreparesSource
  <2>8. CASE AmpEnds(j)
    <3>1. repo.clone
      BY <2>8 DEF AmpEnds, OneCommitPerDiagnosis, Reading
    <3>2. PICK c \in SUBSET Writes :
            /\ repo' = [repo EXCEPT !.changes = @ \cup c]
            /\ wrote' = [wrote EXCEPT ![j] = c]
      BY <2>8 DEF AmpEnds
    <3>3. c \in SUBSET Changes /\ repo.changes \in SUBSET Changes
      BY <3>2, WritesAssumption, RepoShape
    <3>4. repo' \in Repos /\ wrote' \in [Jobs -> SUBSET Changes]
      BY <3>1, <3>2, <3>3, ChangedRepo
    <3>5. /\ pc' \in [Jobs -> Places] /\ lock' \in Jobs \cup {NoJob}
      BY <2>0, <2>8 DEF AmpEnds
    <3>6. leaks' \subseteq Jobs
      BY <2>0, <2>8 DEF AmpEnds, Leak
    <3>7. cached' \in [Jobs -> Reports \cup {NoReport}] /\ tainted' \in [Jobs -> BOOLEAN]
      BY <2>0, <2>8 DEF AmpEnds
    <3>8. /\ commit' \in [Jobs -> Commits \cup {Unknown}]
          /\ prepared' \in [Jobs -> Commits \cup {Unknown}]
      BY <2>0, <2>8 DEF AmpEnds
    <3> QED
      BY <2>8, <3>4, <3>5, <3>6, <3>7, <3>8 DEF AmpEnds
  <2>9. CASE ChecksSafety(j)
    <3>1. repo.clone
      BY <2>9 DEF ChecksSafety, OneCommitPerDiagnosis, Reading
    <3>2. \E c \in SUBSET Changes : repo' = repo \/ repo' = [repo EXCEPT !.changes = c]
      BY <2>9, RepoShape DEF ChecksSafety, CheckFails, Reset
    <3>3. repo' \in Repos
      BY <3>1, <3>2, ChangedRepo
    <3>4. /\ pc' \in [Jobs -> Places] /\ tainted' \in [Jobs -> BOOLEAN]
          /\ blind' \subseteq Jobs /\ leaks' \subseteq Jobs
      BY <2>0, <2>9 DEF ChecksSafety, CheckFails, Leak
    <3> QED
      BY <2>9, <3>3, <3>4 DEF ChecksSafety
  <2>10. CASE Verifies(j)
    BY <2>0, <2>10 DEF Verifies
  <2>11. CASE BuildsReport(j)
    <3>1. report' \in [Jobs -> Reports \cup {NoReport}]
      BY <2>11, BuiltReports DEF BuildsReport
    <3> QED
      BY <2>0, <2>11, <3>1 DEF BuildsReport
  <2>12. CASE SavesReport(j)
    <3>1. report[j] \in Reports
      BY <2>12 DEF SavesReport, StageInv, Stage, Reported
    <3> QED
      BY <2>0, <2>12, <3>1 DEF SavesReport
  <2> QED
    BY <1>1, <2>1, <2>2, <2>3, <2>4, <2>5, <2>6, <2>7, <2>8, <2>9, <2>10, <2>11, <2>12
       DEF Diagnose
<1>2. CASE Push
  BY <1>2 DEF Push, Commits, jobVars, history
<1>3. CASE UNCHANGED vars
  BY <1>3 DEF vars, repoVars, jobVars, history
<1> QED
  BY <1>1, <1>2, <1>3 DEF Next, AllEnded

-----------------------------------------------------------------------------
(* The lock and the working copy *)

LEMMA OneHolder ==
  ASSUME OneCommitPerDiagnosis, NEW j \in Jobs, NEW k \in Jobs,
         pc[j] \in Holding, pc[k] \in Holding
  PROVE  j = k
BY DEF OneCommitPerDiagnosis

\* A step does without the lock and the working copy, or takes the lock, or has it; and
\* only who has it changes the working copy.
LEMMA LockUse ==
  ASSUME TypeCore, OneCommitPerDiagnosis, NEW j \in Jobs, Diagnose(j)
  PROVE  \/ /\ lock' = lock /\ repo' = repo
            /\ pc[j] \notin Holding /\ pc'[j] \notin Holding
         \/ /\ lock = NoJob /\ lock' = j /\ repo' = repo
            /\ pc[j] \notin Holding /\ pc'[j] \in Holding \ Reading
         \/ /\ lock = j /\ lock' = NoJob
            /\ pc[j] \in Holding /\ pc'[j] \notin Holding
         \/ /\ lock = j /\ lock' = j
            /\ pc[j] \in Holding /\ pc'[j] \in Reading
            /\ repo'.clone /\ repo'.head = prepared'[j]
<1> USE DEF TypeCore, Goto, DropLocals, history, repoVars, Lock, Unlock, Holding, Reading
<1>1. CASE ProjectUnknown(j)
  BY <1>1 DEF ProjectUnknown
<1>2. CASE Lookup(j)
  BY <1>2 DEF Lookup
<1>3. CASE ReuseLocks(j)
  BY <1>3 DEF ReuseLocks
<1>4. CASE ReusePrepares(j)
  BY <1>4 DEF ReusePrepares, OneCommitPerDiagnosis
<1>5. CASE Decide(j)
  BY <1>5 DEF Decide
<1>6. CASE Locks(j)
  BY <1>6 DEF Locks
<1>7. CASE PreparesSource(j)
  <2>1. lock = j
    BY <1>7 DEF PreparesSource, OneCommitPerDiagnosis
  <2>2. CASE Prepare(j) /\ Goto(j, "amp") /\ UNCHANGED lock
    <3>1. repo'.clone /\ repo'.head = upstream /\ prepared'[j] = upstream
      BY <2>2, PrepareEffect
    <3> QED
      BY <1>7, <2>1, <2>2, <3>1 DEF PreparesSource
  <2>3. CASE Goto(j, "failed") /\ Unlock
    BY <1>7, <2>1, <2>3 DEF PreparesSource
  <2> QED
    BY <1>7, <2>2, <2>3 DEF PreparesSource
<1>8. CASE AmpEnds(j)
  <2>1. lock = j /\ repo.clone /\ repo.head = prepared[j] /\ pc[j] = "amp"
    BY <1>8 DEF AmpEnds, OneCommitPerDiagnosis
  <2>2. PICK c \in SUBSET Writes : repo' = [repo EXCEPT !.changes = @ \cup c]
    BY <1>8 DEF AmpEnds
  <2>3. repo.changes \cup c \in SUBSET Changes
    BY <2>2, WritesAssumption, RepoShape
  <2>4. repo'.clone /\ repo'.head = repo.head
    BY <2>1, <2>2, <2>3, ChangedRepo
  <2>5. CASE Goto(j, "check") /\ UNCHANGED <<lock, leaks, prepared, cached, commit, tainted>>
    BY <2>1, <2>4, <2>5
  <2>6. CASE Goto(j, "failed") /\ Unlock
    BY <2>1, <2>6
  <2> QED
    BY <1>8, <2>5, <2>6 DEF AmpEnds
<1>9. CASE ChecksSafety(j)
  <2>1. lock = j /\ repo.clone /\ repo.head = prepared[j] /\ pc[j] = "check"
    BY <1>9 DEF ChecksSafety, OneCommitPerDiagnosis
  <2>2. PICK c \in SUBSET Changes : repo' = repo \/ repo' = [repo EXCEPT !.changes = c]
    BY <1>9, RepoShape DEF ChecksSafety, CheckFails, Reset
  <2>3. repo'.clone /\ repo'.head = repo.head
    <3>1. CASE repo' = repo
      BY <2>1, <3>1
    <3>2. CASE repo' = [repo EXCEPT !.changes = c]
      BY <2>1, <3>2, ChangedRepo
    <3> QED
      BY <2>2, <3>1, <3>2
  <2> QED
    BY <1>9, <2>1, <2>3 DEF ChecksSafety
<1>10. CASE Verifies(j)
  BY <1>10 DEF Verifies, OneCommitPerDiagnosis
<1>11. CASE BuildsReport(j)
  BY <1>11 DEF BuildsReport
<1>12. CASE SavesReport(j)
  BY <1>12 DEF SavesReport
<1> QED
  BY <1>1, <1>2, <1>3, <1>4, <1>5, <1>6, <1>7, <1>8, <1>9, <1>10, <1>11, <1>12 DEF Diagnose

LEMMA StepLock ==
  ASSUME TypeCore, OneCommitPerDiagnosis, [Next]_vars
  PROVE  OneCommitPerDiagnosis'
<1>1. ASSUME NEW j \in Jobs, Diagnose(j) PROVE OneCommitPerDiagnosis'
  <2> SUFFICES ASSUME NEW k \in Jobs
               PROVE  /\ pc'[k] \in Holding <=> lock' = k
                      /\ pc'[k] \in Reading => repo'.clone /\ repo'.head = prepared'[k]
    BY DEF OneCommitPerDiagnosis
  <2>1. /\ pc[k] \in Holding <=> lock = k
        /\ pc[k] \in Reading => repo.clone /\ repo.head = prepared[k]
    BY DEF OneCommitPerDiagnosis
  <2>2. Reading \subseteq Holding
    BY DEF Reading, Holding
  <2>3. CASE k = j
    BY <1>1, <2>1, <2>2, <2>3, LockUse, Constants
  <2>4. CASE k # j
    <3>1. pc'[k] = pc[k] /\ prepared'[k] = prepared[k]
      BY <1>1, <2>4, OthersKeep
    <3>2. lock' = k <=> lock = k
      BY <1>1, <2>4, LockUse, Constants
    <3>3. repo' = repo \/ lock = j
      BY <1>1, LockUse
    <3> QED
      BY <2>1, <2>2, <2>4, <3>1, <3>2, <3>3
  <2> QED
    BY <2>3, <2>4
<1>2. CASE Push
  BY <1>2 DEF Push, jobVars, history, OneCommitPerDiagnosis
<1>3. CASE UNCHANGED vars
  BY <1>3 DEF vars, repoVars, jobVars, history, OneCommitPerDiagnosis
<1> QED
  BY <1>1, <1>2, <1>3 DEF Next, AllEnded

-----------------------------------------------------------------------------
(* Stages and reports *)

LEMMA StepStage ==
  ASSUME TypeCore, StageInv, [Next]_vars
  PROVE  StageInv'
<1> USE DEF TypeCore, Offered, Hashed, Reported, BeforeAmpEnds
<1>1. ASSUME NEW j \in Jobs, Diagnose(j) PROVE StageInv'
  <2>1. reports \subseteq reports'
    BY <1>1 DEF Diagnose, ProjectUnknown, Lookup, ReuseLocks, ReusePrepares, Decide, Locks,
                PreparesSource, AmpEnds, ChecksSafety, Verifies, BuildsReport, SavesReport
  <2>2. ASSUME NEW k \in Jobs, k # j PROVE Stage(k)'
    <3>1. Stage(k)
      BY DEF StageInv
    <3>2. /\ pc'[k] = pc[k] /\ cached'[k] = cached[k] /\ commit'[k] = commit[k]
          /\ tainted'[k] = tainted[k] /\ report'[k] = report[k] /\ prepared'[k] = prepared[k]
          /\ wrote'[k] = wrote[k] /\ (k \in leaks' <=> k \in leaks)
      BY <1>1, <2>2, OthersKeep
    <3> QED
      BY <2>1, <3>1, <3>2 DEF Stage, Originals
  <2>3. Stage(j)'
    <3> USE DEF Stage, Goto, DropLocals, history
    <3>0. Stage(j)
      BY DEF StageInv
    <3>1. CASE ProjectUnknown(j)
      BY <3>0, <3>1 DEF ProjectUnknown
    <3>2. CASE Lookup(j)
      BY <3>0, <3>2 DEF Lookup, Latest, Originals
    <3>3. CASE ReuseLocks(j)
      BY <3>0, <3>3 DEF ReuseLocks, Originals
    <3>4. CASE ReusePrepares(j)
      BY <3>0, <3>4 DEF ReusePrepares, Prepare, ReadHash, Originals
    <3>5. CASE Decide(j)
      <4>1. ReusedReport(j) \in Reports
        <5>1. cached[j] \in Reports
          BY <3>0, <3>5 DEF Decide, Originals
        <5> QED
          BY <5>1, BuiltReports
      <4> QED
        BY <3>0, <3>5, <4>1 DEF Decide
    <3>6. CASE Locks(j)
      BY <3>0, <3>6 DEF Locks
    <3>7. CASE PreparesSource(j)
      BY <3>0, <3>7 DEF PreparesSource, Prepare, ReadHash
    <3>8. CASE AmpEnds(j)
      BY <3>0, <3>8 DEF AmpEnds
    <3>9. CASE ChecksSafety(j)
      BY <3>0, <3>9 DEF ChecksSafety
    <3>10. CASE Verifies(j)
      BY <3>0, <3>10 DEF Verifies
    <3>11. CASE BuildsReport(j)
      BY <3>0, <3>11, BuiltReports DEF BuildsReport
    <3>12. CASE SavesReport(j)
      BY <3>0, <3>12 DEF SavesReport
    <3> QED
      BY <1>1, <3>1, <3>2, <3>3, <3>4, <3>5, <3>6, <3>7, <3>8, <3>9, <3>10, <3>11, <3>12
         DEF Diagnose
  <2> QED
    BY <2>2, <2>3 DEF StageInv
<1>2. CASE Push
  BY <1>2 DEF Push, jobVars, history, StageInv, Stage, Originals
<1>3. CASE UNCHANGED vars
  BY <1>3 DEF vars, repoVars, jobVars, history, StageInv, Stage, Originals
<1> QED
  BY <1>1, <1>2, <1>3 DEF Next, AllEnded

LEMMA StepCount ==
  ASSUME TypeCore, CountInv, [Next]_vars
  PROVE  CountInv'
<1>0. IsFiniteSet(Builders)
  BY DiagnosisAssumption, FS_Subset DEF DiagnosisAssumption, Builders
<1>1. ASSUME NEW j \in Jobs, Diagnose(j) PROVE CountInv'
  <2>1. \A k \in Jobs : k # j => pc'[k] = pc[k]
    BY <1>1, OthersKeep
  <2>2. j \notin Earlier
    <3>1. pc[j] # "done"
      BY <1>1 DEF Diagnose, ProjectUnknown, Lookup, ReuseLocks, ReusePrepares, Decide, Locks,
                  PreparesSource, AmpEnds, ChecksSafety, Verifies, BuildsReport, SavesReport
    <3> QED
      BY <3>1 DEF CountInv
  <2>3. \A k \in Earlier : pc'[k] = "done"
    BY <2>1, <2>2, Constants DEF CountInv
  <2>4. \/ built' = built /\ (pc'[j] \in Reported <=> pc[j] \in Reported)
        \/ built' = built + 1 /\ pc[j] \notin Reported /\ pc'[j] \in Reported
    <3> USE DEF Goto, TypeCore, Reported
    <3>1. CASE Decide(j)
      BY <3>1 DEF Decide
    <3>2. CASE BuildsReport(j)
      BY <3>2 DEF BuildsReport
    <3>3. CASE SavesReport(j)
      BY <3>3 DEF SavesReport
    <3>4. CASE ~Decide(j) /\ ~BuildsReport(j) /\ ~SavesReport(j)
      BY <1>1, <3>4 DEF Diagnose, ProjectUnknown, Lookup, ReuseLocks, ReusePrepares, Locks,
                        PreparesSource, AmpEnds, ChecksSafety, Verifies
    <3> QED
      BY <3>1, <3>2, <3>3, <3>4
  <2>5. CASE built' = built /\ (pc'[j] \in Reported <=> pc[j] \in Reported)
    <3>1. Builders' = Builders
      BY <2>1, <2>5 DEF Builders
    <3> QED
      BY <2>3, <2>5, <3>1 DEF CountInv
  <2>6. CASE built' = built + 1 /\ pc[j] \notin Reported /\ pc'[j] \in Reported
    <3>1. Builders' = Builders \cup {j} /\ j \notin Builders
      BY <2>1, <2>2, <2>6 DEF Builders
    <3>2. Cardinality(Builders \cup {j}) = Cardinality(Builders) + 1
      BY <1>0, <3>1, FS_AddElement
    <3> QED
      BY <2>3, <2>6, <3>1, <3>2 DEF CountInv
  <2> QED
    BY <2>4, <2>5, <2>6
<1>2. CASE UNCHANGED <<built, pc>>
  BY <1>2 DEF CountInv, Builders
<1> QED
  BY <1>1, <1>2 DEF Next, AllEnded, Push, vars, jobVars

LEMMA StepReports ==
  ASSUME TypeCore, StageInv, ReportsInv, [Next]_vars
  PROVE  ReportsInv'
<1> USE DEF TypeCore, Reported
<1>1. ASSUME NEW j \in Jobs, Diagnose(j) PROVE ReportsInv'
  <2>0. \A r \in reports : r.job \in Jobs
    BY ReportShape
  <2>1. \A k \in Jobs : k # j => /\ pc'[k] = pc[k] /\ report'[k] = report[k]
                                 /\ prepared'[k] = prepared[k]
    BY <1>1, OthersKeep
  <2>2. pc[j] # "done"
    BY <1>1 DEF Diagnose, ProjectUnknown, Lookup, ReuseLocks, ReusePrepares, Decide, Locks,
                PreparesSource, AmpEnds, ChecksSafety, Verifies, BuildsReport, SavesReport
  <2>3. \A r \in reports : pc'[r.job] = "done" /\ r = report'[r.job]
    BY <2>0, <2>1, <2>2 DEF ReportsInv
  <2>4. CASE reports' = reports /\ report' = report /\ pc'[j] \notin Reported
    <3>1. report[j] = NoReport \/ pc[j] \in Reported
      BY DEF StageInv, Stage
    <3>2. pc[j] \notin Reported
      BY <1>1, <2>4 DEF Diagnose, ProjectUnknown, Lookup, ReuseLocks, ReusePrepares, Decide,
               Locks, PreparesSource, AmpEnds, ChecksSafety, Verifies, BuildsReport,
               SavesReport, Goto
    <3> QED
      BY <2>1, <2>3, <2>4, <3>1, <3>2 DEF ReportsInv, Fresh
  <2>5. CASE Decide(j) /\ pc'[j] = "save"
    <3>1. /\ report'[j] = ReusedReport(j) /\ UNCHANGED <<reports, prepared>>
          /\ cached[j] \in Originals
      <4>1. CanReuse(cached[j], commit[j], severity'[j])
        BY <2>5 DEF Decide, Goto
      <4> QED
        BY <2>5, <4>1 DEF Decide, Goto, history, StageInv, Stage, Offered
    <3>2. cached[j].job \in Jobs
      BY <2>0, <3>1 DEF Originals
    <3>3. report'[j].job = j /\ report'[j].reusedFrom # NoJob
      BY <3>1, <3>2, Constants DEF ReusedReport
    <3> QED
      BY <2>1, <2>3, <3>1, <3>3 DEF ReportsInv, Fresh
  <2>6. CASE BuildsReport(j)
    <3>1. PICK worthy \in BOOLEAN : report' = [report EXCEPT ![j] = FreshReport(j, worthy)]
      BY <2>6 DEF BuildsReport
    <3>2. UNCHANGED <<reports, prepared>> /\ pc'[j] = "save"
      BY <2>6 DEF BuildsReport, history, Goto
    <3>3. commit[j] \in {Unknown, prepared[j]}
      BY <2>6 DEF BuildsReport, StageInv, Stage, Hashed
    <3>4. report'[j].job = j /\ report'[j].commit \in {Unknown, prepared'[j]}
      BY <3>1, <3>2, <3>3 DEF FreshReport
    <3> QED
      BY <2>1, <2>3, <3>2, <3>4 DEF ReportsInv, Fresh
  <2>7. CASE SavesReport(j)
    <3>1. /\ reports' \in {reports, reports \cup {report[j]}} /\ pc[j] = "save"
          /\ pc'[j] = "done" /\ UNCHANGED <<report, prepared>>
      BY <2>7 DEF SavesReport, Goto, history
    <3>2. report[j].job = j
      BY <3>1 DEF ReportsInv
    <3> QED
      BY <2>1, <2>3, <3>1, <3>2 DEF ReportsInv, Fresh
  <2>8. CASE ~(Decide(j) /\ pc'[j] = "save") /\ ~BuildsReport(j) /\ ~SavesReport(j)
    <3>1. reports' = reports /\ report' = report /\ pc'[j] \notin Reported
      BY <1>1, <2>8 DEF Diagnose, ProjectUnknown, Lookup, ReuseLocks, ReusePrepares, Decide,
               Locks, PreparesSource, AmpEnds, ChecksSafety, Verifies, Goto
    <3> QED
      BY <2>4, <3>1
  <2> QED
    BY <2>5, <2>6, <2>7, <2>8
<1>2. CASE UNCHANGED <<reports, pc, report, prepared>>
  BY <1>2 DEF ReportsInv, Fresh
<1> QED
  BY <1>1, <1>2 DEF Next, AllEnded, Push, vars, jobVars, history

-----------------------------------------------------------------------------
(* Taint *)

LEMMA StepTaint ==
  ASSUME TypeCore, OneCommitPerDiagnosis, StageInv, TaintInv, [Next]_vars
  PROVE  TaintInv'
<1> USE DEF TypeCore, Checked
<1>1. ASSUME NEW j \in Jobs, Diagnose(j) PROVE TaintInv'
  <2>1. \A k \in Jobs : k # j =>
          /\ pc'[k] = pc[k] /\ wrote'[k] = wrote[k] /\ tainted'[k] = tainted[k]
          /\ (k \in blind' <=> k \in blind) /\ (k \in leaks' <=> k \in leaks)
    BY <1>1, OthersKeep
  <2>2. leaks \subseteq leaks'
    BY <1>1 DEF Diagnose, ProjectUnknown, Lookup, ReuseLocks, ReusePrepares, Decide, Locks,
                PreparesSource, AmpEnds, Leak, ChecksSafety, Verifies, BuildsReport,
                SavesReport, history
  <2>3. ASSUME NEW k \in Jobs, k # j
        PROVE  /\ pc'[k] \in Checked => (wrote'[k] = {} \/ tainted'[k])
               /\ pc'[k] \in Checked /\ tainted'[k] => Causes(k)'
    BY <2>1, <2>2, <2>3 DEF TaintInv, Causes
  <2>4. ASSUME pc[j] \notin Holding, repo' = repo, pc'[j] \notin Checked \cup {"amp", "check"}
        PROVE  TaintInv'
    BY <2>1, <2>2, <2>3, <2>4 DEF TaintInv, Holding
  \* Who has the lock is the only one to care for the changes.
  <2>5. ASSUME pc[j] \in Holding, NEW k \in Jobs, pc'[k] \in Holding PROVE k = j
    BY <2>1, <2>5, OneHolder
  <2>6. ASSUME pc[j] \in Holding,
               pc'[j] = "amp" => repo'.changes \subseteq {"untracked"},
               pc'[j] = "check" => /\ wrote'[j] \subseteq repo'.changes
                                   /\ repo'.changes \subseteq wrote'[j] \cup {"untracked"},
               pc'[j] \in Checked => (wrote'[j] = {} \/ tainted'[j]),
               pc'[j] \in Checked /\ tainted'[j] => Causes(j)',
               "untracked" \in repo'.changes =>
                 leaks' # {} \/ (pc'[j] = "check" /\ "untracked" \in wrote'[j])
        PROVE  TaintInv'
    <3>1. \A k \in Jobs : pc'[k] \in {"amp", "check"} => k = j
      BY <2>5, <2>6 DEF Holding
    <3> QED
      BY <2>3, <2>6, <3>1 DEF TaintInv
  <2> USE DEF Goto, DropLocals, history, repoVars
  <2>7. CASE ProjectUnknown(j) \/ Lookup(j) \/ ReuseLocks(j) \/ Decide(j) \/ Locks(j)
             \/ SavesReport(j) \/ BuildsReport(j)
    <3>1. pc[j] \notin Holding /\ repo' = repo /\ pc'[j] \notin Checked \cup {"amp", "check"}
      BY <2>7 DEF ProjectUnknown, Lookup, ReuseLocks, Decide, Locks, SavesReport,
                  BuildsReport, Holding
    <3> QED
      BY <2>4, <3>1
  \* What a Prepare leaves was there before, and somebody has left it there.
  <2>8. ASSUME pc[j] \in {"reusePrepare", "prepare"}, "untracked" \in repo.changes
        PROVE  leaks # {}
    <3>1. \A k \in Jobs : pc[k] # "check"
      BY <2>8, OneHolder DEF Holding
    <3> QED
      BY <2>8, <3>1 DEF TaintInv
  <2>9. CASE ReusePrepares(j)
    <3>1. /\ pc[j] = "reusePrepare" /\ pc'[j] \in {"decide", "lock"} /\ leaks' = leaks
      BY <2>9 DEF ReusePrepares
    <3>2. repo' = repo \/ repo'.changes \subseteq repo.changes
      BY <2>9, PrepareEffect, PrepareFailsEffect DEF ReusePrepares
    <3> QED
      BY <2>6, <2>8, <3>1, <3>2 DEF Holding
  <2>10. CASE PreparesSource(j)
    <3>1. /\ pc[j] = "prepare" /\ pc'[j] \in {"amp", "failed"} /\ leaks' = leaks
      BY <2>10 DEF PreparesSource
    <3>2. repo' = repo \/ repo'.changes \subseteq repo.changes
      BY <2>10, PrepareEffect, PrepareFailsEffect DEF PreparesSource
    <3>3. pc'[j] = "amp" => repo'.changes \subseteq {"untracked"}
      BY <2>10, PrepareEffect DEF PreparesSource
    <3> QED
      BY <2>6, <2>8, <3>1, <3>2, <3>3 DEF Holding
  <2>11. CASE AmpEnds(j)
    <3>1. pc[j] = "amp" /\ pc'[j] \in {"check", "failed"} /\ repo.clone
      BY <2>11 DEF AmpEnds, OneCommitPerDiagnosis, Reading
    <3>2. PICK c \in SUBSET Writes :
            repo' = [repo EXCEPT !.changes = @ \cup c] /\ wrote' = [wrote EXCEPT ![j] = c]
      BY <2>11 DEF AmpEnds
    <3>3. repo.changes \cup c \in SUBSET Changes
      BY <3>2, WritesAssumption, RepoShape
    <3>4. repo'.changes = repo.changes \cup c /\ wrote'[j] = c
      BY <3>1, <3>2, <3>3, ChangedRepo
    <3>5. repo.changes \subseteq {"untracked"}
      BY <3>1 DEF TaintInv
    <3>6. "untracked" \in repo.changes => leaks # {}
      <4>1. \A k \in Jobs : pc[k] # "check"
        BY <3>1, OneHolder DEF Holding
      <4> QED
        BY <4>1 DEF TaintInv
    <3>7. pc'[j] = "failed" /\ "untracked" \in repo'.changes => leaks' # {}
      BY <2>11 DEF AmpEnds, Leak
    <3> QED
      BY <2>2, <2>6, <3>1, <3>4, <3>5, <3>6, <3>7 DEF Holding
  <2>12. CASE ChecksSafety(j)
    <3>1. /\ pc[j] = "check" /\ pc'[j] = "verify" /\ wrote' = wrote
          /\ ~tainted[j] /\ j \notin leaks
      BY <2>12 DEF ChecksSafety, StageInv, Stage
    <3>2. /\ wrote[j] \subseteq repo.changes
          /\ repo.changes \subseteq wrote[j] \cup {"untracked"}
      BY <3>1 DEF TaintInv
    \* New files that this Amp process did not make are those of somebody else.
    <3>3. repo.changes # {} /\ wrote[j] = {} => leaks \ {j} # {}
      <4>1. \A k \in Jobs : pc[k] = "check" => k = j
        BY <3>1, OneHolder DEF Holding
      <4> QED
        BY <3>1, <3>2, <4>1 DEF TaintInv
    <3>4. CASE CheckFails(j) /\ Leak(j)
      <4>1. j \in blind' /\ tainted'[j] /\ ("untracked" \in repo'.changes => j \in leaks')
        BY <3>4 DEF CheckFails, Leak
      <4> QED
        BY <2>6, <3>1, <4>1 DEF Holding, Causes
    <3>5. CASE HasChanges /\ tainted' = [tainted EXCEPT ![j] = TRUE]
      <4>1. tainted'[j] /\ repo.changes # {}
        BY <3>5 DEF HasChanges
      <4>2. Causes(j)'
        BY <2>2, <3>1, <3>3, <4>1 DEF Causes
      <4>3. "untracked" \in repo'.changes => leaks' # {}
        <5>1. CASE Leak(j)
          BY <5>1 DEF Leak
        <5>2. CASE repo' = [repo EXCEPT !.changes = Reset]
          <6>1. repo.clone /\ Reset \in SUBSET Changes
            BY <3>1, RepoShape DEF OneCommitPerDiagnosis, Reading, Reset
          <6>2. repo'.changes = Reset
            BY <5>2, <6>1, ChangedRepo
          <6> QED
            BY <6>2 DEF Reset
        <5>3. Leak(j) \/ repo' = [repo EXCEPT !.changes = Reset] \/ ~HasChanges
          BY <2>12, Zenon DEF ChecksSafety
        <5> QED
          BY <3>5, <5>1, <5>2, <5>3
      <4> QED
        BY <2>6, <3>1, <4>1, <4>2, <4>3 DEF Holding
    <3>6. CASE ~HasChanges /\ UNCHANGED <<repo, tainted, blind, leaks>>
      <4>1. repo'.changes = {} /\ wrote'[j] = {} /\ ~tainted'[j]
        BY <3>1, <3>2, <3>6 DEF HasChanges
      <4> QED
        BY <2>6, <3>1, <4>1 DEF Holding
    <3> QED
      BY <2>12, <3>4, <3>5, <3>6 DEF ChecksSafety
  <2>13. CASE Verifies(j)
    <3>1. /\ pc[j] = "verify" /\ pc'[j] = "build"
          /\ UNCHANGED <<repo, tainted, wrote, blind, leaks>>
      BY <2>13 DEF Verifies
    <3>2. "untracked" \in repo.changes => leaks # {}
      <4>1. \A k \in Jobs : pc[k] # "check"
        BY <3>1, OneHolder DEF Holding
      <4> QED
        BY <4>1 DEF TaintInv
    <3>3. /\ wrote[j] = {} \/ tainted[j]
          /\ tainted[j] => Causes(j)
      BY <3>1 DEF TaintInv
    <3> QED
      BY <2>6, <3>1, <3>2, <3>3 DEF Holding, Causes
  <2> QED
    BY <1>1, <2>7, <2>9, <2>10, <2>11, <2>12, <2>13 DEF Diagnose
<1>2. CASE UNCHANGED <<repo, pc, tainted, wrote, blind, leaks>>
  BY <1>2 DEF TaintInv, Causes
<1> QED
  BY <1>1, <1>2 DEF Next, AllEnded, Push, vars, repoVars, jobVars, history

-----------------------------------------------------------------------------
(* The reports, and the theorems *)

\* A report that is returned does not change, nor does what its diagnosis did.
LEMMA ReportedKeep ==
  ASSUME TypeCore, StageInv, [Next]_vars, NEW k \in Jobs, pc[k] \in Reported
  PROVE  /\ pc'[k] \in Reported /\ report'[k] = report[k]
         /\ severity'[k] = severity[k] /\ prepared'[k] = prepared[k] /\ wrote'[k] = wrote[k]
         /\ (k \in blind => k \in blind') /\ leaks \subseteq leaks'
<1>1. ASSUME NEW j \in Jobs, Diagnose(j)
      PROVE  /\ pc'[k] \in Reported /\ report'[k] = report[k]
             /\ severity'[k] = severity[k] /\ prepared'[k] = prepared[k]
             /\ wrote'[k] = wrote[k] /\ (k \in blind => k \in blind') /\ leaks \subseteq leaks'
  <2>1. leaks \subseteq leaks'
    BY <1>1 DEF Diagnose, ProjectUnknown, Lookup, ReuseLocks, ReusePrepares, Decide, Locks,
                PreparesSource, AmpEnds, Leak, ChecksSafety, Verifies, BuildsReport,
                SavesReport, history
  <2>2. CASE k # j
    BY <1>1, <2>1, <2>2, OthersKeep
  <2>3. CASE k = j
    <3>1. SavesReport(j)
      BY <1>1, <2>3 DEF Reported, Diagnose, ProjectUnknown, Lookup, ReuseLocks,
           ReusePrepares, Decide, Locks, PreparesSource, AmpEnds, ChecksSafety, Verifies,
           BuildsReport
    <3> QED
      BY <2>3, <3>1 DEF SavesReport, Goto, history, Reported, TypeCore
  <2> QED
    BY <2>2, <2>3
<1>2. CASE UNCHANGED <<jobVars, history>>
  BY <1>2 DEF jobVars, history
<1> QED
  BY <1>1, <1>2 DEF Next, AllEnded, Push, vars

\* A step that gives a diagnosis its report is Decide or BuildsReport.
LEMMA NewReport ==
  ASSUME TypeCore, StageInv, [Next]_vars, NEW k \in Jobs, pc[k] \notin Reported
  PROVE  \/ pc'[k] \notin Reported
         \/ Decide(k) /\ CanReuse(cached[k], commit[k], severity'[k])
                      /\ report'[k] = ReusedReport(k)
         \/ BuildsReport(k)
<1>1. ASSUME NEW j \in Jobs, Diagnose(j), k # j PROVE pc'[k] \notin Reported
  BY <1>1, OthersKeep
<1>2. ASSUME Diagnose(k), ~BuildsReport(k), pc'[k] \in Reported
      PROVE  Decide(k) /\ CanReuse(cached[k], commit[k], severity'[k])
                       /\ report'[k] = ReusedReport(k)
  <2>1. Decide(k)
    BY <1>2 DEF Diagnose, ProjectUnknown, Lookup, ReuseLocks, ReusePrepares, Locks,
                PreparesSource, AmpEnds, ChecksSafety, Verifies, SavesReport, Reported,
                Goto, TypeCore
  <2>2. CanReuse(cached[k], commit[k], severity'[k]) /\ report'[k] = ReusedReport(k)
    BY <1>2, <2>1 DEF Decide, Goto, TypeCore, Reported
  <2> QED
    BY <2>1, <2>2
<1> QED
  BY <1>1, <1>2 DEF Next, AllEnded, Push, vars, jobVars

\* What reused and fresh reports are made of.
LEMMA ReusedShape ==
  ASSUME TypeCore, StageInv, ReportsInv, NEW k \in Jobs, Decide(k), pc'[k] \in Reported,
         CanReuse(cached[k], commit[k], severity'[k]), report'[k] = ReusedReport(k)
  PROVE  LET o == report'[k].reusedFrom IN
         /\ Reused(k)' /\ ~Fresh(k)'
         /\ o \in Jobs /\ cached[k] = report[o] /\ pc[o] = "done" /\ Fresh(o)
         /\ ~report[o].tainted /\ report[o].worthy /\ report'[k].commit = commit[k]
         /\ commit[k] \in {Unknown, prepared[k]} /\ prepared'[k] = prepared[k]
         /\ CommitMatch(report[o], commit[k])
            \/ (report'[k].stale /\ severity'[k] # "critical")
<1> DEFINE o == cached[k].job
<1>1. cached[k] \in Originals /\ commit[k] \in {Unknown, prepared[k]} /\ prepared' = prepared
  BY DEF Decide, StageInv, Stage, Offered, Hashed, history
<1>2. o \in Jobs /\ cached[k] = report[o] /\ pc[o] = "done"
  BY <1>1, ReportShape DEF Originals, ReportsInv, TypeCore
<1>3. report'[k].reusedFrom = o /\ report'[k].commit = commit[k] /\ report'[k].job = k
      /\ report'[k].stale = ~CommitMatch(cached[k], commit[k])
  BY DEF ReusedReport
<1>4. report[o] \in Reports
  BY <1>1, <1>2 DEF Originals, TypeCore
<1>5. report'[k] # NoReport
  <2>1. report'[k].job # NoJob
    BY <1>3, Constants
  <2> QED
    BY <2>1 DEF NoReport
<1>6. Fresh(o)
  BY <1>1, <1>2, <1>4, ReportShape DEF Fresh, Originals
<1>7. Reused(k)' /\ ~Fresh(k)'
  BY <1>2, <1>3, <1>5, Constants DEF Reused, Fresh
<1>8. ~report[o].tainted /\ report[o].worthy
  BY <1>2 DEF CanReuse
<1>9. CommitMatch(report[o], commit[k]) \/ (report'[k].stale /\ severity'[k] # "critical")
  <2>1. CASE CommitMatch(cached[k], commit[k])
    BY <1>2, <2>1 DEF CommitMatch
  <2>2. CASE ~CommitMatch(cached[k], commit[k])
    <3>1. severity'[k] # "critical"
      BY <2>2 DEF CanReuse
    <3>2. report'[k].stale = TRUE
      BY <1>3, <2>2
    <3> QED
      BY <3>1, <3>2
  <2> QED
    BY <2>1, <2>2
<1> QED
  BY <1>1, <1>2, <1>3, <1>6, <1>7, <1>8, <1>9

LEMMA FreshShape ==
  ASSUME TypeCore, NEW k \in Jobs, BuildsReport(k)
  PROVE  /\ pc[k] = "build" /\ wrote' = wrote /\ blind' = blind /\ leaks' = leaks
         /\ ~Reused(k)'
         /\ report'[k].tainted = tainted[k]
<1>1. PICK worthy \in BOOLEAN : report' = [report EXCEPT ![k] = FreshReport(k, worthy)]
  BY DEF BuildsReport
<1>2. report'[k].reusedFrom = NoJob /\ report'[k].tainted = tainted[k]
  BY <1>1 DEF FreshReport, TypeCore
<1> QED
  BY <1>2 DEF BuildsReport, history, Reused

\* A diagnosis has a report when its place says so.
LEMMA ReportedPlace ==
  ASSUME StageInv, NEW k \in Jobs
  PROVE  pc[k] \in Reported <=> report[k] # NoReport
BY ReportShape DEF StageInv, Stage

LEMMA StepUntainted ==
  ASSUME TypeCore, StageInv, ReportsInv, TaintInv, UntaintedWroteNothing, [Next]_vars,
         StageInv'
  PROVE  UntaintedWroteNothing'
<1> SUFFICES ASSUME NEW k \in Jobs, Fresh(k)', ~report'[k].tainted PROVE wrote'[k] = {}
  BY DEF UntaintedWroteNothing
<1>1. CASE pc[k] \in Reported
  <2>1. report'[k] = report[k] /\ wrote'[k] = wrote[k]
    BY <1>1, ReportedKeep
  <2> QED
    BY <2>1 DEF UntaintedWroteNothing, Fresh
<1>2. CASE pc[k] \notin Reported
  <2>1. pc'[k] \in Reported
    BY DEF Fresh, StageInv, Stage
  <2>2. CASE Decide(k) /\ CanReuse(cached[k], commit[k], severity'[k])
                       /\ report'[k] = ReusedReport(k)
    BY <2>1, <2>2, ReusedShape
  <2>3. CASE BuildsReport(k)
    <3>1. pc[k] = "build" /\ wrote' = wrote /\ report'[k].tainted = tainted[k]
      BY <2>3, FreshShape
    <3>2. wrote[k] = {} \/ tainted[k]
      BY <3>1 DEF TaintInv, Checked
    <3> QED
      BY <3>1, <3>2
  <2> QED
    BY <1>2, <2>1, <2>2, <2>3, NewReport
<1> QED
  BY <1>1, <1>2

LEMMA StepTaintHasCause ==
  ASSUME TypeCore, StageInv, ReportsInv, TaintInv, TaintHasCause, [Next]_vars, StageInv'
  PROVE  TaintHasCause'
<1> SUFFICES ASSUME NEW k \in Jobs, Fresh(k)', report'[k].tainted PROVE Causes(k)'
  BY DEF TaintHasCause, Causes
<1>1. CASE pc[k] \in Reported
  <2>1. /\ report'[k] = report[k] /\ wrote'[k] = wrote[k]
        /\ (k \in blind => k \in blind') /\ leaks \subseteq leaks'
    BY <1>1, ReportedKeep
  <2>2. Causes(k)
    BY <2>1 DEF TaintHasCause, Causes, Fresh
  <2> QED
    BY <2>1, <2>2 DEF Causes
<1>2. CASE pc[k] \notin Reported
  <2>1. pc'[k] \in Reported
    BY DEF Fresh, StageInv, Stage
  <2>2. CASE Decide(k) /\ CanReuse(cached[k], commit[k], severity'[k])
                       /\ report'[k] = ReusedReport(k)
    BY <2>1, <2>2, ReusedShape
  <2>3. CASE BuildsReport(k)
    <3>1. /\ pc[k] = "build" /\ wrote' = wrote /\ blind' = blind /\ leaks' = leaks
          /\ report'[k].tainted = tainted[k]
      BY <2>3, FreshShape
    <3>2. Causes(k)
      BY <3>1 DEF TaintInv, Checked
    <3> QED
      BY <3>1, <3>2 DEF Causes
  <2> QED
    BY <1>2, <2>1, <2>2, <2>3, NewReport
<1> QED
  BY <1>1, <1>2

LEMMA StepReuse ==
  ASSUME TypeCore, StageInv, ReportsInv, ReuseFits, [Next]_vars, StageInv', TypeCore'
  PROVE  ReuseFits'
<1> SUFFICES ASSUME NEW k \in Jobs, Reused(k)',
                    NEW o, o = report'[k].reusedFrom
             PROVE  /\ Fresh(o)' /\ ~report'[o].tainted /\ report'[o].worthy
                    /\ \/ prepared'[k] = prepared'[o]
                       \/ report'[k].stale /\ severity'[k] # "critical"
                       \/ Unknown \in {report'[k].commit, report'[o].commit}
  BY DEF ReuseFits
<1>1. pc'[k] \in Reported
  BY DEF Reused, StageInv, Stage
<1>2. CASE pc[k] \in Reported
  <2>1. report'[k] = report[k] /\ prepared'[k] = prepared[k] /\ severity'[k] = severity[k]
    BY <1>2, ReportedKeep
  <2>2. /\ Fresh(o) /\ ~report[o].tainted /\ report[o].worthy
        /\ \/ prepared[k] = prepared[o]
           \/ report[k].stale /\ severity[k] # "critical"
           \/ Unknown \in {report[k].commit, report[o].commit}
    BY <2>1 DEF ReuseFits, Reused
  <2>3. o \in Jobs
    <3>1. report[k] \in Reports
      BY <1>2 DEF StageInv, Stage
    <3> QED
      BY <2>1, <3>1, ReportShape DEF Reused
  <2>4. pc[o] \in Reported
    BY <2>2, <2>3, ReportedPlace DEF Fresh
  <2>5. report'[o] = report[o] /\ prepared'[o] = prepared[o]
    BY <2>3, <2>4, ReportedKeep
  <2> QED
    BY <2>1, <2>2, <2>5 DEF Fresh
<1>3. CASE pc[k] \notin Reported
  <2>1. Decide(k) /\ CanReuse(cached[k], commit[k], severity'[k])
                  /\ report'[k] = ReusedReport(k)
    BY <1>1, <1>3, NewReport, FreshShape
  <2>2. /\ o \in Jobs /\ pc[o] = "done" /\ Fresh(o)
        /\ ~report[o].tainted /\ report[o].worthy /\ report'[k].commit = commit[k]
        /\ commit[k] \in {Unknown, prepared[k]} /\ prepared'[k] = prepared[k]
        /\ CommitMatch(report[o], commit[k])
           \/ (report'[k].stale /\ severity'[k] # "critical")
    BY <1>1, <2>1, ReusedShape
  <2>3. report'[o] = report[o] /\ prepared'[o] = prepared[o]
    BY <2>2, ReportedKeep DEF Reported
  <2>4. report[o].commit \in {Unknown, prepared[o]}
    BY <2>2 DEF ReportsInv
  <2> QED
    BY <2>2, <2>3, <2>4 DEF Fresh, CommitMatch
<1> QED
  BY <1>2, <1>3

LEMMA InitInv == Init => IInv
<1> SUFFICES ASSUME Init PROVE IInv
  OBVIOUS
<1>0. TypeCore
  BY InitType
<1>1. /\ \A j \in Jobs \ Earlier : pc[j] = "start" /\ report[j] = NoReport
      /\ \A j \in Earlier : /\ pc[j] = "done" /\ report[j] = EarlierReport(j)
                            /\ prepared[j] = 1
      /\ \A j \in Jobs : wrote[j] = {} /\ ~tainted[j]
      /\ reports = {EarlierReport(j) : j \in Earlier}
      /\ lock = NoJob /\ built = 0 /\ blind = {} /\ leaks = {}
  BY Constants DEF Init
<1>2. \A j \in Earlier : /\ EarlierReport(j) \in Reports /\ EarlierReport(j).job = j
                         /\ EarlierReport(j).commit = 1
                         /\ EarlierReport(j).reusedFrom = NoJob
                         /\ EarlierReport(j).tainted = FALSE
  BY Constants DEF EarlierReport, Reports
<1>3. repo.changes = {}
  BY RepoShape DEF Init, Clone
<1>4. CountInv
  <2>1. Builders = {}
    BY <1>1 DEF Builders, Reported
  <2> QED
    BY <1>1, <2>1, FS_EmptySet DEF CountInv
<1>5. OneCommitPerDiagnosis
  BY <1>1, Constants DEF OneCommitPerDiagnosis, Holding, Reading
<1>6. StageInv
  BY <1>1, <1>2
     DEF StageInv, Stage, Offered, Hashed, BeforeAmpEnds, Reported
<1>7. ReportsInv
  BY <1>1, <1>2, ReportShape DEF ReportsInv, Fresh, Reported
<1>8. TaintInv
  BY <1>1, <1>3 DEF TaintInv, Checked
<1>9. \A j \in Jobs : ~Reused(j) /\ (Fresh(j) => ~report[j].tainted)
  BY <1>1, <1>2 DEF Reused, Fresh
<1>10. UntaintedWroteNothing /\ TaintHasCause /\ ReuseFits
  BY <1>1, <1>9 DEF UntaintedWroteNothing, TaintHasCause, ReuseFits
<1> QED
  BY <1>0, <1>4, <1>5, <1>6, <1>7, <1>8, <1>10 DEF IInv

LEMMA StepInv == IInv /\ [Next]_vars => IInv'
<1> SUFFICES ASSUME IInv, [Next]_vars PROVE IInv'
  OBVIOUS
<1> USE DEF IInv
<1>1. TypeCore' /\ StageInv'
  BY StepType, StepStage
<1>2. CountInv' /\ OneCommitPerDiagnosis' /\ ReportsInv' /\ TaintInv'
  BY StepCount, StepLock, StepReports, StepTaint
<1>3. UntaintedWroteNothing' /\ TaintHasCause' /\ ReuseFits'
  BY <1>1, StepUntainted, StepTaintHasCause, StepReuse
<1> QED
  BY <1>1, <1>2, <1>3

\* Who holds the lock and who may hold it, what the working copy is while it is held, what the
\* stored reports are of, and what each Diagnose knows at its place: all of it holds always.
THEOREM Invariance == Spec => []IInv
BY InitInv, StepInv, PTL DEF Spec, Safety

\* The types of the working copy, the lock, the reports and the locals of every Diagnose;
\* no more reports are built than there are diagnoses.
THEOREM TypeCorrect == Spec => []TypeOK
<1>1. IInv => TypeOK
  <2> SUFFICES ASSUME IInv PROVE TypeOK
    OBVIOUS
  <2>1. built \in 0..Cardinality(Jobs)
    <3>1. IsFiniteSet(Jobs) /\ Builders \subseteq Jobs
      BY DiagnosisAssumption DEF DiagnosisAssumption, Builders
    <3>2. /\ Cardinality(Builders) <= Cardinality(Jobs)
          /\ Cardinality(Builders) \in Nat /\ Cardinality(Jobs) \in Nat
      BY <3>1, FS_Subset, FS_CardinalityType
    <3> QED
      BY <3>2 DEF IInv, CountInv
  <2> QED
    BY <2>1 DEF IInv, TypeCore, TypeOK
<1> QED
  BY <1>1, Invariance, PTL

\* The lock is held by one diagnosis, wherever the working copy is used, and the copy
\* stays at the commit that Prepare fetched until the answer is verified.
THEOREM OneCommit == Spec => []OneCommitPerDiagnosis
<1>1. IInv => OneCommitPerDiagnosis
  BY DEF IInv
<1> QED
  BY <1>1, Invariance, PTL

\* Fail-closed: a report without a taint is of an Amp process that wrote nothing, whatever
\* git answered to the safety check.
THEOREM FailClosed == Spec => []UntaintedWroteNothing
<1>1. IInv => UntaintedWroteNothing
  BY DEF IInv
<1> QED
  BY <1>1, Invariance, PTL

\* A taint has one of three causes; an answer is not thrown away for nothing.
THEOREM TaintIsCaused == Spec => []TaintHasCause
<1>1. IInv => TaintHasCause
  BY DEF IInv
<1> QED
  BY <1>1, Invariance, PTL

\* A reused report is that of one fresh, untainted and worthy diagnosis, of the same
\* commit unless the report says otherwise or a hash is unknown.
THEOREM ReuseIsFit == Spec => []ReuseFits
<1>1. IInv => ReuseFits
  BY DEF IInv
<1> QED
  BY <1>1, Invariance, PTL
=============================================================================
