-------------------------------- MODULE Release --------------------------------
(***************************************************************************)
(* Publishing one version: the workflow .github/workflows/release.yml and  *)
(* the scripts it runs, against a registry that may lag, fail, or accept a *)
(* package and lose the answer.  A run may die at any step and be started  *)
(* again, and nothing keeps two runs (a tag push and a manual dispatch, or *)
(* two of either) from working at the same time.                           *)
(*                                                                         *)
(* Packages are numbered in the order in which publish-npm-packages.js     *)
(* publishes them: the native packages first, the root package last.       *)
(* Abstracted: what the packages contain (only whether a check would find  *)
(* fault with it), command lines, reports and messages.  The registry is   *)
(* external: once accepted a version is immutable, and it becomes visible  *)
(* some time later.                                                        *)
(***************************************************************************)
EXTENDS Naturals, FiniteSets

CONSTANTS
    Natives,      \* number of native packages
    Runs,         \* workflow runs that may be in progress at a time
    Pushed,       \* those of them that run for a tag (github.ref_type)
    Tags,         \* npm dist-tags a run may publish under
    Retries,      \* --retries of publish-npm-packages.js
    Tries,        \* --retries of check-published.js and check-registry-install.js
    MayBeFlawed   \* whether a published package may fail a check

ASSUME ReleaseAssumption ==
    /\ Natives \in Nat \ {0}
    /\ Pushed \subseteq Runs
    /\ Retries \in Nat \ {0}
    /\ Tries \in Nat \ {0}
    /\ MayBeFlawed \in BOOLEAN

VARIABLES
    accepted,   \* packages the registry has taken
    visible,    \* packages npm shows
    flaws,      \* what the checks would find wrong with a package
    distTags,   \* dist-tags of the root package that point at this version
    logged,     \* packages with a transparency-log entry of a failed publish
    calm,       \* the registry and the runners have stopped failing
    released,   \* the GitHub release exists
    runs        \* state of every run

releaseVars == <<accepted, visible, flaws, distTags, logged, calm, released, runs>>
registry == <<accepted, visible, flaws, distTags, logged, calm>>

Root == Natives + 1
Packages == 1 .. Root

\* Of these fields, full is history: npm showed every package when the run
\* began.
Idle == [pc |-> "idle", tag |-> "none", full |-> FALSE, seen |-> {}, failed |-> {},
         state |-> "unknown", at |-> 1, attempt |-> 1, answer |-> "none"]

ReleaseInit ==
    /\ accepted = {} /\ visible = {}
    /\ flaws = [p \in Packages |-> {}]
    /\ distTags = {} /\ logged = {}
    /\ calm = FALSE
    /\ released = FALSE
    /\ runs = [r \in Runs |-> Idle]

Goto(r, pc) == runs' = [runs EXCEPT ![r].pc = pc]
Fail(r) == runs' = [runs EXCEPT ![r] = Idle]

-----------------------------------------------------------------------------
(* The registry.                                                           *)

ShowUp(p) ==
    /\ p \in accepted \ visible
    /\ visible' = visible \cup {p}
    /\ UNCHANGED <<accepted, flaws, distTags, logged, calm, released, runs>>

\* From here on nothing fails that need not.
CalmDown ==
    /\ ~calm
    /\ calm' = TRUE
    /\ UNCHANGED <<accepted, visible, flaws, distTags, logged, released, runs>>

\* npm view of one package: its exit status and what it prints.
View(p) == (IF p \in visible THEN {"exists"} ELSE {"notFound"})
             \cup (IF calm THEN {} ELSE {"error"})

-----------------------------------------------------------------------------
(* check-published.js.                                                     *)

\* verifyRootPackage, verifyNativePackage, expectProvenance.
PackageVerified(p) == p \in visible /\ "metadata" \notin flaws[p]

\* verifyRootTarball, verifyNativeTarball.
TarballVerified(p) == p \in visible /\ "files" \notin flaws[p]

\* The dist-tag of the root package points at this version.
TagVerified(tag) == Root \in visible /\ tag \in distTags

\* Mutant: --verify-tarballs is ignored.
ChecksMetadata(tag, tarballs) == TagVerified(tag) /\ \A p \in Packages : PackageVerified(p)

\* runChecks finds no error.
ChecksPass(tag, tarballs) ==
    /\ \A p \in Packages : PackageVerified(p) /\ (tarballs => TarballVerified(p))
    /\ TagVerified(tag)

-----------------------------------------------------------------------------
(* Job "validate".                                                         *)

\* A tag push, or a dispatch with publish=true, or a rerun of either.
Begin(r, tag) ==
    /\ runs[r] = Idle
    /\ runs' = [runs EXCEPT ![r] = [Idle EXCEPT !.pc = "look", !.tag = tag,
                                             !.full = (visible = Packages)]]
    /\ UNCHANGED <<registry, released>>

\* Mutant: an error of npm counts as a version that is not published.
LookTakesErrorForMissing(r) ==
    LET p == IF runs[r].at = 1 THEN Root ELSE runs[r].at - 1 IN
    /\ runs[r].pc = "look"
    /\ \E answer \in View(p) :
        runs' = [runs EXCEPT
                   ![r].seen = IF answer = "exists" THEN @ \cup {p} ELSE @,
                   ![r].at = IF p = Natives THEN 1 ELSE @ + 1,
                   ![r].pc = IF p = Natives THEN "decide" ELSE @]
    /\ UNCHANGED <<registry, released>>

\* Mutant: it counts as a version that exists.
LookTakesErrorForExisting(r) ==
    LET p == IF runs[r].at = 1 THEN Root ELSE runs[r].at - 1 IN
    /\ runs[r].pc = "look"
    /\ \E answer \in View(p) :
        runs' = [runs EXCEPT
                   ![r].seen = IF answer # "notFound" THEN @ \cup {p} ELSE @,
                   ![r].at = IF p = Natives THEN 1 ELSE @ + 1,
                   ![r].pc = IF p = Natives THEN "decide" ELSE @]
    /\ UNCHANGED <<registry, released>>

\* checkPackageVersion, for one package after the other, the root first.
\* An error counts neither as available nor as existing.
Look(r) ==
    LET p == IF runs[r].at = 1 THEN Root ELSE runs[r].at - 1 IN
    /\ runs[r].pc = "look"
    /\ \E answer \in View(p) :
        runs' = [runs EXCEPT
                   ![r].seen = IF answer = "exists" THEN @ \cup {p} ELSE @,
                   ![r].failed = IF answer = "error" THEN @ \cup {p} ELSE @,
                   ![r].at = IF p = Natives THEN 1 ELSE @ + 1,
                   ![r].pc = IF p = Natives THEN "decide" ELSE @]
    /\ UNCHANGED <<registry, released>>

\* Mutant: what exists already is always a conflict.
NeverPartial(run) == FALSE

\* One package exists and another one is missing.
Partial(run) == run.seen # {} /\ Packages \ (run.seen \cup run.failed) # {}

\* The state the other jobs depend on; a conflict fails the workflow.
Decided(r, state, pc) ==
    runs' = [runs EXCEPT ![r] = [Idle EXCEPT !.pc = pc, !.tag = runs[r].tag,
                                             !.full = runs[r].full,
                                             !.state = state]]

Decide(r) ==
    LET found == runs[r].seen \cup runs[r].failed IN
    /\ runs[r].pc = "decide"
    /\ \/ found = {} /\ Decided(r, "available", "build")
       \/ found # {} /\ ChecksPass(runs[r].tag, FALSE) /\ Decided(r, "published", "verify")
       \/ /\ found # {}
          /\ ~ChecksPass(runs[r].tag, FALSE) \/ ~calm
          /\ IF Partial(runs[r]) THEN Decided(r, "partial", "build") ELSE Fail(r)
    /\ UNCHANGED <<registry, released>>

\* Jobs "build-native" and "quality-gate", and the dry runs before the
\* publish step.
Build(r) ==
    /\ runs[r].pc = "build"
    /\ \/ Goto(r, "exists")
       \/ ~calm /\ Fail(r)
    /\ UNCHANGED <<registry, released>>

-----------------------------------------------------------------------------
(* publish-npm-packages.js.                                                *)

\* publishPackage returns: the loop goes on with the next package.
NextPackage(r) ==
    runs' = [runs EXCEPT ![r].at = IF @ = Root THEN 1 ELSE @ + 1,
                         ![r].attempt = 1, ![r].answer = "none",
                         ![r].pc = IF runs[r].at = Root THEN "verify" ELSE "exists"]

\* packageExists, before the first attempt.
PackageExists(r) ==
    /\ runs[r].pc = "exists"
    /\ \E answer \in View(runs[r].at) :
         \/ answer = "exists"   /\ NextPackage(r)
         \/ answer = "notFound" /\ Goto(r, "put")
         \/ answer = "error"    /\ Fail(r)
    /\ UNCHANGED <<registry, released>>

Flawed == IF MayBeFlawed /\ ~calm
          THEN {{}, {"metadata"}, {"files"}} ELSE {{}}

\* The registry takes the package.
Accept(p, tag) ==
    /\ p \notin accepted
    /\ accepted' = accepted \cup {p}
    /\ \E f \in Flawed : flaws' = [flaws EXCEPT ![p] = f]
    /\ distTags' = IF p = Root THEN distTags \cup {tag} ELSE distTags

Answered(r, answer) ==
    runs' = [runs EXCEPT ![r].answer = answer, ![r].pc = "recheck"]

\* npm publish: taken; taken, but the answer is lost; refused for now, which
\* may leave an entry in the transparency log; refused because of such an
\* entry; refused for good (the version exists, no rights).
Put(r) ==
    LET p == runs[r].at IN
    /\ runs[r].pc = "put"
    /\ \/ /\ Accept(p, runs[r].tag)
          /\ NextPackage(r)
          /\ UNCHANGED logged
       \/ /\ ~calm
          /\ Accept(p, runs[r].tag)
          /\ Answered(r, "retryable")
          /\ UNCHANGED logged
       \/ /\ ~calm
          /\ Answered(r, "retryable")
          /\ logged' \in {logged, logged \cup {p}}
          /\ UNCHANGED <<accepted, flaws, distTags>>
       \/ /\ p \in logged
          /\ Answered(r, "tlog")
          /\ UNCHANGED <<accepted, flaws, distTags, logged>>
       \/ /\ p \in accepted \/ ~calm
          /\ Answered(r, "fatal")
          /\ UNCHANGED <<accepted, flaws, distTags, logged>>
    /\ UNCHANGED <<visible, calm, released>>

\* isRetryablePublishFailure, and an attempt is left.
MayRetry(run) == run.answer = "retryable" /\ run.attempt < Retries

\* Mutant: an error of npm publish for good is passed over.
RecheckGoesOn(r) ==
    /\ runs[r].pc = "recheck"
    /\ IF MayRetry(runs[r])
       THEN runs' = [runs EXCEPT ![r].attempt = @ + 1, ![r].answer = "none",
                                 ![r].pc = "put"]
       ELSE NextPackage(r)
    /\ UNCHANGED <<registry, released>>

\* After a failure: continue if the package has become visible, give up on a
\* log conflict, try again what may succeed.
Recheck(r) ==
    /\ runs[r].pc = "recheck"
    /\ \E answer \in View(runs[r].at) :
         \/ answer = "exists" /\ NextPackage(r)
         \/ answer = "notFound" /\ MayRetry(runs[r])
              /\ runs' = [runs EXCEPT ![r].attempt = @ + 1, ![r].answer = "none",
                                      ![r].pc = "put"]
         \/ answer = "notFound" /\ ~MayRetry(runs[r]) /\ Fail(r)
         \/ answer = "error" /\ Fail(r)
    /\ UNCHANGED <<registry, released>>

-----------------------------------------------------------------------------
(* The end of job "package-and-publish".                                   *)

\* check-published.js --verify-tarballs: up to Tries rounds.
Verify(r) ==
    /\ runs[r].pc = "verify"
    /\ \/ /\ ChecksPass(runs[r].tag, TRUE)
          /\ runs' = [runs EXCEPT ![r].pc = "install", ![r].attempt = 1]
       \/ /\ ~ChecksPass(runs[r].tag, TRUE) \/ ~calm
          /\ IF runs[r].attempt < Tries
             THEN runs' = [runs EXCEPT ![r].attempt = @ + 1]
             ELSE Fail(r)
    /\ UNCHANGED <<registry, released>>

\* check-registry-install.js: npm install and what it runs afterwards, on a
\* runner that uses one of the native packages.
CanInstall == Root \in visible /\ \E p \in Packages \ {Root} : TarballVerified(p)

Install(r) ==
    /\ runs[r].pc = "install"
    /\ \/ CanInstall /\ Goto(r, "announce")
       \/ /\ ~CanInstall \/ ~calm
          /\ IF runs[r].attempt < Tries
             THEN runs' = [runs EXCEPT ![r].attempt = @ + 1]
             ELSE Fail(r)
    /\ UNCHANGED <<registry, released>>

\* gh release create or edit: only when a tag was pushed.
Announce(r) ==
    /\ runs[r].pc = "announce"
    /\ released' = (released \/ r \in Pushed)
    /\ runs' = [runs EXCEPT ![r] = Idle]
    /\ UNCHANGED registry

\* A job is cancelled, times out, or loses its runner.
Die(r) ==
    /\ ~calm
    /\ runs[r] # Idle
    /\ Fail(r)
    /\ UNCHANGED <<registry, released>>

-----------------------------------------------------------------------------
Step(r) ==
    \/ Look(r) \/ Decide(r) \/ Build(r) \/ PackageExists(r) \/ Put(r)
    \/ Recheck(r) \/ Verify(r) \/ Install(r) \/ Announce(r)

ReleaseNext ==
    \/ CalmDown
    \/ \E p \in Packages : ShowUp(p)
    \/ \E r \in Runs :
        \/ Step(r) \/ Die(r)
        \/ \E tag \in Tags : Begin(r, tag)

\* Runs go on, accepted packages show up, and the maintainer starts a failed
\* tag run again.
Fairness ==
    /\ \A p \in Packages : WF_releaseVars(ShowUp(p))
    /\ \A r \in Runs : /\ WF_releaseVars(Step(r))
                       /\ \A tag \in Tags : r \in Pushed => SF_releaseVars(Begin(r, tag))

ReleaseSpec == ReleaseInit /\ [][ReleaseNext]_releaseVars
FairReleaseSpec == ReleaseSpec /\ Fairness

-----------------------------------------------------------------------------
(* Properties.                                                             *)

RunState == [pc : {"idle", "look", "decide", "build", "exists", "put", "recheck",
                   "verify", "install", "announce"},
             tag : Tags \cup {"none"}, full : BOOLEAN,
             seen : SUBSET Packages, failed : SUBSET Packages,
             state : {"unknown", "available", "published", "partial"},
             at : Packages, attempt : Nat,
             answer : {"none", "retryable", "tlog", "fatal"}]

\* What the variables hold; a run that has begun has a dist-tag.
TypeOK ==
    /\ accepted \subseteq Packages /\ visible \subseteq accepted
    /\ flaws \in [Packages -> SUBSET {"metadata", "files"}]
    /\ distTags \subseteq Tags /\ logged \subseteq Packages
    /\ calm \in BOOLEAN /\ released \in BOOLEAN
    /\ runs \in [Runs -> RunState]
    /\ \A r \in Runs : runs[r].pc # "idle" => runs[r].tag \in Tags

\* Whatever fails, dies or runs twice: nobody can install a root package
\* whose native packages the registry does not have.
RootLast == Root \in accepted => accepted = Packages

\* The GitHub release is only made for a version that is there completely,
\* in order, and under a dist-tag.
AnnouncedIsComplete ==
    released =>
        /\ visible = Packages
        /\ \A p \in Packages : flaws[p] = {}
        /\ distTags # {}

\* A run that builds and publishes.
Publishes(r) == runs[r].pc \in {"build", "exists", "put", "recheck"}

\* An npm that does not answer is taken neither for a registry that has
\* something nor for one that lacks it: a run takes up a release only if part
\* of it is there, and a run that begins when all of it is there neither
\* builds nor publishes, whichever of its looks fail.
ErrorsDecideNothing ==
    \A r \in Runs :
        /\ runs[r].state = "partial" => visible # {}
        /\ runs[r].full => ~Publishes(r)

\* Once nothing fails any more, running the workflow again finishes what any
\* earlier run has left half done, unless a package was published wrong,
\* under another dist-tag only, or is blocked by its log entry.
Recoverable ==
    /\ calm
    /\ logged = {}
    /\ \A p \in Packages : flaws[p] = {}
    /\ Root \in accepted => distTags = Tags

RerunsFinish == <>[]Recoverable => <>released
=============================================================================
