----------------------------- MODULE E2EHarness -----------------------------
(***************************************************************************)
(* The live end-to-end tier: run.sh restores a seed into a volume, boots   *)
(* a controller on it and runs the tests; bootstrap.sh bakes the seed by   *)
(* hand on a stack of its own ports and names, so that it may run beside   *)
(* a run.  The two share the seed: an archive and the env file that holds  *)
(* the key the archive's database accepts.                                 *)
(*                                                                         *)
(* Nothing keeps two runs apart: they share the container and the volume   *)
(* by name, and the generated artifacts in the tree.  One bake is under    *)
(* way at a time.                                                          *)
(*                                                                         *)
(* What a volume holds is abstracted to the bake its database comes from   *)
(* and the runs whose rows are in it.  A bake's key is the bake's number.  *)
(* Docker's answers are external: a volume that a container uses, up or    *)
(* stopped, is not removed, and one that is missing is made when it is     *)
(* mounted.                                                                *)
(***************************************************************************)
EXTENDS Integers, FiniteSets

CONSTANTS
  NoFile,    \* a file that is not there
  Pointer,   \* a git-lfs pointer in the place of the archive
  NoVolume,  \* a volume that does not exist
  MaxTries,  \* attempts of the readiness gate (120 in run.sh)
  MaxRuns,   \* runs started
  MaxBakes,  \* bakes minted, the committed one (1) included
  Trees,     \* the generated artifacts the working tree may start with
  KeepUps,   \* values of --keep-up, which is asked for at the teardown only
  Faults     \* what may go wrong, a subset of FaultKinds

FaultKinds == {"kill", "extract", "start", "down"}

Artifacts == {"schema", "metadata", "openapi"}
Bakes == 1..MaxBakes
Runs  == 1..MaxRuns
Blank == 0   \* no bake: an empty database, a file without a key

Keys     == Bakes \cup {Blank}
Archives == [bake : Bakes, whole : BOOLEAN]
Data     == [bake : Keys, rows : SUBSET Runs]

ASSUME HarnessAssumption ==
  /\ MaxTries \in Nat \ {0} /\ MaxRuns \in Nat /\ MaxBakes \in Nat \ {0}
  /\ KeepUps \subseteq BOOLEAN /\ Faults \subseteq FaultKinds
  /\ Trees \subseteq SUBSET Artifacts
  /\ NoFile \notin Keys /\ NoVolume \notin Data
  /\ {NoFile, Pointer} \cap Archives = {}

VARIABLES
  seed,      \* the archive: NoFile, Pointer or [bake, whole]
  env,       \* seed.env: NoFile, or the key in it
  artifacts, \* the generated artifacts present in the tree
  volume,    \* the live tier's volume
  box,       \* the live tier's container, which runs on that volume
  runs,      \* each run.sh: where it is, what it has read, how it came out
  left,      \* runs that ended and may have left something up
  mint,      \* bootstrap.sh: [pc, bake, key]
  minted     \* bakes made so far

vars == <<seed, env, artifacts, volume, box, runs, left, mint, minted>>
harness == <<seed, env, mint, minted>>    \* what run.sh only reads

\* free: it found no container when it restored, and no other run has been
\* at the harness since.  restored: the bake of the archive it restored.
NotStarted == [pc |-> "new", key |-> Blank, tries |-> 0, trap |-> FALSE,
               free |-> FALSE, restored |-> Blank, verdict |-> "none"]

Init ==
  /\ seed \in {[bake |-> 1, whole |-> TRUE], Pointer, NoFile}
  /\ env \in {1, NoFile}
  /\ artifacts \in Trees
  /\ volume = NoVolume
  /\ box = "none"
  /\ runs = [r \in Runs |-> NotStarted]
  /\ left = {}
  /\ mint = [pc |-> "idle", bake |-> Blank, key |-> Blank]
  /\ minted = 1

-----------------------------------------------------------------------------
(* run.sh, with no lock between one run and another *)

At(r, pc)   == runs[r].pc = pc
Goes(r, pc) == runs' = [runs EXCEPT ![r] = [@ EXCEPT !.pc = pc]]

\* Places at which the teardown trap is set: the run is at the harness.
Trapped == {"recreate", "untar", "up", "gate", "tests", "check", "teardown", "remove"}
Others(r) == {q \in Runs \ {r} : runs[q].pc \in Trapped}

\* make test-e2e builds first; run.sh on its own does not.
StartRun(r) ==
  /\ At(r, "new")
  /\ \A q \in 1..(r - 1) : ~At(q, "new")    \* runs are numbered as they start
  /\ artifacts' \in {artifacts, Artifacts}
  /\ Goes(r, "preflight")
  /\ UNCHANGED <<harness, volume, box, left>>

\* The process is gone, and with it all but how it came out.
Gone(verdict) == [NotStarted EXCEPT !.pc = "over", !.verdict = verdict]
Ends(r) == runs' = [runs EXCEPT ![r] = Gone(@.verdict)]

\* The script is done.  Before the trap is set nothing is torn down.
Exit(r, verdict) ==
  runs' = [runs EXCEPT ![r] = IF @.trap THEN [@ EXCEPT !.pc = "teardown", !.verdict = verdict]
                              ELSE Gone(verdict)]

Fails(r) == Exit(r, "red") /\ UNCHANGED <<harness, artifacts, volume, box, left>>

IsArchive == seed \notin {NoFile, Pointer}

\* Half an archive may still be under the size that tells a pointer.
PreflightFails(r) ==
  /\ At(r, "preflight")
  /\ \/ ~IsArchive \/ env = NoFile
     \/ IsArchive /\ ~seed.whole
     \/ "schema" \notin artifacts    \* make build fails
  /\ Fails(r)

Preflight(r) ==
  /\ At(r, "preflight")
  /\ IsArchive
  /\ env # NoFile
  /\ artifacts' = IF "schema" \in artifacts THEN artifacts ELSE Artifacts
  /\ Goes(r, "key")
  /\ UNCHANGED <<harness, volume, box, left>>

KeyMissing(r) == At(r, "key") /\ env = Blank /\ Fails(r)

\* From the trap on a run may take down what any other put up.
Enter(r, trap) ==
  runs' = [q \in Runs |->
    IF q = r THEN [runs[r] EXCEPT !.pc = "recreate", !.key = env, !.trap = trap]
    ELSE IF runs[q].pc \in Trapped THEN [runs[q] EXCEPT !.free = FALSE]
    ELSE runs[q]]

\* Broken: the trap is left for later.
SourceKeyOnly(r) ==
  /\ At(r, "key") /\ env # Blank
  /\ Enter(r, FALSE)
  /\ UNCHANGED <<harness, artifacts, volume, box, left>>

\* The key is read and the teardown trap set.
SourceKey(r) ==
  /\ At(r, "key") /\ env # Blank
  /\ Enter(r, TRUE)
  /\ UNCHANGED <<harness, artifacts, volume, box, left>>

Empty == [bake |-> Blank, rows |-> {}]
Mounted == IF volume = NoVolume THEN Empty ELSE volume

\* Broken: the old volume is not removed first.
RecreateOnly(r) ==
  /\ At(r, "recreate")
  /\ volume' = Mounted
  /\ runs' = [runs EXCEPT ![r] = [@ EXCEPT !.pc = "untar", !.free = box = "none" /\ Others(r) = {}]]
  /\ UNCHANGED <<harness, artifacts, box, left>>

\* restore.sh: rm || true, then create, which keeps a volume that is there.
Recreate(r) ==
  /\ At(r, "recreate")
  /\ volume' = IF box = "none" THEN Empty ELSE volume
  /\ runs' = [runs EXCEPT ![r] = [@ EXCEPT !.pc = "untar", !.free = box = "none" /\ Others(r) = {}]]
  /\ UNCHANGED <<harness, artifacts, box, left>>

\* restore.sh asks for the size once more; then docker may refuse.
RecreateFails(r) == At(r, "recreate") /\ (~seed.whole \/ "start" \in Faults) /\ Fails(r)

\* The shell in the container ends with "; true": a tar that stops short is
\* reported as a complete restore, and its database may be of any age.  So
\* may one whose files are replaced over older ones.  Rows of another table
\* file stay.
Untar(r) ==
  /\ At(r, "untar")
  /\ \E bake \in {seed.bake} \cup
         (IF ~seed.whole \/ "extract" \in Faults \/ Mounted # Empty
          THEN {Blank, Mounted.bake} ELSE {}) :
       volume' = [Mounted EXCEPT !.bake = bake]
  /\ runs' = [runs EXCEPT ![r] = [@ EXCEPT !.pc = "up", !.restored = seed.bake]]
  /\ UNCHANGED <<harness, artifacts, box, left>>

UntarFails(r) == At(r, "untar") /\ "start" \in Faults /\ Fails(r)

\* A container that is up already stays as it is, whoever put it up.
Up(r) ==
  /\ At(r, "up")
  /\ box' = IF box \in {"none", "stopped"} THEN "booting" ELSE box
  /\ volume' = Mounted
  /\ Goes(r, "gate")
  /\ UNCHANGED <<harness, artifacts, left>>

\* Before it fails, compose may have made the container.
UpFails(r) ==
  /\ At(r, "up") /\ "start" \in Faults
  /\ \/ UNCHANGED <<volume, box>>
     \/ box = "none" /\ box' = "stopped" /\ volume' = Mounted
  /\ Exit(r, "red")
  /\ UNCHANGED <<harness, artifacts, left>>

\* The edge serves a page while it boots, then the API answers with errors;
\* past that it gets only with a database that has been through the wizard.
ControllerComesUp ==
  /\ \/ box = "booting" /\ box' = "answering"
     \/ box = "answering" /\ volume.bake # Blank /\ box' = "serving"
  /\ UNCHANGED <<harness, artifacts, volume, runs, left>>

\* A body that begins with a brace.  curl is not asked for the status: an
\* error, for a key that is not accepted too, is JSON as well.
AnswersJSON(r) == box \in {"answering", "serving"}

\* A request with this key is answered with data.
Accepts(r) == box = "serving" /\ volume.bake = runs[r].key

GateOpens(r) ==
  /\ At(r, "gate") /\ runs[r].tries < MaxTries
  /\ AnswersJSON(r)
  /\ Goes(r, "tests")
  /\ UNCHANGED <<harness, artifacts, volume, box, left>>

\* Broken: one attempt too many.
GateTriesAgain(r) ==
  /\ At(r, "gate") /\ runs[r].tries <= MaxTries
  /\ runs' = [runs EXCEPT ![r].tries = @ + 1]
  /\ UNCHANGED <<harness, artifacts, volume, box, left>>

\* Broken: the loop never counts.
GateTriesOn(r) == At(r, "gate") /\ UNCHANGED vars

\* curl gives up after 3 s, whatever the controller's state.
GateTries(r) ==
  /\ At(r, "gate") /\ runs[r].tries < MaxTries
  /\ runs' = [runs EXCEPT ![r].tries = @ + 1]
  /\ UNCHANGED <<harness, artifacts, volume, box, left>>

GateTimesOut(r) == At(r, "gate") /\ runs[r].tries = MaxTries /\ Fails(r)

\* readArtifact skips every test when an artifact is missing.
TestsSkip(r) ==
  /\ At(r, "tests") /\ artifacts # Artifacts
  /\ Exit(r, "skipped")
  /\ UNCHANGED <<harness, artifacts, volume, box, left>>

\* Countries and sites are read, then a record is created.
TestsCreate(r) ==
  /\ At(r, "tests") /\ artifacts = Artifacts
  /\ Accepts(r)
  /\ volume' = [volume EXCEPT !.rows = @ \cup {r}]
  /\ Goes(r, "check")
  /\ UNCHANGED <<harness, artifacts, box, left>>

\* The record is there to be read, changed and deleted.
TestsPass(r) ==
  /\ At(r, "check")
  /\ Accepts(r) /\ r \in volume.rows
  /\ volume' = [volume EXCEPT !.rows = @ \ {r}]
  /\ Exit(r, "green")
  /\ UNCHANGED <<harness, artifacts, box, left>>

\* Any request may fail, be it for the key, the controller or the provider;
\* the record stays if its deletion fails too.
TestsFail(r) ==
  /\ (At(r, "tests") /\ artifacts = Artifacts) \/ At(r, "check")
  /\ Fails(r)

\* compose down -v takes whichever container is up.  The volume is not one
\* compose made: it may be left to the next line.
ComposeDown(r) ==
  /\ At(r, "teardown") /\ FALSE \in KeepUps
  /\ \/ box' = "none" /\ volume' \in {volume, NoVolume} /\ left' = {}
     \/ "down" \in Faults /\ left' = left \cup {r} /\ UNCHANGED <<volume, box>>
  /\ Goes(r, "remove")
  /\ UNCHANGED <<harness, artifacts>>

RemoveVolume(r) ==
  /\ At(r, "remove")
  /\ \/ volume' = (IF box = "none" THEN NoVolume ELSE volume) /\ UNCHANGED left
     \/ "down" \in Faults /\ left' = left \cup {r} /\ UNCHANGED volume
  /\ Ends(r)
  /\ UNCHANGED <<harness, artifacts, box>>

KeepUp(r) ==
  /\ At(r, "teardown") /\ TRUE \in KeepUps
  /\ left' = left \cup {r}
  /\ Ends(r)
  /\ UNCHANGED <<harness, artifacts, volume, box>>

\* SIGKILL: no trap runs.
KillRun(r) ==
  /\ "kill" \in Faults /\ runs[r].pc \notin {"new", "over"}
  /\ left' = IF runs[r].trap THEN left \cup {r} ELSE left
  /\ Ends(r)
  /\ UNCHANGED <<harness, artifacts, volume, box>>

-----------------------------------------------------------------------------
(* bootstrap.sh.  Its stack is its own: up from "wizard" to "stopped". *)

live == <<artifacts, volume, box, runs, left>>   \* what it never touches
Mints(pc) == mint' = [mint EXCEPT !.pc = pc]
NoMint == [pc |-> "idle", bake |-> Blank, key |-> Blank]
MintOver == mint' = NoMint    \* its stack may be left up: the next bake removes it first

\* A clean slate: whatever an earlier bake left up is removed.
StartBake ==
  /\ mint.pc = "idle" /\ minted < MaxBakes
  /\ Mints("edge")
  /\ UNCHANGED <<live, seed, env, minted>>

EdgeNeverUp == mint.pc = "edge" /\ MintOver /\ UNCHANGED <<live, seed, env, minted>>

\* The maintainer walks through the wizard and pastes a key, or the wrong one.
PasteKey ==
  /\ mint.pc = "edge"
  /\ minted' = minted + 1
  /\ \E key \in Keys :
       mint' = [pc |-> "verify", bake |-> minted', key |-> key]
  /\ UNCHANGED <<live, seed, env>>

\* An empty key ends the script; any other passes on a body that begins with
\* a brace, which the API may give for a wrong key too.
VerifyKey ==
  /\ mint.pc = "verify"
  /\ \/ mint.key # Blank /\ Mints("stop")
     \/ MintOver
  /\ UNCHANGED <<live, seed, env, minted>>

\* The graceful stop, after which the archive is written in place.
BeginArchive ==
  /\ mint.pc = "stop"
  /\ seed' = [bake |-> mint.bake, whole |-> FALSE]
  /\ Mints("archive")
  /\ UNCHANGED <<live, env, minted>>

EndArchive ==
  /\ mint.pc = "archive"
  /\ seed' = [seed EXCEPT !.whole = TRUE]
  /\ Mints("env")
  /\ UNCHANGED <<live, env, minted>>

\* cat > seed.env empties the file first.
TruncateEnv ==
  /\ mint.pc = "env"
  /\ env' = Blank
  /\ Mints("writing")
  /\ UNCHANGED <<live, seed, minted>>

WriteEnv ==
  /\ mint.pc = "writing"
  /\ env' = mint.key
  /\ Mints("baked")
  /\ UNCHANGED <<live, seed, minted>>

TeardownMint ==
  /\ mint.pc = "baked"
  /\ MintOver
  /\ UNCHANGED <<live, seed, env, minted>>

\* docker, tar or the write fails, or the script is killed: no trap here.
BakeDies ==
  /\ mint.pc \in {"stop", "archive", "env", "writing"}
  /\ MintOver
  /\ UNCHANGED <<live, seed, env, minted>>

-----------------------------------------------------------------------------
RunStep(r) ==
  \/ PreflightFails(r) \/ Preflight(r) \/ KeyMissing(r) \/ SourceKey(r)
  \/ Recreate(r) \/ RecreateFails(r) \/ Untar(r) \/ UntarFails(r) \/ Up(r) \/ UpFails(r)
  \/ GateOpens(r) \/ GateTries(r) \/ GateTimesOut(r)
  \/ TestsSkip(r) \/ TestsCreate(r) \/ TestsPass(r) \/ TestsFail(r)
  \/ ComposeDown(r) \/ RemoveVolume(r) \/ KeepUp(r)

MintStep ==
  \/ StartBake \/ EdgeNeverUp \/ PasteKey \/ VerifyKey \/ BeginArchive
  \/ EndArchive \/ TruncateEnv \/ WriteEnv \/ TeardownMint \/ BakeDies

Next ==
  \/ \E r \in Runs : StartRun(r) \/ RunStep(r) \/ KillRun(r)
  \/ ControllerComesUp \/ MintStep

Spec == Init /\ [][Next]_vars

\* Each run's shell goes on while the script has a step to take.  Nothing is
\* asked of the controller, of the maintainer or of who starts a run.
FairSpec == Spec /\ \A r \in Runs : WF_vars(RunStep(r))

-----------------------------------------------------------------------------
PCs == {"new", "preflight", "key", "over"} \cup Trapped
MintPCs == {"idle", "edge", "verify", "stop", "archive", "env", "writing", "baked"}
Phases == {"none", "stopped", "booting", "answering", "serving"}
Run == [pc : PCs, key : Keys, tries : 0..MaxTries, trap : BOOLEAN,
        free : BOOLEAN, restored : Keys, verdict : {"none", "red", "green", "skipped"}]

\* Every file, volume and process has a value its script can give it, and a
\* container has its volume (restore.sh:41-49, run.sh:81-105).
TypeOK ==
  /\ seed \in {NoFile, Pointer} \cup Archives
  /\ env \in {NoFile} \cup Keys
  /\ artifacts \subseteq Artifacts
  /\ volume \in {NoVolume} \cup Data
  /\ box \in Phases
  /\ runs \in [Runs -> Run]
  /\ left \subseteq Runs
  /\ mint \in [pc : MintPCs, bake : Keys, key : Keys]
  /\ minted \in Bakes
  /\ box # "none" => volume # NoVolume

\* A bake that dies between the archive and the env file, was given a wrong
\* key, or replaces them between a run's reads of the two, makes no run
\* green: one that was free and passed its tests has restored the archive
\* of the bake whose key it had read (run.sh:70-110, bootstrap.sh:120-167).
GreenIsOfOneBake ==
  \A r \in Runs : runs[r].verdict = "green" /\ runs[r].free => runs[r].restored = runs[r].key

\* Whichever steps of whichever overlapping runs failed, and though one
\* takes down what another put up: when all are over, and none that ended
\* after the last controller was taken down was kept, killed or refused by
\* docker, neither container nor volume is left (run.sh:73-84).
NothingLeftBehind ==
  (\A r \in Runs : runs[r].pc \in {"new", "over"}) /\ left = {}
  => box = "none" /\ volume = NoVolume

\* Every run ends, whether the controller comes up or not: the gate is
\* bounded (run.sh:98-105).
RunEnds == \A r \in Runs : []<>(runs[r].pc \in {"new", "over"})

\* "restore the committed seed into a fresh volume" (run.sh:4): whatever
\* volume earlier runs that were kept, killed or cut short have left, the
\* tests of a run that is free meet no rows but their own, in a database of
\* the archive it restored (restore.sh:41-49).
FreshWhenFree ==
  \A r \in Runs : runs[r].free /\ runs[r].pc \in {"gate", "tests", "check"}
    => volume.rows \subseteq {r} /\ volume.bake \in {runs[r].restored, Blank}

\* "run directly, it will make build the generated artifacts if they are
\* missing" (run.sh:23-24): a run that succeeds has run its tests.
GreenMeansTested == \A r \in Runs : runs[r].verdict # "skipped"
=============================================================================
