-------------------------- MODULE E2EHarnessProofs --------------------------
(***************************************************************************)
(* What holds of E2EHarness.tla for any number of overlapping runs, of     *)
(* bakes and of attempts of the gate, any tree and any set of faults: its  *)
(* types, that a green run that was free restored the archive of the bake  *)
(* whose key it had read, on a volume that was fresh, and that the last of *)
(* the runs to end leaves nothing up.                                      *)
(***************************************************************************)
EXTENDS E2EHarness, TLAPS

\* Where a run may hold a volume, a container, and rows of its own.
Mine    == {"untar", "up", "gate", "tests", "check", "teardown", "remove"}
BoxUp   == {"gate", "tests", "check", "teardown"}
Testing == {"up", "gate", "tests", "check"}
Tested  == {"teardown", "remove", "over"}

\* What run.sh knows at each of its places: the seed it has looked at has not
\* become a pointer again, and the key it has read is one.
RunKnows(r) ==
  /\ runs[r].trap <=> runs[r].pc \in Trapped
  /\ runs[r].pc \in Trapped => runs[r].key \in Bakes
  /\ runs[r].pc \in Trapped \cup {"key"} => seed \in Archives /\ env # NoFile
  /\ runs[r].verdict = "green" => runs[r].pc \in Tested

\* A run that is free has the volume to itself, and nothing older is in it.
FreeKnows(r) ==
  runs[r].free =>
    /\ runs[r].pc \in Mine /\ Others(r) = {}
    /\ runs[r].pc = "untar" => box = "none" /\ volume = Empty
    /\ runs[r].pc \in Testing =>
         volume \in Data /\ volume.rows \subseteq {r} /\ volume.bake \in {runs[r].restored, Blank}
    /\ runs[r].verdict = "green" => runs[r].restored = runs[r].key

\* What bootstrap.sh has minted and written at each of its places.
MintKnows ==
  /\ mint.pc \in {"verify", "stop", "archive", "env", "writing", "baked"} => mint.bake \in Bakes
  /\ mint.pc = "archive" => seed \in Archives
  /\ mint.pc = "edge" => minted < MaxBakes

IInv ==
  /\ TypeOK
  /\ \A r \in Runs : RunKnows(r) /\ FreeKnows(r)
  /\ MintKnows

\* A container or a volume is some run's that will yet take it down, unless
\* one ended without.
Held ==
  left = {} =>
    /\ box # "none" => \E r \in Runs : runs[r].pc \in BoxUp
    /\ volume # NoVolume => \E r \in Runs : runs[r].pc \in Mine

LEMMA BlankIsNoBake == Blank \notin Bakes /\ NoFile \notin Keys /\ Bakes \subseteq Keys /\ Blank \in Keys
  BY HarnessAssumption DEF Blank, Bakes, Keys

LEMMA Files == /\ NoVolume \notin Data /\ NoFile \notin Archives /\ Pointer \notin Archives
  BY HarnessAssumption

LEMMA EmptyIsData == Empty \in Data /\ Empty.rows = {} /\ Empty.bake = Blank
  BY BlankIsNoBake DEF Empty, Data

\* A run that has not started, and one that is gone.
LEMMA Idle ==
  ASSUME NEW verdict \in {"none", "red", "green", "skipped"}
  PROVE  /\ NotStarted \in Run /\ NotStarted.pc = "new" /\ ~NotStarted.trap /\ ~NotStarted.free
         /\ NotStarted.verdict = "none"
         /\ Gone(verdict) \in Run /\ Gone(verdict).pc = "over"
         /\ ~Gone(verdict).trap /\ ~Gone(verdict).free
<1>1. NotStarted \in Run
  BY BlankIsNoBake, HarnessAssumption DEF NotStarted, Run, PCs
<1>2. NotStarted.pc = "new" /\ ~NotStarted.trap /\ ~NotStarted.free /\ NotStarted.verdict = "none"
  BY DEF NotStarted
<1>3. Gone(verdict) \in Run /\ Gone(verdict).pc = "over"
  BY <1>1 DEF Gone, Run, PCs
<1>4. ~Gone(verdict).trap /\ ~Gone(verdict).free
  BY DEF Gone, NotStarted
<1>5. QED
  BY <1>1, <1>2, <1>3, <1>4

LEMMA InitIInv == Init => IInv /\ Held
<1> SUFFICES ASSUME Init PROVE IInv /\ Held
  OBVIOUS
<1>1. 1 \in Bakes
  BY HarnessAssumption DEF Bakes
<1>2. \A r \in Runs : runs[r] = NotStarted
  BY DEF Init
<1>3. TypeOK
  <2>1. seed \in {NoFile, Pointer} \cup Archives /\ env \in {NoFile} \cup Keys
    <3>1. [bake |-> 1, whole |-> TRUE] \in Archives
      BY <1>1 DEF Archives
    <3>2. QED
      BY <1>1, <3>1, BlankIsNoBake DEF Init
  <2>2. artifacts \subseteq Artifacts
    BY HarnessAssumption DEF Init
  <2>3. runs \in [Runs -> Run]
    BY Idle DEF Init
  <2>4. mint \in [pc : MintPCs, bake : Keys, key : Keys]
    BY BlankIsNoBake DEF Init, MintPCs
  <2>5. QED
    BY <1>1, <2>1, <2>2, <2>3, <2>4 DEF Init, TypeOK, Phases
<1>4. \A r \in Runs : RunKnows(r) /\ FreeKnows(r)
  BY <1>2, Idle DEF RunKnows, FreeKnows, Trapped
<1>5. MintKnows /\ Held
  BY DEF Init, MintKnows, Held
<1>6. QED
  BY <1>3, <1>4, <1>5 DEF IInv

-----------------------------------------------------------------------------
(* The steps of one run *)

\* A step of one run, to a record that knows what it should, disturbs no run
\* that is free: those that are not at the harness touch neither container
\* nor volume.
LEMMA OneRun ==
  ASSUME IInv, NEW r \in Runs, NEW rec \in Run,
         runs' = [runs EXCEPT ![r] = rec],
         UNCHANGED harness,
         artifacts' \subseteq Artifacts, volume' \in {NoVolume} \cup Data,
         box' \in Phases, left' \subseteq Runs, box' # "none" => volume' # NoVolume,
         rec.trap <=> rec.pc \in Trapped,
         rec.pc \in Trapped => rec.key \in Bakes /\ runs[r].pc \in Trapped,
         rec.pc = "key" => seed \in Archives /\ env # NoFile,
         runs[r].pc \notin Trapped => UNCHANGED <<volume, box>>,
         rec.free => rec.pc \in Mine /\ Others(r) = {},
         rec.free /\ rec.pc = "untar" => box' = "none" /\ volume' = Empty,
         rec.free /\ rec.pc \in Testing =>
           volume' \in Data /\ volume'.rows \subseteq {r} /\ volume'.bake \in {rec.restored, Blank},
         rec.verdict = "green" => rec.pc \in Tested,
         rec.free /\ rec.verdict = "green" => rec.restored = rec.key
  PROVE  IInv'
<1>1. /\ runs' \in [Runs -> Run] /\ runs'[r] = rec
      /\ \A q \in Runs : q # r => runs'[q] = runs[q]
  BY DEF IInv, TypeOK
<1>2. TypeOK'
  BY <1>1 DEF IInv, TypeOK, harness
<1>3. MintKnows'
  BY DEF IInv, MintKnows, harness
<1>4. ASSUME NEW q \in Runs PROVE RunKnows(q)' /\ FreeKnows(q)'
  <2>1. RunKnows(q) /\ FreeKnows(q) /\ RunKnows(r)
    BY DEF IInv
  <2>2. CASE q = r
    <3>1. RunKnows(q)'
      BY <1>1, <2>1, <2>2 DEF RunKnows, harness
    <3>2. Others(r)' = Others(r)
      BY <1>1 DEF Others
    <3>3. FreeKnows(q)'
      BY <1>1, <2>2, <3>2 DEF FreeKnows
    <3>4. QED
      BY <3>1, <3>3
  <2>3. CASE q # r
    <3>1. runs'[q] = runs[q]
      BY <1>1, <2>3
    <3>2. RunKnows(q)'
      BY <2>1, <3>1 DEF RunKnows, harness
    <3>3. ASSUME runs[q].free PROVE r \notin Others(q) /\ UNCHANGED <<volume, box>> /\ Others(q)' = {}
      <4>1. Others(q) = {}
        BY <2>1, <3>3 DEF FreeKnows
      <4>2. runs[r].pc \notin Trapped
        BY <2>3, <4>1 DEF Others
      <4>3. rec.pc \notin Trapped
        BY <4>2
      <4>4. Others(q)' = {}
        BY <1>1, <4>1, <4>3 DEF Others
      <4>5. QED
        BY <4>1, <4>2, <4>4
    <3>4. FreeKnows(q)'
      BY <2>1, <3>1, <3>3 DEF FreeKnows
    <3>5. QED
      BY <3>2, <3>4
  <2>4. QED
    BY <2>2, <2>3
<1>5. QED
  BY <1>2, <1>3, <1>4 DEF IInv

\* The script is done, whatever came out.
LEMMA ExitKeeps ==
  ASSUME IInv, NEW r \in Runs, NEW verdict \in {"red", "green", "skipped"}, Exit(r, verdict),
         UNCHANGED <<harness, artifacts, left>>,
         volume' \in {NoVolume} \cup Data, box' \in Phases, box' # "none" => volume' # NoVolume,
         runs[r].pc \notin Trapped => UNCHANGED <<volume, box>>,
         verdict = "green" /\ runs[r].free => runs[r].restored = runs[r].key
  PROVE  IInv' /\ (runs[r].pc \in Trapped => runs'[r].pc = "teardown")
<1> DEFINE rec == IF runs[r].trap THEN [runs[r] EXCEPT !.pc = "teardown", !.verdict = verdict]
                  ELSE Gone(verdict)
<1>1. runs[r] \in Run /\ runs' = [runs EXCEPT ![r] = rec] /\ runs'[r] = rec /\ RunKnows(r) /\ FreeKnows(r)
  BY DEF IInv, TypeOK, Exit
<1>2. CASE runs[r].trap
  <2>1. rec = [runs[r] EXCEPT !.pc = "teardown", !.verdict = verdict]
    BY <1>2
  <2>2. /\ rec \in Run /\ rec.pc = "teardown" /\ rec.verdict = verdict /\ rec.trap
        /\ rec.key = runs[r].key /\ rec.free = runs[r].free /\ rec.restored = runs[r].restored
    BY <1>1, <1>2, <2>1 DEF Run, PCs, Trapped
  <2>3. rec.free => Others(r) = {}
    BY <1>1, <2>2 DEF FreeKnows
  <2>4. runs[r].pc \in Trapped /\ runs[r].key \in Bakes
    BY <1>1, <1>2 DEF RunKnows
  <2>5. artifacts' \subseteq Artifacts /\ left' \subseteq Runs /\ UNCHANGED harness
    BY DEF IInv, TypeOK
  <2> HIDE DEF rec
  <2>6. IInv'
    BY <1>1, <2>2, <2>3, <2>4, <2>5, OneRun DEF Trapped, Mine, Testing, Tested
  <2>7. QED
    BY <1>1, <2>2, <2>6
<1>3. CASE ~runs[r].trap
  <2>1. rec = Gone(verdict)
    BY <1>3
  <2>2. rec \in Run /\ rec.pc = "over" /\ ~rec.trap /\ ~rec.free
    BY <2>1, Idle
  <2>3. runs[r].pc \notin Trapped
    BY <1>1, <1>3 DEF RunKnows
  <2>4. artifacts' \subseteq Artifacts /\ left' \subseteq Runs /\ UNCHANGED harness
    BY DEF IInv, TypeOK
  <2> HIDE DEF rec
  <2>5. IInv'
    BY <1>1, <2>2, <2>3, <2>4, OneRun DEF Trapped, Tested
  <2>6. QED
    BY <2>3, <2>5
<1>4. QED
  BY <1>2, <1>3

LEMMA FailsKeeps ==
  ASSUME IInv, NEW r \in Runs, Fails(r)
  PROVE  IInv' /\ (runs[r].pc \in Trapped => runs'[r].pc = "teardown") /\ UNCHANGED <<volume, box, left>>
<1>1. Exit(r, "red") /\ UNCHANGED <<harness, artifacts, volume, box, left>>
  BY DEF Fails
<1>2. QED
  BY <1>1, ExitKeeps DEF IInv, TypeOK

\* A step on to another place of the script, with nothing else of the run changed.
LEMMA GoesKeeps ==
  ASSUME IInv, NEW r \in Runs, NEW pc \in PCs \ {"untar", "over"}, Goes(r, pc),
         UNCHANGED harness,
         artifacts' \subseteq Artifacts, volume' \in {NoVolume} \cup Data,
         box' \in Phases, left' \subseteq Runs, box' # "none" => volume' # NoVolume,
         pc \in Trapped <=> runs[r].pc \in Trapped,
         pc = "key" => seed \in Archives /\ env # NoFile,
         runs[r].pc \in Tested => pc \in Tested,
         runs[r].pc \notin Trapped => UNCHANGED <<volume, box>>,
         runs[r].free => pc \in Mine,
         runs[r].free /\ pc \in Testing =>
           volume' \in Data /\ volume'.rows \subseteq {r} /\ volume'.bake \in {runs[r].restored, Blank}
  PROVE  IInv' /\ runs'[r].pc = pc
<1> DEFINE rec == [runs[r] EXCEPT !.pc = pc]
<1>1. runs[r] \in Run /\ runs' = [runs EXCEPT ![r] = rec] /\ runs'[r] = rec /\ RunKnows(r) /\ FreeKnows(r)
  BY DEF IInv, TypeOK, Goes
<1>2. /\ rec \in Run /\ rec.pc = pc /\ rec.verdict = runs[r].verdict /\ rec.trap = runs[r].trap
      /\ rec.key = runs[r].key /\ rec.free = runs[r].free /\ rec.restored = runs[r].restored
  BY <1>1 DEF Run
<1> HIDE DEF rec
<1>3. rec.trap <=> rec.pc \in Trapped
  BY <1>1, <1>2 DEF RunKnows
<1>4. rec.pc \in Trapped => rec.key \in Bakes /\ runs[r].pc \in Trapped
  BY <1>1, <1>2 DEF RunKnows
<1>5. rec.free => rec.pc \in Mine /\ Others(r) = {}
  BY <1>1, <1>2 DEF FreeKnows
<1>6. /\ rec.free /\ rec.verdict = "green" => rec.restored = rec.key
      /\ rec.verdict = "green" => rec.pc \in Tested
  BY <1>1, <1>2 DEF FreeKnows, RunKnows
<1>7. IInv'
  BY <1>1, <1>2, <1>3, <1>4, <1>5, <1>6, OneRun
<1>8. QED
  BY <1>1, <1>2, <1>7

\* The process is gone.
LEMMA EndsKeeps ==
  ASSUME IInv, NEW r \in Runs, Ends(r),
         UNCHANGED harness,
         artifacts' \subseteq Artifacts, volume' \in {NoVolume} \cup Data,
         box' \in Phases, left' \subseteq Runs, box' # "none" => volume' # NoVolume,
         runs[r].pc \notin Trapped => UNCHANGED <<volume, box>>
  PROVE  IInv'
<1> DEFINE rec == Gone(runs[r].verdict)
<1>1. runs[r].verdict \in {"none", "red", "green", "skipped"} /\ runs' = [runs EXCEPT ![r] = rec]
  BY DEF IInv, TypeOK, Run, Ends
<1>2. rec \in Run /\ rec.pc = "over" /\ ~rec.trap /\ ~rec.free
  BY <1>1, Idle
<1> HIDE DEF rec
<1>3. QED
  BY <1>1, <1>2, OneRun DEF Trapped, Tested

\* The trap is set: every other run at the harness is no longer free.
LEMMA SourceKeyKeeps == ASSUME IInv, NEW r \in Runs, SourceKey(r) PROVE IInv'
<1> DEFINE rec == [runs[r] EXCEPT !.pc = "recreate", !.key = env, !.trap = TRUE]
<1>1. /\ runs[r] \in Run /\ runs[r].pc = "key" /\ RunKnows(r) /\ FreeKnows(r)
      /\ UNCHANGED <<harness, artifacts, volume, box, left>>
  BY DEF IInv, TypeOK, SourceKey, At
<1>2. env \in Bakes /\ seed \in Archives /\ env # NoFile /\ env \in Keys
  BY <1>1, BlankIsNoBake DEF SourceKey, RunKnows, IInv, TypeOK, Keys
<1>3. /\ rec \in Run /\ rec.pc = "recreate" /\ rec.key = env /\ rec.trap /\ rec.free = runs[r].free
      /\ rec.verdict = runs[r].verdict
  BY <1>1, <1>2 DEF Run, PCs, Trapped
<1>4. ~rec.free
  BY <1>1, <1>3 DEF FreeKnows, Mine
<1> HIDE DEF rec
<1>5. \A q \in Runs : runs'[q] =
        IF q = r THEN rec
        ELSE IF runs[q].pc \in Trapped THEN [runs[q] EXCEPT !.free = FALSE] ELSE runs[q]
  BY DEF SourceKey, Enter, rec
<1>6. ASSUME NEW q \in Runs, q # r
      PROVE  /\ runs'[q] \in Run /\ runs'[q].pc = runs[q].pc /\ runs'[q].key = runs[q].key
             /\ runs'[q].trap = runs[q].trap /\ runs'[q].verdict = runs[q].verdict
             /\ runs[q].pc \in Trapped => ~runs'[q].free
             /\ runs[q].pc \notin Trapped => runs'[q] = runs[q]
  <2>1. runs[q] \in Run
    BY DEF IInv, TypeOK
  <2>2. QED
    BY <1>5, <1>6, <2>1 DEF Run
<1>7. runs' \in [Runs -> Run]
  <2>1. runs' = [q \in Runs |-> runs'[q]]
    BY DEF SourceKey, Enter
  <2>2. \A q \in Runs : runs'[q] \in Run
    BY <1>3, <1>5, <1>6
  <2>3. QED
    BY <2>1, <2>2
<1>8. TypeOK' /\ MintKnows'
  BY <1>1, <1>7 DEF IInv, TypeOK, MintKnows, harness
<1>9. ASSUME NEW q \in Runs PROVE RunKnows(q)' /\ FreeKnows(q)'
  <2>1. RunKnows(q) /\ FreeKnows(q)
    BY DEF IInv
  <2>2. CASE q = r
    <3>1. runs'[q] = rec
      BY <1>5, <2>2
    <3>2. QED
      BY <1>1, <1>2, <1>3, <1>4, <3>1 DEF RunKnows, FreeKnows, Trapped, Tested, harness
  <2>3. CASE q # r
    <3>1. RunKnows(q)'
      BY <1>1, <1>6, <2>1, <2>3 DEF RunKnows, harness
    <3>2. ~runs'[q].free
      <4>1. runs[q].pc \notin Trapped => ~runs[q].free
        BY <2>1 DEF FreeKnows, Mine, Trapped
      <4>2. QED
        BY <1>6, <2>3, <4>1
    <3>3. QED
      BY <3>1, <3>2 DEF FreeKnows
  <2>4. QED
    BY <2>2, <2>3
<1>10. QED
  BY <1>8, <1>9 DEF IInv

-----------------------------------------------------------------------------
(* Every step keeps what the scripts know *)

\* Facts about the state every step of run.sh starts from.
LEMMA Here ==
  ASSUME IInv, NEW r \in Runs
  PROVE  /\ runs[r] \in Run /\ RunKnows(r) /\ FreeKnows(r)
         /\ artifacts \subseteq Artifacts /\ volume \in {NoVolume} \cup Data
         /\ box \in Phases /\ left \subseteq Runs /\ (box # "none" => volume # NoVolume)
         /\ Mounted \in Data /\ Mounted # NoVolume /\ (volume # NoVolume => Mounted = volume)
<1>1. Mounted \in Data
  BY EmptyIsData DEF IInv, TypeOK, Mounted
<1>2. volume # NoVolume => Mounted = volume
  BY DEF Mounted
<1>3. QED
  BY <1>1, <1>2, Files DEF IInv, TypeOK

LEMMA RecreateKeeps == ASSUME IInv, NEW r \in Runs, Recreate(r) PROVE IInv'
<1> DEFINE rec == [runs[r] EXCEPT !.pc = "untar", !.free = box = "none" /\ Others(r) = {}]
<1>1. /\ runs[r].pc = "recreate" /\ runs' = [runs EXCEPT ![r] = rec]
      /\ volume' = IF box = "none" THEN Empty ELSE volume
      /\ UNCHANGED <<harness, artifacts, box, left>>
  BY DEF Recreate, At
<1>2. /\ rec \in Run /\ rec.pc = "untar" /\ rec.key = runs[r].key /\ rec.trap = runs[r].trap
      /\ rec.verdict = runs[r].verdict /\ rec.free = (box = "none" /\ Others(r) = {})
      /\ rec.restored = runs[r].restored
  BY Here DEF Run, PCs, Trapped
<1>3. rec.free <=> box = "none" /\ Others(r) = {}
  BY <1>2
<1>4. runs[r].trap /\ runs[r].key \in Bakes
  BY <1>1, Here DEF RunKnows, Trapped
<1>5. volume' \in {NoVolume} \cup Data /\ (box' # "none" => volume' # NoVolume)
  BY <1>1, Here, EmptyIsData
<1>6. artifacts' \subseteq Artifacts /\ left' \subseteq Runs /\ box' \in Phases
  BY <1>1, Here
<1>7. rec.verdict # "green"
  BY <1>1, <1>2 DEF IInv, RunKnows, Tested
<1> HIDE DEF rec
<1>8. QED
  BY <1>1, <1>2, <1>3, <1>4, <1>5, <1>6, <1>7, OneRun DEF Trapped, Mine, Testing

LEMMA UntarKeeps == ASSUME IInv, NEW r \in Runs, Untar(r) PROVE IInv'
<1> DEFINE rec == [runs[r] EXCEPT !.pc = "up", !.restored = seed.bake]
<1>1. /\ runs[r].pc = "untar" /\ runs' = [runs EXCEPT ![r] = rec]
      /\ UNCHANGED <<harness, artifacts, box, left>>
  BY DEF Untar, At
<1>2. runs[r].trap /\ runs[r].key \in Bakes /\ seed \in Archives /\ seed.bake \in Keys
  BY <1>1, Here, BlankIsNoBake DEF RunKnows, Trapped, Archives
<1>3. PICK bake \in {seed.bake, Blank, Mounted.bake} : volume' = [Mounted EXCEPT !.bake = bake]
  BY DEF Untar
<1>4. bake \in Keys
  BY <1>2, <1>3, Here, BlankIsNoBake DEF Data
<1>5. volume' \in Data /\ volume'.rows = Mounted.rows /\ volume'.bake = bake
  BY <1>3, <1>4, Here DEF Data
<1>6. /\ rec \in Run /\ rec.pc = "up" /\ rec.key = runs[r].key /\ rec.trap = runs[r].trap
      /\ rec.verdict = runs[r].verdict /\ rec.free = runs[r].free /\ rec.restored = seed.bake
  BY <1>2, Here DEF Run, PCs, Trapped
<1>7. rec.free => Others(r) = {} /\ Mounted = Empty
  <2>1. rec.free => Others(r) = {} /\ volume = Empty
    BY <1>1, <1>6, Here DEF FreeKnows
  <2>2. QED
    BY <2>1, Here, EmptyIsData, Files
<1>8. rec.free => volume'.rows = {} /\ volume'.bake \in {rec.restored, Blank}
  BY <1>3, <1>5, <1>6, <1>7, EmptyIsData
<1>9. artifacts' \subseteq Artifacts /\ left' \subseteq Runs /\ box' \in Phases
      /\ volume' # NoVolume
  BY <1>1, <1>5, Here, Files
<1>10. rec.verdict # "green"
  BY <1>1, <1>6 DEF IInv, RunKnows, Tested
<1> HIDE DEF rec
<1>11. QED
  BY <1>1, <1>2, <1>5, <1>6, <1>7, <1>8, <1>9, <1>10, OneRun DEF Trapped, Mine, Testing

LEMMA UpKeeps == ASSUME IInv, NEW r \in Runs, Up(r) PROVE IInv'
<1>1. /\ runs[r].pc = "up" /\ Goes(r, "gate") /\ volume' = Mounted
      /\ box' = IF box \in {"none", "stopped"} THEN "booting" ELSE box
      /\ UNCHANGED <<harness, artifacts, left>>
  BY DEF Up, At
<1>2. volume' \in Data /\ volume' # NoVolume /\ box' \in Phases
  BY <1>1, Here DEF Phases
<1>3. runs[r].free => /\ volume' \in Data /\ volume'.rows \subseteq {r}
                      /\ volume'.bake \in {runs[r].restored, Blank}
  <2>1. runs[r].free => /\ volume \in Data /\ volume.rows \subseteq {r}
                        /\ volume.bake \in {runs[r].restored, Blank}
    BY <1>1, Here DEF FreeKnows, Testing
  <2>2. QED
    BY <1>1, <2>1, Here, Files
<1>4. artifacts' \subseteq Artifacts /\ left' \subseteq Runs
  BY <1>1, Here
<1>5. "gate" \in PCs \ {"untar", "over"}
  BY DEF PCs, Trapped
<1>6. QED
  BY <1>1, <1>2, <1>3, <1>4, <1>5, GoesKeeps DEF Tested, Trapped, Mine

LEMMA UpFailsKeeps ==
  ASSUME IInv, NEW r \in Runs, UpFails(r)
  PROVE  IInv' /\ runs'[r].pc = "teardown" /\ UNCHANGED left
<1>1. /\ runs[r].pc = "up" /\ Exit(r, "red") /\ UNCHANGED <<harness, artifacts, left>>
      /\ \/ UNCHANGED <<volume, box>>
         \/ box' = "stopped" /\ volume' = Mounted
  BY DEF UpFails, At
<1>2. volume' \in {NoVolume} \cup Data /\ box' \in Phases /\ (box' # "none" => volume' # NoVolume)
  BY <1>1, Here DEF Phases
<1>3. QED
  BY <1>1, <1>2, ExitKeeps DEF Trapped

LEMMA GateTriesKeeps == ASSUME IInv, NEW r \in Runs, GateTries(r) PROVE IInv' /\ runs'[r].pc = "gate"
<1> DEFINE rec == [runs[r] EXCEPT !.tries = runs[r].tries + 1]
<1>1. /\ runs[r].pc = "gate" /\ runs[r].tries < MaxTries /\ runs' = [runs EXCEPT ![r] = rec]
      /\ UNCHANGED <<harness, artifacts, volume, box, left>>
  BY DEF GateTries, At
<1>2. runs[r].tries \in 0..MaxTries
  BY Here DEF Run
<1>3. runs[r].tries + 1 \in 0..MaxTries
  BY <1>1, <1>2, HarnessAssumption
<1>4. /\ rec \in Run /\ rec.pc = "gate" /\ rec.key = runs[r].key /\ rec.trap = runs[r].trap
      /\ rec.verdict = runs[r].verdict /\ rec.free = runs[r].free /\ rec.restored = runs[r].restored
  BY <1>1, <1>3, Here DEF Run
<1>5. runs[r].trap /\ runs[r].key \in Bakes /\ rec.verdict # "green"
  BY <1>1, <1>4, Here DEF RunKnows, Trapped, Tested
<1>6. rec.free => /\ Others(r) = {} /\ volume' \in Data /\ volume'.rows \subseteq {r}
                  /\ volume'.bake \in {rec.restored, Blank}
                  /\ rec.verdict = "green" => rec.restored = rec.key
  BY <1>1, <1>4, Here DEF FreeKnows, Testing
<1>7. /\ artifacts' \subseteq Artifacts /\ left' \subseteq Runs /\ box' \in Phases
      /\ volume' \in {NoVolume} \cup Data /\ (box' # "none" => volume' # NoVolume)
  BY <1>1, Here
<1>8. runs'[r] = rec
  BY <1>1 DEF IInv, TypeOK
<1> HIDE DEF rec
<1>9. IInv'
  BY <1>1, <1>4, <1>5, <1>6, <1>7, OneRun DEF Trapped, Mine
<1>10. QED
  BY <1>4, <1>8, <1>9

LEMMA TestsCreateKeeps == ASSUME IInv, NEW r \in Runs, TestsCreate(r) PROVE IInv' /\ runs'[r].pc = "check"
<1>1. /\ runs[r].pc = "tests" /\ Goes(r, "check") /\ box # "none"
      /\ volume' = [volume EXCEPT !.rows = @ \cup {r}]
      /\ UNCHANGED <<harness, artifacts, box, left>>
  BY DEF TestsCreate, At, Accepts
<1>2. volume \in Data /\ volume.rows \subseteq Runs
  BY <1>1, Here DEF Data
<1>3. volume' \in Data /\ volume'.rows = (volume.rows) \cup {r} /\ volume'.bake = volume.bake
  BY <1>1, <1>2 DEF Data
<1>4. runs[r].free => volume'.rows \subseteq {r} /\ volume'.bake \in {runs[r].restored, Blank}
  BY <1>1, <1>3, Here DEF FreeKnows, Testing
<1>5. artifacts' \subseteq Artifacts /\ left' \subseteq Runs /\ box' \in Phases /\ volume' # NoVolume
  BY <1>1, <1>3, Here, Files
<1>6. "check" \in PCs \ {"untar", "over"}
  BY DEF PCs, Trapped
<1>7. QED
  BY <1>1, <1>3, <1>4, <1>5, <1>6, GoesKeeps DEF Tested, Trapped, Mine

LEMMA TestsPassKeeps ==
  ASSUME IInv, NEW r \in Runs, TestsPass(r)
  PROVE  IInv' /\ runs'[r].pc = "teardown"
<1>1. /\ runs[r].pc = "check" /\ Exit(r, "green") /\ box # "none" /\ volume.bake = runs[r].key
      /\ volume' = [volume EXCEPT !.rows = @ \ {r}]
      /\ UNCHANGED <<harness, artifacts, box, left>>
  BY DEF TestsPass, At, Accepts
<1>2. volume \in Data /\ volume.rows \subseteq Runs
  BY <1>1, Here DEF Data
<1>3. volume' \in Data /\ volume' # NoVolume
  BY <1>1, <1>2, Files DEF Data
<1>4. runs[r].key # Blank
  BY <1>1, Here, BlankIsNoBake DEF RunKnows, Trapped
<1>5. runs[r].free => runs[r].restored = runs[r].key
  BY <1>1, <1>4, Here DEF FreeKnows, Testing
<1>6. QED
  BY <1>1, <1>3, <1>5, Here, ExitKeeps DEF Trapped

LEMMA ComposeDownKeeps == ASSUME IInv, NEW r \in Runs, ComposeDown(r) PROVE IInv' /\ runs'[r].pc = "remove"
<1>1. /\ runs[r].pc = "teardown" /\ Goes(r, "remove")
      /\ \/ box' = "none" /\ volume' \in {volume, NoVolume} /\ left' = {}
         \/ left' = (left) \cup {r} /\ UNCHANGED <<volume, box>>
      /\ UNCHANGED <<harness, artifacts>>
  BY DEF ComposeDown, At
<1>2. /\ volume' \in {NoVolume} \cup Data /\ box' \in Phases /\ left' \subseteq Runs
      /\ artifacts' \subseteq Artifacts /\ (box' # "none" => volume' # NoVolume)
  BY <1>1, Here DEF Phases
<1>3. "remove" \in PCs \ {"untar", "over"}
  BY DEF PCs, Trapped
<1>4. QED
  BY <1>1, <1>2, <1>3, GoesKeeps DEF Tested, Trapped, Mine, Testing

LEMMA EndingKeeps ==
  ASSUME IInv, NEW r \in Runs, RemoveVolume(r) \/ KeepUp(r) \/ KillRun(r)
  PROVE  IInv' /\ UNCHANGED box
<1>1. /\ Ends(r) /\ UNCHANGED <<harness, artifacts, box>>
      /\ left' \in {left, left \cup {r}}
      /\ volume' = volume \/ (runs[r].pc = "remove" /\ box = "none" /\ volume' = NoVolume)
  BY DEF RemoveVolume, KeepUp, KillRun, At
<1>2. /\ volume' \in {NoVolume} \cup Data /\ box' \in Phases /\ left' \subseteq Runs
      /\ artifacts' \subseteq Artifacts /\ (box' # "none" => volume' # NoVolume)
  BY <1>1, Here
<1>3. QED
  BY <1>1, <1>2, EndsKeeps DEF Trapped

\* Steps on that touch neither container nor volume.
LEMMA PlainKeeps ==
  ASSUME IInv, NEW r \in Runs, StartRun(r) \/ Preflight(r) \/ GateOpens(r)
  PROVE  /\ IInv' /\ UNCHANGED <<volume, box, left>>
         /\ \/ runs'[r].pc \in {"preflight", "key"} /\ runs[r].pc \notin Trapped
            \/ runs[r].pc = "gate" /\ runs'[r].pc = "tests"
<1>1. CASE StartRun(r)
  <2>1. /\ runs[r].pc = "new" /\ Goes(r, "preflight") /\ artifacts' \in {artifacts, Artifacts}
        /\ UNCHANGED <<harness, volume, box, left>>
    BY <1>1 DEF StartRun, At
  <2>2. artifacts' \subseteq Artifacts /\ "preflight" \in PCs \ {"untar", "over"}
    BY <2>1, Here DEF PCs
  <2>3. ~runs[r].free
    BY <2>1, Here DEF FreeKnows, Mine
  <2>4. IInv' /\ runs'[r].pc = "preflight"
    BY <2>1, <2>2, <2>3, Here, GoesKeeps DEF Tested, Trapped
  <2>5. QED
    BY <2>1, <2>4 DEF Trapped
<1>2. CASE Preflight(r)
  <2>1. /\ runs[r].pc = "preflight" /\ Goes(r, "key") /\ artifacts' \in {artifacts, Artifacts}
        /\ IsArchive /\ env # NoFile
        /\ UNCHANGED <<harness, volume, box, left>>
    BY <1>2 DEF Preflight, At
  <2>2. artifacts' \subseteq Artifacts /\ "key" \in PCs \ {"untar", "over"}
    BY <2>1, Here DEF PCs
  <2>3. ~runs[r].free
    BY <2>1, Here DEF FreeKnows, Mine
  <2>4. seed \in Archives
    BY <2>1 DEF IInv, TypeOK, IsArchive
  <2>5. IInv' /\ runs'[r].pc = "key"
    BY <2>1, <2>2, <2>3, <2>4, Here, GoesKeeps DEF Tested, Trapped
  <2>6. QED
    BY <2>1, <2>5 DEF Trapped
<1>3. CASE GateOpens(r)
  <2>1. /\ runs[r].pc = "gate" /\ Goes(r, "tests")
        /\ UNCHANGED <<harness, artifacts, volume, box, left>>
    BY <1>3 DEF GateOpens, At
  <2>2. "tests" \in PCs \ {"untar", "over"}
    BY DEF PCs, Trapped
  <2>3. runs[r].free =>
          volume \in Data /\ volume.rows \subseteq {r} /\ volume.bake \in {runs[r].restored, Blank}
    BY <2>1, Here DEF FreeKnows, Testing
  <2>4. IInv' /\ runs'[r].pc = "tests"
    BY <2>1, <2>2, <2>3, Here, GoesKeeps DEF Tested, Trapped, Mine
  <2>5. QED
    BY <2>1, <2>4
<1>4. QED
  BY <1>1, <1>2, <1>3

LEMMA SkipKeeps ==
  ASSUME IInv, NEW r \in Runs, TestsSkip(r)
  PROVE  IInv' /\ runs'[r].pc = "teardown" /\ runs[r].pc = "tests" /\ UNCHANGED <<volume, box, left>>
<1>1. /\ runs[r].pc = "tests" /\ Exit(r, "skipped")
      /\ UNCHANGED <<harness, artifacts, volume, box, left>>
  BY DEF TestsSkip, At
<1>2. QED
  BY <1>1, Here, ExitKeeps DEF Trapped

\* The failures of run.sh, one and all.
FailsSomehow(r) ==
  \/ PreflightFails(r) \/ KeyMissing(r) \/ RecreateFails(r) \/ UntarFails(r)
  \/ GateTimesOut(r) \/ TestsFail(r)

LEMMA FailsSomehowFails ==
  ASSUME NEW r \in Runs, FailsSomehow(r) PROVE Fails(r)
  BY DEF FailsSomehow, PreflightFails, KeyMissing, RecreateFails, UntarFails, GateTimesOut, TestsFail

LEMMA RunKeeps ==
  ASSUME IInv, NEW r \in Runs, StartRun(r) \/ RunStep(r) \/ KillRun(r) PROVE IInv'
<1>1. CASE FailsSomehow(r)
  BY <1>1, FailsSomehowFails, FailsKeeps
<1>2. CASE StartRun(r) \/ Preflight(r) \/ GateOpens(r)
  BY <1>2, PlainKeeps
<1>3. CASE SourceKey(r) \/ Recreate(r) \/ Untar(r) \/ Up(r) \/ UpFails(r) \/ GateTries(r)
  BY <1>3, SourceKeyKeeps, RecreateKeeps, UntarKeeps, UpKeeps, UpFailsKeeps, GateTriesKeeps
<1>4. CASE TestsSkip(r) \/ TestsCreate(r) \/ TestsPass(r)
  BY <1>4, SkipKeeps, TestsCreateKeeps, TestsPassKeeps
<1>5. CASE ComposeDown(r) \/ RemoveVolume(r) \/ KeepUp(r) \/ KillRun(r)
  BY <1>5, ComposeDownKeeps, EndingKeeps
<1>6. QED
  BY <1>1, <1>2, <1>3, <1>4, <1>5 DEF RunStep, FailsSomehow

LEMMA ControllerKeeps == ASSUME IInv, ControllerComesUp PROVE IInv' /\ UNCHANGED <<volume, runs, left>>
<1>1. /\ box \in {"booting", "answering"} /\ box' \in {"answering", "serving"}
      /\ UNCHANGED <<harness, artifacts, volume, runs, left>>
  BY DEF ControllerComesUp
<1>2. TypeOK' /\ MintKnows'
  BY <1>1 DEF IInv, TypeOK, MintKnows, Phases, harness
<1>3. ASSUME NEW r \in Runs PROVE RunKnows(r)' /\ FreeKnows(r)'
  BY <1>1, Here DEF RunKnows, FreeKnows, Others, harness
<1>4. QED
  BY <1>1, <1>2, <1>3 DEF IInv

\* bootstrap.sh: what run.sh has seen of the seed stays true of it.
LEMMA MintKeeps == ASSUME IInv, MintStep PROVE IInv' /\ UNCHANGED live
<1> DEFINE Mint == [pc : MintPCs, bake : Keys, key : Keys]
<1>1. /\ mint \in Mint /\ minted \in Bakes
      /\ seed \in {NoFile, Pointer} \cup Archives /\ env \in {NoFile} \cup Keys
  BY DEF IInv, TypeOK
<1>2. UNCHANGED live
  BY DEF MintStep, StartBake, EdgeNeverUp, PasteKey, VerifyKey, BeginArchive,
         EndArchive, TruncateEnv, WriteEnv, TeardownMint, BakeDies
<1>3. SUFFICES /\ mint' \in Mint /\ minted' \in Bakes
               /\ seed' \in {NoFile, Pointer} \cup Archives /\ env' \in {NoFile} \cup Keys
               /\ seed \in Archives => seed' \in Archives
               /\ env # NoFile => env' # NoFile
               /\ MintKnows'
  <2>1. TypeOK'
    BY <1>2, <1>3 DEF IInv, TypeOK, live
  <2>2. ASSUME NEW r \in Runs PROVE RunKnows(r)' /\ FreeKnows(r)'
    BY <1>2, <1>3, Here DEF RunKnows, FreeKnows, Others, live
  <2>3. QED
    BY <1>2, <1>3, <2>1, <2>2 DEF IInv
<1>4. CASE StartBake
  <2>1. /\ mint.pc = "idle" /\ minted < MaxBakes /\ mint' = [mint EXCEPT !.pc = "edge"]
        /\ UNCHANGED <<seed, env, minted>>
    BY <1>4 DEF StartBake, Mints
  <2>2. QED
    BY <1>1, <2>1 DEF MintPCs, MintKnows
<1>5. CASE EdgeNeverUp \/ TeardownMint \/ BakeDies \/ (VerifyKey /\ MintOver)
  <2>1. UNCHANGED <<seed, env, minted>> /\ mint' = NoMint
    BY <1>5 DEF EdgeNeverUp, TeardownMint, BakeDies, VerifyKey, MintOver
  <2>2. NoMint \in Mint /\ NoMint.pc = "idle"
    BY BlankIsNoBake DEF NoMint, MintPCs
  <2>3. QED
    BY <1>1, <2>1, <2>2 DEF MintKnows
<1>6. CASE PasteKey
  <2>1. mint.pc = "edge" /\ minted' = minted + 1 /\ minted < MaxBakes /\ UNCHANGED <<seed, env>>
    BY <1>6 DEF PasteKey, IInv, MintKnows
  <2>2. minted' \in Bakes
    BY <1>1, <2>1, HarnessAssumption DEF Bakes
  <2>3. PICK key \in Keys : mint' = [pc |-> "verify", bake |-> minted', key |-> key]
    BY <1>6 DEF PasteKey
  <2>4. QED
    BY <1>1, <2>1, <2>2, <2>3, BlankIsNoBake DEF MintPCs, MintKnows
<1>7. CASE VerifyKey /\ ~MintOver
  <2>1. mint.pc = "verify" /\ UNCHANGED <<seed, env, minted>> /\ mint' = [mint EXCEPT !.pc = "stop"]
    BY <1>7 DEF VerifyKey, Mints
  <2>2. mint.bake \in Bakes
    BY <2>1 DEF IInv, MintKnows
  <2>3. QED
    BY <1>1, <2>1, <2>2 DEF MintPCs, MintKnows
<1>8. CASE BeginArchive \/ EndArchive
  <2>1. /\ UNCHANGED <<env, minted>>
        /\ \/ /\ mint.pc = "stop" /\ mint' = [mint EXCEPT !.pc = "archive"]
              /\ seed' = [bake |-> mint.bake, whole |-> FALSE]
           \/ /\ mint.pc = "archive" /\ mint' = [mint EXCEPT !.pc = "env"]
              /\ seed' = [seed EXCEPT !.whole = TRUE]
    BY <1>8 DEF BeginArchive, EndArchive, Mints
  <2>2. mint.bake \in Bakes /\ (mint.pc = "archive" => seed \in Archives)
    BY <2>1 DEF IInv, MintKnows
  <2>3. seed' \in Archives
    <3>1. CASE seed' = [bake |-> mint.bake, whole |-> FALSE]
      BY <2>2, <3>1 DEF Archives
    <3>2. CASE seed \in Archives /\ seed' = [seed EXCEPT !.whole = TRUE]
      BY <3>2 DEF Archives
    <3>3. QED
      BY <2>1, <2>2, <3>1, <3>2
  <2>4. mint' \in Mint /\ mint'.pc \in {"archive", "env"} /\ mint'.bake = mint.bake
    BY <1>1, <2>1 DEF MintPCs
  <2>5. QED
    BY <1>1, <2>1, <2>2, <2>3, <2>4 DEF MintKnows
<1>9. CASE TruncateEnv \/ WriteEnv
  <2>1. /\ UNCHANGED <<seed, minted>>
        /\ \/ mint.pc = "env" /\ mint' = [mint EXCEPT !.pc = "writing"] /\ env' = Blank
           \/ mint.pc = "writing" /\ mint' = [mint EXCEPT !.pc = "baked"] /\ env' = mint.key
    BY <1>9 DEF TruncateEnv, WriteEnv, Mints
  <2>2. mint' \in Mint /\ mint'.pc \in {"writing", "baked"} /\ mint'.bake = mint.bake /\ mint.bake \in Bakes
    BY <1>1, <2>1 DEF MintPCs, IInv, MintKnows
  <2>3. env' \in Keys /\ env' # NoFile
    BY <1>1, <2>1, BlankIsNoBake
  <2>4. QED
    BY <1>1, <2>1, <2>2, <2>3 DEF MintKnows
<1>10. QED
  BY <1>4, <1>5, <1>6, <1>7, <1>8, <1>9 DEF MintStep

LEMMA NextIInv == IInv /\ [Next]_vars => IInv'
<1> SUFFICES ASSUME IInv, [Next]_vars PROVE IInv'
  OBVIOUS
<1>1. CASE \E r \in Runs : StartRun(r) \/ RunStep(r) \/ KillRun(r)
  BY <1>1, RunKeeps
<1>2. CASE ControllerComesUp \/ MintStep
  BY <1>2, ControllerKeeps, MintKeeps
<1>3. CASE UNCHANGED vars
  BY <1>3 DEF vars, IInv, TypeOK, RunKnows, FreeKnows, Others, MintKnows
<1>4. QED
  BY <1>1, <1>2, <1>3 DEF Next

LEMMA AlwaysIInv == Spec => []IInv
  BY InitIInv, NextIInv, PTL DEF Spec

\* Whatever the scripts do to one another, every file, volume and process has a
\* value its script can give it, for any number of overlapping runs
\* (run.sh:53-110, restore.sh:41-51, bootstrap.sh:119-167).
THEOREM TypeCorrect == Spec => []TypeOK
<1>1. IInv => TypeOK
  BY DEF IInv
<1>2. QED
  BY <1>1, AlwaysIInv, PTL

\* A green run that was free restored the archive of the bake whose key it had
\* read, however bakes, wrong keys and deaths fall between its steps
\* (run.sh:70-110, bootstrap.sh:120-167).
THEOREM GreenCorrect == Spec => []GreenIsOfOneBake
<1>1. IInv => GreenIsOfOneBake
  BY DEF IInv, FreeKnows, GreenIsOfOneBake
<1>2. QED
  BY <1>1, AlwaysIInv, PTL

\* The tests of a run that is free meet a volume that holds the archive it
\* restored and no rows but their own, whatever volume was there before: the
\* removal of restore.sh:41 is what makes it so.
THEOREM FreshCorrect == Spec => []FreshWhenFree
<1>1. IInv => FreshWhenFree
  BY DEF IInv, FreeKnows, FreshWhenFree, Testing
<1>2. QED
  BY <1>1, AlwaysIInv, PTL

-----------------------------------------------------------------------------
(* What the runs leave behind *)

\* A step of one run that keeps what it holds, and holds what it makes.
LEMMA HolderStays ==
  ASSUME Held, NEW r \in Runs, \A q \in Runs : q # r => runs'[q].pc = runs[q].pc,
         left' = left,
         runs[r].pc \in BoxUp => runs'[r].pc \in BoxUp,
         runs[r].pc \in Mine => runs'[r].pc \in Mine,
         box' = box \/ runs'[r].pc \in BoxUp,
         volume' = volume \/ runs'[r].pc \in Mine
  PROVE  Held'
<1>1. ASSUME left' = {}, box' # "none" PROVE \E q \in Runs : runs'[q].pc \in BoxUp
  <2>1. CASE runs'[r].pc \in BoxUp
    BY <2>1
  <2>2. CASE runs'[r].pc \notin BoxUp
    <3>1. PICK q \in Runs : runs[q].pc \in BoxUp
      BY <1>1, <2>2 DEF Held
    <3>2. runs'[q].pc \in BoxUp
      BY <3>1
    <3>3. QED
      BY <3>2
  <2>3. QED
    BY <2>1, <2>2
<1>2. ASSUME left' = {}, volume' # NoVolume PROVE \E q \in Runs : runs'[q].pc \in Mine
  <2>1. CASE runs'[r].pc \in Mine
    BY <2>1
  <2>2. CASE runs'[r].pc \notin Mine
    <3>1. PICK q \in Runs : runs[q].pc \in Mine
      BY <1>2, <2>2 DEF Held
    <3>2. runs'[q].pc \in Mine
      BY <3>1
    <3>3. QED
      BY <3>2
  <2>3. QED
    BY <2>1, <2>2
<1>3. QED
  BY <1>1, <1>2 DEF Held

\* Only SourceKey touches another run's record, and not its place.
LEMMA OthersStay ==
  ASSUME IInv, NEW r \in Runs, StartRun(r) \/ RunStep(r) \/ KillRun(r)
  PROVE  \A q \in Runs : q # r => runs'[q].pc = runs[q].pc
<1>1. CASE SourceKey(r)
  <2>1. ASSUME NEW q \in Runs, q # r PROVE runs'[q].pc = runs[q].pc
    <3>1. runs[q] \in Run
      BY Here
    <3>2. runs'[q] = IF runs[q].pc \in Trapped THEN [runs[q] EXCEPT !.free = FALSE] ELSE runs[q]
      BY <1>1, <2>1 DEF SourceKey, Enter
    <3>3. QED
      BY <3>1, <3>2 DEF Run
  <2>2. QED
    BY <2>1
<1>2. CASE ~SourceKey(r)
  <2>1. \E rec : runs' = [runs EXCEPT ![r] = rec]
    <3>1. CASE FailsSomehow(r)
      BY <3>1, FailsSomehowFails DEF Fails, Exit
    <3>2. CASE StartRun(r) \/ Preflight(r) \/ GateOpens(r) \/ Up(r) \/ TestsCreate(r) \/ ComposeDown(r)
      BY <3>2 DEF StartRun, Preflight, GateOpens, Up, TestsCreate, ComposeDown, Goes
    <3>3. CASE UpFails(r) \/ TestsSkip(r) \/ TestsPass(r)
      BY <3>3 DEF UpFails, TestsSkip, TestsPass, Exit
    <3>4. CASE RemoveVolume(r) \/ KeepUp(r) \/ KillRun(r)
      BY <3>4 DEF RemoveVolume, KeepUp, KillRun, Ends
    <3>5. CASE Recreate(r) \/ Untar(r)
      BY <3>5 DEF Recreate, Untar
    <3>6. CASE GateTries(r)
      BY <3>6 DEF GateTries
    <3>7. QED
      BY <1>2, <3>1, <3>2, <3>3, <3>4, <3>5, <3>6 DEF RunStep, FailsSomehow
  <2>2. QED
    BY <2>1 DEF IInv, TypeOK
<1>3. QED
  BY <1>1, <1>2

LEMMA RunHolds ==
  ASSUME IInv, Held, NEW r \in Runs, StartRun(r) \/ RunStep(r) \/ KillRun(r)
  PROVE  Held'
<1>1. /\ \A q \in Runs : q # r => runs'[q].pc = runs[q].pc
      /\ runs[r] \in Run /\ runs \in [Runs -> Run]
  BY OthersStay DEF IInv, TypeOK
<1>2. CASE FailsSomehow(r)
  <2>1. (runs[r].pc \in Trapped => runs'[r].pc = "teardown") /\ UNCHANGED <<volume, box, left>>
    BY <1>2, FailsSomehowFails, FailsKeeps
  <2>2. runs[r].pc \in Mine => runs[r].pc \in Trapped
    BY DEF Mine, Trapped
  <2>3. QED
    BY <1>1, <2>1, <2>2, HolderStays DEF BoxUp, Mine
<1>3. CASE StartRun(r) \/ Preflight(r) \/ GateOpens(r)
  <2>1. /\ UNCHANGED <<volume, box, left>>
        /\ \/ runs[r].pc \notin Trapped
           \/ runs[r].pc = "gate" /\ runs'[r].pc = "tests"
    BY <1>3, PlainKeeps
  <2>2. runs[r].pc \in Mine => runs[r].pc \in Trapped
    BY DEF Mine, Trapped
  <2>3. runs[r].pc \in BoxUp => runs[r].pc \in Trapped
    BY DEF BoxUp, Trapped
  <2>4. QED
    BY <1>1, <2>1, <2>2, <2>3, HolderStays DEF BoxUp, Mine
<1>4. CASE SourceKey(r)
  <2>1. runs[r].pc = "key" /\ UNCHANGED <<volume, box, left>>
    BY <1>4 DEF SourceKey, At
  <2>2. QED
    BY <1>1, <2>1, HolderStays DEF BoxUp, Mine
<1>5. CASE Recreate(r) \/ Untar(r)
  <2>1. /\ runs[r].pc \in {"recreate", "untar"} /\ UNCHANGED <<box, left>>
        /\ runs'[r].pc \in {"untar", "up"}
    BY <1>1, <1>5 DEF Recreate, Untar, At, Run
  <2>2. QED
    BY <1>1, <2>1, HolderStays DEF BoxUp, Mine
<1>6. CASE Up(r)
  <2>1. runs'[r].pc = "gate" /\ UNCHANGED left
    BY <1>1, <1>6 DEF Up, Goes, Run
  <2>2. QED
    BY <1>1, <2>1, HolderStays DEF BoxUp, Mine
<1>7. CASE UpFails(r) \/ TestsSkip(r) \/ TestsPass(r)
  <2>1. runs'[r].pc = "teardown" /\ UNCHANGED left
    BY <1>7, UpFailsKeeps, SkipKeeps, TestsPassKeeps DEF TestsPass
  <2>2. QED
    BY <1>1, <2>1, HolderStays DEF BoxUp, Mine
<1>8. CASE GateTries(r) \/ TestsCreate(r)
  <2>1. runs'[r].pc \in {"gate", "check"} /\ UNCHANGED left
    BY <1>8, GateTriesKeeps, TestsCreateKeeps DEF GateTries, TestsCreate
  <2>2. QED
    BY <1>1, <2>1, HolderStays DEF BoxUp, Mine
<1>9. CASE ComposeDown(r)
  <2>1. /\ runs'[r].pc = "remove"
        /\ box' = "none" \/ left' = (left) \cup {r}
    BY <1>9, ComposeDownKeeps DEF ComposeDown
  <2>2. QED
    BY <2>1 DEF Held, Mine
<1>10. CASE r \in left'
  BY <1>10 DEF Held
<1>11. CASE RemoveVolume(r) /\ r \notin left'
  <2>1. /\ runs[r].pc = "remove" /\ UNCHANGED <<box, left>>
        /\ volume' = IF box = "none" THEN NoVolume ELSE volume
    BY <1>11 DEF RemoveVolume, At
  <2>2. ASSUME left' = {}, box' # "none"
        PROVE  \E q \in Runs : runs'[q].pc \in BoxUp /\ runs'[q].pc \in Mine
    <3>1. PICK q \in Runs : runs[q].pc \in BoxUp
      BY <2>1, <2>2 DEF Held
    <3>2. q # r
      BY <2>1, <3>1 DEF BoxUp
    <3>3. runs'[q].pc \in BoxUp /\ runs'[q].pc \in Mine
      BY <1>1, <3>1, <3>2 DEF BoxUp, Mine
    <3>4. QED
      BY <3>3
  <2>3. volume' # NoVolume => box' # "none"
    BY <2>1
  <2>4. QED
    BY <2>2, <2>3 DEF Held
<1>12. CASE KillRun(r) /\ r \notin left'
  <2>1. /\ ~runs[r].trap /\ UNCHANGED <<volume, box, left>>
    BY <1>12 DEF KillRun
  <2>2. runs[r].pc \notin Trapped
    BY <2>1, Here DEF RunKnows
  <2>3. runs[r].pc \notin Mine /\ runs[r].pc \notin BoxUp
    BY <2>2 DEF Mine, BoxUp, Trapped
  <2>4. QED
    BY <1>1, <2>1, <2>3, HolderStays
<1>13. KeepUp(r) => r \in left'
  BY DEF KeepUp
<1>14. QED
  BY <1>2, <1>3, <1>4, <1>5, <1>6, <1>7, <1>8, <1>9, <1>10, <1>11, <1>12, <1>13 DEF RunStep, FailsSomehow

LEMMA NextHeld == IInv /\ Held /\ [Next]_vars => Held'
<1> SUFFICES ASSUME IInv, Held, [Next]_vars PROVE Held'
  OBVIOUS
<1>1. CASE \E r \in Runs : StartRun(r) \/ RunStep(r) \/ KillRun(r)
  BY <1>1, RunHolds
<1>2. CASE ControllerComesUp
  <2>1. UNCHANGED <<volume, runs, left>> /\ box # "none"
    BY <1>2, ControllerKeeps DEF ControllerComesUp
  <2>2. QED
    BY <2>1 DEF Held
<1>3. CASE MintStep \/ UNCHANGED vars
  <2>1. UNCHANGED <<volume, box, runs, left>>
    BY <1>3, MintKeeps DEF vars, live
  <2>2. QED
    BY <2>1 DEF Held
<1>4. QED
  BY <1>1, <1>2, <1>3 DEF Next

\* When all runs are over, and none that ended after the last controller was
\* taken down was kept, killed or refused by docker, nothing is left, however
\* the runs overlapped and whichever of their steps failed (run.sh:73-84).
THEOREM CleanupCorrect == Spec => []NothingLeftBehind
<1>1. Held => NothingLeftBehind
  BY DEF Held, NothingLeftBehind, BoxUp, Mine
<1>2. QED
  BY <1>1, InitIInv, AlwaysIInv, NextHeld, PTL DEF Spec
=============================================================================
