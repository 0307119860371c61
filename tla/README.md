# Verification of pulumi-unifi

This directory holds TLA+ models of the UniFi provider for Pulumi, the TLC runs
that check them on small instances, and TLAPS proofs of what holds for every
value of the constants. The models are translated from the code; where a doc or
a comment says something else, a run shows it (see *Findings*).

`tlc -config X.cfg M` makes a run of the table below, `tlapm M.tla` checks the
proofs of one of the eight `*Proofs` modules. `PROJECT.json` lists the components,
the runs, a broken variant of a definition for every checked property, the source
lines each definition stands for, the hazards and the theorems. A definition whose
comment starts with *Broken:* is such a variant and no part of the model.

## The system

The repository is two programs, the provider and its generator, and the scripts
around them.

| Part | State | Operations | Interacts with |
|---|---|---|---|
| Pagination hook (`provider/pkg/provider/pagination.go`) | rows gathered, page counter | `OnPostInvoke`, `aggregatePages` | called by the REST framework after its own GET; sends further GETs to the controller under the caller's context |
| Provider configuration (`config.go`, `provider.go`, `transport.go`, `auth.go`) | API key, site, transport of the HTTP client | `makeProvider`, `OnConfigure`, `GetGlobalPathParams`, `GetAuthorizationHeader` | the framework reads it for every request |
| Spec sanitizer and fixes (`spec_sanitize.go`, `openapi_fixes.go`) | a JSON document | rename, repair, rewrite, then inject, absolutize, title | runs before pulschema |
| Generation pipeline (`provider/pkg/gen/schema.go` and `pass_*.go`) | `GenState`: the package schema, the CRUD and name maps, the document | one pass after another, each an error or a change in place | pulschema produces the state, `main.go` writes the result |
| Enum cleanup (`pass_enum.go`) | the type graph and every reference to it | merge, rewrite, prune | one of the passes |
| Mapping layer (`mappings.go`, `mappings.yaml`) | editorial tables | load, validate, look up | read by the passes |
| Generator command, `fetch.sh`, `Makefile` | `pin.env`, the document, three artifacts, the plugin | fetch, verify, generate, embed | produce what the provider embeds |
| End-to-end harness (`test/e2e/*.sh`) | seed archive, seed env file, Docker volume, container | bootstrap, restore, run | drives a live controller |
| Contract gates (`contract_*_test.go`, `drift_test.go`) | committed artifacts | compare two schemas | run in CI |
| REST framework, pulschema | - | - | external libraries |

Which behaviours are hard:

- **Concurrency.** The hook's loop is interleaved with the controller, whose
  collection changes between two GETs, and with the caller, who may cancel. A
  bake of the seed may run beside a test run, two test runs or two fetches
  beside each other, and a Configure beside the requests of another session:
  nothing locks any of them.
- **Misbehaving peers.** A controller may ignore `offset`, cap pages, report a
  wrong or absent total, or answer 200 without a data array; a download may be
  cut off or be another document; docker may refuse.
- **Shared keys.** The passes move and delete keys of three maps that must stay
  in step, while looping over a snapshot of them, and each pass relies on names
  that an earlier one left or changed. The sanitizer renames keys that
  references all over the document name.
- **Drift.** The editorial tables, the pin and the source are written for one
  version of the document and meet the next.
- **Partial failure.** A rejected Configure has already stored part of itself; a
  generation dies between two artifacts; a bake dies between the archive and the
  key that opens it; a teardown runs after whatever step failed.
- **Stale state.** A process that outlives a session, a volume that outlives a
  run, artifacts that outlive the document they were made of.

What makes each part correct: a list read returns the whole collection or says
so, and ends (pagination); a request is a function of its own session
(configuration); the repaired document means what the upstream one meant, or the
build stops (intake); every token finds its own endpoints, every variant its own
discriminator, nothing is lost, and a table entry that a pass looks for and does
not find stops the build (pipeline); every reference resolves to what it meant (enum cleanup); the plugin
embeds one generation of one verified document (build); a green run that had the
harness to itself tested the seed it restored, on data nobody else wrote, and
nothing is left behind (harness).

## Modules

| Module | What it is |
|---|---|
| `ListRead` | What a list read promises: an answer that is the collection as of one instant of the read, or an error, or nothing. |
| `Pagination` | The hook, its caller and the controller. Implements `ListRead` where the controller allows it. |
| `ConfiguredClient` | What the configuration promises: every request is a function of its own session's variables and environment. |
| `ProviderConfig` | The provider process over several sessions. Implements `ConfiguredClient` where a session has its own process. |
| `SpecIntake` | The sanitizer, the loader and the fixes over a tree of schema nodes. |
| `GenPipeline` | The ordered passes over the token-keyed maps. |
| `EnumCleanup` | The enum-cleanup pass over a type graph. |
| `BuildArtifacts` | From the pin to the plugin: fetches, a generation, an embedding, and edits in between. |
| `E2EHarness` | `run.sh` with `restore.sh`, and `bootstrap.sh` beside it. |
| `MC*` | Instances of each for TLC. |
| `PaginationProofs`, `PaginationRowsProofs`, `ProviderConfigProofs`, `SpecIntakeProofs`, `GenPipelineProofs`, `EnumCleanupProofs`, `BuildArtifactsProofs`, `E2EHarnessProofs` | Theorems: every safety property of the runs that pass. |

The generator's three stages are `SpecIntake`, then `GenPipeline` with
`EnumCleanup` as one of its passes; `BuildArtifacts` treats all three as one step
that yields a product of a document and a revision of the source. They share no
variables: each stage ends before the next begins and hands over a value, and
the sets of initial values (`Docs`, `Specs`, `Schemas`) are what the stage before
can leave.

### Pagination

The state before the loop is what the framework hands over: the first body (is it
an envelope, has it a numeric total), whether the token has a read path, the rows
of the first page, and a context that may already be cancelled. `pc` is the place
in the code: `hook` before the loop, `loop` at its head, `fetch` while a GET is in
flight, `done`. One action per outcome: `Defer` and `BadArgs` return early,
`Finish`, `Abort` and `StartFetch` are the head of the loop, `PageArrives`,
`EmptyPage` and `FetchFails` the return of `fetch`, `FetchCancelled` the return
that the context forces. `Cancel` is the caller; `AppendRow`, `InsertRow` and
`DeleteRow` the controller, which may happen between any two of those. `Serve`
is how the controller answers a window, one of five ways (`Paging`). The
controller is external, modelled from what the loop's comments and the tests in
`pagination_test.go` expect of it. `kinds` remembers how the collection has
changed; no guard reads it.

Rows are numbers in the order they came to be, so that the snapshot a read
should return can be written down. Query strings, the fields of a row and error
texts are left out. `offset` and `limit` of the result are 0 and `count`.

### ProviderConfig

Sessions are numbered as they come. With `attached` they share one process, as
one does to debug a provider, and then overlap freely: the callback's fields have
no lock, so a Configure is several steps and falls between any steps of others.
`call[i]` is where session i's Configure is: `StoreKey`, `StoreSite`, then
`RejectHost` or `Accept`, then `FrameworkConfigures` (what the framework takes
when `OnConfigure` has returned), from which on it sends (`Request`) until
`EndSession`. `RejectNoKey` ends a call before it has stored anything;
`MakeProvider` starts the process. `given[i]` is `[vars, env]`: the session's
configuration variables and the environment of the process. Two histories, which no
guard reads: `disturbed` are the sessions during which another Configure has
stored a key, `asked` says that a session of this process that got past the checks
asked for the insecure transport. The values of the flag are those that
`strconv.ParseBool` takes for true, those it gives an error for, and others.

What a shared process promises is little, and `UndisturbedSendsWhatItGave` says
how much: a session that no other Configure has come to sends the key, site, host
and transport that it gave. One that was come to sends the other's key, even of a
call that is then refused, to its own host.

### SpecIntake

The document is a set of nodes with what the code looks at (is it null, its type,
enum, reference, mapping targets, title) and its children by position. One action
per step of `SanitizeSpecBytes` (`DropLicense`, `SanitizeKey`, `Visit`,
`RewriteRefs`) and of `FixOpenAPIDoc` (`InjectAPIKey`, `RewriteServer`,
`EnsureTitles`, `Validate`), each error its own action. `hasSchemas` tells a
document without components or schemas, which the sanitizer returns as it came
(`NoSchemas`), from one with an empty `schemas: {}`, which it goes on with. Recursion is a worklist
taken in any order, which is sound because the visits write to disjoint subtrees.
The character rules of a key are a table, `Sane`, of which only idempotence is
assumed. The loader and the validator are external. The properties say where the
repairs stop: a null component is passed over (`PatchedTop`), and a reference to
nothing is no reason to refuse a document when a component's key is sanitized to
the very name it gives (`Unfit`).

### GenPipeline

The four maps `Pkg.Resources`, `Pkg.Functions`, `ResourceCRUDMap` and
`AutoNameMap`, and the fields of the result types. An entry carries the token
pulschema gave it, a history that no guard reads: it tells a correctly moved
entry from another's. Passes whose effect on one token depends on no other
token are one action; the loops that rename (`PrefixOne`, `NormalizeOne`,
`DepageOne`) take one token per step, in any order, because there a token can
meet another. An error stops the build (`contract.Failf`), with nothing written,
so `failed` is a final state. Spelling (prefixes, `normalizeFunction`, the
inflector) is given as tables. enum-cleanup touches no token and is not a step
here; the descriptions pass is its failure, not its texts.

### EnumCleanup

A type is its signature and what its properties refer to; resources and
functions are slots that refer to a type. `Group`, `Merge`, `Rewrite`, `Prune`
are the loops of the pass. The code goes over sorted keys; the model takes the
families in any order, so what is checked does not rest on the sorting. Only the
order of names (shortest first, then alphabetical) matters, so a name has a rank.

### BuildArtifacts

Files are contents: a document, `Bad` bytes, or nothing. A `fetch.sh` process
curls into the temporary file, checks the sum, renames; each of these may fail or
be killed, which leaves what it left. A rename moves the file under a curl that
is still writing it, so each process knows what name its file has come to. A make
reads `pin.env`, then the document, passes the version gate and the mapping
file's `validate`, then truncates and fills each of the three artifacts in turn;
`GoBuild` embeds what is on disk, and starts only when the generator succeeded.
`EditPin` and `EditCode` may happen between any two steps. `shared` is a history:
the versions that two fetches have been at, at once.

### E2EHarness

What a volume holds is the bake its database comes from and the runs whose rows
are in it. `runs[r].pc` is the place of run r in `run.sh`: preflight, reading the
key, removing and extracting (`restore.sh`), up, the readiness gate, the tests,
the two lines of the teardown. The trap is set where the script sets it;
`KillRun` is SIGKILL, which no trap sees. `mint` is `bootstrap.sh`, from the edge
container to the rewritten env file, dying at any of its steps.

Runs overlap freely. Nothing locks them, and the container and the volume are
found by name: `docker compose up -d` joins a container that is up, `docker volume
rm || true` goes on over a volume in use, and a teardown takes down whatever is
there. `free` is a history: the run found no container when it restored, and no
other has been at the harness since. Two bakes at once are left out (the
maintainer at the wizard is one person); a bake beside runs is not.

The gate, and the check of a pasted key in `bootstrap.sh`, look for a body that
begins with a brace and never at a status, so an error in JSON passes
(`AnswersJSON`, `VerifyKey`). What a green run rests on is `Accepts`: the tests
themselves read and write with the key (`TestsCreate`, `TestsPass`), and fail
where the controller does not take it.

## Runs

| Run | Shows | Bounds |
|---|---|---|
| `pagination_snapshot` | `ReadsASnapshot`: the loop implements `ListRead` | window 3, first page 1, 8 rows, 3 appended |
| `pagination_reads` | `FetchCeiling`, `LossIsVisible`, `NoRowTwice`, `CancelledReadReturns`, `ReadReturns`, under every way of paging, total and edit | window 3, first and short pages 1, 5 rows, 3 edits, totals -7 to 9 |
| `provider_config` | `RequestsFollowTheirSession`: the process implements `ConfiguredClient`; `UndisturbedSendsWhatItGave`, `InsecureWasAskedFor` | 2 sessions, with a process each or overlapping in one; 4 environments, hosts bare and not, a flag on, off and misspelt |
| `spec_intake` | `RefsLeadWhereTheyDid`, `NoSchemaIsLost`, `MeaningIsKept`, `EverySchemaTellsAType`, `RefusedWithReason`, `OnlyGivenTitlesClash` | two components of five names, or no components with schemas absent or empty; a sub-schema and one below it, three kinds of position; null components; references to nothing |
| `gen_pipeline` | `Lockstep`, `VerbsAreItsOwn`, `WireIdentity`, `SurfaceIsWhole`, `TablesFitWhatShips` | one document and every set of up to three of 21 departures, a prefix no resource meets among them |
| `enum_cleanup` | `NoDanglingRef`, `MeaningKept`, `NoDuplicateEnum`, `OnlyNoiseIsDropped`, `PassEnds` | 5 tokens in the document, 2 value sets, 6 pin tables |
| `build_artifacts` | `SpecIsVerified`, `BinIsOneGeneration`, `SurfaceIsPinned` | two fetches and a make, 4 pins, 3 revisions, one edit |
| `e2e_harness` | `GreenIsOfOneBake`, `NothingLeftBehind`, `FreshWhenFree`, `RunEnds` | 2 runs that may overlap, 2 bakes, 2 attempts of the gate, every fault |
| `pagination_short` | `FollowsToTheEnd` is violated | 6 rows, pages of 1 |
| `enum_pins` | `CanonicalIsNoSource` is violated | as `enum_cleanup` |
| `gen_paging_knobs` | `NoPagingKnobs` is violated | the document without departures |
| `e2e_skip` | `GreenMeansTested` is violated | one run in a fresh clone, no faults |

Every passing run but `pagination_snapshot` checks its module's `TypeOK` as well.
Deadlock is checked except where a system may really stop: a provider process
after its last session, and the scripts once the last run and the last bake are
over. The others that end have a step for having ended.

**Why the bounds are enough.** The controller's default page of 25 and the limit
of 200 become 1 and 3: what matters is that the first page is smaller than a
window, that several windows are needed and that the last one is partial; 5 to 8
rows do all of it. Two deletions are needed for a skipped row to hide behind
another, three edits for one of each kind. A ceiling of total/3 + 2 is reached
with pages of one. For the configuration, one session that leaves something
behind and one that meets it are all a stale value needs. For the sanitizer, two
names that sanitize alike, two that do not and one to refer to cover the renames;
two levels under a component show that a repair goes on below one it leaves alone
and stops below one it makes. For the pipeline, two variants of a split entity,
one flat resource, an excluded one and four functions let every pass act, every
guard fail and renames collide; three departures at once cover their interplay.
For the enum pass, two families of two in one module are the smallest graph in
which one family's canonical can be another's member, and a second module shows
that merging stays inside one. For the build, two documents of a version and one
of the next tell a wrong sum from a wrong version, and one edit falls between any
two steps; a third fetch adds no pair of writers. For the harness, two runs are
one that leaves something and one that meets it, or two that overlap in any of
their steps; two bakes are an old pair and a new one; two attempts of the gate are one that is
tried again and one that is the last. The proofs then do without any of these
bounds, for the safety of every module.

**Fairness.** `Pagination.FairSpec` asks that the hook's own steps are taken,
which are straight-line Go, and that net/http returns from a GET whose context is
cancelled; nothing of the controller. `ReadReturns` assumes, within the property,
a controller that answers. `E2EHarness.FairSpec` asks that the shell goes on with
`run.sh`; nothing of the controller, the maintainer or who starts a run. The enum
pass is sequential code, so its `Spec` has weak fairness of `Next`. Cancellation,
edits, faults and the choice of answer are never fair. The other modules are only
checked for safety.

## Findings

Each is a run that TLC finds violated, against words of the repository.

- **A ceiling that truncates** (`pagination_short`). `total/200 + 2` GETs are
  enough only if every page is full. A controller that serves shorter pages is
  cut off with rows left and the caller gets a success, against
  `pagination.go:95-96`. `LossIsVisible` still holds: count is below totalCount.
- **A canonical that is deleted** (`enum_pins`). A pin that names a member of
  another family is not refused, and `pass_enum.go:109-111` does not hold. The
  properties of `enum_cleanup` hold for pins that are fresh (`PinsAreFresh`),
  which the tables in `mappings.yaml` are today.
- **Paging knobs that stay** (`gen_paging_knobs`). De-paging looks for a `Page`
  suffix that some list reads do not have by then, against
  `pass_depage_test.go:10-16`. The committed `schema.json` has five such types,
  `FirewallPolicyPage` among them.
- **Green without a test** (`e2e_skip`). `run.sh` builds only when `schema.json`
  is missing; that file is committed, the generated OpenAPI document is not. In a
  fresh clone nothing is built, every test skips for want of the document, and the
  run is green, against `run.sh:23-24`.

Noticed while modelling, and part of the models:

- `run.sh:99-101` and `bootstrap.sh:120-122`: both ask for *authenticated JSON*
  (`run.sh:93`, `bootstrap.sh:118`) and check for a leading brace, which an error
  has too. A wrong key is then written beside the archive, and a gate opens on
  a key that is not accepted; the tests catch it (`GreenIsOfOneBake` holds).
- `run.sh:81-82`, `91`: overlapping runs share, and take down, one controller.
  `NothingLeftBehind` holds of them all the same; `GreenIsOfOneBake` and
  `FreshWhenFree` hold for a run that had the harness to itself.
- `restore.sh:41`: a volume that a kept controller uses is not removed, so the
  *fresh volume* of `run.sh:4` is the old one, under a controller that is not
  restarted. `FreshWhenFree` says when it is fresh.
- `restore.sh:49-51`: the shell in the container ends with `; true`, so an
  extraction that stops short is reported as complete. The gate or the tests catch
  a database that does not serve; half a database that serves is not caught.
- `fetch.sh:22`: concurrent fetches of a version share the temporary file.
  `SpecIsVerified` excludes the versions in `shared` for it.
- `Makefile:40`: the document is a prerequisite by name, so a pin edited to
  another checksum of the same version keeps the old document. No property tells
  revisions of a version apart.
- `config.go:34-38`: in a shared process a Configure replaces the key and site of
  a session that is still sending, also if it is then rejected; `config.go:36`,
  `53` and `62`: what a session leaves unsaid, site, host or transport, is an
  earlier session's. `UndisturbedSendsWhatItGave` draws both lines, and
  `OwnSession` limits the refinement to sessions of their own process.
- `mappings.yaml:60`: *a stale/misapplied prefix is a loud error*, for a prefix
  that a live resource meets. One whose path no resource is created at is looked at
  by no pass (`pass_token_rename.go:67-91`), nor is a dead explicit rename or
  description; `TablesFitWhatShips` leaves them out.
- `spec_sanitize.go:47`: a document whose components or schemas are absent is
  returned before an empty license is dropped, and then fails to load. An empty
  schemas object is not that case, as `spec_sanitize_test.go:89-102` expects.
- `spec_sanitize.go:183`: an enum of other things than strings, alone in its
  schema, is dropped after the check that would have given it a type.
  `EverySchemaTellsAType` leaves it out.
- `spec_sanitize.go:74-76`: only a key that is changed has an entry, so a
  reference to nothing that gives the name another key is sanitized to is captured
  by that component, and the validator has nothing left to refuse.
- `spec_sanitize.go:90`: a component that is null is no map, and stays null where
  a null sub-schema is replaced (`spec_sanitize.go:220-223`).
- `openapi_fixes.go:71-95`: *unique, stable getter names* (`81-83`) come of keys
  only. A title that arrived with a schema may be another's title or key, and
  components that are aliases get the title that the order of a map gives;
  `OnlyGivenTitlesClash` says how far uniqueness goes.

## Proofs

All from the named assumptions on the constants, which TLC evaluates on the
instances. The first theorem of a module is its type invariant, which each of the
others uses.

**`PaginationProofs`**, under `PaginationAssumption` (windows and caps are
positive, bounds are natural numbers):

- `TypeCorrect`: `TypeOK` is inductive.
- `CeilingCorrect`: `FetchCeiling` speaks of the pages asked for and is not
  inductive; `CeilingInv` adds that the counter is at most the ceiling, below it
  while a GET is in flight, and that a negative total never starts one.
  `CeilingCovers` and `QuotientType` are the arithmetic of the truncating
  division.
- `SnapshotCorrect`: if the controller pages in full windows, its collection only
  grows and the fallback cap is large enough (`PlainController`),
  `Spec => ReadsASnapshot`. `SnapshotInv` says that the gathered rows are a prefix
  of the collection, and that the prefix holds every row of the moment of the call
  or at least `page` whole windows (`Coverage`); with `total/limit + 2` windows
  the ceiling cannot stop the loop early (`FinishedReadIsWhole`). Initial states
  map to initial states and each step to a step of `ListRead` or a stutter
  (`StepReadsASnapshot`).

**`PaginationRowsProofs`** continues it:

- `OnceCorrect` (`NoRowTwice`): a row is listed after those that came before it
  (`Ordered`), and what is still to be fetched is newer than all that is gathered
  (`Ahead`); pages, deletions and additions at the end keep both (`PageOrder`,
  `RemovalOrder`, `AppendOrder`). Rows in strict order are distinct.
- `LossCorrect` (`LossIsVisible`): while rows only disappear, the gathered ones
  are different numbers up to `present` (`Within`); as many as there are leave
  none out (`AllOfThem`, by counting), so an answer that misses one is shorter
  than its total (`AnswerInv`).

**`ProviderConfigProofs`**, under `ConfigAssumption` (every variable may be left
out, defaults are set, the default host is bare):

- `InsecureCorrect`: inductive as it stands.
- `SharedCorrect` (`UndisturbedSendsWhatItGave`): `SharedInv`, of every session that is
  undisturbed: what its Configure has stored so far is still there (`Holds`), and no
  other Configure is under way (`Alone`). Without `Alone` it is not inductive: a
  Configure that was begun earlier would store its site, host and transport later.
  The host is bare throughout.
- `ConfigCorrect`: `Spec => RequestsFollowTheirSession`. `OwnInv` says that a
  process that is only up holds what `makeProvider` gave it, and that a configured
  one is `Settled`: key, site, host and transport are what `ConfiguredClient`
  makes of the session.

**`BuildArtifactsProofs`**, under `BuildAssumption` (a pin names documents, a
source a version; files that are absent or bad are told from whole ones):

- `VerifiedCorrect`: `OneAtATime`, outside `shared` there is one process at a
  version, its file is the temporary one until it renames it, and by then it has
  the pin's sum.
- `GenerationCorrect`: `WrittenSoFar`, the artifacts done are of the generation
  under way.
- `SurfaceCorrect`: `FromUsable`, every whole artifact was made by a source that
  accepted its document.

All three rest on `WellStarted`: whatever is under way started from a pin, a
source and a document that were there.

**`E2EHarnessProofs`**, under `HarnessAssumption` (at least one attempt and one
bake; files and volumes that are absent are told from those that are there), for
any number of runs, bakes, attempts and any set of faults:

- `GreenCorrect` and `FreshCorrect` rest on `IInv`: `RunKnows`, what a run may rely
  on at each of its places whatever other runs and a bake do (the trap is set from
  the key on, the archive is one), `FreeKnows`, that a free run has the volume to
  itself, fresh when it extracts, and that its green verdict means that the bake
  restored is the one of its key, and `MintKnows`, what `bootstrap.sh` has minted
  by each of its places. The gate contributes nothing: what ties the key to the
  database is that the tests are accepted by it, and that nobody else was there.
- `CleanupCorrect` adds `Held`: while `left` is empty, a container or a volume is
  some run's that has yet to take it down. It need not be the run that put it up;
  a teardown that takes away another's controller leaves that run to find nothing,
  or to take down what came after.

**`SpecIntakeProofs`**, under `IntakeAssumption` (sanitizing twice is sanitizing
once, which a key without disallowed characters or underscores at its ends
gives; the components of a document are nodes of it, and what is null holds
nothing), for documents of any size and depth and any names. One inductive
invariant, `IInv`, relates the document at each stage to what arrived:

- `LossCorrect` (`NoSchemaIsLost`) and the keys of `TypeCorrect` rest on
  `KeysAreMoved`: the components done so far are where sanitizing their keys puts
  them, each alone (`Moved`).
- `RefsCorrect` (`RefsLeadWhereTheyDid`) adds `RefsAreRetargeted`: up to the
  rewriting a reference is the old one, from then on the renamed one.
- `MeaningCorrect` (`MeaningIsKept`) is `NodesAreRepaired`, stated of all nodes:
  of the live ones alone it is not inductive, and the enum of a node that was
  given a type must be known to be gone.
- `TellsCorrect` (`EverySchemaTellsAType`) rests on `WalkIsComplete`: there is a
  `Frontier`, a set that has all the components, whose nodes all tell a type or
  are excused, and that is closed under sub-schemas except at the nodes still to
  visit. When none is, the least closed set `Reach` is inside it; the depth of a
  schema never enters.
- `RefusalCorrect` (`RefusedWithReason`): `WholeIsFit` keeps license, auth and
  server tied to the document until they are looked at, and `RefsNow` shows that
  a reference dangles after the repairs exactly if it did before and is not
  captured.
- `TitlesCorrect` (`OnlyGivenTitlesClash`): `OneEnd`, a key leads to one component
  that is no reference itself, since the nodes that lead to it are closed. So two
  components that were without a title never get the same one.

**`GenPipelineProofs`**, under `PipelineAssumption` (pulschema gives every
resource and read its endpoints, no two of them a token; a document has finitely
many paths), for any document, tables and order of the loops. `IInv` joins what an
entry knows of the token it came from (`Rows`, `AsGiven`), `Lockstep`, the verbs
(`Verbs`), the discriminator values (`Fixed`), how far the renaming loops have come
in each map (`ResourceNames`, `FunctionNames`) and what the last passes have marked
(`Marked`):

- `LockstepCorrect`, `VerbsCorrect` and `WireCorrect` hold at every place a token is
  moved to, because the entry moves with what it knows; a rename onto a taken
  token is the case that each loop's guard must exclude.
- `SurfaceCorrect` (`SurfaceIsWhole`) needs `PageTypesAreOwn`, the fact that
  `pass_depage.go:32-33` calls verified: no two functions share an envelope. Two
  that did would leave the second without its renaming.
- `DriftCorrect` (`TablesFitWhatShips`): each pass leaves its part of it behind. A
  pinned prefix has been held against every entity whose resource was prefixed
  (`PinFits`), every excluded token was some resource's final one, and secrets and
  immutable fields are marked on what is still there at the end (`Marked`). It says
  nothing of entries that no pass looks for.

**`EnumCleanupProofs`**, under `EnumAssumption` (a schema is finite, its references
resolve, its enums have no properties, what a pin makes of a token is a token), for
any type graph and order of the families. `IInv` is `TypeOK`, `GroupKnows`,
`MergeKnows` and `RewriteKnows`: while families merge, every given type is still
there, a canonical that was not given is a copy of its family's default name, and
`renames` leads every other member of a merged family to its canonical in one hop;
from the rewriting on it says what the properties do, of all the types
(`NoTwins`, `Resolves`, `SlotsMean`, `ObjectsStay`, `ValuesStay`), since pruning
takes them one round at a time.

- `DuplicateCorrect` (`NoDuplicateEnum`) holds for any pins.
- `DanglingCorrect`, `MeaningCorrect` and `NoiseCorrect` are about fresh pins, as
  their properties are: no canonical is then among the deleted. The default name
  of a family, its least, is there by `Smallest`.
- `FreshPinsSuffice` completes the finding of `enum_pins`: `CanonicalIsNoSource`,
  which that run refutes, holds wherever `PinsAreFresh`.

Only model-checked: the four liveness properties (`CancelledReadReturns`,
`ReadReturns`, `PassEnds`, `RunEnds`), as liveness under fairness is out of the
prover's reach. Every invariant and refinement of the passing runs is a theorem.
`Reach` and `KeysOf` of `SpecIntake` are written as least closed sets, not as
recursion, so that they can be proved about.

## Not modelled, and the plan

Not modelled:

- The contract gates (`contract_*_test.go`, `drift_test.go`): a comparison of two
  committed files in test code, without state or order.
- The rest of the package specification and the serializer: constant data and an
  encoder. The configuration keys with their environment fall-backs are in
  `ProviderConfig`.
- The documentation generator, the mock server and the smoke test: no state of
  their own.
- The texts of the descriptions pass; spelling rules (inflection, prefixes, the
  characters of a key), which are tables.
- In the sanitizer, references written with escapes (`~1`, `%20`), and the
  renaming of component kinds other than schemas, which the code does not do.
- The external libraries, which appear only as the states and answers the code
  meets.

Next, in this order:

1. Positive counterparts of the other findings, as `FreshPinsSuffice` is of
   `enum_pins`: what makes `FollowsToTheEnd`, `NoPagingKnobs` and
   `GreenMeansTested` true.
2. `ContractDelta`: the breaking-change predicate against a reference definition
   of what breaks a program.
