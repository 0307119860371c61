--------------------------- MODULE BuildArtifacts ---------------------------
(***************************************************************************)
(* From the pin to the plugin: openapi/fetch.sh downloads the pinned       *)
(* document, pulumi-gen-unifi writes the three artifacts from it, and go   *)
(* build embeds them.  A fetch, a generation or a write may stop anywhere; *)
(* the pin and the generator's source may be edited between any two steps. *)
(*                                                                         *)
(* A document is a value with a version; a checksum is the document it     *)
(* belongs to.  What a generation yields is named by the document and the  *)
(* source it was made of.  An open file stays open under a rename, so each *)
(* curl has the name its file has come to: tmp, out, or none any more.     *)
(***************************************************************************)
EXTENDS Integers

CONSTANTS
  Fetchers,   \* fetch.sh processes that may be under way at once
  Docs,       \* upstream documents
  DocVersion, \* document -> its info.version
  Pins,       \* contents of pin.env: [version, at, sum]
  Codes,      \* revisions of the source: [rev, version, tables]
  MaxEdits,   \* edits of the pin or the source
  NoFile,     \* a file that is not there
  Bad         \* bytes that are no document: cut off, or not what was asked for

\* The sections of mappings.yaml.
Required == {"excludedPaths", "entityPrefixes"}
Tables == Required \cup {"excludeResources", "functions", "descriptions", "enums", "immutableFields"}

Versions == {p.version : p \in Pins}

\* What a generation may yield.
Products == [doc : Docs, rev : {c.rev : c \in Codes}]

ASSUME BuildAssumption ==
  /\ DocVersion \in [Docs -> Nat] /\ MaxEdits \in Nat
  /\ Pins \subseteq [version : Versions, at : Docs, sum : Docs]
  /\ \A c \in Codes : c.version \in Nat /\ c.tables \subseteq Tables
  /\ NoFile # Bad
  /\ \A x \in {NoFile, Bad} : x \notin Docs /\ x \notin Pins /\ x \notin Codes /\ x \notin Products

VARIABLES
  pin,       \* pin.env
  code,      \* the source, with PinnedSpecVersion
  edits,     \* edits made so far
  fetch,     \* per process: [pc, pin, file]
  tmp, out,  \* per version: the .tmp file and the document file
  shared,    \* versions that two fetches have been at, at once
  gen,       \* the make under way: [pc, pin, code, doc, done]
  artifacts, \* artifact -> NoFile, Bad or [doc, rev]
  bin        \* what the plugin binary embeds, or NoFile

vars == <<pin, code, edits, fetch, tmp, out, shared, gen, artifacts, bin>>
source == <<pin, code, edits>>
fetching == <<fetch, tmp, out, shared>>
making == <<gen, artifacts, bin>>

Artifacts == <<"schema", "metadata", "openapi">>   \* in the order written
Names == {Artifacts[i] : i \in 1..3}

NotFetching == [pc |-> "idle", pin |-> NoFile, file |-> "none"]
NotMaking == [pc |-> "idle", pin |-> NoFile, code |-> NoFile, doc |-> NoFile, done |-> 0]

Init ==
  /\ pin \in Pins /\ code \in Codes
  /\ edits = 0
  /\ fetch = [f \in Fetchers |-> NotFetching]
  /\ tmp = [v \in Versions |-> NoFile] /\ out = tmp
  /\ shared = {}
  /\ gen = NotMaking
  /\ artifacts = [a \in Names |-> NoFile]
  /\ bin = NoFile

Edits == edits < MaxEdits /\ edits' = edits + 1 /\ UNCHANGED <<fetching, making>>

EditPin == Edits /\ pin' \in Pins \ {pin} /\ UNCHANGED code

EditCode == Edits /\ code' \in Codes \ {code} /\ UNCHANGED pin

-----------------------------------------------------------------------------
(* fetch.sh, in process f *)

V(f) == fetch[f].pin.version

\* Another fetch of the version is under way.
AtVersion(f, v) == fetch[f].pc # "idle" /\ V(f) = v

\* The processes whose curl has version v's file open under that name.
Writing(file, v) ==
  {f \in Fetchers : fetch[f].pc = "curl" /\ fetch[f].file = file /\ V(f) = v}

Stop(f) == fetch' = [fetch EXCEPT ![f] = NotFetching]

\* make runs it when the document is absent, make fetch at any time.  curl
\* empties the file it opens.
StartFetch(f) ==
  /\ fetch[f].pc = "idle"
  /\ fetch' = [fetch EXCEPT ![f] = [pc |-> "curl", pin |-> pin, file |-> "tmp"]]
  /\ tmp' = [tmp EXCEPT ![pin.version] = Bad]
  /\ shared' = shared \cup {v \in {pin.version} : \E g \in Fetchers : AtVersion(g, v)}
  /\ UNCHANGED <<source, out, making>>

CurlEnds(f) ==
  /\ fetch[f].pc = "curl"
  /\ \E got \in {fetch[f].pin.at, Bad} :
       /\ tmp' = IF fetch[f].file = "tmp" THEN [tmp EXCEPT ![V(f)] = got] ELSE tmp
       /\ out' = IF fetch[f].file = "out" THEN [out EXCEPT ![V(f)] = got] ELSE out
  /\ fetch' = [fetch EXCEPT ![f].pc = "check", ![f].file = "none"]
  /\ UNCHANGED <<source, shared, making>>

\* Broken: the checksum is printed and never compared.
Unchecked(f) == tmp[V(f)] # NoFile

SumMatches(f) == tmp[V(f)] = fetch[f].pin.sum

Verify(f) ==
  /\ fetch[f].pc = "check"
  /\ SumMatches(f)
  /\ fetch' = [fetch EXCEPT ![f].pc = "mv"]
  /\ UNCHANGED <<source, tmp, out, shared, making>>

Refuse(f) ==
  /\ fetch[f].pc = "check" /\ ~SumMatches(f)
  /\ tmp' = [tmp EXCEPT ![V(f)] = NoFile]
  /\ fetch' = [g \in Fetchers |->
                 IF g = f THEN NotFetching
                 ELSE IF g \in Writing("tmp", V(f)) THEN [fetch[g] EXCEPT !.file = "none"]
                 ELSE fetch[g]]
  /\ UNCHANGED <<source, out, shared, making>>

\* The rename takes along whoever has the file open.
Mv(f) ==
  /\ fetch[f].pc = "mv" /\ tmp[V(f)] # NoFile
  /\ out' = [out EXCEPT ![V(f)] = tmp[V(f)]]
  /\ tmp' = [tmp EXCEPT ![V(f)] = NoFile]
  /\ fetch' = [g \in Fetchers |->
                 IF g = f THEN NotFetching
                 ELSE IF g \in Writing("tmp", V(f)) THEN [fetch[g] EXCEPT !.file = "out"]
                 ELSE IF g \in Writing("out", V(f)) THEN [fetch[g] EXCEPT !.file = "none"]
                 ELSE fetch[g]]
  /\ UNCHANGED <<source, shared, making>>

\* curl fails, a file is not there any more, or the script is killed.
FetchDies(f) ==
  /\ fetch[f].pc # "idle"
  /\ Stop(f)
  /\ UNCHANGED <<source, tmp, out, shared, making>>

-----------------------------------------------------------------------------
(* make build: gen, generate_schema, go build.  One make at a time. *)

\* The generator is compiled, and the document is there: how old it is does
\* not matter to the file rule.
StartMake ==
  /\ gen.pc = "idle"
  /\ out[pin.version] # NoFile
  /\ gen' = [pc |-> "read", pin |-> pin, code |-> code, doc |-> NoFile, done |-> 0]
  /\ UNCHANGED <<source, fetching, artifacts, bin>>

\* loadMappings, on its first use: two of the sections must carry something.
MappingsLoad(c) == Required \subseteq c.tables

\* Broken: info.version is not looked at.
UsableOfAnyVersion(doc, c) == doc # Bad /\ MappingsLoad(c)

\* The document parses, is of the version the source is pinned to, and the
\* mapping layer loads; all of it before the first write.
Usable(doc, c) == doc # Bad /\ DocVersion[doc] = c.version /\ MappingsLoad(c)

ReadSpec ==
  /\ gen.pc = "read"
  /\ LET doc == out[gen.pin.version] IN
       IF Usable(doc, gen.code)
       THEN gen' = [gen EXCEPT !.pc = "write", !.doc = doc]
       ELSE gen' = NotMaking
  /\ UNCHANGED <<source, fetching, artifacts, bin>>

Product == [doc |-> gen.doc, rev |-> gen.code.rev]

\* The artifact that is written next.
Turn == Artifacts[gen.done + 1]

\* os.WriteFile empties the file, then fills it.
Truncate ==
  /\ gen.pc = "write"
  /\ artifacts' = [artifacts EXCEPT ![Turn] = Bad]
  /\ gen' = [gen EXCEPT !.pc = "fill"]
  /\ UNCHANGED <<source, fetching, bin>>

\* Broken: one artifact too few.
FillAllButOne ==
  /\ gen.pc = "fill"
  /\ artifacts' = [artifacts EXCEPT ![Turn] = Product]
  /\ gen' = [gen EXCEPT !.done = @ + 1, !.pc = IF gen.done = 1 THEN "embed" ELSE "write"]
  /\ UNCHANGED <<source, fetching, bin>>

Fill ==
  /\ gen.pc = "fill"
  /\ artifacts' = [artifacts EXCEPT ![Turn] = Product]
  /\ gen' = [gen EXCEPT !.done = @ + 1, !.pc = IF gen.done = 2 THEN "embed" ELSE "write"]
  /\ UNCHANGED <<source, fetching, bin>>

\* Broken: the recipe's failure does not stop make.
MakeGoesOn ==
  /\ gen.pc \in {"write", "fill"}
  /\ gen' = [gen EXCEPT !.pc = "embed"]
  /\ UNCHANGED <<source, fetching, artifacts, bin>>

\* A write fails and the generator panics, or make is killed.
MakeDies ==
  /\ gen.pc \in {"read", "write", "fill", "embed"}
  /\ gen' = NotMaking
  /\ UNCHANGED <<source, fetching, artifacts, bin>>

GoBuild ==
  /\ gen.pc = "embed"
  /\ bin' = artifacts
  /\ gen' = NotMaking
  /\ UNCHANGED <<source, fetching, artifacts>>

-----------------------------------------------------------------------------
FetchStep(f) ==
  StartFetch(f) \/ CurlEnds(f) \/ Verify(f) \/ Refuse(f) \/ Mv(f) \/ FetchDies(f)

Next ==
  \/ EditPin \/ EditCode
  \/ \E f \in Fetchers : FetchStep(f)
  \/ StartMake \/ ReadSpec \/ Truncate \/ Fill \/ MakeDies \/ GoBuild

Spec == Init /\ [][Next]_vars

-----------------------------------------------------------------------------
Content == Docs \cup {NoFile, Bad}

\* Files hold what their writers can leave in them, and go build only starts
\* on files that are there (main.go:119-127, Makefile:106-107).
TypeOK ==
  /\ pin \in Pins /\ code \in Codes /\ edits \in 0..MaxEdits
  /\ fetch \in [Fetchers -> [pc : {"idle", "curl", "check", "mv"},
                             pin : Pins \cup {NoFile}, file : {"none", "tmp", "out"}]]
  /\ tmp \in [Versions -> Content] /\ out \in [Versions -> Content]
  /\ shared \subseteq Versions
  /\ gen \in [pc : {"idle", "read", "write", "fill", "embed"},
              pin : Pins \cup {NoFile}, code : Codes \cup {NoFile},
              doc : Docs \cup {NoFile}, done : 0..3]
  /\ gen.pc \in {"idle", "read"} => gen.done = 0
  /\ gen.pc = "embed" <=> gen.done = 3
  /\ artifacts \in [Names -> Products \cup {NoFile, Bad}]
  /\ bin \in {NoFile} \cup [Names -> Products \cup {NoFile, Bad}]

\* "The download is verified against the recorded checksum" (fetch.sh:3-4):
\* wherever a fetch stops and whatever the network delivers, the document
\* file is absent, or whole and of the checksum of a pin of its version.
\* Versions that two fetches have been at, at once, are beyond this: they
\* share the temporary file, and one renames what the other still writes.
SpecIsVerified ==
  \A v \in Versions \ shared : out[v] \in {NoFile} \cup {p.sum : p \in {q \in Pins : q.version = v}}

\* Whatever was left behind by a generation that died half way, the plugin
\* embeds a schema, metadata and document of one generation
\* (main.go:93-105, Makefile:51-52 and 104-107).
BinIsOneGeneration ==
  bin # NoFile => \E p \in Products : bin = [a \in Names |-> p]

\* A half-finished version bump, a mis-edited pin, or a mapping file that came
\* up empty or lost what validate looks for, never gets as far as an artifact,
\* whatever source came before or after it (main.go:75-85, mappings.go:98-100:
\* "fail loud, not silently emit an un-pinned surface").
SurfaceIsPinned ==
  \A a \in Names : artifacts[a] \in Products =>
    \E c \in Codes :
      /\ c.rev = artifacts[a].rev
      /\ c.version = DocVersion[artifacts[a].doc]
      /\ c.tables \notin {{}, Tables \ Required}
=============================================================================
