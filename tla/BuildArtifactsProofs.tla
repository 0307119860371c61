------------------------ MODULE BuildArtifactsProofs ------------------------
(***************************************************************************)
(* What holds of BuildArtifacts.tla for any documents, pins, revisions of  *)
(* the source, number of edits and number of fetches at once: its types,   *)
(* that a document one fetch at a time has been at is verified, and that   *)
(* what is generated and embedded is of one generation, of the version the *)
(* source is pinned to and of a mapping file with its sections.            *)
(***************************************************************************)
EXTENDS BuildArtifacts, TLAPS

\* Whatever is under way was started from a pin and a revision that were
\* there, on a document that is there; what is being written, from a document
\* the generator has accepted.
WellStarted ==
  /\ \A f \in Fetchers : fetch[f].pc # "idle" => fetch[f].pin \in Pins
  /\ gen.pc # "idle" => gen.pin \in Pins /\ gen.code \in Codes
  /\ gen.pc = "read" => out[gen.pin.version] # NoFile
  /\ gen.pc \in {"write", "fill", "embed"} => gen.doc \in Docs /\ Usable(gen.doc, gen.code)

LEMMA PinType ==
  ASSUME NEW q \in Pins
  PROVE  q.version \in Versions /\ q.at \in Docs /\ q.sum \in Docs
  BY BuildAssumption DEF Versions

LEMMA NoDocument == NoFile \notin Docs /\ Bad \notin Docs /\ NoFile # Bad
  BY BuildAssumption

LEMMA NoProduct == NoFile \notin Products /\ Bad \notin Products
  BY BuildAssumption

LEMMA NoSource == NoFile \notin Pins /\ NoFile \notin Codes
  BY BuildAssumption

\* What the generation under way writes is a product.
LEMMA ProductType ==
  ASSUME TypeOK, WellStarted, gen.pc \in {"write", "fill", "embed"}
  PROVE  Product \in Products
<1>1. gen.doc \in Docs /\ gen.code \in Codes
  BY DEF WellStarted
<1>2. QED
  BY <1>1 DEF Product, Products

LEMMA TurnType ==
  ASSUME TypeOK, gen.pc \in {"write", "fill"}
  PROVE  /\ gen.done \in 0..2
         /\ Turn \in Names /\ Turn = Artifacts[gen.done + 1]
<1>1. gen.done \in 0..2
  BY DEF TypeOK
<1>2. QED
  BY <1>1 DEF Turn, Names

-----------------------------------------------------------------------------
(* Types *)

LEMMA InitTypeOK == Init => TypeOK /\ WellStarted
  BY BuildAssumption DEF Init, TypeOK, WellStarted, NotFetching, NotMaking, Content

\* The fetches leave the types of the files and of their own state.
LEMMA FetchTypeOK ==
  ASSUME TypeOK, WellStarted, NEW f \in Fetchers, FetchStep(f)
  PROVE  /\ TypeOK'
         /\ \A g \in Fetchers : fetch'[g].pc # "idle" => fetch'[g].pin \in Pins
         /\ \A v \in Versions : out[v] # NoFile => out'[v] # NoFile
<1> DEFINE FetchType == [pc : {"idle", "curl", "check", "mv"},
                         pin : Pins \cup {NoFile}, file : {"none", "tmp", "out"}]
<1>0. /\ fetch \in [Fetchers -> FetchType]
      /\ tmp \in [Versions -> Content] /\ out \in [Versions -> Content]
      /\ Bad \in Content /\ NoFile \in Content
      /\ NotFetching \in FetchType /\ NotFetching.pc = "idle"
  BY DEF TypeOK, Content, NotFetching
<1>1. fetch[f].pc # "idle" => fetch[f].pin \in Pins /\ V(f) \in Versions
  BY PinType DEF WellStarted, V
<1>2. SUFFICES /\ fetch' \in [Fetchers -> FetchType]
               /\ tmp' \in [Versions -> Content] /\ out' \in [Versions -> Content]
               /\ shared' \subseteq Versions
               /\ \A g \in Fetchers : fetch'[g].pc # "idle" => fetch'[g].pin \in Pins
               /\ \A v \in Versions : out[v] # NoFile => out'[v] # NoFile
  <2>1. UNCHANGED <<source, making>>
    BY DEF FetchStep, StartFetch, CurlEnds, Verify, Refuse, Mv, FetchDies
  <2>2. QED
    BY <1>2, <2>1 DEF TypeOK, source, making, Products
<1>3. CASE StartFetch(f)
  <2>1. pin \in Pins /\ pin.version \in Versions
    BY PinType DEF TypeOK
  <2>2. QED
    BY <1>0, <1>3, <2>1 DEF StartFetch, TypeOK, WellStarted
<1>4. CASE CurlEnds(f)
  <2>1. PICK got \in {fetch[f].pin.at, Bad} :
          /\ tmp' = IF fetch[f].file = "tmp" THEN [tmp EXCEPT ![V(f)] = got] ELSE tmp
          /\ out' = IF fetch[f].file = "out" THEN [out EXCEPT ![V(f)] = got] ELSE out
    BY <1>4 DEF CurlEnds
  <2>2. got \in Content /\ got # NoFile
    BY <1>1, <1>4, PinType, NoDocument DEF CurlEnds, Content
  <2>3. /\ fetch' = [fetch EXCEPT ![f].pc = "check", ![f].file = "none"]
        /\ shared' = shared /\ fetch[f].pin \in Pins
    BY <1>1, <1>4 DEF CurlEnds
  <2>4. /\ fetch' \in [Fetchers -> FetchType]
        /\ \A g \in Fetchers : fetch'[g].pc # "idle" => fetch'[g].pin \in Pins
    BY <1>0, <2>3 DEF WellStarted
  <2>5. QED
    BY <1>0, <2>1, <2>2, <2>3, <2>4 DEF TypeOK
<1>5. CASE Verify(f)
  BY <1>0, <1>1, <1>5 DEF Verify, TypeOK, WellStarted
<1>6. CASE Refuse(f)
  BY <1>0, <1>1, <1>6 DEF Refuse, TypeOK, WellStarted
<1>7. CASE Mv(f)
  <2>1. /\ out' = [out EXCEPT ![V(f)] = tmp[V(f)]] /\ tmp[V(f)] # NoFile
        /\ tmp' = [tmp EXCEPT ![V(f)] = NoFile]
        /\ shared' = shared /\ V(f) \in Versions
    BY <1>1, <1>7 DEF Mv
  <2>2. /\ fetch' \in [Fetchers -> FetchType]
        /\ \A g \in Fetchers : fetch'[g].pc # "idle" => fetch'[g].pin \in Pins
    BY <1>0, <1>7 DEF Mv, WellStarted
  <2>3. QED
    BY <1>0, <2>1, <2>2 DEF TypeOK
<1>8. CASE FetchDies(f)
  BY <1>0, <1>8 DEF FetchDies, Stop, TypeOK, WellStarted
<1>9. QED
  BY <1>3, <1>4, <1>5, <1>6, <1>7, <1>8 DEF FetchStep

LEMMA NextTypeOK == TypeOK /\ WellStarted /\ [Next]_vars => TypeOK' /\ WellStarted'
<1> SUFFICES ASSUME TypeOK, WellStarted, [Next]_vars
             PROVE  TypeOK' /\ WellStarted'
  OBVIOUS
<1>1. CASE EditPin \/ EditCode
  <2>1. /\ edits' \in 0..MaxEdits /\ pin' \in Pins /\ code' \in Codes
        /\ UNCHANGED <<fetching, making>>
    BY <1>1, BuildAssumption DEF EditPin, EditCode, Edits, TypeOK
  <2>2. QED
    BY <2>1 DEF TypeOK, WellStarted, fetching, making
<1>2. CASE \E f \in Fetchers : FetchStep(f)
  <2>1. PICK f \in Fetchers : FetchStep(f)
    BY <1>2
  <2>2. /\ TypeOK'
        /\ \A g \in Fetchers : fetch'[g].pc # "idle" => fetch'[g].pin \in Pins
        /\ \A v \in Versions : out[v] # NoFile => out'[v] # NoFile
    BY <2>1, FetchTypeOK
  <2>3. gen' = gen
    BY <2>1 DEF FetchStep, StartFetch, CurlEnds, Verify, Refuse, Mv, FetchDies, making
  <2>4. gen.pc = "read" => gen.pin.version \in Versions
    BY PinType DEF WellStarted
  <2>5. QED
    BY <2>2, <2>3, <2>4 DEF WellStarted
<1>3. CASE StartMake
  BY <1>3 DEF StartMake, TypeOK, WellStarted, source, fetching
<1>4. CASE ReadSpec
  <2> DEFINE doc == out[gen.pin.version]
  <2>1. /\ gen.pc = "read" /\ gen.pin \in Pins /\ gen.code \in Codes
        /\ doc \in Content /\ doc # NoFile /\ gen.done = 0
    BY <1>4, PinType DEF ReadSpec, WellStarted, TypeOK
  <2>2. UNCHANGED <<source, fetching, artifacts, bin>>
    BY <1>4 DEF ReadSpec
  <2>3. CASE Usable(doc, gen.code)
    <3>1. gen' = [gen EXCEPT !.pc = "write", !.doc = doc]
      BY <1>4, <2>3 DEF ReadSpec
    <3>2. doc \in Docs
      BY <2>1, <2>3 DEF Usable, Content
    <3>3. /\ gen' \in [pc : {"idle", "read", "write", "fill", "embed"},
                       pin : Pins \cup {NoFile}, code : Codes \cup {NoFile},
                       doc : Docs \cup {NoFile}, done : 0..3]
          /\ gen'.pc = "write" /\ gen'.doc = doc /\ gen'.code = gen.code
          /\ gen'.pin = gen.pin /\ gen'.done = 0
      BY <2>1, <3>1, <3>2 DEF TypeOK
    <3>4. QED
      BY <2>1, <2>2, <2>3, <3>2, <3>3 DEF TypeOK, WellStarted, source, fetching, Usable
  <2>4. CASE ~Usable(doc, gen.code)
    <3>1. gen' = NotMaking
      BY <1>4, <2>4 DEF ReadSpec
    <3>2. QED
      BY <2>2, <3>1 DEF TypeOK, WellStarted, NotMaking, source, fetching
  <2>5. QED
    BY <2>3, <2>4
<1>5. CASE Truncate
  <2>1. gen' = [gen EXCEPT !.pc = "fill"] /\ gen.pc = "write"
    BY <1>5 DEF Truncate
  <2>2. /\ gen'.pc = "fill" /\ gen'.pin = gen.pin /\ gen'.code = gen.code
        /\ gen'.doc = gen.doc /\ gen'.done = gen.done
    BY <2>1 DEF TypeOK
  <2>3. QED
    BY <1>5, <2>1, <2>2 DEF Truncate, TypeOK, WellStarted, source, fetching, Usable
<1>6. CASE Fill
  <2> DEFINE then == IF gen.done = 2 THEN "embed" ELSE "write"
             n == gen.done + 1
  <2>1. gen' = [gen EXCEPT !.done = n, !.pc = then] /\ gen.pc = "fill" /\ gen.done \in 0..2
    BY <1>6, TurnType DEF Fill
  <2>2. /\ gen'.pc = then /\ gen'.pin = gen.pin /\ gen'.code = gen.code
        /\ gen'.doc = gen.doc /\ gen'.done = n
        /\ gen' \in [pc : {"idle", "read", "write", "fill", "embed"},
                     pin : Pins \cup {NoFile}, code : Codes \cup {NoFile},
                     doc : Docs \cup {NoFile}, done : 0..3]
    <3>1. then \in {"embed", "write"} /\ n \in 0..3
      BY <2>1
    <3>2. QED
      BY <2>1, <3>1 DEF TypeOK
  <2>3. artifacts' \in [Names -> Products \cup {NoFile, Bad}]
    BY <1>6, <2>1, ProductType DEF Fill, TypeOK
  <2>4. UNCHANGED <<source, fetching, bin>>
    BY <1>6 DEF Fill
  <2>5. QED
    BY <2>1, <2>2, <2>3, <2>4 DEF TypeOK, WellStarted, source, fetching, Usable
<1>7. CASE MakeDies
  BY <1>7 DEF MakeDies, TypeOK, WellStarted, NotMaking, source, fetching
<1>8. CASE GoBuild
  BY <1>8 DEF GoBuild, TypeOK, WellStarted, NotMaking, source, fetching
<1>9. CASE UNCHANGED vars
  BY <1>9 DEF vars, TypeOK, WellStarted, Usable
<1>10. QED
  BY <1>1, <1>2, <1>3, <1>4, <1>5, <1>6, <1>7, <1>8, <1>9 DEF Next

LEMMA AlwaysWellStarted == Spec => [](TypeOK /\ WellStarted)
  BY InitTypeOK, NextTypeOK, PTL DEF Spec

\* Files hold what their writers can leave in them, wherever a fetch or a
\* make stops (main.go:119-127, Makefile:106-107).
THEOREM TypeCorrect == Spec => []TypeOK
  BY AlwaysWellStarted, PTL

-----------------------------------------------------------------------------
(* The document *)

Active(v) == {f \in Fetchers : AtVersion(f, v)}

\* Of a version that no two fetches have been at, at once: one is at it at
\* most, its curl writes to the temporary file, and what it is about to
\* rename has the checksum of its pin.
OneAtATime ==
  \A v \in Versions \ shared :
    /\ \A f, g \in Active(v) : f = g
    /\ \A f \in Active(v) :
         /\ fetch[f].pc = "curl" => fetch[f].file = "tmp"
         /\ fetch[f].pc = "mv" => tmp[v] = fetch[f].pin.sum

LEMMA InitVerified == Init => OneAtATime /\ SpecIsVerified
  BY DEF Init, OneAtATime, Active, AtVersion, NotFetching, SpecIsVerified

\* A step that leaves the fetches alone.
LEMMA OtherVerified ==
  ASSUME OneAtATime, SpecIsVerified, UNCHANGED fetching
  PROVE  OneAtATime' /\ SpecIsVerified'
  BY DEF fetching, OneAtATime, Active, AtVersion, V, SpecIsVerified

LEMMA FetchVerified ==
  ASSUME TypeOK, WellStarted, OneAtATime, SpecIsVerified,
         NEW f \in Fetchers, FetchStep(f)
  PROVE  OneAtATime' /\ SpecIsVerified'
<1> DEFINE w == V(f)
<1> SUFFICES ASSUME NEW v \in Versions, v \notin shared'
             PROVE  /\ \A g, h \in Active(v)' : g = h
                    /\ \A g \in Active(v)' :
                         /\ fetch'[g].pc = "curl" => fetch'[g].file = "tmp"
                         /\ fetch'[g].pc = "mv" => tmp'[v] = fetch'[g].pin.sum
                    /\ out'[v] \in {NoFile} \cup {q.sum : q \in {r \in Pins : r.version = v}}
  BY DEF OneAtATime, SpecIsVerified
<1>1. /\ v \notin shared
      /\ \A g, h \in Active(v) : g = h
      /\ \A g \in Active(v) : /\ fetch[g].pc = "curl" => fetch[g].file = "tmp"
                              /\ fetch[g].pc = "mv" => tmp[v] = fetch[g].pin.sum
      /\ out[v] \in {NoFile} \cup {q.sum : q \in {r \in Pins : r.version = v}}
  <2>1. shared \subseteq shared'
    BY DEF FetchStep, StartFetch, CurlEnds, Verify, Refuse, Mv, FetchDies
  <2>2. v \in Versions \ shared
    BY <2>1
  <2>3. QED
    BY <2>2 DEF OneAtATime, SpecIsVerified
<1>2. fetch[f].pc # "idle" => fetch[f].pin \in Pins /\ V(f) \in Versions
  BY PinType DEF WellStarted, V
<1>3. /\ fetch \in [Fetchers -> [pc : {"idle", "curl", "check", "mv"},
                                 pin : Pins \cup {NoFile}, file : {"none", "tmp", "out"}]]
      /\ tmp \in [Versions -> Content] /\ out \in [Versions -> Content]
  BY DEF TypeOK
<1>4. CASE StartFetch(f)
  <2>1. /\ fetch' = [fetch EXCEPT ![f] = [pc |-> "curl", pin |-> pin, file |-> "tmp"]]
        /\ tmp' = [tmp EXCEPT ![pin.version] = Bad] /\ out' = out
        /\ v = pin.version => Active(v) = {}
    BY <1>4 DEF StartFetch, Active
  <2>2. /\ \A g \in Fetchers \ {f} : fetch'[g] = fetch[g]
        /\ fetch'[f] = [pc |-> "curl", pin |-> pin, file |-> "tmp"]
    BY <1>3, <2>1
  <2>3. CASE v = pin.version
    <3>1. Active(v)' = {f}
      BY <2>1, <2>2, <2>3 DEF Active, AtVersion, V
    <3>2. QED
      BY <1>1, <2>1, <2>2, <3>1
  <2>4. CASE v # pin.version
    <3>1. f \notin Active(v)'
      BY <2>2, <2>4 DEF Active, AtVersion, V
    <3>2. Active(v)' \subseteq Active(v) \ {f}
      BY <2>2, <3>1 DEF Active, AtVersion, V
    <3>3. tmp'[v] = tmp[v]
      BY <1>3, <2>1, <2>4
    <3>4. QED
      BY <1>1, <2>1, <2>2, <3>2, <3>3 DEF Active
  <2>5. QED
    BY <2>3, <2>4
<1>5. CASE fetch[f].pc # "idle" /\ w # v /\ ~StartFetch(f)
  \* A fetch of another version touches neither the files nor the fetches of v.
  <2>1. f \notin Active(v)
    BY <1>5 DEF Active, AtVersion
  <2>2. tmp'[v] = tmp[v] /\ out'[v] = out[v]
    BY <1>2, <1>3, <1>5 DEF FetchStep, CurlEnds, Verify, Refuse, Mv, FetchDies
  <2>3. \A g \in Active(v) : fetch'[g] = fetch[g]
    <3>1. \A g \in Active(v) : g # f /\ g \in Fetchers /\ g \notin Writing("tmp", w) /\ g \notin Writing("out", w)
      BY <1>5, <2>1 DEF Active, AtVersion, Writing
    <3>2. QED
      BY <1>3, <1>5, <3>1 DEF FetchStep, CurlEnds, Verify, Refuse, Mv, FetchDies, Stop
  <2>4. Active(v)' \subseteq Active(v)
    <3>1. \A g \in Fetchers : /\ fetch'[g].pc # "idle" => fetch[g].pc # "idle"
                              /\ fetch'[g].pc # "idle" => fetch'[g].pin = fetch[g].pin
      BY <1>3, <1>5 DEF FetchStep, CurlEnds, Verify, Refuse, Mv, FetchDies, Stop, NotFetching
    <3>2. QED
      BY <3>1 DEF Active, AtVersion, V
  <2>5. QED
    BY <1>1, <2>2, <2>3, <2>4
<1>6. CASE fetch[f].pc # "idle" /\ w = v /\ ~StartFetch(f)
  <2>1. Active(v) = {f} /\ \A g \in Fetchers \ {f} : g \notin Writing("tmp", w) /\ g \notin Writing("out", w)
    BY <1>1, <1>6 DEF Active, AtVersion, Writing
  <2>2. \A g \in Fetchers \ {f} : fetch'[g] = fetch[g]
    BY <1>3, <1>6, <2>1 DEF FetchStep, CurlEnds, Verify, Refuse, Mv, FetchDies, Stop
  <2>3. Active(v)' \subseteq {f}
    BY <2>1, <2>2 DEF Active, AtVersion, V
  <2>4. CASE CurlEnds(f)
    <3>1. fetch[f].file = "tmp" /\ fetch'[f].pc = "check"
      BY <1>1, <1>3, <2>1, <2>4 DEF CurlEnds
    <3>2. out' = out
      BY <2>4, <3>1 DEF CurlEnds
    <3>3. QED
      BY <1>1, <2>3, <3>1, <3>2
  <2>5. CASE Verify(f)
    <3>1. fetch'[f].pc = "mv" /\ fetch'[f].pin = fetch[f].pin /\ tmp' = tmp /\ out' = out
      BY <1>3, <2>5 DEF Verify
    <3>2. tmp[v] = fetch[f].pin.sum
      BY <1>6, <2>5 DEF Verify, SumMatches
    <3>3. QED
      BY <1>1, <2>3, <3>1, <3>2
  <2>6. CASE Refuse(f) \/ FetchDies(f)
    <3>1. fetch'[f] = NotFetching /\ out' = out
      BY <1>3, <2>6 DEF Refuse, FetchDies, Stop
    <3>2. QED
      BY <1>1, <2>3, <3>1 DEF NotFetching
  <2>7. CASE Mv(f)
    <3>1. fetch'[f] = NotFetching /\ out'[v] = tmp[v] /\ fetch[f].pc = "mv"
      BY <1>2, <1>3, <1>6, <2>7 DEF Mv
    <3>2. tmp[v] = fetch[f].pin.sum /\ fetch[f].pin \in Pins /\ fetch[f].pin.version = v
      BY <1>1, <1>2, <1>6, <2>1, <3>1 DEF V
    <3>3. QED
      BY <2>3, <3>1, <3>2 DEF NotFetching
  <2>8. QED
    BY <1>6, <2>4, <2>5, <2>6, <2>7 DEF FetchStep
<1>7. QED
  BY <1>4, <1>5, <1>6 DEF FetchStep, CurlEnds, Verify, Refuse, Mv, FetchDies

LEMMA NextVerified ==
  TypeOK /\ WellStarted /\ OneAtATime /\ SpecIsVerified /\ [Next]_vars =>
    OneAtATime' /\ SpecIsVerified'
<1> SUFFICES ASSUME TypeOK, WellStarted, OneAtATime, SpecIsVerified, [Next]_vars
             PROVE  OneAtATime' /\ SpecIsVerified'
  OBVIOUS
<1>1. CASE \E f \in Fetchers : FetchStep(f)
  BY <1>1, FetchVerified
<1>2. CASE ~\E f \in Fetchers : FetchStep(f)
  <2>1. UNCHANGED fetching
    BY <1>2 DEF Next, EditPin, EditCode, Edits, StartMake, ReadSpec, Truncate, Fill,
                MakeDies, GoBuild, fetching, vars
  <2>2. QED
    BY <2>1, OtherVerified
<1>3. QED
  BY <1>1, <1>2

\* "The download is verified against the recorded checksum" (fetch.sh:3-4), by
\* any number of fetches, as long as no two of a version are at it at once.
THEOREM VerifiedCorrect == Spec => []SpecIsVerified
<1>1. Init => TypeOK /\ WellStarted /\ OneAtATime /\ SpecIsVerified
  BY InitTypeOK, InitVerified
<1>2. TypeOK /\ WellStarted /\ OneAtATime /\ SpecIsVerified /\ [Next]_vars =>
        TypeOK' /\ WellStarted' /\ OneAtATime' /\ SpecIsVerified'
  BY NextTypeOK, NextVerified
<1>3. QED
  BY <1>1, <1>2, PTL DEF Spec

-----------------------------------------------------------------------------
(* The artifacts and the plugin *)

\* The artifacts that the make under way has written are its product.
WrittenSoFar ==
  gen.pc \in {"write", "fill", "embed"} =>
    \A i \in 1..3 : i <= gen.done => artifacts[Artifacts[i]] = Product

\* Each artifact, when it is whole, is of a document its source accepts.
FromUsable ==
  \A a \in Names : artifacts[a] \in Products =>
    \E c \in Codes : c.rev = artifacts[a].rev /\ Usable(artifacts[a].doc, c)

LEMMA ArtifactNames ==
  /\ \A i \in 1..3 : Artifacts[i] \in Names
  /\ \A i, j \in 1..3 : Artifacts[i] = Artifacts[j] => i = j
  /\ \A a \in Names : \E i \in 1..3 : a = Artifacts[i]
  BY DEF Artifacts, Names

LEMMA InitWritten == Init => WrittenSoFar /\ FromUsable /\ BinIsOneGeneration
  BY NoProduct DEF Init, NotMaking, WrittenSoFar, FromUsable, BinIsOneGeneration

\* Emptying or filling one artifact leaves the ones before it.
LEMMA WriteOne ==
  ASSUME TypeOK, WrittenSoFar, gen.pc \in {"write", "fill"},
         NEW x, artifacts' = [artifacts EXCEPT ![Turn] = x]
  PROVE  /\ artifacts'[Turn] = x
         /\ \A a \in Names \ {Turn} : artifacts'[a] = artifacts[a]
         /\ \A i \in 1..3 : i <= gen.done => artifacts'[Artifacts[i]] = Product
<1>1. gen.done \in 0..2 /\ Turn = Artifacts[gen.done + 1] /\ Turn \in Names
  BY TurnType
<1>2. /\ artifacts'[Turn] = x
      /\ \A a \in Names \ {Turn} : artifacts'[a] = artifacts[a]
  BY <1>1 DEF TypeOK
<1>3. \A i \in 1..3 : i <= gen.done => Artifacts[i] \in Names \ {Turn}
  <2>1. \A i \in 1..3 : i <= gen.done => i # gen.done + 1
    BY <1>1
  <2>2. QED
    BY <1>1, <2>1, ArtifactNames
<1>4. QED
  BY <1>2, <1>3 DEF WrittenSoFar

LEMMA NextWritten ==
  TypeOK /\ WellStarted /\ WrittenSoFar /\ FromUsable /\ BinIsOneGeneration /\ [Next]_vars =>
    WrittenSoFar' /\ FromUsable' /\ BinIsOneGeneration'
<1> SUFFICES ASSUME TypeOK, WellStarted, WrittenSoFar, FromUsable, BinIsOneGeneration,
                    [Next]_vars
             PROVE  WrittenSoFar' /\ FromUsable' /\ BinIsOneGeneration'
  OBVIOUS
<1>1. CASE UNCHANGED making
  BY <1>1 DEF making, WrittenSoFar, Product, FromUsable, Usable, BinIsOneGeneration
<1>2. CASE StartMake
  BY <1>2 DEF StartMake, WrittenSoFar, FromUsable, Usable, BinIsOneGeneration
<1>3. CASE ReadSpec
  <2>1. gen'.pc \in {"idle", "write"} /\ gen'.done = 0 /\ UNCHANGED <<artifacts, bin>>
    <3>1. gen.done = 0 /\ UNCHANGED <<artifacts, bin>>
      BY <1>3 DEF ReadSpec, TypeOK
    <3>2. \/ gen' = NotMaking
          \/ gen' = [gen EXCEPT !.pc = "write", !.doc = out[gen.pin.version]]
      BY <1>3 DEF ReadSpec
    <3>3. CASE gen' = NotMaking
      BY <3>1, <3>3 DEF NotMaking
    <3>4. CASE gen' = [gen EXCEPT !.pc = "write", !.doc = out[gen.pin.version]]
      <4>1. gen'.pc = "write" /\ gen'.done = gen.done
        BY <3>4 DEF TypeOK
      <4>2. QED
        BY <3>1, <4>1
    <3>5. QED
      BY <3>2, <3>3, <3>4
  <2>2. QED
    BY <2>1 DEF WrittenSoFar, FromUsable, Usable, BinIsOneGeneration
<1>4. CASE Truncate
  <2>1. /\ gen.pc = "write" /\ artifacts' = [artifacts EXCEPT ![Turn] = Bad] /\ bin' = bin
        /\ gen'.done = gen.done /\ gen'.doc = gen.doc /\ gen'.code = gen.code
    BY <1>4 DEF Truncate, TypeOK
  <2>2. Product' = Product
    BY <2>1 DEF Product
  <2>3. WrittenSoFar'
    BY <2>1, <2>2, WriteOne DEF WrittenSoFar
  <2>4. FromUsable'
    BY <2>1, WriteOne, NoProduct DEF FromUsable, Usable
  <2>5. QED
    BY <2>1, <2>3, <2>4 DEF BinIsOneGeneration
<1>5. CASE Fill
  <2>1. /\ gen.pc = "fill" /\ artifacts' = [artifacts EXCEPT ![Turn] = Product] /\ bin' = bin
        /\ gen'.done = gen.done + 1 /\ gen'.doc = gen.doc /\ gen'.code = gen.code
    BY <1>5 DEF Fill, TypeOK
  <2>2. Product' = Product
    BY <2>1 DEF Product
  <2>3. \A i \in 1..3 : i <= gen.done + 1 => artifacts'[Artifacts[i]] = Product
    <3>1. Turn = Artifacts[gen.done + 1] /\ gen.done \in 0..2
      BY <2>1, TurnType
    <3>2. \A i \in 1..3 : i <= gen.done + 1 => i <= gen.done \/ i = gen.done + 1
      BY <3>1
    <3>3. QED
      BY <2>1, <3>1, <3>2, WriteOne
  <2>4. WrittenSoFar'
    BY <2>1, <2>2, <2>3 DEF WrittenSoFar
  <2>5. FromUsable'
    <3>1. gen.code \in Codes /\ Usable(gen.doc, gen.code)
      BY <2>1 DEF WellStarted
    <3>2. Product.rev = gen.code.rev /\ Product.doc = gen.doc
      BY DEF Product
    <3>3. QED
      BY <2>1, <3>1, <3>2, WriteOne DEF FromUsable, Usable
  <2>6. QED
    BY <2>1, <2>4, <2>5 DEF BinIsOneGeneration
<1>6. CASE MakeDies
  BY <1>6 DEF MakeDies, NotMaking, WrittenSoFar, FromUsable, Usable, BinIsOneGeneration
<1>7. CASE GoBuild
  <2>1. gen.pc = "embed" /\ gen.done = 3 /\ Product \in Products
    BY <1>7, ProductType DEF GoBuild, TypeOK
  <2>2. \A a \in Names : artifacts[a] = Product
    <3>1. \A i \in 1..3 : artifacts[Artifacts[i]] = Product
      BY <2>1 DEF WrittenSoFar
    <3>2. QED
      BY <3>1, ArtifactNames
  <2>3. bin' = [a \in Names |-> Product]
    BY <1>7, <2>2 DEF GoBuild, TypeOK
  <2>4. gen'.pc = "idle" /\ artifacts' = artifacts
    BY <1>7 DEF GoBuild, NotMaking
  <2>5. QED
    BY <2>1, <2>3, <2>4 DEF WrittenSoFar, FromUsable, Usable, BinIsOneGeneration
<1>8. QED
  <2>1. CASE (\E f \in Fetchers : FetchStep(f)) \/ EditPin \/ EditCode \/ UNCHANGED vars
    BY <1>1, <2>1 DEF FetchStep, StartFetch, CurlEnds, Verify, Refuse, Mv, FetchDies,
                      EditPin, EditCode, Edits, vars, making
  <2>2. QED
    BY <1>2, <1>3, <1>4, <1>5, <1>6, <1>7, <2>1 DEF Next

LEMMA AlwaysWritten == Spec => [](FromUsable /\ BinIsOneGeneration)
<1>1. Init => TypeOK /\ WellStarted /\ WrittenSoFar /\ FromUsable /\ BinIsOneGeneration
  BY InitTypeOK, InitWritten
<1>2. TypeOK /\ WellStarted /\ WrittenSoFar /\ FromUsable /\ BinIsOneGeneration /\ [Next]_vars =>
        TypeOK' /\ WellStarted' /\ WrittenSoFar' /\ FromUsable' /\ BinIsOneGeneration'
  BY NextTypeOK, NextWritten
<1>3. QED
  BY <1>1, <1>2, PTL DEF Spec

\* Whatever generations that died have left behind, the plugin embeds three
\* artifacts of one generation (main.go:93-105, Makefile:51-52).
THEOREM GenerationCorrect == Spec => []BinIsOneGeneration
  BY AlwaysWritten, PTL

\* Every whole artifact is of the version its source was pinned to, and of a
\* mapping file with the sections validate looks for (main.go:75-85,
\* mappings.go:98-109).
THEOREM SurfaceCorrect == Spec => []SurfaceIsPinned
<1>1. \A c \in Codes : MappingsLoad(c) => c.tables \notin {{}, Tables \ Required}
  BY DEF MappingsLoad, Required, Tables
<1>2. FromUsable => SurfaceIsPinned
  BY <1>1 DEF FromUsable, Usable, SurfaceIsPinned
<1>3. QED
  BY <1>2, AlwaysWritten, PTL
=============================================================================
