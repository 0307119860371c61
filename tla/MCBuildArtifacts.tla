-------------------------- MODULE MCBuildArtifacts --------------------------
(***************************************************************************)
(* Small instances of BuildArtifacts.tla: two documents of version 1 and   *)
(* one of version 2; the pin as committed, bumped, half edited (the        *)
(* checksum of before) and mis-edited (the version of before); source of   *)
(* either version, and one with an empty mapping file.                     *)
(***************************************************************************)
EXTENDS BuildArtifacts, TLC

EitherFetch == Permutations(Fetchers)

MCDocs == {"first", "again", "next"}
MCDocVersion == [d \in MCDocs |-> IF d = "next" THEN 2 ELSE 1]

Pin(version, at, sum) == [version |-> version, at |-> at, sum |-> sum]
Committed == Pin(1, "first", "first")
Bumped    == Pin(2, "next", "next")
HalfEdit  == Pin(1, "again", "first")
MisEdit   == Pin(1, "next", "next")

EveryPin == {Committed, Bumped, HalfEdit, MisEdit}

Code(rev, version, tables) == [rev |-> rev, version |-> version, tables |-> tables]
EveryCode == {Code(1, 1, Tables), Code(2, 1, {}), Code(3, 2, Tables)}
=============================================================================
