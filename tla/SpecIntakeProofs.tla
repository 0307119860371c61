------------------------- MODULE SpecIntakeProofs -------------------------
(***************************************************************************)
(* Proofs of SpecIntake.tla's invariants, for documents of any size and    *)
(* depth, with any names and any sanitizer that sanitizing twice does not  *)
(* change.                                                                 *)
(*                                                                         *)
(* The inductive invariant relates the document, stage by stage, to what   *)
(* arrived: the components to the keys sanitized so far, each node to what *)
(* it was, its references to the old names or the new ones, and the walk   *)
(* to a frontier, the set it has come to, which is closed under sub-       *)
(* schemas once nothing is left to visit.  Reach, the smallest closed set, *)
(* is then within it, without an induction over the depth of a schema.     *)
(***************************************************************************)
EXTENDS SpecIntake, TLAPS

Keys == DOMAIN given.schemas

\* Stages by what has been done: the keys are not read, and are as they were
\* until the walk, the references until the document is handed to the loader.
Unread   == {"license", "schemas"}
Raw      == Unread \cup {"keys", "walk", "refs"}
Clean    == {"load", "auth", "server", "titles", "validate", "fixed"}
Entitled == {"validate", "fixed"}

\* The components of K are where sanitizing their keys puts them, each alone.
Moved(K) ==
  /\ DOMAIN schemas = {Sane[k] : k \in K}
  /\ \A k \in K : schemas[Sane[k]] = given.schemas[k]
  /\ \A k, l \in K : Sane[k] = Sane[l] => k = l

KeysAreMoved ==
  /\ \A k \in DOMAIN schemas : k \in Names /\ schemas[k] \in Ids
  /\ stage \in Unread => todo = {} /\ schemas = given.schemas
  /\ stage = "keys" => todo \subseteq Keys /\ Moved(Keys \ todo)
  /\ stage \in {"keys", "walk", "refs"} => given.hasSchemas
  /\ stage \in {"walk", "refs"} \cup Clean => todo \subseteq Ids /\ Moved(Keys)
  /\ stage \in {"refs"} \cup Clean => todo = {}

\* What the document says as a whole, as far as it has been looked at.
WholeIsFit ==
  /\ license \in {"none", "empty", "named"}
  /\ server \in {"none", "relative", "moved", "absolute"}
  /\ stage \in Raw \ {"license"} => license # "empty"
  /\ stage = "load" => IF given.hasSchemas THEN license # "empty" ELSE license = given.license
  /\ stage \in Clean \ {"load"} => ~(given.license = "empty" /\ ~given.hasSchemas)
  /\ stage \in Raw \cup {"load", "auth"} =>
       auth = [schemes |-> given.schemes, required |-> given.required]
  /\ stage \in Clean \ {"load", "auth"} =>
       /\ given.schemes \cup given.required = {}
       /\ auth = [schemes |-> {"ApiKeyAuth"}, required |-> {"ApiKeyAuth"}]
  /\ stage \in Raw \cup {"load", "auth", "server"} => server = given.server
  /\ stage \in Clean \ {"load", "auth", "server"} =>
       given.server \in {"none", "relative"} /\ server = "absolute"

\* What a node was, was, and what it is now, is: the repairs only take away,
\* and what is typed anew has lost its enum.
Repaired(was, is) ==
  /\ is.null => was.null
  /\ was.type # "none" => is.type = was.type
  /\ is.type # was.type => is.enum = "none"
  /\ is.enum \in {"none", was.enum}
  /\ was.enum = "strings" /\ was.type \in {"none", "string"} => is.enum = "strings"
  /\ was.ref # None => is.ref # None
  /\ \A kid \in was.kids : kid.pos \in Telling => kid \in is.kids

NodesAreRepaired == \A n \in Ids : Repaired(given.node[n], node[n])

TitlesAreGiven ==
  stage \in Raw \cup (Clean \ Entitled) => \A n \in Ids : node[n].title = given.node[n].title

\* References and mapping targets before they are rewritten, and after.
Unrenamed(was, is) ==
  /\ is.ref \in {None, was.ref}
  /\ is.maps \in {{}, was.maps}

Retargeted(was, is) ==
  /\ is.ref # None => is.ref = Renamed(was.ref) /\ was.ref # None
  /\ is.maps # {} =>
       \A t \in was.maps : [bare |-> t.bare, name |-> Renamed(t.name)] \in is.maps

RefsAreRetargeted ==
  /\ stage \in Raw => \A n \in Ids : Unrenamed(given.node[n], node[n])
  /\ stage \in Clean => \A n \in Ids : Retargeted(given.node[n], node[n])

\* A node the walk has come to is one a type can be derived from.
Told(n) ==
  IF node[n].null THEN n \in Tops ELSE Typeless(node[n]) => OnlyAnEnum(given.node[n])

\* D is what the walk has come to: from each node it has visited, it has come
\* to every sub-schema.
Frontier(D) ==
  /\ Tops \cup todo \subseteq D
  /\ \A n \in D : Told(n)
  /\ \A n \in D \ todo : \A kid \in node[n].kids : kid.pos \in Walked => kid.id \in D

WalkIsComplete ==
  stage \in {"walk", "refs"} \cup Clean => \E D \in SUBSET Ids : Frontier(D)

NodesAreNodes == node \in [Ids -> NodeOver(Ids)]

\* Refused documents are unfit, and those that are taken in are not.
RefusalHasReason ==
  /\ stage = "failed" => Unfit
  /\ stage = "fixed" => ~Unfit

\* OnlyGivenTitlesClash, from the moment titles are set.
TitlesAreOwn ==
  stage \in Entitled =>
    LET values == {n \in Tops : node[n].ref = None /\ ~node[n].null}
        named  == {n \in values : given.node[n].title # None} IN
    /\ \A n \in named : node[n].title = given.node[n].title
    /\ \A n \in values \ named :
         /\ node[n].title \in KeysOf(n)
         /\ \A m \in values \ named : m # n => node[m].title # node[n].title

\* The inductive invariant: what is known of a document between any two steps.
IInv ==
  /\ given \in Docs
  /\ stage \in Stages
  /\ KeysAreMoved
  /\ WholeIsFit
  /\ NodesAreNodes
  /\ NodesAreRepaired
  /\ TitlesAreGiven
  /\ RefsAreRetargeted
  /\ WalkIsComplete
  /\ RefusalHasReason
  /\ TitlesAreOwn

LEMMA FreeFormFacts ==
  ASSUME NEW S, NEW x \in NodeOver(S)
  PROVE  /\ FreeForm(x) \in NodeOver(S)
         /\ ~FreeForm(x).null /\ FreeForm(x).free
         /\ FreeForm(x).type = "object" /\ FreeForm(x).enum = "none"
         /\ FreeForm(x).ref = None /\ FreeForm(x).title = x.title
         /\ FreeForm(x).maps = {} /\ FreeForm(x).kids = {}
  BY DEF FreeForm, NodeOver

LEMMA EnumDroppedFacts ==
  ASSUME NEW S, NEW x \in NodeOver(S)
  PROVE  /\ EnumDropped(x) \in NodeOver(S)
         /\ EnumDropped(x).null = x.null /\ EnumDropped(x).free = x.free
         /\ EnumDropped(x).type = x.type /\ EnumDropped(x).ref = x.ref
         /\ EnumDropped(x).title = x.title
         /\ EnumDropped(x).maps = x.maps /\ EnumDropped(x).kids = x.kids
         /\ EnumDropped(x).enum = IF EnumKept(x) THEN x.enum ELSE "none"
  BY DEF EnumDropped, NodeOver

LEMMA EntitledFacts ==
  ASSUME NEW S, NEW x \in NodeOver(S), NEW t \in Names
  PROVE  LET y == [x EXCEPT !.title = t] IN
         /\ y \in NodeOver(S)
         /\ y.null = x.null /\ y.free = x.free /\ y.type = x.type /\ y.enum = x.enum
         /\ y.ref = x.ref /\ y.maps = x.maps /\ y.kids = x.kids /\ y.title = t
  BY DEF NodeOver

LEMMA RenamedIsAName ==
  ASSUME NEW name \in Names
  PROVE  Renamed(name) \in Names
  BY IntakeAssumption DEF Renamed

LEMMA RewrittenFacts ==
  ASSUME NEW S, NEW x \in NodeOver(S)
  PROVE  /\ Rewritten(x) \in NodeOver(S)
         /\ Rewritten(x).null = x.null /\ Rewritten(x).free = x.free
         /\ Rewritten(x).type = x.type /\ Rewritten(x).enum = x.enum
         /\ Rewritten(x).title = x.title /\ Rewritten(x).kids = x.kids
         /\ Rewritten(x).ref = IF x.ref = None THEN None ELSE Renamed(x.ref)
         /\ \A t \in x.maps :
              [bare |-> t.bare, name |-> Renamed(t.name)] \in Rewritten(x).maps
         /\ x.maps = {} => Rewritten(x).maps = {}
<1> DEFINE Target(t) == [t EXCEPT !.name = Renamed(@)]
           Targets == {Target(t) : t \in x.maps}
<1>1. \A t \in x.maps : t \in [bare : BOOLEAN, name : Names]
  BY DEF NodeOver
<1>2. \A t \in x.maps : Target(t) = [bare |-> t.bare, name |-> Renamed(t.name)]
  BY <1>1
<1>3. Targets \in SUBSET [bare : BOOLEAN, name : Names]
  BY <1>1, <1>2, RenamedIsAName
<1>4. (IF x.ref = None THEN None ELSE Renamed(x.ref)) \in Names \cup {None}
  BY RenamedIsAName DEF NodeOver
<1>5. Rewritten(x) =
        [x EXCEPT !.ref = IF x.ref = None THEN None ELSE Renamed(x.ref), !.maps = Targets]
  BY DEF Rewritten
<1> HIDE DEF Targets
<1>6. /\ Rewritten(x) \in NodeOver(S)
      /\ Rewritten(x).null = x.null /\ Rewritten(x).free = x.free
      /\ Rewritten(x).type = x.type /\ Rewritten(x).enum = x.enum
      /\ Rewritten(x).title = x.title /\ Rewritten(x).kids = x.kids
      /\ Rewritten(x).ref = IF x.ref = None THEN None ELSE Renamed(x.ref)
      /\ Rewritten(x).maps = Targets
  BY <1>3, <1>4, <1>5 DEF NodeOver
<1> QED BY <1>2, <1>6 DEF Targets

LEMMA GivenFacts ==
  ASSUME given \in Docs
  PROVE  /\ Keys \subseteq Names
         /\ \A k \in Keys : given.schemas[k] \in Ids
         /\ \A n \in Ids : given.node[n] \in NodeOver(Ids)
         /\ given.license \in {"none", "empty", "named"}
         /\ given.server \in {"none", "relative", "moved", "absolute"}
  BY IntakeAssumption DEF Keys, Ids

\* Only an absent schemas object is passed over, and the document has no keys.
LEMMA NoSchemasNoKeys ==
  ASSUME IInv, ~given.hasSchemas
  PROVE  /\ Keys = {}
         /\ stage = "schemas" => DOMAIN schemas = {} /\ todo = {}
  BY IntakeAssumption DEF IInv, KeysAreMoved, Unread, Keys

LEMMA NullHoldsNothing ==
  ASSUME given \in Docs, NEW n \in Ids, given.node[n].null
  PROVE  /\ given.node[n].type = "none" /\ given.node[n].enum = "none"
         /\ given.node[n].ref = None /\ given.node[n].kids = {}
  BY IntakeAssumption DEF Ids

-----------------------------------------------------------------------------
(* The components and the document as a whole *)

LEMMA KeysStart == Init => KeysAreMoved
  BY GivenFacts DEF Init, KeysAreMoved, Unread, Clean, Keys, Ids

LEMMA GivenStays == [Next]_vars => given' = given
  BY DEF Next, vars, DropLicense, NoSchemas, BeginKeys, SanitizeKey, KeyCollides, BeginWalk,
         Visit, EndWalk, RewriteRefs, Load, LoadFails, InjectAPIKey, InjectFails, RewriteServer,
         ServerFails, EnsureTitles, Validate, Ended, Fail

LEMMA SaneKeyStep ==
  ASSUME IInv, SanitizeKey
  PROVE  KeysAreMoved'
<1> USE DEF IInv
<1>1. PICK k \in todo :
         /\ ~Taken(k)
         /\ schemas' = [n \in DOMAIN schemas \cup {Sane[k]} |->
                          IF n = Sane[k] THEN given.schemas[k] ELSE schemas[n]]
         /\ todo' = todo \ {k}
  BY DEF SanitizeKey
<1>2. stage = "keys" /\ stage' = stage /\ given' = given /\ Ids' = Ids /\ Keys' = Keys
  BY DEF SanitizeKey, Ids, Keys
<1>3. todo \subseteq Keys /\ Moved(Keys \ todo) /\ given.hasSchemas
  BY <1>2 DEF KeysAreMoved
<1>4. k \in Keys /\ Keys \ todo' = (Keys \ todo) \cup {k}
  BY <1>1, <1>3
<1>5. Sane[k] \in Names /\ given.schemas[k] \in Ids
  BY <1>4, GivenFacts, IntakeAssumption
<1>6. DOMAIN schemas = {Sane[l] : l \in Keys \ todo} /\ Sane[k] \notin DOMAIN schemas
  BY <1>1, <1>3 DEF Moved, Taken
<1>7. DOMAIN schemas' = {Sane[l] : l \in Keys \ todo'}
  BY <1>1, <1>4, <1>6
<1>8. \A l \in Keys \ todo' : schemas'[Sane[l]] = given.schemas[l]
  <2> TAKE l \in Keys \ todo'
  <2>1. CASE l = k
    BY <2>1, <1>1
  <2>2. CASE l # k
    <3>1. l \in Keys \ todo
      BY <2>2, <1>4
    <3>2. Sane[l] \in DOMAIN schemas /\ Sane[l] # Sane[k] /\ schemas[Sane[l]] = given.schemas[l]
      BY <3>1, <1>3, <1>6 DEF Moved
    <3> QED BY <3>2, <1>1
  <2> QED BY <2>1, <2>2
<1>9. \A l, m \in Keys \ todo' : Sane[l] = Sane[m] => l = m
  BY <1>3, <1>4, <1>6 DEF Moved
<1>10. \A n \in DOMAIN schemas' : n \in Names /\ schemas'[n] \in Ids
  <2>1. \A n \in DOMAIN schemas : n \in Names /\ schemas[n] \in Ids
    BY DEF KeysAreMoved
  <2> QED BY <2>1, <1>1, <1>5
<1>11. todo' \subseteq Keys
  BY <1>1, <1>3
<1>12. Moved(Keys \ todo)'
  BY <1>2, <1>7, <1>8, <1>9 DEF Moved
<1> QED BY <1>2, <1>3, <1>10, <1>11, <1>12 DEF KeysAreMoved, Unread, Clean

LEMMA KidsAreNodes ==
  ASSUME NodesAreNodes, NEW n \in Ids
  PROVE  Kids(n) \subseteq Ids
<1>1. node[n] \in NodeOver(Ids)
  BY DEF NodesAreNodes
<1>2. \A kid \in node[n].kids : kid.id \in Ids
  BY <1>1 DEF NodeOver
<1> QED BY <1>2 DEF Kids

LEMMA KeysStep ==
  ASSUME IInv, [Next]_vars
  PROVE  KeysAreMoved'
<1> USE DEF IInv, KeysAreMoved, Unread, Clean
<1>0. given' = given /\ Keys' = Keys /\ Ids' = Ids
  BY GivenStays DEF Keys, Ids
<1>1. CASE DropLicense
  BY <1>0, <1>1 DEF DropLicense
<1>2. CASE NoSchemas
  <2>1. Keys = {} /\ schemas' = schemas /\ todo' = {} /\ stage' = "load" /\ DOMAIN schemas = {}
    BY <1>2, NoSchemasNoKeys DEF NoSchemas, Keys
  <2>2. Moved(Keys)'
    BY <2>1, <1>0 DEF Moved
  <2> QED BY <2>1, <2>2, <1>0
<1>3. CASE BeginKeys
  <2>1. /\ given.hasSchemas /\ stage' = "keys" /\ DOMAIN schemas' = {}
        /\ Keys \ todo' = {} /\ todo' = Keys
    BY <1>3 DEF BeginKeys, Keys
  <2>2. Moved(Keys \ todo)'
    BY <2>1, <1>0 DEF Moved
  <2> QED BY <2>1, <2>2, <1>0
<1>4. CASE SanitizeKey
  BY <1>4, SaneKeyStep
<1>5. CASE KeyCollides
  BY <1>0, <1>5 DEF KeyCollides, Fail
<1>6. CASE BeginWalk
  <2>1. /\ stage = "keys" /\ stage' = "walk" /\ todo = {} /\ schemas' = schemas /\ todo' = Tops
    BY <1>6 DEF BeginWalk
  <2>2. Moved(Keys) /\ Keys \ todo = Keys
    BY <2>1
  <2>3. Moved(Keys)'
    BY <2>1, <2>2, <1>0 DEF Moved
  <2>4. Tops \subseteq Ids
    BY DEF Tops
  <2> QED BY <2>1, <2>3, <2>4, <1>0
<1>7. CASE Visit
  <2>1. PICK n \in todo :
          todo' = (todo \ {n}) \cup {k \in Kids(n) : Patched(node[k]) = node[k]}
    BY <1>7 DEF Visit
  <2>2. stage = "walk" /\ stage' = "walk" /\ schemas' = schemas
    BY <1>7 DEF Visit
  <2>3. todo' \subseteq Ids
    BY <2>1, <2>2, KidsAreNodes
  <2>4. Moved(Keys)'
    BY <2>2, <1>0 DEF Moved
  <2> QED BY <2>2, <2>3, <2>4, <1>0
<1>8. CASE EndWalk
  <2>1. Moved(Keys)' = Moved(Keys)
    BY <1>0, <1>8 DEF EndWalk, Moved
  <2> QED BY <2>1, <1>0, <1>8 DEF EndWalk
<1>9. CASE RewriteRefs
  <2>1. Moved(Keys)' = Moved(Keys)
    BY <1>0, <1>9 DEF RewriteRefs, Moved
  <2> QED BY <2>1, <1>0, <1>9 DEF RewriteRefs
<1>10. CASE Load \/ InjectAPIKey \/ RewriteServer \/ EnsureTitles \/ Validate
  <2>1. schemas' = schemas /\ todo' = todo /\ stage \in Clean /\ stage' \in Clean \cup {"failed"}
    BY <1>10 DEF Load, InjectAPIKey, RewriteServer, EnsureTitles, Validate
  <2>2. Moved(Keys)' = Moved(Keys)
    BY <1>0, <2>1 DEF Moved
  <2> QED BY <2>1, <2>2, <1>0
<1>11. CASE LoadFails \/ InjectFails \/ ServerFails
  BY <1>0, <1>11 DEF LoadFails, InjectFails, ServerFails, Fail
<1>12. CASE Ended \/ UNCHANGED vars
  <2>1. Moved(Keys)' = Moved(Keys) /\ Moved(Keys \ todo)' = Moved(Keys \ todo)
    BY <1>0, <1>12 DEF Ended, vars, Moved
  <2> QED BY <2>1, <1>0, <1>12 DEF Ended, vars
<1> QED BY <1>1, <1>2, <1>3, <1>4, <1>5, <1>6, <1>7, <1>8, <1>9, <1>10, <1>11, <1>12 DEF Next

LEMMA WholeStart == Init => WholeIsFit
<1> SUFFICES ASSUME Init PROVE WholeIsFit
  OBVIOUS
<1>1. given.license \in {"none", "empty", "named"}
      /\ given.server \in {"none", "relative", "moved", "absolute"}
  BY GivenFacts DEF Init
<1> QED BY <1>1 DEF Init, WholeIsFit, Raw, Unread, Clean

LEMMA WholeStep ==
  ASSUME IInv, [Next]_vars
  PROVE  WholeIsFit'
<1> USE DEF WholeIsFit, Raw, Unread, Clean
<1>0. given' = given /\ Keys' = Keys
  BY GivenStays DEF Keys
<1>a. WholeIsFit
  BY DEF IInv
<1>k. /\ stage \in Unread => schemas = given.schemas
      /\ stage \in {"keys", "walk", "refs"} => given.hasSchemas
  BY DEF IInv, KeysAreMoved
<1>1. CASE DropLicense
  BY <1>0, <1>a, <1>1 DEF DropLicense
<1>2. CASE NoSchemas
  <2>1. ~given.hasSchemas
    BY <1>2 DEF NoSchemas
  <2>2. given.license \in {"none", "empty", "named"}
    BY GivenFacts DEF IInv
  <2> QED BY <1>0, <1>a, <1>2, <2>1, <2>2 DEF NoSchemas
<1>3. CASE BeginKeys \/ SanitizeKey \/ BeginWalk \/ Visit \/ EndWalk
  BY <1>0, <1>a, <1>3 DEF BeginKeys, SanitizeKey, BeginWalk, Visit, EndWalk
<1>4. CASE RewriteRefs
  BY <1>0, <1>a, <1>k, <1>4 DEF RewriteRefs
<1>5. CASE Load
  BY <1>0, <1>a, <1>5 DEF Load, Loadable
<1>6. CASE InjectAPIKey
  <2>1. given.schemes \cup given.required = {}
    BY <1>a, <1>6 DEF InjectAPIKey, DeclaresAuth
  <2>2. auth' = [schemes |-> {"ApiKeyAuth"}, required |-> {"ApiKeyAuth"}]
    BY <1>a, <1>6 DEF InjectAPIKey, DeclaresAuth
  <2> QED BY <1>0, <1>a, <1>6, <2>1, <2>2 DEF InjectAPIKey
<1>7. CASE RewriteServer
  BY <1>0, <1>a, <1>7 DEF RewriteServer
<1>8. CASE EnsureTitles \/ Validate
  BY <1>0, <1>a, <1>8 DEF EnsureTitles, Validate
<1>9. CASE KeyCollides \/ LoadFails \/ InjectFails \/ ServerFails
  BY <1>0, <1>a, <1>9 DEF KeyCollides, LoadFails, InjectFails, ServerFails, Fail
<1>10. CASE Ended \/ UNCHANGED vars
  BY <1>0, <1>a, <1>10 DEF Ended, vars
<1> QED BY <1>1, <1>2, <1>3, <1>4, <1>5, <1>6, <1>7, <1>8, <1>9, <1>10 DEF Next

-----------------------------------------------------------------------------
(* What a step does to a node *)

\* The walk leaves a node, or takes its enum, or makes it a free-form object.
WalkedOn(is, after) ==
  \/ after = is
  \/ after = EnumDropped(is) /\ ~is.null
  \/ after = FreeForm(is) /\ (is.null \/ Typeless(is))

LEMMA WalkMoves ==
  ASSUME IInv, BeginWalk \/ Visit
  PROVE  DOMAIN node' = Ids /\ \A m \in Ids : WalkedOn(node[m], node'[m])
<1>0. DOMAIN node = Ids
  BY DEF IInv, NodesAreNodes
<1>1. CASE BeginWalk
  BY <1>0, <1>1 DEF BeginWalk, PatchedTop, WalkedOn
<1>2. CASE Visit
  <2>1. PICK n \in todo :
          node' = [m \in DOMAIN node |->
                     IF m = n /\ ~node[n].null THEN EnumDropped(node[n])
                     ELSE IF m \in Kids(n) THEN Patched(node[m]) ELSE node[m]]
    BY <1>2 DEF Visit
  <2> QED BY <1>0, <2>1 DEF Patched, WalkedOn
<1> QED BY <1>1, <1>2

LEMMA RewriteMoves ==
  ASSUME IInv, RewriteRefs
  PROVE  DOMAIN node' = Ids /\ \A m \in Ids : node'[m] = Rewritten(node[m])
  BY DEF IInv, NodesAreNodes, RewriteRefs

LEMMA TitleMoves ==
  ASSUME IInv, EnsureTitles
  PROVE  /\ DOMAIN node' = Ids
         /\ \A m \in Ids :
              /\ node'[m] \in NodeOver(Ids)
              /\ m \notin TitleLess => node'[m] = node[m]
              /\ node'[m].null = node[m].null /\ node'[m].free = node[m].free
              /\ node'[m].type = node[m].type /\ node'[m].enum = node[m].enum
              /\ node'[m].ref = node[m].ref /\ node'[m].maps = node[m].maps
              /\ node'[m].kids = node[m].kids
         /\ \A m \in TitleLess : node'[m].title \in KeysOf(m)
<1>0. DOMAIN node = Ids /\ \A m \in Ids : node[m] \in NodeOver(Ids)
  BY DEF IInv, NodesAreNodes
<1>1. PICK title \in [TitleLess -> DOMAIN schemas] :
         /\ \A n \in TitleLess : title[n] \in KeysOf(n)
         /\ node' = [n \in DOMAIN node |->
                       IF n \in TitleLess THEN [node[n] EXCEPT !.title = title[n]] ELSE node[n]]
  BY DEF EnsureTitles
<1>2. DOMAIN schemas \subseteq Names
  BY DEF IInv, KeysAreMoved
<1>3. TitleLess \subseteq Ids
  BY DEF TitleLess, Tops, IInv, KeysAreMoved
<1>4. ASSUME NEW m \in TitleLess
      PROVE  /\ node'[m] = [node[m] EXCEPT !.title = title[m]]
             /\ title[m] \in Names
  BY <1>0, <1>1, <1>2, <1>3
<1>5. ASSUME NEW m \in Ids, m \notin TitleLess
      PROVE  node'[m] = node[m]
  BY <1>0, <1>1, <1>5
<1>6. ASSUME NEW m \in TitleLess
      PROVE  /\ node'[m] \in NodeOver(Ids)
             /\ node'[m].null = node[m].null /\ node'[m].free = node[m].free
             /\ node'[m].type = node[m].type /\ node'[m].enum = node[m].enum
             /\ node'[m].ref = node[m].ref /\ node'[m].maps = node[m].maps
             /\ node'[m].kids = node[m].kids
             /\ node'[m].title = title[m]
  <2>1. m \in Ids
    BY <1>3
  <2>2. node[m] \in NodeOver(Ids)
    BY <1>0, <2>1
  <2>3. node'[m] = [node[m] EXCEPT !.title = title[m]] /\ title[m] \in Names
    BY <1>4
  <2> QED BY <2>2, <2>3, EntitledFacts
<1> QED BY <1>0, <1>1, <1>5, <1>6

\* The steps that write to no node.
NodesStay == given' = given /\ node' = node

LEMMA OtherSteps ==
  ASSUME [Next]_vars
  PROVE  BeginWalk \/ Visit \/ RewriteRefs \/ EnsureTitles \/ NodesStay
  BY DEF Next, vars, NodesStay, DropLicense, NoSchemas, BeginKeys, SanitizeKey, KeyCollides,
         EndWalk, Load, LoadFails, InjectAPIKey, InjectFails, RewriteServer,
         ServerFails, Validate, Ended, Fail

LEMMA NodesStart == Init => NodesAreNodes
  BY IntakeAssumption DEF Init, NodesAreNodes, Ids

LEMMA WalkedOnIsANode ==
  ASSUME NEW is \in NodeOver(Ids), NEW after, WalkedOn(is, after)
  PROVE  after \in NodeOver(Ids)
  BY EnumDroppedFacts, FreeFormFacts DEF WalkedOn

LEMMA NodesAreAFunction ==
  ASSUME NodesAreNodes
  PROVE  DOMAIN node = Ids /\ \A m \in Ids : node[m] \in NodeOver(Ids)
  BY DEF NodesAreNodes

LEMMA NodesStep ==
  ASSUME IInv, [Next]_vars
  PROVE  NodesAreNodes'
<1>0. NodesAreNodes /\ \A m \in Ids : node[m] \in NodeOver(Ids)
  BY NodesAreAFunction DEF IInv
<1>i. Ids' = Ids
  BY GivenStays DEF Ids
<1>1. CASE BeginWalk \/ Visit
  <2>1. \A m \in Ids : node'[m] \in NodeOver(Ids)
    BY <1>0, <1>1, WalkMoves, WalkedOnIsANode
  <2>2. node' = [m \in DOMAIN node' |-> node'[m]]
    BY <1>1 DEF BeginWalk, Visit
  <2> QED BY <1>i, <2>1, <2>2, <1>1, WalkMoves DEF NodesAreNodes
<1>2. CASE RewriteRefs
  <2>1. \A m \in Ids : node'[m] \in NodeOver(Ids)
    BY <1>0, <1>2, RewriteMoves, RewrittenFacts
  <2>2. node' = [m \in DOMAIN node' |-> node'[m]]
    BY <1>2 DEF RewriteRefs
  <2> QED BY <1>i, <2>1, <2>2, <1>2, RewriteMoves DEF NodesAreNodes
<1>3. CASE EnsureTitles
  <2>2. node' = [m \in DOMAIN node' |-> node'[m]]
    BY <1>3 DEF EnsureTitles
  <2> QED BY <1>i, <2>2, <1>3, TitleMoves DEF NodesAreNodes
<1>4. CASE NodesStay
  BY <1>0, <1>i, <1>4 DEF NodesStay, NodesAreNodes
<1> QED BY <1>1, <1>2, <1>3, <1>4, OtherSteps

-----------------------------------------------------------------------------
(* What the nodes keep *)

LEMMA RepairedByTheWalk ==
  ASSUME NEW S, NEW was \in NodeOver(S), NEW is \in NodeOver(S), NEW after,
         was.null => /\ was.type = "none" /\ was.enum = "none"
                     /\ was.ref = None /\ was.kids = {},
         Repaired(was, is), WalkedOn(is, after)
  PROVE  Repaired(was, after)
<1>1. CASE after = is
  BY <1>1
<1>2. CASE after = EnumDropped(is) /\ ~is.null
  <2>1. was.enum = "strings" /\ was.type \in {"none", "string"} => EnumKept(is)
    BY DEF Repaired, EnumKept
  <2> QED BY <1>2, <2>1, EnumDroppedFacts DEF Repaired
<1>3. CASE after = FreeForm(is) /\ (is.null \/ Typeless(is))
  <2>1. /\ was.type = "none" /\ was.ref = None
        /\ \A kid \in was.kids : kid.pos \notin Telling
        /\ ~(was.enum = "strings" /\ was.type \in {"none", "string"})
    BY <1>3 DEF Repaired, Typeless
  <2>2. /\ ~after.null /\ after.enum = "none"
    BY <1>3, FreeFormFacts
  <2> QED BY <2>1, <2>2 DEF Repaired
<1> QED BY <1>1, <1>2, <1>3 DEF WalkedOn

LEMMA RepairedWhenAlike ==
  ASSUME NEW was, NEW is, NEW after, Repaired(was, is),
         after.null = is.null, after.type = is.type, after.enum = is.enum,
         after.ref = None => is.ref = None, after.kids = is.kids
  PROVE  Repaired(was, after)
  BY DEF Repaired

LEMMA RepairedStart == Init => NodesAreRepaired
  BY GivenFacts DEF Init, NodesAreRepaired, Repaired, Ids, NodeOver

LEMMA NameIsNotNone == \A name \in Names : Renamed(name) # None
  BY RenamedIsAName, IntakeAssumption

LEMMA RewrittenRef ==
  ASSUME NEW S, NEW x \in NodeOver(S)
  PROVE  Rewritten(x).ref = None <=> x.ref = None
<1>1. x.ref \in Names \cup {None}
  BY DEF NodeOver
<1> QED BY <1>1, RewrittenFacts, NameIsNotNone

LEMMA RepairedStep ==
  ASSUME IInv, [Next]_vars
  PROVE  NodesAreRepaired'
<1>0. given' = given /\ Ids' = Ids
  BY GivenStays DEF Ids
<1>1. SUFFICES ASSUME NEW n \in Ids
              PROVE  Repaired(given.node[n], node'[n])
  BY <1>0 DEF NodesAreRepaired, Repaired
<1>2. /\ given.node[n] \in NodeOver(Ids) /\ node[n] \in NodeOver(Ids)
      /\ Repaired(given.node[n], node[n])
  BY GivenFacts, NodesAreAFunction DEF IInv, NodesAreRepaired
<1>3. CASE BeginWalk \/ Visit
  <2>1. WalkedOn(node[n], node'[n])
    BY <1>3, WalkMoves
  <2>2. given.node[n].null =>
          /\ given.node[n].type = "none" /\ given.node[n].enum = "none"
          /\ given.node[n].ref = None /\ given.node[n].kids = {}
    BY NullHoldsNothing DEF IInv
  <2> QED BY <1>2, <2>1, <2>2, RepairedByTheWalk
<1>4. CASE RewriteRefs
  <2>1. node'[n] = Rewritten(node[n])
    BY <1>4, RewriteMoves
  <2> QED BY <1>2, <2>1, RewrittenFacts, RewrittenRef, RepairedWhenAlike
<1>5. CASE EnsureTitles
  BY <1>2, <1>5, TitleMoves, RepairedWhenAlike
<1>6. CASE NodesStay
  BY <1>2, <1>6 DEF NodesStay
<1> QED BY <1>3, <1>4, <1>5, <1>6, OtherSteps

LEMMA TitlesStart == Init => TitlesAreGiven
  BY DEF Init, TitlesAreGiven, Ids

LEMMA GivenTitlesStep ==
  ASSUME IInv, [Next]_vars
  PROVE  TitlesAreGiven'
<1> USE DEF Raw, Unread, Clean, Entitled
<1>0. given' = given /\ Ids' = Ids
  BY GivenStays DEF Ids
<1>1. SUFFICES ASSUME stage' \in Raw \cup (Clean \ Entitled), NEW n \in Ids
              PROVE  node'[n].title = given.node[n].title
  BY <1>0 DEF TitlesAreGiven
<1>2. node[n] \in NodeOver(Ids)
  BY NodesAreAFunction DEF IInv
<1>3. CASE BeginWalk \/ Visit
  <2>1. node[n].title = given.node[n].title
    BY <1>3 DEF BeginWalk, Visit, IInv, TitlesAreGiven
  <2>2. WalkedOn(node[n], node'[n])
    BY <1>3, WalkMoves
  <2> QED BY <1>2, <2>1, <2>2, EnumDroppedFacts, FreeFormFacts DEF WalkedOn
<1>4. CASE RewriteRefs
  <2>1. node[n].title = given.node[n].title
    BY <1>4 DEF RewriteRefs, IInv, TitlesAreGiven
  <2> QED BY <1>2, <1>4, <2>1, RewriteMoves, RewrittenFacts
<1>5. CASE EnsureTitles
  BY <1>1, <1>5 DEF EnsureTitles
<1>6. CASE NodesStay
  <2>1. stage \in Raw \cup (Clean \ Entitled)
    BY <1>1 DEF Next, vars, DropLicense, NoSchemas, BeginKeys, SanitizeKey, KeyCollides, BeginWalk,
         Visit, EndWalk, RewriteRefs, Load, LoadFails, InjectAPIKey, InjectFails, RewriteServer,
         ServerFails, EnsureTitles, Validate, Ended, Fail
  <2> QED BY <1>6, <2>1 DEF NodesStay, IInv, TitlesAreGiven
<1> QED BY <1>3, <1>4, <1>5, <1>6, OtherSteps

-----------------------------------------------------------------------------
(* References and mapping targets *)

LEMMA RefsStart == Init => RefsAreRetargeted
  BY DEF Init, RefsAreRetargeted, Unrenamed, Ids, Raw, Unread, Clean

LEMMA UnrenamedByTheWalk ==
  ASSUME NEW S, NEW was, NEW is \in NodeOver(S), NEW after,
         Unrenamed(was, is), WalkedOn(is, after)
  PROVE  Unrenamed(was, after)
  BY EnumDroppedFacts, FreeFormFacts DEF WalkedOn, Unrenamed

LEMMA RetargetedByRewriting ==
  ASSUME NEW S, NEW was \in NodeOver(S), NEW is \in NodeOver(S), Unrenamed(was, is)
  PROVE  Retargeted(was, Rewritten(is))
<1>1. CASE is.maps = {}
  BY <1>1, RewrittenFacts DEF Unrenamed, Retargeted
<1>2. CASE is.maps = was.maps
  BY <1>2, RewrittenFacts DEF Unrenamed, Retargeted
<1> QED BY <1>1, <1>2 DEF Unrenamed

\* Where there are no components there is nothing to rename.
LEMMA RetargetedAsItIs ==
  ASSUME NEW S, NEW was \in NodeOver(S), NEW is \in NodeOver(S), Unrenamed(was, is), Keys = {}
  PROVE  Retargeted(was, is)
<1>1. \A name : Renamed(name) = name
  BY DEF Renamed, Keys
<1>2. \A t \in was.maps : t = [bare |-> t.bare, name |-> t.name]
  BY DEF NodeOver
<1> QED BY <1>1, <1>2 DEF Unrenamed, Retargeted

LEMMA RefsStep ==
  ASSUME IInv, [Next]_vars
  PROVE  RefsAreRetargeted'
<1> USE DEF Raw, Unread, Clean
<1>0. given' = given /\ Ids' = Ids
  BY GivenStays DEF Ids
<1>1. SUFFICES ASSUME NEW n \in Ids
              PROVE  /\ stage' \in Raw => Unrenamed(given.node[n], node'[n])
                     /\ stage' \in Clean => Retargeted(given.node[n], node'[n])
  <2>1. /\ \A n \in Ids : Unrenamed(given.node[n], node[n])' = Unrenamed(given.node[n], node'[n])
        /\ \A n \in Ids : Retargeted(given.node[n], node[n])' = Retargeted(given.node[n], node'[n])
    BY <1>0 DEF Unrenamed, Retargeted, Renamed
  <2> QED BY <1>0, <2>1 DEF RefsAreRetargeted
<1>2. /\ given.node[n] \in NodeOver(Ids) /\ node[n] \in NodeOver(Ids)
      /\ stage \in Raw => Unrenamed(given.node[n], node[n])
      /\ stage \in Clean => Retargeted(given.node[n], node[n])
  BY GivenFacts, NodesAreAFunction DEF IInv, RefsAreRetargeted
<1>3. CASE BeginWalk \/ Visit
  <2>1. stage \in Raw /\ stage' = "walk" /\ WalkedOn(node[n], node'[n])
    BY <1>3, WalkMoves DEF BeginWalk, Visit
  <2> QED BY <1>2, <2>1, UnrenamedByTheWalk
<1>4. CASE RewriteRefs
  <2>1. stage = "refs" /\ stage' = "load" /\ node'[n] = Rewritten(node[n])
    BY <1>4, RewriteMoves DEF RewriteRefs
  <2> QED BY <1>2, <2>1, RetargetedByRewriting
<1>5. CASE EnsureTitles
  <2>1. /\ stage = "titles" /\ stage' = "validate"
        /\ node'[n].ref = node[n].ref /\ node'[n].maps = node[n].maps
    BY <1>5, TitleMoves DEF EnsureTitles
  <2> QED BY <1>2, <2>1 DEF Retargeted
<1>6. CASE NodesStay
  <2>1. CASE NoSchemas
    <3>1. Keys = {} /\ stage = "schemas" /\ stage' = "load"
      BY <2>1, NoSchemasNoKeys DEF NoSchemas
    <3> QED BY <1>2, <1>6, <3>1, RetargetedAsItIs DEF NodesStay
  <2>2. CASE ~NoSchemas
    <3>1. \/ stage \in Raw /\ stage' \in Raw
          \/ stage \in Clean /\ stage' \in Clean \cup {"failed"}
          \/ stage' = "failed"
          \/ stage = "refs" /\ RewriteRefs
      BY <2>2 DEF IInv, Stages, Next, vars, DropLicense, BeginKeys, SanitizeKey, KeyCollides, BeginWalk,
         Visit, EndWalk, RewriteRefs, Load, LoadFails, InjectAPIKey, InjectFails, RewriteServer,
         ServerFails, EnsureTitles, Validate, Ended, Fail
    <3> QED BY <1>2, <1>4, <1>6, <3>1 DEF NodesStay
  <2> QED BY <2>1, <2>2
<1> QED BY <1>3, <1>4, <1>5, <1>6, OtherSteps

-----------------------------------------------------------------------------
(* The walk *)

\* Told(n), of what a step leaves at n.
TellsOf(x, was, top) == IF x.null THEN top ELSE Typeless(x) => OnlyAnEnum(was)

LEMMA ToldAfter ==
  ASSUME given' = given, schemas' = schemas, NEW n
  PROVE  Told(n)' <=> TellsOf(node'[n], given.node[n], n \in Tops)
  BY DEF Told, TellsOf, Tops, Typeless, OnlyAnEnum

LEMMA FrontierStays ==
  ASSUME NEW D \in SUBSET Ids, Frontier(D),
         given' = given, schemas' = schemas, todo' = todo,
         \A n \in Ids : /\ node'[n].null = node[n].null /\ node'[n].kids = node[n].kids
                        /\ Typeless(node'[n]) = Typeless(node[n])
  PROVE  Frontier(D)'
<1>1. Tops' = Tops
  BY DEF Tops
<1>2. \A n \in D : Told(n)'
  BY ToldAfter DEF Frontier, Told, TellsOf
<1> QED BY <1>1, <1>2 DEF Frontier

LEMMA FreeFormTells ==
  ASSUME NEW S, NEW x \in NodeOver(S), NEW was, NEW m, NEW T
  PROVE  TellsOf(FreeForm(x), was, m \in T)
  BY FreeFormFacts DEF TellsOf, Typeless

\* A node whose enum the walk drops told a type before, or was only an enum.
LEMMA EnumDroppedTells ==
  ASSUME NEW S, NEW was, NEW x \in NodeOver(S), NEW m, NEW T, ~x.null,
         Repaired(was, x), TellsOf(x, was, m \in T)
  PROVE  TellsOf(EnumDropped(x), was, m \in T)
<1>1. SUFFICES ASSUME Typeless(EnumDropped(x)), ~Typeless(x)
              PROVE  OnlyAnEnum(was)
  BY EnumDroppedFacts DEF TellsOf
<1>2. /\ x.type = "none" /\ x.enum # "none" /\ ~EnumKept(x)
  BY <1>1, EnumDroppedFacts DEF Typeless
<1>3. x.enum = "mixed"
  BY <1>2 DEF EnumKept, NodeOver
<1> QED BY <1>2, <1>3 DEF OnlyAnEnum, Repaired

LEMMA FrontierBegins ==
  ASSUME IInv, BeginWalk
  PROVE  \E D \in SUBSET Ids : Frontier(D)'
<1>1. given' = given /\ schemas' = schemas /\ todo' = Tops /\ Tops' = Tops /\ Ids' = Ids
  BY DEF BeginWalk, Tops, Ids
<1>2. Tops \subseteq Ids
  BY DEF Tops, IInv, KeysAreMoved
<1>3. PICK D \in SUBSET Ids : D = Tops
  BY <1>2
<1>4. ASSUME NEW n \in D
      PROVE  Told(n)'
  <2>1. node[n] \in NodeOver(Ids) /\ node'[n] = PatchedTop(node[n])
    BY <1>3, NodesAreAFunction DEF BeginWalk, IInv
  <2>2. TellsOf(node'[n], given.node[n], n \in Tops)
    BY <1>3, <2>1, FreeFormTells DEF PatchedTop, TellsOf
  <2> QED BY <1>1, <2>2, ToldAfter
<1>5. Frontier(D)'
  BY <1>1, <1>3, <1>4 DEF Frontier
<1> QED BY <1>5

LEMMA FrontierMoves ==
  ASSUME IInv, Visit, NEW D \in SUBSET Ids, Frontier(D)
  PROVE  \E E \in SUBSET Ids : Frontier(E)'
<1>1. PICK n \in todo :
        /\ node' = [m \in DOMAIN node |->
                      IF m = n /\ ~node[n].null THEN EnumDropped(node[n])
                      ELSE IF m \in Kids(n) THEN Patched(node[m]) ELSE node[m]]
        /\ todo' = (todo \ {n}) \cup {k \in Kids(n) : Patched(node[k]) = node[k]}
  BY DEF Visit
<1>2. /\ given' = given /\ schemas' = schemas /\ Tops' = Tops /\ Ids' = Ids
  BY DEF Visit, Tops, Ids
<1>3. n \in D
  BY DEF Frontier
<1>4. DOMAIN node = Ids /\ (\A m \in Ids : node[m] \in NodeOver(Ids)) /\ Kids(n) \subseteq Ids
  BY <1>3, NodesAreAFunction, KidsAreNodes DEF IInv
<1>e. PICK E \in SUBSET Ids : E = D \cup Kids(n)
  BY <1>4
<1>5. ASSUME NEW m \in E
      PROVE  Told(m)'
  <2>1. m \in Ids /\ node[m] \in NodeOver(Ids) /\ Repaired(given.node[m], node[m])
    BY DEF IInv, NodesAreRepaired, NodesAreNodes
  <2>2. m \in D => TellsOf(node[m], given.node[m], m \in Tops)
    BY DEF Frontier, Told, TellsOf
  <2>3. CASE m = n /\ ~node[n].null
    <3>1. node'[m] = EnumDropped(node[m])
      BY <1>1, <1>4, <2>1, <2>3
    <3>2. ~node[m].null /\ TellsOf(node[m], given.node[m], m \in Tops)
      BY <1>3, <2>2, <2>3
    <3>3. TellsOf(EnumDropped(node[m]), given.node[m], m \in Tops)
      BY <2>1, <3>2, EnumDroppedTells
    <3> QED BY <1>2, <3>1, <3>3, ToldAfter
  <2>4. CASE ~(m = n /\ ~node[n].null) /\ m \in Kids(n)
    <3>1. node'[m] = Patched(node[m])
      BY <1>1, <1>4, <2>1, <2>4
    <3>2. TellsOf(node'[m], given.node[m], m \in Tops)
      BY <3>1, <2>1, FreeFormTells DEF Patched, TellsOf
    <3> QED BY <1>2, <3>2, ToldAfter
  <2>5. CASE ~(m = n /\ ~node[n].null) /\ m \notin Kids(n)
    <3>1. node'[m] = node[m]
      BY <1>1, <1>4, <2>1, <2>5
    <3> QED BY <1>2, <1>e, <2>2, <2>5, <3>1, ToldAfter
  <2> QED BY <2>3, <2>4, <2>5
<1>6. ASSUME NEW m \in E \ todo', NEW kid \in node'[m].kids, kid.pos \in Walked
      PROVE  kid.id \in E
  <2>1. m \in Ids /\ node[m] \in NodeOver(Ids)
    BY <1>4
  <2>2. CASE m = n
    <3>1. kid \in node[n].kids
      <4>1. node'[m] = EnumDropped(node[m]) \/ node'[m] = Patched(node[m]) \/ node'[m] = node[m]
        BY <1>1, <1>4, <2>1, <2>2
      <4> QED BY <4>1, <2>1, <2>2, EnumDroppedFacts, FreeFormFacts DEF Patched
    <3> QED BY <1>e, <3>1, <1>6 DEF Kids
  <2>3. CASE m # n /\ m \in Kids(n)
    <3>1. node'[m] = Patched(node[m]) /\ Patched(node[m]) # node[m]
      BY <1>1, <1>4, <1>6, <2>1, <2>3
    <3>2. node'[m].kids = {}
      BY <3>1, <2>1, FreeFormFacts DEF Patched
    <3> QED BY <3>2
  <2>4. CASE m # n /\ m \notin Kids(n)
    <3>1. node'[m] = node[m] /\ m \in D \ todo
      BY <1>1, <1>4, <1>6, <1>e, <2>1, <2>4
    <3> QED BY <1>e, <3>1, <1>6 DEF Frontier
  <2> QED BY <2>2, <2>3, <2>4
<1>7. Tops \cup todo' \subseteq E
  BY <1>1, <1>e DEF Frontier
<1>8. Frontier(E)'
  BY <1>2, <1>5, <1>6, <1>7 DEF Frontier
<1> QED BY <1>8

LEMMA WalkStart == Init => WalkIsComplete
  BY DEF Init, WalkIsComplete, Clean

LEMMA TypelessAlike ==
  ASSUME NEW x, NEW y, x.type = y.type, x.enum = y.enum, x.free = y.free, x.kids = y.kids,
         x.ref = None <=> y.ref = None
  PROVE  Typeless(x) = Typeless(y)
  BY DEF Typeless

LEMMA WalkStep ==
  ASSUME IInv, [Next]_vars
  PROVE  WalkIsComplete'
<1> USE DEF Clean
<1>0. given' = given /\ Ids' = Ids
  BY GivenStays DEF Ids
<1>1. SUFFICES ASSUME stage' \in {"walk", "refs"} \cup Clean
              PROVE  \E D \in SUBSET Ids : Frontier(D)'
  BY <1>0 DEF WalkIsComplete
<1>2. CASE BeginWalk
  BY <1>2, FrontierBegins
<1>3. stage \in {"walk", "refs"} \cup Clean => \E D \in SUBSET Ids : Frontier(D)
  BY DEF IInv, WalkIsComplete
<1>4. CASE Visit
  BY <1>3, <1>4, FrontierMoves DEF Visit
<1>5. \A n \in Ids : node[n] \in NodeOver(Ids)
  BY NodesAreAFunction DEF IInv
<1>6. CASE RewriteRefs
  <2>1. PICK D \in SUBSET Ids : Frontier(D)
    BY <1>3, <1>6 DEF RewriteRefs
  <2>2. given' = given /\ schemas' = schemas /\ todo' = todo
    BY <1>6 DEF RewriteRefs
  <2>3. ASSUME NEW n \in Ids
        PROVE  /\ node'[n].null = node[n].null /\ node'[n].kids = node[n].kids
               /\ Typeless(node'[n]) = Typeless(node[n])
    <3>1. node'[n] = Rewritten(node[n]) /\ node[n] \in NodeOver(Ids)
      BY <1>5, <1>6, RewriteMoves
    <3>2. /\ node'[n].null = node[n].null /\ node'[n].free = node[n].free
          /\ node'[n].type = node[n].type /\ node'[n].enum = node[n].enum
          /\ node'[n].kids = node[n].kids
          /\ node'[n].ref = None <=> node[n].ref = None
      BY <3>1, RewrittenFacts, RewrittenRef
    <3> QED BY <3>2, TypelessAlike
  <2> QED BY <2>1, <2>2, <2>3, FrontierStays
<1>7. CASE EnsureTitles
  <2>1. PICK D \in SUBSET Ids : Frontier(D)
    BY <1>3, <1>7 DEF EnsureTitles
  <2>2. given' = given /\ schemas' = schemas /\ todo' = todo
    BY <1>7 DEF EnsureTitles
  <2>3. ASSUME NEW n \in Ids
        PROVE  /\ node'[n].null = node[n].null /\ node'[n].kids = node[n].kids
               /\ Typeless(node'[n]) = Typeless(node[n])
    BY <1>7, TitleMoves, TypelessAlike
  <2> QED BY <2>1, <2>2, <2>3, FrontierStays
<1>8. CASE NodesStay
  <2>1. CASE NoSchemas
    <3>1. given' = given /\ schemas' = schemas /\ todo' = {} /\ DOMAIN schemas = {}
      BY <2>1, NoSchemasNoKeys DEF NoSchemas, IInv, KeysAreMoved, Unread, Keys
    <3>2. Tops' = {}
      BY <3>1 DEF Tops
    <3>3. Frontier({})'
      BY <3>1, <3>2 DEF Frontier
    <3> QED BY <3>3
  <2>2. CASE ~NoSchemas /\ ~BeginWalk /\ ~Visit
    <3>1. /\ stage \in {"walk", "refs"} \cup Clean
          /\ given' = given /\ schemas' = schemas /\ todo' = todo
      BY <2>2, <1>1 DEF IInv, Stages, Next, vars, DropLicense, BeginKeys, SanitizeKey, KeyCollides,
         EndWalk, RewriteRefs, Load, LoadFails, InjectAPIKey, InjectFails, RewriteServer,
         ServerFails, EnsureTitles, Validate, Ended, Fail
    <3>2. PICK D \in SUBSET Ids : Frontier(D)
      BY <3>1, <1>3
    <3> QED BY <1>8, <3>1, <3>2, FrontierStays DEF NodesStay
  <2> QED BY <1>2, <1>4, <2>1, <2>2
<1> QED BY <1>2, <1>4, <1>6, <1>7, <1>8, OtherSteps

-----------------------------------------------------------------------------
(* Titles *)

\* A node no reference goes on from is the only one of its kind that a key
\* leads to.
LEMMA OneEnd ==
  ASSUME \A k \in DOMAIN schemas : schemas[k] \in DOMAIN node,
         NEW n \in DOMAIN node, NEW m \in DOMAIN node, NEW k \in KeysOf(n), k \in KeysOf(m),
         node[n].ref \notin DOMAIN schemas, node[m].ref \notin DOMAIN schemas
  PROVE  m = n
<1> DEFINE Closed(T) == \A x \in T : node[x].ref \in DOMAIN schemas => schemas[node[x].ref] \in T
           LeadsToN == {x \in DOMAIN node :
                          \A T \in SUBSET DOMAIN node : x \in T /\ Closed(T) => n \in T}
<1>1. k \in DOMAIN schemas /\ schemas[k] \in DOMAIN node
  BY DEF KeysOf
<1>2. schemas[k] \in LeadsToN
  BY <1>1 DEF KeysOf
<1>3. Closed(LeadsToN)
  <2>1. SUFFICES ASSUME NEW x \in LeadsToN, node[x].ref \in DOMAIN schemas
                PROVE  schemas[node[x].ref] \in LeadsToN
    OBVIOUS
  <2>2. schemas[node[x].ref] \in DOMAIN node
    BY <2>1
  <2>3. ASSUME NEW T \in SUBSET DOMAIN node, schemas[node[x].ref] \in T, Closed(T)
        PROVE  n \in T
    <3>1. T \cup {x} \in SUBSET DOMAIN node /\ x \in T \cup {x} /\ Closed(T \cup {x})
      BY <2>3
    <3>2. n \in T \cup {x}
      BY <3>1
    <3>3. n # x
      BY <2>1
    <3> QED BY <3>2, <3>3
  <2> QED BY <2>2, <2>3
<1>4. LeadsToN \in SUBSET DOMAIN node
  OBVIOUS
<1>5. m \in LeadsToN
  BY <1>2, <1>3, <1>4 DEF KeysOf
<1>6. Closed({m}) /\ {m} \in SUBSET DOMAIN node
  OBVIOUS
<1>7. n \in {m}
  BY <1>5, <1>6
<1> QED BY <1>7

LEMMA KeysOfStay ==
  ASSUME schemas' = schemas, DOMAIN node' = DOMAIN node,
         \A m \in DOMAIN node : node'[m].ref = node[m].ref, NEW n
  PROVE  KeysOf(n)' = KeysOf(n)
<1>1. ASSUME NEW T \in SUBSET DOMAIN node
      PROVE  (\A m \in T : node[m].ref \in DOMAIN schemas => schemas[node[m].ref] \in T)
             <=> \A m \in T : node'[m].ref \in DOMAIN schemas => schemas[node'[m].ref] \in T
  OBVIOUS
<1> QED BY <1>1 DEF KeysOf

LEMMA TitlesStep ==
  ASSUME IInv, [Next]_vars
  PROVE  TitlesAreOwn'
<1>0. given' = given /\ Ids' = Ids
  BY GivenStays DEF Ids
<1>1. CASE EnsureTitles
  <2>1. /\ schemas' = schemas /\ Tops' = Tops /\ Tops \subseteq Ids /\ DOMAIN node = Ids
        /\ \A n \in DOMAIN schemas : n \in Names /\ schemas[n] \in DOMAIN node
        /\ None \notin DOMAIN schemas
    BY <1>1, NodesAreAFunction, IntakeAssumption DEF EnsureTitles, Tops, IInv, KeysAreMoved
  <2>2. \A n \in Ids : node[n].title = given.node[n].title
    BY <1>1 DEF EnsureTitles, IInv, TitlesAreGiven, Raw, Unread, Clean, Entitled
  <2>3. \A n \in Ids : node'[n].ref = node[n].ref /\ node'[n].null = node[n].null
    BY <1>1, TitleMoves
  <2>4. ASSUME NEW n \in Tops, node'[n].ref = None, ~node'[n].null, given.node[n].title # None
        PROVE  node'[n].title = given.node[n].title
    <3>1. n \in Ids /\ n \notin TitleLess
      BY <2>1, <2>2, <2>4 DEF TitleLess
    <3> QED BY <1>1, <2>2, <3>1, TitleMoves
  <2>5. ASSUME NEW n \in Tops, node'[n].ref = None, ~node'[n].null, given.node[n].title = None
        PROVE  n \in TitleLess /\ node'[n].title \in KeysOf(n)
    <3>1. n \in TitleLess
      BY <2>1, <2>2, <2>3, <2>5 DEF TitleLess
    <3> QED BY <1>1, <3>1, TitleMoves
  <2>6. ASSUME NEW n \in TitleLess, NEW m \in TitleLess, node'[m].title = node'[n].title
        PROVE  m = n
    <3>1. n \in Ids /\ m \in Ids /\ node[n].ref = None /\ node[m].ref = None
      BY <2>1 DEF TitleLess
    <3>2. node'[n].title \in KeysOf(n) /\ node'[n].title \in KeysOf(m)
      BY <1>1, <2>6, TitleMoves
    <3> QED BY <2>1, <3>1, <3>2, OneEnd
  <2>7. \A n : KeysOf(n)' = KeysOf(n)
    BY <1>1, <2>1, <2>3, TitleMoves, KeysOfStay
  <2> QED BY <1>0, <2>1, <2>4, <2>5, <2>6, <2>7 DEF TitlesAreOwn
<1>2. CASE ~EnsureTitles /\ stage' \in Entitled
  <2>1. stage \in Entitled /\ schemas' = schemas /\ node' = node
    BY <1>2 DEF Entitled, Next, vars, DropLicense, NoSchemas, BeginKeys, SanitizeKey, KeyCollides,
         BeginWalk, Visit, EndWalk, RewriteRefs, Load, LoadFails, InjectAPIKey, InjectFails,
         RewriteServer, ServerFails, Validate, Ended, Fail
  <2>2. Tops' = Tops /\ \A n : KeysOf(n)' = KeysOf(n)
    BY <2>1, KeysOfStay DEF Tops
  <2>3. TitlesAreOwn
    BY DEF IInv
  <2> QED BY <1>0, <2>1, <2>2, <2>3 DEF TitlesAreOwn
<1>3. CASE stage' \notin Entitled
  BY <1>3 DEF TitlesAreOwn, Entitled
<1> QED BY <1>1, <1>2, <1>3

-----------------------------------------------------------------------------
(* Refusals *)

LEMMA UnfitStays ==
  ASSUME given' = given, schemas' = schemas, node' = node
  PROVE  Unfit' = Unfit
<1>1. Live' = Live
  BY DEF Live, Reach, Tops
<1> QED BY <1>1 DEF Unfit, Collides

\* The names a reference of the sanitized document can give.
LEMMA RefsNow ==
  ASSUME IInv, stage = "validate", NEW n \in Ids
  PROVE  node[n].ref \in DOMAIN schemas \cup {None}
         <=> given.node[n].ref \in Keys \cup {Sane[k] : k \in Keys} \cup {None}
<1>1. /\ given.node[n].ref \in Names \cup {None} /\ node[n].ref \in Names \cup {None}
  BY GivenFacts, NodesAreAFunction DEF IInv, NodeOver
<1>2. Retargeted(given.node[n], node[n]) /\ Repaired(given.node[n], node[n])
  BY DEF IInv, RefsAreRetargeted, NodesAreRepaired, Clean
<1>3. DOMAIN schemas = {Sane[k] : k \in Keys}
  BY DEF IInv, KeysAreMoved, Moved, Clean
<1>4. CASE given.node[n].ref = None
  BY <1>2, <1>4 DEF Retargeted
<1>5. CASE given.node[n].ref # None
  <2>1. node[n].ref # None /\ node[n].ref = Renamed(given.node[n].ref)
    BY <1>2, <1>5 DEF Repaired, Retargeted
  <2>2. CASE given.node[n].ref \in Keys
    BY <1>3, <2>1, <2>2 DEF Renamed, Keys
  <2>3. CASE given.node[n].ref \notin Keys
    BY <1>3, <1>5, <2>1, <2>3 DEF Renamed, Keys
  <2> QED BY <2>2, <2>3
<1> QED BY <1>4, <1>5

LEMMA ReasonStep ==
  ASSUME IInv, [Next]_vars
  PROVE  RefusalHasReason'
<1>0. given' = given /\ Keys' = Keys
  BY GivenStays DEF Keys
<1>1. CASE KeyCollides
  <2>1. PICK k \in todo : Taken(k)
    BY <1>1 DEF KeyCollides
  <2>2. Moved(Keys \ todo) /\ todo \subseteq Keys
    BY <1>1 DEF KeyCollides, IInv, KeysAreMoved
  <2>3. Collides
    BY <2>1, <2>2 DEF Taken, Moved, Collides, Keys
  <2> QED BY <1>1, <2>3, UnfitStays DEF KeyCollides, Fail, Unfit, RefusalHasReason
<1>2. CASE LoadFails
  <2>1. stage = "load" /\ ~Loadable
    BY <1>2 DEF LoadFails
  <2>2. \A k \in DOMAIN schemas : Sane[k] = k
    <3>1. Moved(Keys) /\ Keys \subseteq Names
      BY <2>1, GivenFacts DEF IInv, KeysAreMoved, Clean
    <3> QED BY <3>1, IntakeAssumption DEF Moved
  <2>3. given.license = "empty" /\ ~given.hasSchemas
    BY <2>1, <2>2 DEF Loadable, IInv, WholeIsFit
  <2> QED BY <1>2, <2>3, UnfitStays DEF LoadFails, Fail, Unfit, RefusalHasReason, Keys
<1>3. CASE InjectFails
  <2>1. given.schemes \cup given.required # {}
    BY <1>3 DEF InjectFails, DeclaresAuth, IInv, WholeIsFit
  <2> QED BY <1>3, <2>1, UnfitStays DEF InjectFails, Fail, Unfit, RefusalHasReason
<1>4. CASE ServerFails
  <2>1. given.server \notin {"none", "relative"}
    BY <1>4 DEF ServerFails, IInv, WholeIsFit, Clean
  <2> QED BY <1>4, <2>1, UnfitStays DEF ServerFails, Fail, Unfit, RefusalHasReason
<1>5. CASE Validate
  <2>1. /\ stage = "validate" /\ stage' = (IF Dangles THEN "failed" ELSE "fixed")
        /\ schemas' = schemas /\ node' = node
    BY <1>5 DEF Validate
  <2>2. Live \subseteq Ids
    BY NodesAreAFunction DEF Live, Reach, IInv
  <2>3. CASE Dangles
    <3>1. PICK n \in Live : node[n].ref \notin DOMAIN schemas \cup {None}
      BY <2>3 DEF Dangles
    <3>2. given.node[n].ref \notin Keys \cup {Sane[k] : k \in Keys} \cup {None}
      BY <2>1, <2>2, <3>1, RefsNow
    <3>3. Unfit
      BY <3>2 DEF Unfit, Keys
    <3> QED BY <1>0, <2>1, <2>3, <3>3, UnfitStays DEF RefusalHasReason
  <2>4. CASE ~Dangles
    <3>1. \A n \in Live : given.node[n].ref \in Keys \cup {Sane[k] : k \in Keys} \cup {None}
      BY <2>1, <2>2, <2>4, RefsNow DEF Dangles
    <3>2. ~Collides
      BY <2>1 DEF IInv, KeysAreMoved, Moved, Clean, Collides, Keys
    <3>3. /\ given.schemes \cup given.required = {} /\ given.server \in {"none", "relative"}
          /\ ~(given.license = "empty" /\ ~given.hasSchemas)
      BY <2>1 DEF IInv, WholeIsFit, Clean
    <3>4. ~Unfit
      BY <3>1, <3>2, <3>3 DEF Unfit, Keys
    <3> QED BY <1>0, <2>1, <2>4, <3>4, UnfitStays DEF RefusalHasReason
  <2> QED BY <2>3, <2>4
<1>6. CASE Ended \/ UNCHANGED vars
  BY <1>6, UnfitStays DEF Ended, vars, IInv, RefusalHasReason
<1>7. CASE stage' \notin {"failed", "fixed"}
  BY <1>7 DEF RefusalHasReason
<1> QED
  BY <1>1, <1>2, <1>3, <1>4, <1>5, <1>6, <1>7
  DEF Next, DropLicense, NoSchemas, BeginKeys, SanitizeKey, BeginWalk, Visit, EndWalk,
      RewriteRefs, Load, InjectAPIKey, RewriteServer, EnsureTitles

-----------------------------------------------------------------------------
(* The theorems *)

LEMMA Starts == Init => IInv
<1> SUFFICES ASSUME Init PROVE IInv
  OBVIOUS
<1>1. given \in Docs /\ stage = "license"
  BY DEF Init
<1>2. stage \in Stages /\ RefusalHasReason /\ TitlesAreOwn
  BY <1>1 DEF Stages, RefusalHasReason, TitlesAreOwn, Entitled
<1> QED
  BY <1>1, <1>2, KeysStart, WholeStart, NodesStart, RepairedStart, TitlesStart, RefsStart,
     WalkStart DEF IInv

LEMMA StagesStep ==
  ASSUME IInv, [Next]_vars
  PROVE  stage' \in Stages
  BY DEF IInv, Stages, Next, vars, DropLicense, NoSchemas, BeginKeys, SanitizeKey, KeyCollides,
         BeginWalk, Visit, EndWalk, RewriteRefs, Load, LoadFails, InjectAPIKey, InjectFails,
         RewriteServer, ServerFails, EnsureTitles, Validate, Ended, Fail

LEMMA Inductive == Spec => []IInv
<1>1. IInv /\ [Next]_vars => IInv'
  <2> SUFFICES ASSUME IInv, [Next]_vars PROVE IInv'
    OBVIOUS
  <2>1. (given \in Docs)'
    BY GivenStays DEF IInv
  <2> QED
    BY <2>1, StagesStep, KeysStep, WholeStep, NodesStep, RepairedStep, GivenTitlesStep,
       RefsStep, WalkStep, ReasonStep, TitlesStep DEF IInv
<1> QED BY Starts, <1>1, PTL DEF Spec

\* A sanitized document has been taken in without a reason to refuse it so far.
LEMMA SanitizedIsClean ==
  ASSUME IInv
  PROVE  Sanitized <=> stage \in Clean
  BY DEF IInv, Sanitized, Stages, Clean

\* What is still part of the document are nodes of it.
LEMMA LiveAreNodes ==
  ASSUME IInv
  PROVE  Live \subseteq Ids
  BY NodesAreAFunction DEF IInv, Live, Reach

\* The generator never loses the shape of the document it takes in, and every
\* key it hands to the loader is in the charset of a component key
\* (spec_sanitize.go:17-24 and 56-94).
THEOREM TypeCorrect == Spec => []TypeOK
<1>1. IInv => TypeOK
  <2> SUFFICES ASSUME IInv PROVE TypeOK
    OBVIOUS
  <2>1. stage \in Clean => \A k \in DOMAIN schemas : Sane[k] = k
    <3>1. SUFFICES ASSUME stage \in Clean PROVE \A k \in DOMAIN schemas : Sane[k] = k
      OBVIOUS
    <3>2. Moved(Keys) /\ Keys \subseteq Names
      BY <3>1, GivenFacts DEF IInv, KeysAreMoved
    <3> QED BY <3>2, IntakeAssumption DEF Moved
  <2>2. stage \notin {"keys", "failed"} => todo \subseteq Ids
    BY DEF IInv, Stages, KeysAreMoved, Unread, Clean
  <2> QED BY <2>1, <2>2, SanitizedIsClean DEF IInv, TypeOK, KeysAreMoved, WholeIsFit, NodesAreNodes
<1> QED BY Inductive, <1>1, PTL

\* Whatever the document, a reference or mapping target leads after the renaming
\* to the schema it led to before (spec_sanitize.go:238-272).
THEOREM RefsCorrect == Spec => []RefsLeadWhereTheyDid
<1>1. IInv => RefsLeadWhereTheyDid
  <2> SUFFICES ASSUME IInv, stage \in Clean, NEW n \in Live
               PROVE  /\ node[n].ref # None /\ given.node[n].ref \in Keys =>
                           schemas[node[n].ref] = given.schemas[given.node[n].ref]
                      /\ \A t \in given.node[n].maps :
                           node[n].maps # {} /\ t.name \in Keys =>
                             \E u \in node[n].maps :
                               /\ u.bare = t.bare /\ u.name \in DOMAIN schemas
                               /\ schemas[u.name] = given.schemas[t.name]
    BY SanitizedIsClean DEF RefsLeadWhereTheyDid, Keys
  <2>1. Retargeted(given.node[n], node[n]) /\ Moved(Keys)
    BY LiveAreNodes DEF IInv, RefsAreRetargeted, KeysAreMoved
  <2>2. \A k \in Keys : /\ Renamed(k) \in DOMAIN schemas
                        /\ schemas[Renamed(k)] = given.schemas[k]
    BY <2>1 DEF Moved, Renamed, Keys
  <2> QED BY <2>1, <2>2 DEF Retargeted
<1> QED BY Inductive, <1>1, PTL

\* Whatever keys it has, no component of a document that is taken in is lost
\* under the key of another (spec_sanitize.go:24-26 and 67-77).
THEOREM LossCorrect == Spec => []NoSchemaIsLost
<1>1. IInv => NoSchemaIsLost
  <2> SUFFICES ASSUME IInv, stage \in Clean
               PROVE  Tops = {given.schemas[k] : k \in Keys}
    BY SanitizedIsClean DEF NoSchemaIsLost, Keys
  <2>1. Moved(Keys)
    BY DEF IInv, KeysAreMoved
  <2> QED BY <2>1 DEF Moved, Tops
<1> QED BY Inductive, <1>1, PTL

\* No repair takes from a schema what says what it is (spec_sanitize.go:180-185
\* and 216-230).
THEOREM MeaningCorrect == Spec => []MeaningIsKept
<1>1. IInv => MeaningIsKept
  BY LiveAreNodes DEF IInv, MeaningIsKept, NodesAreRepaired, Repaired
<1> QED BY Inductive, <1>1, PTL

\* However deep the document, the walk misses no sub-schema that says nothing
\* (spec_sanitize.go:80-88 and 216-219).
THEOREM TellsCorrect == Spec => []EverySchemaTellsAType
<1>1. IInv => EverySchemaTellsAType
  <2> SUFFICES ASSUME IInv, stage \in Clean, NEW n \in Reach(Tops, Walked)
               PROVE  Told(n)
    BY SanitizedIsClean DEF EverySchemaTellsAType, Told
  <2>1. PICK D \in SUBSET Ids : Frontier(D)
    BY DEF IInv, WalkIsComplete
  <2>2. todo = {} /\ DOMAIN node = Ids
    BY NodesAreAFunction DEF IInv, KeysAreMoved
  <2>3. n \in D
    BY <2>1, <2>2 DEF Reach, Frontier
  <2> QED BY <2>1, <2>3 DEF Frontier
<1> QED BY Inductive, <1>1, PTL

\* A document is refused for a reason of its own, and one with a reason is
\* refused (spec_sanitize.go:47-54 and 67-71, openapi_fixes.go:46-51).
THEOREM RefusalCorrect == Spec => []RefusedWithReason
<1>1. IInv => RefusedWithReason
  BY DEF IInv, RefusedWithReason, RefusalHasReason, WholeIsFit, Clean
<1> QED BY Inductive, <1>1, PTL

\* In whatever order the map is ranged over, and however the references between
\* the components run, two components come to one title only when one of them
\* arrived with it (openapi_fixes.go:81-83 and 92-94).
THEOREM TitlesCorrect == Spec => []OnlyGivenTitlesClash
<1>1. IInv => OnlyGivenTitlesClash
  BY DEF IInv, OnlyGivenTitlesClash, TitlesAreOwn, Entitled
<1> QED BY Inductive, <1>1, PTL
=============================================================================
