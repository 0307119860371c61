----------------------------- MODULE SpecIntake -----------------------------
(***************************************************************************)
(* How the generator takes in the upstream document: SanitizeSpecBytes     *)
(* (provider/pkg/gen/spec_sanitize.go) repairs the raw JSON, the loader    *)
(* parses it, and FixOpenAPIDoc (openapi_fixes.go) gives it the API-key    *)
(* scheme, the absolute server and titles, and validates it.               *)
(*                                                                         *)
(* The JSON tree is a set of nodes, each with what the code looks at and   *)
(* its children by position; the tree below components.schemas, and the    *)
(* nodes of the rest of the document, which only rewriteRefs visits.  A    *)
(* name is a value and sanitizeIdent a table, Sane.  The recursive walks   *)
(* take the nodes of a worklist one at a time, in any order: they write to *)
(* disjoint subtrees.                                                      *)
(***************************************************************************)
EXTENDS Integers, FiniteSets

CONSTANTS
  Docs,  \* the documents that may arrive
  Names, \* component keys, and what they are sanitized to
  Sane,  \* sanitizeIdent
  None   \* an absent reference, title or value

\* Sub-schema keywords: those that tell a type, and those that do not.
Telling == {"items", "additionalProperties", "properties", "patternProperties",
            "allOf", "oneOf", "anyOf"}
Silent  == {"not", "if", "then", "else", "contains", "propertyNames", "$defs",
            "definitions", "dependentSchemas", "prefixItems"}
Walked  == Telling \cup Silent
Everywhere == Walked \cup {"elsewhere"}

\* What a node of a document holds, its children among ids.
NodeOver(ids) ==
  [null : BOOLEAN, free : BOOLEAN, extra : BOOLEAN, note : BOOLEAN,
   type : {"none", "string", "number", "object"},
   enum : {"none", "strings", "mixed"},
   ref : Names \cup {None}, title : Names \cup {None},
   maps : SUBSET [bare : BOOLEAN, name : Names],
   kids : SUBSET [pos : Everywhere, id : ids]]

\* Sanitizing twice is sanitizing once; in a document a component is a node,
\* what is null holds nothing, and a schemas object that is absent or null has
\* no keys (one that is there may have none either).
ASSUME IntakeAssumption ==
  /\ Sane \in [Names -> Names]
  /\ \A n \in Names : Sane[Sane[n]] = Sane[n]
  /\ None \notin Names
  /\ \A d \in Docs :
       /\ DOMAIN d.schemas \subseteq Names
       /\ ~d.hasSchemas => DOMAIN d.schemas = {}
       /\ \A k \in DOMAIN d.schemas : d.schemas[k] \in DOMAIN d.node
       /\ d.node \in [DOMAIN d.node -> NodeOver(DOMAIN d.node)]
       /\ \A n \in DOMAIN d.node :
            d.node[n].null => /\ d.node[n].type = "none" /\ d.node[n].enum = "none"
                              /\ d.node[n].ref = None /\ d.node[n].kids = {}
       /\ d.license \in {"none", "empty", "named"}
       /\ d.server \in {"none", "relative", "moved", "absolute"}

VARIABLES
  given,   \* the document as it arrived
  stage,   \* the step that runs next
  schemas, \* component key -> node
  node,    \* node -> what it holds
  todo,    \* keys or nodes the current loop has still to visit
  license, \* info.license: "none", "empty", "named"
  auth,    \* the security schemes declared and required: [schemes, required]
  server   \* Servers[0]: "none", "relative", "moved", "absolute"

vars == <<given, stage, schemas, node, todo, license, auth, server>>

Stages == {"license", "schemas", "keys", "walk", "refs", "load", "auth", "server",
           "titles", "validate", "fixed", "failed"}

Init ==
  /\ given \in Docs
  /\ stage = "license" /\ todo = {}
  /\ schemas = given.schemas /\ node = given.node /\ license = given.license
  /\ auth = [schemes |-> given.schemes, required |-> given.required]
  /\ server = given.server

Fail == stage' = "failed" /\ UNCHANGED <<given, schemas, node, todo, license, auth, server>>

-----------------------------------------------------------------------------
(* SanitizeSpecBytes *)

DropLicense ==
  /\ stage = "license"
  /\ license' = IF license = "empty" THEN "none" ELSE license
  /\ stage' = "schemas"
  /\ UNCHANGED <<given, schemas, node, todo, auth, server>>

\* Without components.schemas the bytes are returned as they came, the license
\* with them; an empty schemas object is there.
NoSchemas ==
  /\ stage = "schemas" /\ ~given.hasSchemas
  /\ license' = given.license
  /\ stage' = "load"
  /\ UNCHANGED <<given, schemas, node, todo, auth, server>>

BeginKeys ==
  /\ stage = "schemas" /\ given.hasSchemas
  /\ schemas' = [k \in {} |-> None] /\ todo' = DOMAIN given.schemas
  /\ stage' = "keys"
  /\ UNCHANGED <<given, node, license, auth, server>>

\* Broken: a key that is taken is overwritten.
TakenByNobody(k) == FALSE

Taken(k) == Sane[k] \in DOMAIN schemas

\* Broken: the schema stays under its old key.
SanitizeKeyInPlace ==
  /\ stage = "keys"
  /\ \E k \in todo :
       /\ ~Taken(k)
       /\ schemas' = [n \in DOMAIN schemas \cup {k} |-> given.schemas[n]]
       /\ todo' = todo \ {k}
  /\ UNCHANGED <<given, stage, node, license, auth, server>>

SanitizeKey ==
  /\ stage = "keys"
  /\ \E k \in todo :
       /\ ~Taken(k)
       /\ schemas' = [n \in DOMAIN schemas \cup {Sane[k]} |->
                        IF n = Sane[k] THEN given.schemas[k] ELSE schemas[n]]
       /\ todo' = todo \ {k}
  /\ UNCHANGED <<given, stage, node, license, auth, server>>

KeyCollides == stage = "keys" /\ (\E k \in todo : Taken(k)) /\ Fail

\* Broken: a reference by itself is not enough.
TypelessUnlessTyped(x) ==
  /\ x.type = "none" /\ x.enum = "none" /\ ~x.free
  /\ \A kid \in x.kids : kid.pos \notin Telling

\* No type-determining keyword.
Typeless(x) ==
  /\ x.type = "none" /\ x.enum = "none" /\ x.ref = None /\ ~x.free
  /\ \A kid \in x.kids : kid.pos \notin Telling

\* A free-form object: description and title stay, the rest goes.
FreeForm(x) ==
  [null |-> FALSE, free |-> TRUE, extra |-> FALSE, note |-> x.note, type |-> "object",
   enum |-> "none", ref |-> None, title |-> x.title, maps |-> {}, kids |-> {}]

Patched(x) == IF x.null \/ Typeless(x) THEN FreeForm(x) ELSE x

\* Broken: a component is only looked into.
TopUntouched(x) == x

\* A null component is no map, and is passed over.
PatchedTop(x) == IF ~x.null /\ Typeless(x) THEN FreeForm(x) ELSE x

Tops == {schemas[k] : k \in DOMAIN schemas}

BeginWalk ==
  /\ stage = "keys" /\ todo = {}
  /\ node' = [n \in DOMAIN node |-> IF n \in Tops THEN PatchedTop(node[n]) ELSE node[n]]
  /\ todo' = Tops
  /\ stage' = "walk"
  /\ UNCHANGED <<given, schemas, license, auth, server>>

\* Only a string enum is kept: by its type, or by its values without one.
EnumKept(x) == x.type = "string" \/ (x.type = "none" /\ x.enum = "strings")
EnumDropped(x) == IF EnumKept(x) THEN x ELSE [x EXCEPT !.enum = "none"]

Kids(n) == {kid.id : kid \in {k \in node[n].kids : k.pos \in Walked}}

\* Visits a node: its enum, then each sub-schema, which is replaced when it
\* says nothing, and visited in its turn when it did.
Visit ==
  /\ stage = "walk"
  /\ \E n \in todo :
       LET asIs == {k \in Kids(n) : Patched(node[k]) = node[k]} IN
       /\ node' = [m \in DOMAIN node |->
                     IF m = n /\ ~node[n].null THEN EnumDropped(node[n])
                     ELSE IF m \in Kids(n) THEN Patched(node[m]) ELSE node[m]]
       /\ todo' = (todo \ {n}) \cup asIs
  /\ UNCHANGED <<given, stage, schemas, license, auth, server>>

EndWalk ==
  /\ stage = "walk" /\ todo = {}
  /\ stage' = "refs"
  /\ UNCHANGED <<given, schemas, node, todo, license, auth, server>>

\* Broken: references stay as they are.
NameKept(name) == name

\* Only the keys of the document have an entry in renamedRefs.
Renamed(name) == IF name \in DOMAIN given.schemas THEN Sane[name] ELSE name

\* Broken: bare names in a mapping are forgotten.
RewrittenPaths(x) ==
  [x EXCEPT !.ref = IF @ = None THEN None ELSE Renamed(@),
            !.maps = {IF t.bare THEN t ELSE [t EXCEPT !.name = Renamed(@)] : t \in x.maps}]

\* $ref, and mapping targets, whether a path or a bare name.
Rewritten(x) ==
  [x EXCEPT !.ref = IF @ = None THEN None ELSE Renamed(@),
            !.maps = {[t EXCEPT !.name = Renamed(@)] : t \in x.maps}]

RewriteRefs ==
  /\ stage = "refs"
  /\ node' = [n \in DOMAIN node |-> Rewritten(node[n])]
  /\ stage' = "load"
  /\ UNCHANGED <<given, schemas, todo, license, auth, server>>

-----------------------------------------------------------------------------
(* The loader, external, and FixOpenAPIDoc *)

Loadable == license # "empty" /\ \A k \in DOMAIN schemas : Sane[k] = k

Load ==
  /\ stage = "load" /\ Loadable
  /\ stage' = "auth"
  /\ UNCHANGED <<given, schemas, node, todo, license, auth, server>>

LoadFails == stage = "load" /\ ~Loadable /\ Fail

DeclaresAuth == auth.schemes # {} \/ auth.required # {}

InjectAPIKey ==
  /\ stage = "auth" /\ ~DeclaresAuth
  /\ auth' = [schemes |-> auth.schemes \cup {"ApiKeyAuth"}, required |-> {"ApiKeyAuth"}]
  /\ stage' = "server"
  /\ UNCHANGED <<given, schemas, node, todo, license, server>>

InjectFails == stage = "auth" /\ DeclaresAuth /\ Fail

RewriteServer ==
  /\ stage = "server" /\ server \in {"none", "relative"}
  /\ server' = "absolute"
  /\ stage' = "titles"
  /\ UNCHANGED <<given, schemas, node, todo, license, auth>>

ServerFails == stage = "server" /\ server \notin {"none", "relative"} /\ Fail

\* The keys that lead to n: its own, and those of components that are
\* references to it, whose value the loader shares.
KeysOf(n) ==
  {k \in DOMAIN schemas :
     \A T \in SUBSET DOMAIN node :
       /\ schemas[k] \in T
       /\ \A m \in T : node[m].ref \in DOMAIN schemas => schemas[node[m].ref] \in T
       => n \in T}

\* Broken: a title is set whatever was there.
EveryValue == {n \in Tops : node[n].ref = None /\ ~node[n].null}

TitleLess == {n \in Tops : node[n].ref = None /\ node[n].title = None /\ ~node[n].null}

\* Go ranges over the map in any order: the first key that leads to a value
\* gives it its title.
EnsureTitles ==
  /\ stage = "titles"
  /\ \E title \in [TitleLess -> DOMAIN schemas] :
       /\ \A n \in TitleLess : title[n] \in KeysOf(n)
       /\ node' = [n \in DOMAIN node |->
                     IF n \in TitleLess THEN [node[n] EXCEPT !.title = title[n]] ELSE node[n]]
  /\ stage' = "validate"
  /\ UNCHANGED <<given, schemas, todo, license, auth, server>>

\* The nodes under those of S through positions P: the smallest closed set.
Reach(S, P) ==
  {n \in DOMAIN node :
     \A T \in SUBSET DOMAIN node :
       /\ S \subseteq T
       /\ \A m \in T : \A kid \in node[m].kids : kid.pos \in P => kid.id \in T
       => n \in T}

\* What is still part of the document.
Live == Reach(Tops \cup given.outer, Everywhere)

Dangles == \E n \in Live : node[n].ref \notin DOMAIN schemas \cup {None}

Validate ==
  /\ stage = "validate"
  /\ stage' = IF Dangles THEN "failed" ELSE "fixed"
  /\ UNCHANGED <<given, schemas, node, todo, license, auth, server>>

-----------------------------------------------------------------------------
Ended == stage \in {"fixed", "failed"} /\ UNCHANGED vars

Next ==
  \/ DropLicense \/ NoSchemas \/ BeginKeys \/ SanitizeKey \/ KeyCollides
  \/ BeginWalk \/ Visit \/ EndWalk \/ RewriteRefs
  \/ Load \/ LoadFails \/ InjectAPIKey \/ InjectFails
  \/ RewriteServer \/ ServerFails \/ EnsureTitles \/ Validate \/ Ended

Spec == Init /\ [][Next]_vars

-----------------------------------------------------------------------------
Ids == DOMAIN given.node
Sanitized == stage \notin {"license", "schemas", "keys", "walk", "refs", "failed"}

\* Every node stays a node, and every key of the sanitized document is in the
\* charset of a component key (spec_sanitize.go:17-24 and 56-94).
TypeOK ==
  /\ stage \in Stages
  /\ \A k \in DOMAIN schemas : k \in Names /\ schemas[k] \in Ids
  /\ Sanitized => \A k \in DOMAIN schemas : Sane[k] = k
  /\ node \in [Ids -> NodeOver(Ids)]
  /\ stage \notin {"keys", "failed"} => todo \subseteq Ids
  /\ license \in {"none", "empty", "named"}
  /\ server \in {"none", "relative", "moved", "absolute"}

\* A reference or a mapping target of the sanitized document leads to the
\* very schema it led to before its key was renamed, wherever in the document
\* it is and however it is written (spec_sanitize.go:238-272).
RefsLeadWhereTheyDid ==
  Sanitized =>
    \A n \in Live :
      LET was == given.node[n] IN
      /\ node[n].ref # None /\ was.ref \in DOMAIN given.schemas =>
           schemas[node[n].ref] = given.schemas[was.ref]
      /\ \A t \in was.maps :
           node[n].maps # {} /\ t.name \in DOMAIN given.schemas =>
             \E u \in node[n].maps :
               /\ u.bare = t.bare /\ u.name \in DOMAIN schemas
               /\ schemas[u.name] = given.schemas[t.name]

\* Two keys that sanitize alike stop the build: no schema is lost under
\* another's key (spec_sanitize.go:24-26 and 67-77).
NoSchemaIsLost == Sanitized => Tops = {given.schemas[k] : k \in DOMAIN given.schemas}

\* The repairs leave what says something alone: a schema with a type, a
\* reference or a sub-schema in a telling position keeps all three, and a
\* string enum its values (spec_sanitize.go:180-185 and 216-230).
MeaningIsKept ==
  Sanitized =>
    \A n \in Live :
      LET was == given.node[n] IN
      /\ was.type # "none" => node[n].type = was.type
      /\ was.ref # None => node[n].ref # None
      /\ \A kid \in was.kids : kid.pos \in Telling => kid \in node[n].kids
      /\ was.enum = "strings" /\ was.type \in {"none", "string"} => node[n].enum = "strings"

\* An enum of other things than strings, and nothing else.
OnlyAnEnum(x) == x.enum = "mixed" /\ x.type = "none"

\* Every schema and sub-schema of the sanitized document has a keyword a type
\* can be derived from: "any schema carrying no type-determining keyword
\* becomes a free-form object" (spec_sanitize.go:80-88 and 216-219).  What was
\* only an enum the walk drops is beyond this: it is looked at before.  A null
\* is replaced too, unless it is a component, which is passed over.
EverySchemaTellsAType ==
  Sanitized => \A n \in Reach(Tops, Walked) :
    IF node[n].null THEN n \in Tops ELSE Typeless(node[n]) => OnlyAnEnum(given.node[n])

\* Components whose keys sanitize alike.
Collides == \E k, l \in DOMAIN given.schemas : k # l /\ Sane[k] = Sane[l]

\* Reasons to refuse a document: keys that collide, auth or a base path of its
\* own, a reference to nothing, and an empty license where components.schemas
\* is absent, which SanitizeSpecBytes returns as it came.  A reference to
\* nothing passes when a component's key is sanitized to the name it gives.
Unfit ==
  \/ Collides
  \/ given.schemes \cup given.required # {}
  \/ given.server \notin {"none", "relative"}
  \/ \E n \in Live : given.node[n].ref \notin
                      DOMAIN given.schemas \cup {Sane[k] : k \in DOMAIN given.schemas} \cup {None}
  \/ given.license = "empty" /\ ~given.hasSchemas

\* A document that has drifted stops the build, whatever else was repaired, and
\* the repairs bring in no reason of their own to refuse one; what the fixes
\* leave has one scheme, required of every operation, and one base path
\* (spec_sanitize.go:47-54 and 67-71, openapi_fixes.go:46-51).
RefusedWithReason ==
  /\ stage = "failed" => Unfit
  /\ stage = "fixed" =>
       /\ ~Unfit
       /\ auth = [schemes |-> {"ApiKeyAuth"}, required |-> {"ApiKeyAuth"}]
       /\ server = "absolute"

\* How far "using the key as the title yields unique, stable getter names"
\* (openapi_fixes.go:81-83) goes.  A component without a title gets a key that
\* leads to it, which no other such component gets; one with a title keeps it,
\* unchecked.  So two components share a title only when one of them came with
\* it: names are unique as long as no upstream title is another's title or key.
\* They are stable as long as one key leads to a component: with aliases, the
\* title is any of their keys.
OnlyGivenTitlesClash ==
  stage = "fixed" =>
    LET values   == {n \in Tops : node[n].ref = None /\ ~node[n].null}
        Given(n) == given.node[n].title # None IN
    \A n \in values :
      /\ IF Given(n) THEN node[n].title = given.node[n].title
                     ELSE node[n].title \in KeysOf(n)
      /\ \A m \in values : m # n /\ node[m].title = node[n].title => Given(n) \/ Given(m)
=============================================================================
