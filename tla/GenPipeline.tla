----------------------------- MODULE GenPipeline -----------------------------
(***************************************************************************)
(* The post-processing pipeline of the provider generator: the ordered     *)
(* passes of runPasses (provider/pkg/gen/schema.go) over the schema, the   *)
(* CRUD metadata and the document that pulschema hands over.               *)
(*                                                                         *)
(* Four maps share their keys, the tokens: Pkg.Resources, Pkg.Functions,   *)
(* Meta.ResourceCRUDMap and Meta.AutoNameMap.  Several passes move or      *)
(* delete keys and a later pass, or the provider at run time, finds one    *)
(* map's entry under another map's key.  Each entry carries "of", the      *)
(* token pulschema gave it, so that a mismatch shows.                      *)
(*                                                                         *)
(* A token is a name.  What the passes do to the spelling of one is a      *)
(* table: Joined for the entity prefixes, Normalized for normalizeFunction *)
(* and ListName for the plural of a *Page name.  The code loops over       *)
(* sorted keys; here a loop takes them in any order.  An error stops the   *)
(* build on the spot, and nothing is written.  enum-cleanup works on types *)
(* only and has a module of its own (EnumCleanup.tla); the texts that      *)
(* descriptions writes are left out.                                       *)
(***************************************************************************)
EXTENDS Integers, FiniteSets

CONSTANTS
  Specs,        \* what pulschema may hand over, with the document's facts
  NoPath,       \* an absent verb, or a resource without a create endpoint
  NoDisc,       \* a create body without a discriminator
  EntityPrefix, \* collection path -> prefix, for the pinned ones
  Joined,       \* <<prefix, name>> -> the prefixed name
  Normalized,   \* function name -> clean name, for those that change
  ListName,     \* *Page function name -> its list name
  Excluded,     \* excludeResources
  Immutable,    \* immutableFields
  SecretProps,  \* <<type, field>> pairs that carry a credential
  Overrides     \* tokens with a pinned description

Verb   == {"C", "R", "U", "D", "P"}
Method == [C |-> "post", R |-> "get", U |-> "patch", D |-> "delete", P |-> "put"]

\* What makes a type a page envelope, and the part of it that depaging drops.
PagingKnobs == {"limit", "offset"}
Envelope    == {"data"} \cup PagingKnobs

VARIABLES
  spec,      \* one of Specs, as given
  stage,     \* the pass that runs next; "done" or "failed"
  todo,      \* keys the current loop has still to visit
  resources, \* token -> [of, inputs, required, fixed, replace]
  functions, \* token -> [of, type]
  crud,      \* token -> [of, paths]
  auto,      \* token -> the token pulschema gave it
  types      \* type -> [fields, secret]

vars == <<spec, stage, todo, resources, functions, crud, auto, types>>

Stages == {"coalesce", "discriminate", "prefix", "normalize", "exclude",
           "depage", "describe", "secret", "replace", "done", "failed"}

Kept(f, D) == [x \in D \cap DOMAIN f |-> f[x]]

\* The entry of t moves to key u, when there is one.
Moved(f, t, u) ==
  IF t \notin DOMAIN f THEN f
  ELSE [x \in (DOMAIN f \ {t}) \cup {u} |-> IF x = u THEN f[t] ELSE f[x]]

\* pulschema gives every resource and every read its endpoints, and no two of
\* them a token; a document has finitely many paths.
ASSUME PipelineAssumption ==
  \A s \in Specs :
    /\ DOMAIN s.resources \cup DOMAIN s.functions \subseteq DOMAIN s.crud
    /\ DOMAIN s.resources \cap DOMAIN s.functions = {}
    /\ \A t \in DOMAIN s.resources :
         s.crud[t]["C"] # NoPath => IsFiniteSet(s.items[s.crud[t]["C"]])

Init ==
  /\ spec \in Specs
  /\ stage = "coalesce"
  /\ todo = {}
  /\ resources =
       [t \in DOMAIN spec.resources |->
          [of |-> t, inputs |-> spec.resources[t],
           required |-> spec.resources[t], fixed |-> {}, replace |-> {}]]
  /\ functions = [t \in DOMAIN spec.functions |->
                    [of |-> t, type |-> spec.functions[t]]]
  /\ crud = [t \in DOMAIN spec.crud |-> [of |-> t, paths |-> spec.crud[t]]]
  /\ auto = [t \in spec.auto |-> t]
  /\ types = [y \in DOMAIN spec.types |->
                [fields |-> spec.types[y], secret |-> {}]]

Fail ==
  /\ stage' = "failed"
  /\ UNCHANGED <<spec, todo, resources, functions, crud, auto, types>>

Create(t) == crud[t].paths["C"]
Creatable == {t \in DOMAIN resources : t \in DOMAIN crud /\ Create(t) # NoPath}

-----------------------------------------------------------------------------
(* coalesce-discriminated-crud *)

\* findItemPath: the siblings of the form collection + "/{param}".
Items(t) == spec.items[Create(t)]

\* The missing verbs of t that its item path serves.
Filled(t) ==
  [v \in Verb |->
     IF crud[t].paths[v] = NoPath /\ \E i \in Items(t) : Method[v] \in spec.methods[i]
       THEN CHOOSE i \in Items(t) : TRUE
       ELSE crud[t].paths[v]]

Coalesced(t) == IF t \in Creatable THEN [crud[t] EXCEPT !.paths = Filled(t)] ELSE crud[t]

\* Broken: of several item paths the first is taken.
UncoalescedIfUnreadable(t) == Filled(t)["R"] = NoPath

\* An ambiguous item path, or a resource that cannot be read back.
Uncoalesced(t) == Cardinality(Items(t)) > 1 \/ Filled(t)["R"] = NoPath

Coalesce ==
  /\ stage = "coalesce"
  /\ \A t \in Creatable : ~Uncoalesced(t)
  /\ crud' = [t \in DOMAIN crud \cap (DOMAIN resources \cup DOMAIN functions) |->
                Coalesced(t)]
  /\ stage' = "discriminate"
  /\ UNCHANGED <<spec, todo, resources, functions, auto, types>>

CoalesceFails ==
  /\ stage = "coalesce"
  /\ \E t \in Creatable : Uncoalesced(t)
  /\ Fail

-----------------------------------------------------------------------------
(* discriminator-inject *)

Disc(t) == spec.discs[Create(t)]
Variants == {t \in Creatable : Disc(t) # NoDisc}

\* deriveDiscriminator: the mapping values that pascal-case to the token.
Matched(t) == {v \in DOMAIN Disc(t).names : Disc(t).names[v] = t}

Underived(t) == Cardinality(Matched(t)) # 1 \/ Disc(t).field \notin resources[t].inputs

\* Broken: the injected input is still asked of the program.
InjectedButRequired(t) ==
  IF t \notin Variants THEN resources[t]
  ELSE [resources[t] EXCEPT
          !.fixed = {<<Disc(t).field, CHOOSE m \in Matched(t) : TRUE>>}]

Injected(t) ==
  IF t \notin Variants THEN resources[t]
  ELSE LET f == Disc(t).field
           v == CHOOSE m \in Matched(t) : TRUE
       IN  [resources[t] EXCEPT !.fixed = {<<f, v>>}, !.required = @ \ {f}]

Discriminate ==
  /\ stage = "discriminate"
  /\ \A t \in Variants : ~Underived(t)
  /\ resources' = [t \in DOMAIN resources |-> Injected(t)]
  /\ stage' = "prefix"
  /\ todo' = DOMAIN resources
  /\ UNCHANGED <<spec, functions, crud, auto, types>>

DiscriminateFails ==
  /\ stage = "discriminate"
  /\ \E t \in Variants : Underived(t)
  /\ Fail

-----------------------------------------------------------------------------
(* token-rename *)

Prefixed(t) == Create(t) \in DOMAIN EntityPrefix

NewResource(t) ==
  IF t \in Creatable /\ Prefixed(t) THEN Joined[<<EntityPrefix[Create(t)], t>>] ELSE t

NewFunction(t) == IF t \in DOMAIN Normalized THEN Normalized[t] ELSE t

\* renameToken finds the new token taken in one of the maps it moves.
Collides(m, t, u) ==
  /\ u # t
  /\ \/ u \in DOMAIN m
     \/ t \in DOMAIN crud /\ u \in DOMAIN crud
     \/ t \in DOMAIN auto /\ u \in DOMAIN auto

\* Broken: the auto-name stays behind.
RenameResourceOnly(t) ==
  LET u == NewResource(t)
  IN  /\ ~Collides(resources, t, u)
      /\ resources' = Moved(resources, t, u)
      /\ crud' = Moved(crud, t, u)
      /\ UNCHANGED <<functions, auto>>

RenameResource(t) ==
  LET u == NewResource(t)
  IN  /\ ~Collides(resources, t, u)
      /\ resources' = Moved(resources, t, u)
      /\ crud' = Moved(crud, t, u)
      /\ auto' = Moved(auto, t, u)
      /\ UNCHANGED functions

RenameFunction(t, u) ==
  /\ ~Collides(functions, t, u)
  /\ functions' = Moved(functions, t, u)
  /\ crud' = Moved(crud, t, u)
  /\ auto' = Moved(auto, t, u)
  /\ UNCHANGED resources

\* An unmapped discriminated entity, or a prefix on a flat one.
Mispinned(t) == t \in Creatable /\ (Prefixed(t) # (t \in Variants))

PrefixOne ==
  /\ stage = "prefix"
  /\ \E t \in todo :
       /\ ~Mispinned(t)
       /\ RenameResource(t)
       /\ todo' = todo \ {t}
  /\ UNCHANGED <<spec, stage, types>>

PrefixFails ==
  /\ stage = "prefix"
  /\ \E t \in todo : Mispinned(t) \/ Collides(resources, t, NewResource(t))
  /\ Fail

NormalizeOne ==
  /\ stage = "normalize"
  /\ \E t \in todo :
       /\ RenameFunction(t, NewFunction(t))
       /\ todo' = todo \ {t}
  /\ UNCHANGED <<spec, stage, types>>

NormalizeFails ==
  /\ stage = "normalize"
  /\ \E t \in todo : Collides(functions, t, NewFunction(t))
  /\ Fail

-----------------------------------------------------------------------------
(* exclude-resources *)

Exclude ==
  /\ stage = "exclude"
  /\ Excluded \subseteq DOMAIN resources
  /\ resources' = Kept(resources, DOMAIN resources \ Excluded)
  /\ crud' = Kept(crud, DOMAIN crud \ Excluded)
  /\ auto' = Kept(auto, DOMAIN auto \ Excluded)
  /\ stage' = "depage"
  /\ todo' = DOMAIN functions
  /\ UNCHANGED <<spec, functions, types>>

ExcludeFails ==
  /\ stage = "exclude"
  /\ ~(Excluded \subseteq DOMAIN resources)
  /\ Fail

-----------------------------------------------------------------------------
(* depage *)

\* Broken: the name alone makes a page.
PagesByName(t) == t \in DOMAIN ListName /\ functions[t].type \in DOMAIN types

\* A *Page token whose return type is a page envelope.
Pages(t) ==
  /\ t \in DOMAIN ListName
  /\ functions[t].type \in DOMAIN types
  /\ Envelope \subseteq types[functions[t].type].fields

DepageOne ==
  /\ stage = "depage"
  /\ \E t \in todo :
       /\ IF Pages(t)
            THEN /\ RenameFunction(t, ListName[t])
                 /\ types' = [types EXCEPT ![functions[t].type].fields = @ \ PagingKnobs]
            ELSE UNCHANGED <<resources, functions, crud, auto, types>>
       /\ todo' = todo \ {t}
  /\ UNCHANGED <<spec, stage>>

DepageFails ==
  /\ stage = "depage"
  /\ \E t \in todo : Pages(t) /\ Collides(functions, t, ListName[t])
  /\ Fail

\* The loop has visited every key it started with.
LoopEnds ==
  /\ stage \in {"prefix", "normalize", "depage"}
  /\ todo = {}
  /\ stage' = CASE stage = "prefix"    -> "normalize"
                [] stage = "normalize" -> "exclude"
                [] stage = "depage"    -> "describe"
  /\ todo' = IF stage = "prefix" THEN DOMAIN functions ELSE {}
  /\ UNCHANGED <<spec, resources, functions, crud, auto, types>>

-----------------------------------------------------------------------------
(* descriptions, mark-secret-fields and replace-on-changes *)

\* The operation of verb v of t has a summary in the document.
Summarised(t, v) ==
  t \in DOMAIN crud /\ <<crud[t].paths[v], Method[v]>> \in spec.summaries

Undescribed ==
  {t \in DOMAIN resources : ~Summarised(t, "C")}
    \cup {t \in DOMAIN functions : ~Summarised(t, "R")}

Describe ==
  /\ stage = "describe"
  /\ stage' = IF Undescribed \subseteq Overrides THEN "secret" ELSE "failed"
  /\ UNCHANGED <<spec, todo, resources, functions, crud, auto, types>>

MarkSecrets ==
  /\ stage = "secret"
  /\ \A s \in SecretProps : s[1] \in DOMAIN types /\ s[2] \in types[s[1]].fields
  /\ types' = [y \in DOMAIN types |->
                 [types[y] EXCEPT !.secret = {s[2] : s \in {x \in SecretProps : x[1] = y}}]]
  /\ stage' = "replace"
  /\ UNCHANGED <<spec, todo, resources, functions, crud, auto>>

SecretsFail ==
  /\ stage = "secret"
  /\ \E s \in SecretProps : s[1] \notin DOMAIN types \/ s[2] \notin types[s[1]].fields
  /\ Fail

ReadOnly(t) == IF t \in Creatable THEN spec.readOnly[Create(t)] ELSE {}

\* Broken: the discriminator may be edited in place.
ReplacedByPin(t) == resources[t].inputs \cap (ReadOnly(t) \cup Immutable)

Replaced(t) ==
  resources[t].inputs
    \cap (ReadOnly(t) \cup {c[1] : c \in resources[t].fixed} \cup Immutable)

\* Broken: an excluded resource keeps a pin alive.
DeadPinsAtFirst ==
  Immutable \ UNION {spec.resources[o] : o \in DOMAIN spec.resources}

\* A pin no shipped resource has as an input.
DeadPins == Immutable \ UNION {resources[t].inputs : t \in DOMAIN resources}

ReplaceOnChanges ==
  /\ stage = "replace"
  /\ DeadPins = {}
  /\ resources' = [t \in DOMAIN resources |->
                     [resources[t] EXCEPT !.replace = Replaced(t)]]
  /\ stage' = "done"
  /\ UNCHANGED <<spec, todo, functions, crud, auto, types>>

ReplaceFails ==
  /\ stage = "replace"
  /\ DeadPins # {}
  /\ Fail

-----------------------------------------------------------------------------
Ended ==
  /\ stage \in {"done", "failed"}
  /\ UNCHANGED vars

Passes == \/ Coalesce \/ Discriminate \/ PrefixOne \/ NormalizeOne \/ Exclude
          \/ DepageOne \/ LoopEnds \/ Describe \/ MarkSecrets \/ ReplaceOnChanges
Failures == \/ CoalesceFails \/ DiscriminateFails \/ PrefixFails
            \/ NormalizeFails \/ ExcludeFails \/ DepageFails \/ SecretsFail
            \/ ReplaceFails

Next == Passes \/ Failures \/ Ended

Spec == Init /\ [][Next]_vars

-----------------------------------------------------------------------------
(* Properties. *)

\* The maps keep their shape: every entry knows where it came from, required
\* and replaced inputs are inputs, and a fixed one is no longer required.
TypeOK ==
  /\ stage \in Stages
  /\ \A t \in DOMAIN resources :
       LET r == resources[t]
       IN  /\ r.of \in DOMAIN spec.resources
           /\ r.required \subseteq r.inputs /\ r.replace \subseteq r.inputs
           /\ \A c \in r.fixed : c[1] \in r.inputs \ r.required
  /\ \A t \in DOMAIN functions : functions[t].of \in DOMAIN spec.functions
  /\ \A t \in DOMAIN crud : crud[t].of \in DOMAIN spec.crud
  /\ \A t \in DOMAIN auto : auto[t] \in spec.auto

Bound == stage \notin {"coalesce", "failed"}

\* The token-keyed maps stay in step through every rename and deletion: each
\* live token finds its own endpoints, no endpoint is bound to a dead token,
\* and an auto-name follows its resource.
Lockstep ==
  Bound =>
    /\ DOMAIN crud = DOMAIN resources \cup DOMAIN functions
    /\ \A t \in DOMAIN resources :
         /\ crud[t].of = resources[t].of
         /\ resources[t].of \in spec.auto =>
              t \in DOMAIN auto /\ auto[t] = resources[t].of
    /\ \A t \in DOMAIN functions : crud[t].of = functions[t].of

\* Every resource that can be created can be read back, and each of its verbs
\* is the one the document declares or that method on the one item path of
\* its own collection.
VerbsAreItsOwn ==
  Bound =>
    \A t \in Creatable :
      /\ crud[t].paths["R"] # NoPath
      /\ \A v \in Verb \ {"C"} :
           LET p == crud[t].paths[v]
           IN  \/ p = spec.crud[crud[t].of][v]
               \/ {p} = Items(t) /\ Method[v] \in spec.methods[p]

\* What ships for a variant is that variant: its one fixed input is the
\* discriminator, with the value that names it, supplied by the framework and
\* never edited in place; a flat resource has nothing fixed.
WireIdentity ==
  stage = "done" =>
    \A t \in DOMAIN resources :
      IF t \in Variants
        THEN \E v \in DOMAIN Disc(t).names :
               /\ Disc(t).names[v] = resources[t].of
               /\ resources[t].fixed = {<<Disc(t).field, v>>}
               /\ Disc(t).field \in resources[t].replace \ resources[t].required
        ELSE resources[t].fixed = {}

\* The name the tables give to what pulschema called o.
FinalResource(o) ==
  LET c == spec.crud[o]["C"]
  IN  IF c # NoPath /\ c \in DOMAIN EntityPrefix THEN Joined[<<EntityPrefix[c], o>>] ELSE o

FinalFunction(o) ==
  LET n == NewFunction(o)
      y == spec.functions[o]
  IN  IF n \in DOMAIN ListName /\ y \in DOMAIN spec.types /\ Envelope \subseteq spec.types[y]
        THEN ListName[n] ELSE n

\* Nothing is lost or named twice, whatever the order the loops visit the
\* tokens in: what ships is what pulschema found, less the excluded resources,
\* each under the name the tables give it.
SurfaceIsWhole ==
  stage = "done" =>
    /\ {<<t, resources[t].of>> : t \in DOMAIN resources}
         = {x \in {<<FinalResource(o), o>> : o \in DOMAIN spec.resources} :
              x[1] \notin Excluded}
    /\ {<<t, functions[t].of>> : t \in DOMAIN functions}
         = {<<FinalFunction(o), o>> : o \in DOMAIN spec.functions}

\* The drift that stops the build: at its end every exclusion has matched a
\* resource, every immutable pin makes an input of something shipped replace,
\* every secret marks a field there is, and a resource that can be created has
\* a prefix exactly when its body is split.  Not every entry is looked for.  A
\* prefix for a path nothing is created at is no resource's, and passes, although
\* "a stale/misapplied prefix is a loud error" (mappings.yaml:60); so do an
\* explicit rename, a list name and a description of a token there is not.
TablesFitWhatShips ==
  stage = "done" =>
    /\ Excluded \subseteq {FinalResource(o) : o \in DOMAIN spec.resources}
    /\ \A f \in Immutable :
         \E t \in DOMAIN resources : f \in resources[t].replace
    /\ \A s \in SecretProps : s[2] \in types[s[1]].secret \cap types[s[1]].fields
    /\ \A o \in DOMAIN spec.resources :
         LET c == spec.crud[o]["C"]
         IN  c # NoPath => (c \in DOMAIN EntityPrefix <=> spec.discs[c] # NoDisc)

\* "No list data source leaks pagination internals [...] aggregated result
\* types keep data but drop the per-request limit/offset knobs"
\* (pass_depage_test.go:10-16).
NoPagingKnobs ==
  stage = "done" =>
    \A t \in DOMAIN functions :
      functions[t].type \in DOMAIN types =>
        ~(Envelope \subseteq types[functions[t].type].fields)
=============================================================================
