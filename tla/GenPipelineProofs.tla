------------------------- MODULE GenPipelineProofs -------------------------
(***************************************************************************)
(* What holds of GenPipeline.tla for any document and any mapping tables,  *)
(* whatever order the loops take the tokens in: the token-keyed maps stay  *)
(* in step, verbs and fixed inputs are a resource's own, nothing is lost   *)
(* or named twice, and a build that ends has used its tables.              *)
(***************************************************************************)
EXTENDS GenPipeline, FiniteSetTheorems, TLAPS

-----------------------------------------------------------------------------
(* The invariant *)

Endpoint(o) == spec.crud[o]["C"]
IsVariant(o) == Endpoint(o) # NoPath /\ spec.discs[Endpoint(o)] # NoDisc

\* What each entry knows of the token pulschema gave it, at any stage.
ResourceRows ==
  \A t \in DOMAIN resources :
    LET r == resources[t]
    IN  /\ DOMAIN r = {"of", "inputs", "required", "fixed", "replace"}
        /\ r.of \in DOMAIN spec.resources /\ r.inputs = spec.resources[r.of]
        /\ r.required \subseteq r.inputs /\ r.replace \subseteq r.inputs
        /\ \A c \in r.fixed : c[1] \in r.inputs \ r.required

FunctionRows ==
  /\ \A t \in DOMAIN functions :
       /\ functions[t].of \in DOMAIN spec.functions
       /\ functions[t].type = spec.functions[functions[t].of]
  /\ \A t, u \in DOMAIN functions : functions[t].of = functions[u].of => t = u
  /\ \A o \in DOMAIN spec.functions : \E t \in DOMAIN functions : functions[t].of = o

CrudRows ==
  /\ \A t \in DOMAIN crud :
       LET e == crud[t]
       IN  /\ e = [of |-> e.of, paths |-> e.paths]
           /\ e.of \in DOMAIN spec.crud /\ e.paths["C"] = Endpoint(e.of)
  /\ \A t \in DOMAIN auto : auto[t] \in spec.auto

TypeRows ==
  /\ DOMAIN types = DOMAIN spec.types
  /\ \A y \in DOMAIN types : DOMAIN types[y] = {"fields", "secret"}

Apart == DOMAIN resources \cap DOMAIN functions = {}

Rows ==
  /\ spec \in Specs /\ stage \in Stages
  /\ ResourceRows /\ FunctionRows /\ CrudRows /\ TypeRows /\ Apart

\* What pulschema hands over, until the first pass has run.
AsGiven ==
  stage = "coalesce" =>
    /\ DOMAIN resources = DOMAIN spec.resources /\ DOMAIN functions = DOMAIN spec.functions
    /\ DOMAIN crud = DOMAIN spec.crud /\ DOMAIN auto = spec.auto
    /\ \A t \in DOMAIN crud : crud[t].of = t /\ crud[t].paths = spec.crud[t]
    /\ \A t \in DOMAIN auto : auto[t] = t

\* An entry of a resource has the verbs of the resource's own item path.
OwnVerbs(e) ==
  e.of \in DOMAIN spec.resources /\ e.paths["C"] # NoPath =>
    /\ e.paths["R"] # NoPath
    /\ \A v \in Verb \ {"C"} :
         \/ e.paths[v] = spec.crud[e.of][v]
         \/ /\ {e.paths[v]} = spec.items[e.paths["C"]]
            /\ Method[v] \in spec.methods[e.paths[v]]

Verbs == Bound => \A t \in DOMAIN crud : OwnVerbs(crud[t])

\* What is fixed of a resource is its own discriminator.
OwnFixed(r) ==
  IF IsVariant(r.of)
    THEN LET d == spec.discs[Endpoint(r.of)]
         IN  /\ d.field \in r.inputs \ r.required
             /\ \E v \in DOMAIN d.names : d.names[v] = r.of /\ r.fixed = {<<d.field, v>>}
    ELSE r.fixed = {}

Fixed ==
  /\ stage \in {"coalesce", "discriminate"} => \A t \in DOMAIN resources : resources[t].fixed = {}
  /\ stage \notin {"coalesce", "discriminate", "failed"} =>
       \A t \in DOMAIN resources : OwnFixed(resources[t])

\* The pinned prefixes are those of the split entities.
PinFits(o) ==
  Endpoint(o) # NoPath =>
    (Endpoint(o) \in DOMAIN EntityPrefix <=> spec.discs[Endpoint(o)] # NoDisc)

\* How far the prefixing and the excluding have come.
ResourceNames ==
  /\ stage \in {"coalesce", "discriminate"} => \A t \in DOMAIN resources : resources[t].of = t
  /\ stage = "prefix" =>
       /\ todo \subseteq DOMAIN resources
       /\ \A t \in todo : resources[t].of = t
       /\ \A t \in DOMAIN resources \ todo : t = FinalResource(resources[t].of)
       /\ \A o \in DOMAIN spec.resources \ todo : PinFits(o)
  /\ stage \notin {"coalesce", "discriminate", "prefix", "failed"} =>
       /\ \A t \in DOMAIN resources : t = FinalResource(resources[t].of)
       /\ \A o \in DOMAIN spec.resources : PinFits(o)
  /\ stage \in {"coalesce", "discriminate", "prefix", "normalize", "exclude"} =>
       \A o \in DOMAIN spec.resources : \E t \in DOMAIN resources : resources[t].of = o
  /\ stage \in {"depage", "describe", "secret", "replace", "done"} =>
       /\ Excluded \cap DOMAIN resources = {}
       /\ Excluded \subseteq {FinalResource(o) : o \in DOMAIN spec.resources}
       /\ \A o \in DOMAIN spec.resources :
            FinalResource(o) \in Excluded \/ \E t \in DOMAIN resources : resources[t].of = o

\* "Each page type is referenced by exactly one function (verified), so
\* trimming its fields is local" (pass_depage.go:32-33).
PageTypesAreOwn ==
  \A o, p \in DOMAIN spec.functions :
    LET y == spec.functions[o]
    IN  y = spec.functions[p] /\ y \in DOMAIN spec.types /\ Envelope \subseteq spec.types[y] => o = p

\* How far the normalizing and the depaging have come.
FunctionNames ==
  /\ stage \in {"coalesce", "discriminate", "prefix"} =>
       \A t \in DOMAIN functions : functions[t].of = t
  /\ stage = "normalize" =>
       /\ todo \subseteq DOMAIN functions
       /\ \A t \in todo : functions[t].of = t
       /\ \A t \in DOMAIN functions \ todo : t = NewFunction(functions[t].of)
  /\ stage = "exclude" => \A t \in DOMAIN functions : t = NewFunction(functions[t].of)
  /\ stage = "depage" =>
       /\ todo \subseteq DOMAIN functions
       /\ \A t \in todo : t = NewFunction(functions[t].of)
       /\ PageTypesAreOwn =>
            /\ \A t \in DOMAIN functions \ todo : t = FinalFunction(functions[t].of)
            /\ \A t \in todo : functions[t].type \in DOMAIN types =>
                 types[functions[t].type].fields = spec.types[functions[t].type]
  /\ stage \in {"describe", "secret", "replace", "done"} /\ PageTypesAreOwn =>
       \A t \in DOMAIN functions : t = FinalFunction(functions[t].of)
  /\ stage \in {"coalesce", "discriminate", "prefix", "normalize", "exclude"} =>
       \A y \in DOMAIN types : types[y].fields = spec.types[y]

\* What the last two passes have marked.
Marked ==
  /\ stage \in {"replace", "done"} =>
       \A s \in SecretProps :
         s[1] \in DOMAIN types /\ s[2] \in types[s[1]].secret \cap types[s[1]].fields
  /\ stage = "done" =>
       /\ \A t \in DOMAIN resources : \A c \in resources[t].fixed : c[1] \in resources[t].replace
       /\ \A f \in Immutable : \E t \in DOMAIN resources : f \in resources[t].replace

IInv ==
  /\ Rows /\ AsGiven /\ Lockstep /\ Verbs /\ Fixed
  /\ ResourceNames /\ FunctionNames /\ Marked

-----------------------------------------------------------------------------
(* The start and the passes that move nothing *)

LEMMA InitIInv == Init => IInv
<1> SUFFICES ASSUME Init PROVE IInv
  OBVIOUS
<1>1. spec \in Specs /\ stage = "coalesce"
  BY DEF Init
<1>2. /\ DOMAIN resources = DOMAIN spec.resources /\ DOMAIN functions = DOMAIN spec.functions
      /\ DOMAIN crud = DOMAIN spec.crud /\ DOMAIN auto = spec.auto /\ DOMAIN types = DOMAIN spec.types
  BY DEF Init
<1>3. ASSUME NEW t \in DOMAIN resources
      PROVE  /\ DOMAIN resources[t] = {"of", "inputs", "required", "fixed", "replace"}
             /\ resources[t].of = t /\ resources[t].inputs = spec.resources[t]
             /\ resources[t].required = spec.resources[t]
             /\ resources[t].fixed = {} /\ resources[t].replace = {}
  <2>1. resources[t] = [of |-> t, inputs |-> spec.resources[t],
                        required |-> spec.resources[t], fixed |-> {}, replace |-> {}]
    BY DEF Init
  <2>2. QED
    BY <2>1
<1>4. ASSUME NEW t \in DOMAIN functions
      PROVE  functions[t].of = t /\ functions[t].type = spec.functions[t]
  <2>1. functions[t] = [of |-> t, type |-> spec.functions[t]]
    BY DEF Init
  <2>2. QED
    BY <2>1
<1>5. ASSUME NEW t \in DOMAIN crud
      PROVE  /\ crud[t] = [of |-> crud[t].of, paths |-> crud[t].paths]
             /\ crud[t].of = t /\ crud[t].paths = spec.crud[t]
  <2>1. crud[t] = [of |-> t, paths |-> spec.crud[t]]
    BY DEF Init
  <2>2. QED
    BY <2>1
<1>6. \A t \in DOMAIN auto : auto[t] = t
  BY DEF Init
<1>7. ASSUME NEW y \in DOMAIN types
      PROVE  /\ DOMAIN types[y] = {"fields", "secret"}
             /\ types[y].fields = spec.types[y]
  <2>1. types[y] = [fields |-> spec.types[y], secret |-> {}]
    BY DEF Init
  <2>2. QED
    BY <2>1
<1>8. ResourceRows
  BY <1>2, <1>3 DEF ResourceRows
<1>9. FunctionRows
  BY <1>2, <1>4 DEF FunctionRows
<1>10. CrudRows
  BY <1>2, <1>5, <1>6 DEF CrudRows, Endpoint
<1>11. TypeRows
  BY <1>2, <1>7 DEF TypeRows
<1>12. Apart
  BY <1>1, <1>2, PipelineAssumption DEF Apart
<1>13. AsGiven
  BY <1>2, <1>5, <1>6 DEF AsGiven
<1>14. Fixed
  BY <1>1, <1>3 DEF Fixed
<1>15. ResourceNames
  BY <1>1, <1>2, <1>3 DEF ResourceNames
<1>16. FunctionNames
  BY <1>1, <1>4, <1>7 DEF FunctionNames
<1>17. QED
  BY <1>1, <1>8, <1>9, <1>10, <1>11, <1>12, <1>13, <1>14, <1>15, <1>16
     DEF IInv, Rows, Stages, Lockstep, Verbs, Marked, Bound

\* An error leaves everything where it was.
LEMMA FailIInv == IInv /\ Fail => IInv'
<1> SUFFICES ASSUME IInv, Fail PROVE IInv'
  OBVIOUS
<1>1. stage' = "failed" /\ UNCHANGED <<spec, todo, resources, functions, crud, auto, types>>
  BY DEF Fail
<1>2. Rows'
  BY <1>1 DEF IInv, Rows, Stages, ResourceRows, FunctionRows, CrudRows, TypeRows, Apart, Endpoint
<1>3. QED
  BY <1>1, <1>2 DEF IInv, AsGiven, Lockstep, Verbs, Fixed, ResourceNames, FunctionNames, Marked, Bound

LEMMA StutterIInv == IInv /\ UNCHANGED vars => IInv'
<1> SUFFICES ASSUME IInv, UNCHANGED vars PROVE IInv'
  OBVIOUS
<1>1. UNCHANGED <<spec, stage, todo, resources, functions, crud, auto, types>>
  BY DEF vars
<1>2. Rows' /\ AsGiven'
  BY <1>1 DEF IInv, Rows, ResourceRows, FunctionRows, CrudRows, TypeRows, Apart, Endpoint, AsGiven
<1>3. Lockstep' /\ Verbs' /\ Fixed' /\ Marked'
  BY <1>1 DEF IInv, Lockstep, Verbs, OwnVerbs, Fixed, OwnFixed, IsVariant, Marked, Bound, Endpoint
<1>4. ResourceNames'
  BY <1>1 DEF IInv, ResourceNames, FinalResource, PinFits, Endpoint
<1>5. FunctionNames'
  BY <1>1 DEF IInv, FunctionNames, FinalFunction, NewFunction, PageTypesAreOwn
<1>6. QED
  BY <1>2, <1>3, <1>4, <1>5 DEF IInv

\* A resource's endpoint is the one pulschema found, wherever it has moved.
LEMMA CreateIsOwn ==
  ASSUME Rows, Lockstep, Bound, NEW t \in DOMAIN resources
  PROVE  /\ t \in DOMAIN crud /\ crud[t].of = resources[t].of
         /\ Create(t) = Endpoint(resources[t].of)
         /\ t \in Creatable <=> Endpoint(resources[t].of) # NoPath
<1>1. t \in DOMAIN crud /\ crud[t].of = resources[t].of
  BY DEF Lockstep
<1>2. Create(t) = Endpoint(resources[t].of)
  BY <1>1 DEF Create, Rows, CrudRows
<1>3. QED
  BY <1>1, <1>2 DEF Creatable

LEMMA CoalesceIInv == IInv /\ Coalesce => IInv'
<1> SUFFICES ASSUME IInv, Coalesce PROVE IInv'
  OBVIOUS
<1>1. /\ stage = "coalesce" /\ \A t \in Creatable : ~Uncoalesced(t)
      /\ crud' = [t \in DOMAIN crud \cap (DOMAIN resources \cup DOMAIN functions) |-> Coalesced(t)]
      /\ stage' = "discriminate" /\ UNCHANGED <<spec, todo, resources, functions, auto, types>>
  BY DEF Coalesce
<1>2. Rows /\ AsGiven /\ Fixed /\ ResourceNames /\ FunctionNames
  BY DEF IInv
<1>3. /\ DOMAIN resources = DOMAIN spec.resources /\ DOMAIN functions = DOMAIN spec.functions
      /\ DOMAIN crud = DOMAIN spec.crud /\ DOMAIN auto = spec.auto
      /\ \A t \in DOMAIN crud : crud[t].of = t /\ crud[t].paths = spec.crud[t]
      /\ \A t \in DOMAIN auto : auto[t] = t
  BY <1>1, <1>2 DEF AsGiven
<1>4. DOMAIN crud' = DOMAIN resources \cup DOMAIN functions
  BY <1>1, <1>2, <1>3, PipelineAssumption DEF Rows
<1>5. ASSUME NEW t \in DOMAIN crud'
      PROVE  /\ t \in DOMAIN crud
             /\ crud'[t] = [of |-> t, paths |-> IF t \in Creatable THEN Filled(t) ELSE spec.crud[t]]
             /\ crud'[t].of = t
             /\ crud'[t].paths["C"] = Endpoint(t)
  <2>1. t \in DOMAIN crud /\ crud'[t] = Coalesced(t)
    BY <1>1, <1>5
  <2>2. crud[t] = [of |-> t, paths |-> spec.crud[t]]
    BY <1>2, <1>3, <2>1 DEF Rows, CrudRows
  <2>3. crud'[t] = [of |-> t, paths |-> IF t \in Creatable THEN Filled(t) ELSE spec.crud[t]]
    BY <2>1, <2>2 DEF Coalesced
  <2>4. t \in Creatable => Filled(t)["C"] = spec.crud[t]["C"]
    BY <2>2 DEF Filled, Verb, Creatable, Create
  <2>5. QED
    BY <2>1, <2>3, <2>4 DEF Endpoint
<1>6. CrudRows'
  <2>1. spec' = spec /\ auto' = auto /\ CrudRows
    BY <1>1, <1>2 DEF Rows
  <2>2. ASSUME NEW t \in DOMAIN crud'
        PROVE  /\ crud'[t] = [of |-> crud'[t].of, paths |-> crud'[t].paths]
               /\ crud'[t].of \in DOMAIN spec.crud
               /\ crud'[t].paths["C"] = spec.crud[crud'[t].of]["C"]
    BY <1>3, <1>5 DEF Endpoint
  <2>3. QED
    BY <2>1, <2>2 DEF CrudRows, Endpoint
<1>7. Rows'
  BY <1>1, <1>2, <1>6 DEF Rows, Stages, ResourceRows, FunctionRows, TypeRows, Apart
<1>8. Lockstep'
  <2>1. \A t \in DOMAIN resources : resources[t].of = t
    BY <1>1, <1>2 DEF ResourceNames
  <2>2. \A t \in DOMAIN functions : functions[t].of = t
    BY <1>1, <1>2 DEF FunctionNames
  <2>3. UNCHANGED <<spec, resources, functions, auto>>
    BY <1>1
  <2>4. \A t \in DOMAIN crud' : crud'[t].of = t
    BY <1>5
  <2>5. QED
    BY <1>3, <1>4, <2>1, <2>2, <2>3, <2>4 DEF Lockstep
<1>9. Verbs'
  <2>1. SUFFICES ASSUME NEW t \in DOMAIN crud', t \in DOMAIN spec.resources, crud'[t].paths["C"] # NoPath
                 PROVE  /\ crud'[t].paths["R"] # NoPath
                        /\ \A v \in Verb \ {"C"} :
                             \/ crud'[t].paths[v] = spec.crud[t][v]
                             \/ /\ {crud'[t].paths[v]} = spec.items[crud'[t].paths["C"]]
                                /\ Method[v] \in spec.methods[crud'[t].paths[v]]
    <3>1. spec' = spec /\ \A x \in DOMAIN crud' : crud'[x].of = x
      BY <1>1, <1>5
    <3>2. QED
      BY <3>1 DEF Verbs, OwnVerbs
  <2>2. t \in Creatable /\ crud'[t].paths = Filled(t) /\ Create(t) = Endpoint(t)
    BY <1>3, <1>5, <2>1 DEF Creatable, Create, Endpoint
  <2>3. ~(Cardinality(Items(t)) > 1) /\ Filled(t)["R"] # NoPath
    BY <1>1, <2>2 DEF Uncoalesced
  <2>4. IsFiniteSet(Items(t))
    BY <1>2, <1>5, <2>1, <2>2, PipelineAssumption DEF Items, Rows, Endpoint
  <2>5. ASSUME NEW v \in Verb \ {"C"}
        PROVE  \/ Filled(t)[v] = spec.crud[t][v]
               \/ {Filled(t)[v]} = Items(t) /\ Method[v] \in spec.methods[Filled(t)[v]]
    <3>1. CASE ~(crud[t].paths[v] = NoPath /\ \E i \in Items(t) : Method[v] \in spec.methods[i])
      BY <1>3, <1>5, <3>1 DEF Filled
    <3>2. CASE crud[t].paths[v] = NoPath /\ \E i \in Items(t) : Method[v] \in spec.methods[i]
      <4>1. PICK i \in Items(t) : Method[v] \in spec.methods[i]
        BY <3>2
      <4>2. Cardinality(Items(t)) \in Nat /\ Cardinality(Items(t)) # 0
        BY <2>4, <4>1, FS_CardinalityType, FS_EmptySet
      <4>3. Cardinality(Items(t)) = 1
        BY <2>3, <4>2
      <4>4. Items(t) = {i}
        BY <2>4, <4>1, <4>3, FS_Singleton
      <4>5. Filled(t)[v] = CHOOSE j \in Items(t) : TRUE
        BY <3>2 DEF Filled
      <4>6. Filled(t)[v] = i
        BY <4>4, <4>5
      <4>7. QED
        BY <4>1, <4>4, <4>6
    <3>3. QED
      BY <3>1, <3>2
  <2>6. QED
    BY <1>5, <2>2, <2>3, <2>5 DEF Items
<1>10. Fixed' /\ AsGiven'
  BY <1>1, <1>2 DEF Fixed, AsGiven
<1>11. ResourceNames'
  BY <1>1, <1>2 DEF ResourceNames
<1>12. FunctionNames'
  BY <1>1, <1>2 DEF FunctionNames
<1>13. QED
  BY <1>1, <1>7, <1>8, <1>9, <1>10, <1>11, <1>12 DEF IInv, Marked

LEMMA DiscriminateIInv == IInv /\ Discriminate => IInv'
<1> SUFFICES ASSUME IInv, Discriminate PROVE IInv'
  OBVIOUS
<1>1. /\ stage = "discriminate" /\ \A t \in Variants : ~Underived(t)
      /\ resources' = [t \in DOMAIN resources |-> Injected(t)]
      /\ stage' = "prefix" /\ todo' = DOMAIN resources
  BY DEF Discriminate
<1>2. UNCHANGED <<spec, functions, crud, auto, types>>
  BY DEF Discriminate
<1>3. Rows /\ Lockstep /\ Verbs /\ Fixed /\ ResourceNames /\ FunctionNames
  BY DEF IInv
<1>4. Bound /\ Bound'
  BY <1>1 DEF Bound
<1>5. ASSUME NEW t \in DOMAIN resources
      PROVE  /\ resources[t].of = t /\ resources[t].fixed = {} /\ t \in DOMAIN spec.resources
             /\ DOMAIN resources[t] = {"of", "inputs", "required", "fixed", "replace"}
             /\ resources[t].inputs = spec.resources[t]
             /\ resources[t].required \subseteq resources[t].inputs
             /\ resources[t].replace \subseteq resources[t].inputs
  <2>1. resources[t].of = t
    BY <1>1, <1>3 DEF ResourceNames
  <2>2. resources[t].fixed = {}
    BY <1>1, <1>3 DEF Fixed
  <2>3. QED
    BY <1>3, <2>1, <2>2 DEF Rows, ResourceRows
<1>6. ASSUME NEW t \in DOMAIN resources
      PROVE  /\ t \in Variants <=> IsVariant(t)
             /\ t \in Variants => Disc(t) = spec.discs[Endpoint(t)]
  <2>1. Create(t) = Endpoint(t) /\ (t \in Creatable <=> Endpoint(t) # NoPath)
    BY <1>3, <1>4, <1>5, CreateIsOwn
  <2>2. QED
    BY <2>1 DEF Variants, IsVariant, Disc
<1>7. ASSUME NEW t \in DOMAIN resources
      PROVE  /\ DOMAIN resources'[t] = {"of", "inputs", "required", "fixed", "replace"}
             /\ resources'[t].of = t /\ resources'[t].inputs = spec.resources[t]
             /\ resources'[t].required \subseteq resources'[t].inputs
             /\ resources'[t].replace \subseteq resources'[t].inputs
             /\ \A c \in resources'[t].fixed : c[1] \in resources'[t].inputs \ resources'[t].required
             /\ OwnFixed(resources'[t])
  <2>1. resources'[t] = Injected(t)
    BY <1>1
  <2>2. CASE t \notin Variants
    <3>1. resources'[t] = resources[t]
      BY <2>1, <2>2 DEF Injected
    <3>2. QED
      BY <1>5, <1>6, <2>2, <3>1 DEF OwnFixed
  <2>3. CASE t \in Variants
    <3> DEFINE d == Disc(t)
               v == CHOOSE m \in Matched(t) : TRUE
    <3>1. Cardinality(Matched(t)) = 1 /\ d.field \in resources[t].inputs
      BY <1>1, <2>3 DEF Underived
    <3>2. Matched(t) # {}
      BY <3>1, FS_EmptySet
    <3>3. v \in Matched(t)
      BY <3>2
    <3>4. v \in DOMAIN d.names /\ d.names[v] = t
      BY <3>3 DEF Matched
    <3> HIDE DEF d, v
    <3>5. resources'[t] = [resources[t] EXCEPT !.fixed = {<<d.field, v>>}, !.required = @ \ {d.field}]
      BY <2>1, <2>3 DEF Injected, d, v
    <3>6. DOMAIN resources[t] = {"of", "inputs", "required", "fixed", "replace"}
      BY <1>5
    <3>7. /\ DOMAIN resources'[t] = {"of", "inputs", "required", "fixed", "replace"}
          /\ resources'[t].of = resources[t].of /\ resources'[t].inputs = resources[t].inputs
          /\ resources'[t].required = resources[t].required \ {d.field}
          /\ resources'[t].fixed = {<<d.field, v>>}
          /\ resources'[t].replace = resources[t].replace
      BY <3>5, <3>6
    <3>8. d = spec.discs[Endpoint(t)] /\ IsVariant(t)
      BY <1>6, <2>3 DEF d
    <3>9. OwnFixed(resources'[t])
      BY <1>5, <3>1, <3>4, <3>7, <3>8 DEF OwnFixed
    <3>10. \A c \in resources'[t].fixed : c[1] \in resources'[t].inputs \ resources'[t].required
      BY <3>1, <3>7
    <3>11. QED
      BY <1>5, <3>7, <3>9, <3>10
  <2>4. QED
    BY <2>2, <2>3
<1>8. DOMAIN resources' = DOMAIN resources
  BY <1>1
<1>9. ResourceRows'
  BY <1>2, <1>5, <1>7, <1>8 DEF ResourceRows
<1>10. Rows'
  BY <1>1, <1>2, <1>3, <1>8, <1>9 DEF Rows, Stages, FunctionRows, CrudRows, TypeRows, Apart, Endpoint
<1>11. Lockstep'
  <2>1. ASSUME NEW t \in DOMAIN resources PROVE resources'[t].of = resources[t].of
    <3>1. resources[t].of = t
      BY <1>5
    <3>2. resources'[t].of = t
      BY <1>7
    <3>3. QED
      BY <3>1, <3>2
  <2>2. QED
    BY <1>2, <1>3, <1>4, <1>8, <2>1 DEF Lockstep
<1>12. Verbs'
  BY <1>2, <1>3, <1>4 DEF Verbs, OwnVerbs
<1>13. Fixed'
  <2>1. \A t \in DOMAIN resources' : OwnFixed(resources'[t])
    BY <1>7, <1>8
  <2>2. QED
    BY <1>1, <1>2, <2>1 DEF Fixed, OwnFixed, IsVariant, Endpoint
<1>14. ResourceNames'
  <2>1. \A o \in DOMAIN spec.resources : \E t \in DOMAIN resources : resources[t].of = o
    BY <1>1, <1>3 DEF ResourceNames
  <2>2. DOMAIN spec.resources \subseteq DOMAIN resources
    BY <1>5, <2>1
  <2>3. \A t \in DOMAIN resources' : resources'[t].of = t
    BY <1>7, <1>8
  <2>4. QED
    BY <1>1, <1>2, <1>8, <2>2, <2>3 DEF ResourceNames
<1>15. FunctionNames'
  BY <1>1, <1>2, <1>3 DEF FunctionNames
<1>16. QED
  BY <1>1, <1>10, <1>11, <1>12, <1>13, <1>14, <1>15 DEF IInv, AsGiven, Marked

-----------------------------------------------------------------------------
(* Renaming a token *)

\* The key an entry under x had before t was renamed to u.
Back(x, t, u) == IF x = u THEN t ELSE x

\* g is f with the entry of t under u.
Relabels(f, g, t, u) ==
  /\ DOMAIN g = (DOMAIN f \ {t}) \cup {u}
  /\ \A x \in DOMAIN g : Back(x, t, u) \in DOMAIN f /\ g[x] = f[Back(x, t, u)]

LEMMA MovedRelabels ==
  ASSUME NEW f, NEW t \in DOMAIN f, NEW u, u = t \/ u \notin DOMAIN f
  PROVE  Relabels(f, Moved(f, t, u), t, u)
<1>1. Moved(f, t, u) = [x \in (DOMAIN f \ {t}) \cup {u} |-> IF x = u THEN f[t] ELSE f[x]]
  BY DEF Moved
<1>2. QED
  BY <1>1 DEF Relabels, Back

\* renameToken moves every entry of the token or none: nothing is overwritten.
LEMMA RenamesAll ==
  ASSUME NEW m, NEW t \in DOMAIN m, NEW u, t \in DOMAIN crud, ~Collides(m, t, u),
         crud' = Moved(crud, t, u), auto' = Moved(auto, t, u)
  PROVE  /\ u = t \/ (u \notin DOMAIN m /\ u \notin DOMAIN crud)
         /\ Relabels(m, Moved(m, t, u), t, u)
         /\ Relabels(crud, crud', t, u)
         /\ \A x \in DOMAIN auto' : \E y \in DOMAIN auto : auto'[x] = auto[y]
         /\ \A x : Back(x, t, u) \in DOMAIN auto /\ (x = t => u = t) =>
              x \in DOMAIN auto' /\ auto'[x] = auto[Back(x, t, u)]
<1>1. u = t \/ (u \notin DOMAIN m /\ u \notin DOMAIN crud)
  BY DEF Collides
<1>2. Relabels(m, Moved(m, t, u), t, u)
  BY <1>1, MovedRelabels
<1>3. Relabels(crud, crud', t, u)
  BY <1>1, MovedRelabels
<1>4. CASE t \notin DOMAIN auto
  <2>1. auto' = auto
    BY <1>4 DEF Moved
  <2>2. QED
    BY <1>1, <1>2, <1>3, <1>4, <2>1 DEF Back
<1>5. CASE t \in DOMAIN auto
  <2>1. Relabels(auto, auto', t, u)
    BY <1>5, MovedRelabels DEF Collides
  <2>2. QED
    BY <1>1, <1>2, <1>3, <1>5, <2>1 DEF Relabels, Back
<1>6. QED
  BY <1>1, <1>2, <1>3, <1>4, <1>5

\* The entries keep what they know whichever token is renamed.
LEMMA CrudMoves ==
  ASSUME CrudRows, Verbs, Bound, Bound', spec' = spec, NEW t, NEW u, Relabels(crud, crud', t, u),
         \A x \in DOMAIN auto' : \E y \in DOMAIN auto : auto'[x] = auto[y]
  PROVE  CrudRows' /\ Verbs'
<1>1. \A x \in DOMAIN crud' : \E y \in DOMAIN crud : crud'[x] = crud[y]
  BY DEF Relabels
<1>2. CrudRows'
  BY <1>1 DEF CrudRows, Endpoint
<1>3. \A x \in DOMAIN crud' : OwnVerbs(crud'[x])
  BY <1>1 DEF Verbs
<1>4. Verbs'
  BY <1>3 DEF Verbs, OwnVerbs
<1>5. QED
  BY <1>2, <1>4

LEMMA ResourceRenamed ==
  ASSUME Rows, Lockstep, Verbs, Bound, NEW t \in DOMAIN resources, RenameResource(t),
         UNCHANGED <<spec, stage, types>>,
         \A x \in DOMAIN resources : OwnFixed(resources[x])
  PROVE  /\ Rows' /\ Lockstep' /\ Verbs'
         /\ \A x \in DOMAIN resources' : OwnFixed(resources'[x])
         /\ Relabels(resources, resources', t, NewResource(t))
         /\ NewResource(t) = t \/ NewResource(t) \notin DOMAIN resources
<1> DEFINE u == NewResource(t)
<1>1. /\ ~Collides(resources, t, u) /\ resources' = Moved(resources, t, u)
      /\ crud' = Moved(crud, t, u) /\ auto' = Moved(auto, t, u)
      /\ functions' = functions
  BY DEF RenameResource
<1> HIDE DEF u
<1>2. t \in DOMAIN crud /\ Bound'
  BY CreateIsOwn DEF Bound
<1>3. /\ u = t \/ (u \notin DOMAIN resources /\ u \notin DOMAIN crud)
      /\ Relabels(resources, resources', t, u)
      /\ Relabels(crud, crud', t, u)
      /\ \A x \in DOMAIN auto' : \E y \in DOMAIN auto : auto'[x] = auto[y]
      /\ \A x : Back(x, t, u) \in DOMAIN auto /\ (x = t => u = t) =>
           x \in DOMAIN auto' /\ auto'[x] = auto[Back(x, t, u)]
  BY <1>1, <1>2, RenamesAll
<1>4. CrudRows' /\ Verbs'
  BY <1>2, <1>3, CrudMoves DEF Rows
<1>5. \A x \in DOMAIN resources' : \E y \in DOMAIN resources : resources'[x] = resources[y]
  BY <1>3 DEF Relabels
<1>6. ResourceRows'
  BY <1>5 DEF Rows, ResourceRows
<1>7. \A x \in DOMAIN resources' : OwnFixed(resources'[x])
  BY <1>5
<1>8. DOMAIN crud = DOMAIN resources \cup DOMAIN functions /\ Apart
  BY DEF Lockstep, Rows
<1>9. Apart' /\ DOMAIN crud' = DOMAIN resources' \cup DOMAIN functions'
  BY <1>1, <1>3, <1>8 DEF Relabels, Apart
<1>10. Rows'
  BY <1>1, <1>4, <1>6, <1>9 DEF Rows, FunctionRows, TypeRows
<1>11. Lockstep'
  <2>1. ASSUME NEW x \in DOMAIN resources'
        PROVE  /\ crud'[x].of = resources'[x].of
               /\ resources'[x].of \in spec.auto => x \in DOMAIN auto' /\ auto'[x] = resources'[x].of
    <3> DEFINE y == Back(x, t, u)
    <3>1. y \in DOMAIN resources /\ resources'[x] = resources[y]
      BY <1>3 DEF Relabels
    <3>2. crud'[x] = crud[y]
      BY <1>3, <1>9 DEF Relabels
    <3>3. x = t => u = t
      BY <1>3 DEF Relabels
    <3>4. crud[y].of = resources[y].of
          /\ (resources[y].of \in spec.auto => y \in DOMAIN auto /\ auto[y] = resources[y].of)
      BY <3>1 DEF Lockstep
    <3>5. QED
      BY <1>3, <3>1, <3>2, <3>3, <3>4
  <2>2. ASSUME NEW x \in DOMAIN functions PROVE crud'[x].of = functions[x].of
    <3>1. x # u /\ x \in DOMAIN crud'
      BY <1>1, <1>3, <1>8, <1>9 DEF Apart
    <3>2. crud'[x] = crud[x]
      BY <1>3, <3>1 DEF Relabels, Back
    <3>3. QED
      BY <3>2 DEF Lockstep
  <2>3. QED
    BY <1>1, <1>9, <2>1, <2>2 DEF Lockstep
<1>12. QED
  BY <1>3, <1>4, <1>7, <1>10, <1>11 DEF u

LEMMA FunctionRenamed ==
  ASSUME Rows, Lockstep, Verbs, Bound, NEW t \in DOMAIN functions, NEW u, RenameFunction(t, u),
         UNCHANGED <<spec, stage>>, TypeRows'
  PROVE  /\ Rows' /\ Lockstep' /\ Verbs'
         /\ Relabels(functions, functions', t, u)
         /\ u = t \/ u \notin DOMAIN functions
<1>1. /\ ~Collides(functions, t, u) /\ functions' = Moved(functions, t, u)
      /\ crud' = Moved(crud, t, u) /\ auto' = Moved(auto, t, u)
      /\ resources' = resources
  BY DEF RenameFunction
<1>2. t \in DOMAIN crud /\ Bound'
  BY DEF Bound, Lockstep
<1>3. /\ u = t \/ (u \notin DOMAIN functions /\ u \notin DOMAIN crud)
      /\ Relabels(functions, functions', t, u)
      /\ Relabels(crud, crud', t, u)
      /\ \A x \in DOMAIN auto' : \E y \in DOMAIN auto : auto'[x] = auto[y]
      /\ \A x : Back(x, t, u) \in DOMAIN auto /\ (x = t => u = t) =>
           x \in DOMAIN auto' /\ auto'[x] = auto[Back(x, t, u)]
  BY <1>1, <1>2, RenamesAll
<1>4. CrudRows' /\ Verbs'
  BY <1>2, <1>3, CrudMoves DEF Rows
<1>5. DOMAIN crud = DOMAIN resources \cup DOMAIN functions /\ Apart
  BY DEF Lockstep, Rows
<1>6. Apart' /\ DOMAIN crud' = DOMAIN resources' \cup DOMAIN functions'
  BY <1>1, <1>3, <1>5 DEF Relabels, Apart
<1>7. FunctionRows'
  <2>1. FunctionRows /\ spec' = spec
    BY DEF Rows
  <2>2. \A x \in DOMAIN functions' : \E y \in DOMAIN functions : functions'[x] = functions[y]
    BY <1>3 DEF Relabels
  <2>3. ASSUME NEW x \in DOMAIN functions', NEW y \in DOMAIN functions', functions'[x].of = functions'[y].of
        PROVE  x = y
    <3>1. Back(x, t, u) = Back(y, t, u)
      BY <1>3, <2>1, <2>3 DEF Relabels, FunctionRows
    <3>2. (x = t => u = t) /\ (y = t => u = t)
      BY <1>3 DEF Relabels
    <3>3. QED
      BY <3>1, <3>2 DEF Back
  <2>4. ASSUME NEW o \in DOMAIN spec.functions
        PROVE  \E x \in DOMAIN functions' : functions'[x].of = o
    <3>1. PICK y \in DOMAIN functions : functions[y].of = o
      BY <2>1 DEF FunctionRows
    <3>2. CASE y = t
      BY <1>3, <3>1, <3>2 DEF Relabels, Back
    <3>3. CASE y # t
      <4>1. y \in DOMAIN functions' /\ y # u
        BY <1>3, <3>1, <3>3 DEF Relabels
      <4>2. QED
        BY <1>3, <3>1, <4>1 DEF Relabels, Back
    <3>4. QED
      BY <3>2, <3>3
  <2>5. QED
    BY <2>1, <2>2, <2>3, <2>4 DEF FunctionRows
<1>8. Rows'
  BY <1>1, <1>4, <1>6, <1>7 DEF Rows, ResourceRows
<1>9. Lockstep'
  <2>1. ASSUME NEW x \in DOMAIN functions' PROVE crud'[x].of = functions'[x].of
    <3> DEFINE y == Back(x, t, u)
    <3>1. y \in DOMAIN functions /\ functions'[x] = functions[y]
      BY <1>3 DEF Relabels
    <3>2. crud'[x] = crud[y]
      BY <1>3, <1>6 DEF Relabels
    <3>3. QED
      BY <3>1, <3>2 DEF Lockstep
  <2>2. ASSUME NEW x \in DOMAIN resources
        PROVE  /\ crud'[x].of = resources[x].of
               /\ resources[x].of \in spec.auto => x \in DOMAIN auto' /\ auto'[x] = resources[x].of
    <3>1. x # u /\ x # t /\ x \in DOMAIN crud'
      BY <1>1, <1>3, <1>5, <1>6 DEF Apart
    <3>2. Back(x, t, u) = x
      BY <3>1 DEF Back
    <3>3. crud'[x] = crud[x]
      BY <1>3, <3>1, <3>2 DEF Relabels
    <3>4. x \in DOMAIN auto => x \in DOMAIN auto' /\ auto'[x] = auto[x]
      BY <1>3, <3>1, <3>2
    <3>5. QED
      BY <3>3, <3>4 DEF Lockstep
  <2>3. QED
    BY <1>1, <1>6, <2>1, <2>2 DEF Lockstep
<1>10. QED
  BY <1>3, <1>4, <1>8, <1>9

LEMMA PrefixIInv == IInv /\ PrefixOne => IInv'
<1> SUFFICES ASSUME IInv, PrefixOne PROVE IInv'
  OBVIOUS
<1>1. PICK t \in todo : ~Mispinned(t) /\ RenameResource(t) /\ todo' = todo \ {t}
  BY DEF PrefixOne
<1>2. stage = "prefix" /\ UNCHANGED <<spec, stage, types>> /\ functions' = functions
  BY <1>1 DEF PrefixOne, RenameResource
<1>3. Rows /\ Lockstep /\ Verbs /\ Fixed /\ ResourceNames /\ FunctionNames /\ Bound
  BY <1>2 DEF IInv, Bound
<1>4. /\ todo \subseteq DOMAIN resources
      /\ \A x \in todo : resources[x].of = x
      /\ \A x \in DOMAIN resources \ todo : x = FinalResource(resources[x].of)
      /\ \A o \in DOMAIN spec.resources \ todo : PinFits(o)
      /\ \A o \in DOMAIN spec.resources : \E x \in DOMAIN resources : resources[x].of = o
  BY <1>2, <1>3 DEF ResourceNames
<1>5. \A x \in DOMAIN resources : OwnFixed(resources[x])
  BY <1>2, <1>3 DEF Fixed
<1> DEFINE u == NewResource(t)
<1>6. /\ Rows' /\ Lockstep' /\ Verbs'
      /\ \A x \in DOMAIN resources' : OwnFixed(resources'[x])
      /\ Relabels(resources, resources', t, u)
      /\ u = t \/ u \notin DOMAIN resources
  BY <1>1, <1>2, <1>3, <1>4, <1>5, ResourceRenamed
<1>7. /\ t \in DOMAIN resources /\ resources[t].of = t
      /\ Create(t) = Endpoint(t) /\ (t \in Creatable <=> Endpoint(t) # NoPath)
  BY <1>1, <1>3, <1>4, CreateIsOwn
<1>8. u = FinalResource(t) /\ PinFits(t)
  <2>1. u = FinalResource(t)
    BY <1>7 DEF NewResource, FinalResource, Prefixed, Endpoint
  <2>2. t \in Creatable => (Endpoint(t) \in DOMAIN EntityPrefix <=> spec.discs[Endpoint(t)] # NoDisc)
    BY <1>1, <1>7 DEF Mispinned, Prefixed, Variants, Disc
  <2>3. QED
    BY <1>7, <2>1, <2>2 DEF PinFits
<1> HIDE DEF u
<1>9. Fixed'
  BY <1>2, <1>6 DEF Fixed, OwnFixed, IsVariant, Endpoint
<1>10. ResourceNames'
  <2>1. todo' \subseteq DOMAIN resources'
    BY <1>1, <1>4, <1>6 DEF Relabels
  <2>2. \A x \in todo' : resources'[x].of = x
    BY <1>1, <1>4, <1>6, <2>1 DEF Relabels, Back
  <2>3. ASSUME NEW x \in DOMAIN resources' \ todo' PROVE x = FinalResource(resources'[x].of)
    <3>1. CASE x = u
      BY <1>6, <1>7, <1>8, <3>1 DEF Relabels, Back
    <3>2. CASE x # u
      <4>1. x \in DOMAIN resources \ todo /\ resources'[x] = resources[x]
        BY <1>1, <1>6, <2>3, <3>2 DEF Relabels, Back
      <4>2. QED
        BY <1>4, <4>1
    <3>3. QED
      BY <3>1, <3>2
  <2>4. \A o \in DOMAIN spec.resources \ todo' : PinFits(o)
    BY <1>1, <1>4, <1>8
  <2>5. ASSUME NEW o \in DOMAIN spec.resources
        PROVE  \E x \in DOMAIN resources' : resources'[x].of = o
    <3>1. PICK y \in DOMAIN resources : resources[y].of = o
      BY <1>4
    <3>2. CASE y = t
      BY <1>6, <3>1, <3>2 DEF Relabels, Back
    <3>3. CASE y # t
      <4>1. y \in DOMAIN resources' /\ y # u
        BY <1>6, <3>1, <3>3 DEF Relabels
      <4>2. QED
        BY <1>6, <3>1, <4>1 DEF Relabels, Back
    <3>4. QED
      BY <3>2, <3>3
  <2>6. spec' = spec /\ stage' = "prefix"
    BY <1>2
  <2>7. QED
    BY <2>1, <2>2, <2>3, <2>4, <2>5, <2>6 DEF ResourceNames, FinalResource, PinFits, Endpoint
<1>11. FunctionNames'
  BY <1>2, <1>3 DEF FunctionNames
<1>12. QED
  BY <1>2, <1>6, <1>9, <1>10, <1>11 DEF IInv, AsGiven, Marked

LEMMA NormalizeIInv == IInv /\ NormalizeOne => IInv'
<1> SUFFICES ASSUME IInv, NormalizeOne PROVE IInv'
  OBVIOUS
<1>1. PICK t \in todo : RenameFunction(t, NewFunction(t)) /\ todo' = todo \ {t}
  BY DEF NormalizeOne
<1>2. stage = "normalize" /\ UNCHANGED <<spec, stage, types>> /\ resources' = resources
  BY <1>1 DEF NormalizeOne, RenameFunction
<1>3. Rows /\ Lockstep /\ Verbs /\ Fixed /\ ResourceNames /\ FunctionNames /\ Bound
  BY <1>2 DEF IInv, Bound
<1>4. /\ todo \subseteq DOMAIN functions
      /\ \A x \in todo : functions[x].of = x
      /\ \A x \in DOMAIN functions \ todo : x = NewFunction(functions[x].of)
      /\ \A y \in DOMAIN types : types[y].fields = spec.types[y]
  BY <1>2, <1>3 DEF FunctionNames
<1> DEFINE u == NewFunction(t)
<1>5. TypeRows'
  BY <1>2, <1>3 DEF Rows, TypeRows
<1>6. /\ Rows' /\ Lockstep' /\ Verbs' /\ Relabels(functions, functions', t, u)
      /\ u = t \/ u \notin DOMAIN functions
  BY <1>1, <1>2, <1>3, <1>4, <1>5, FunctionRenamed
<1>7. Fixed'
  BY <1>2, <1>3 DEF Fixed, OwnFixed, IsVariant, Endpoint
<1>8. ResourceNames'
  BY <1>2, <1>3 DEF ResourceNames, FinalResource, PinFits, Endpoint
<1>9. FunctionNames'
  <2>1. todo' \subseteq DOMAIN functions'
    BY <1>1, <1>4, <1>6 DEF Relabels
  <2>2. \A x \in todo' : functions'[x].of = x
    BY <1>1, <1>4, <1>6, <2>1 DEF Relabels, Back
  <2>3. ASSUME NEW x \in DOMAIN functions' \ todo' PROVE x = NewFunction(functions'[x].of)
    <3>1. CASE x = u
      BY <1>4, <1>6, <3>1 DEF Relabels, Back
    <3>2. CASE x # u
      <4>1. x \in DOMAIN functions \ todo /\ functions'[x] = functions[x]
        BY <1>1, <1>6, <2>3, <3>2 DEF Relabels, Back
      <4>2. QED
        BY <1>4, <4>1
    <3>3. QED
      BY <3>1, <3>2
  <2>4. spec' = spec /\ stage' = "normalize" /\ types' = types
    BY <1>2
  <2>5. QED
    BY <1>4, <2>1, <2>2, <2>3, <2>4 DEF FunctionNames, NewFunction
<1>10. QED
  BY <1>2, <1>6, <1>7, <1>8, <1>9 DEF IInv, AsGiven, Marked

-----------------------------------------------------------------------------
(* Excluding and depaging *)

LEMMA ExcludeIInv == IInv /\ Exclude => IInv'
<1> SUFFICES ASSUME IInv, Exclude PROVE IInv'
  OBVIOUS
<1>1. /\ stage = "exclude" /\ Excluded \subseteq DOMAIN resources
      /\ resources' = Kept(resources, DOMAIN resources \ Excluded)
      /\ crud' = Kept(crud, DOMAIN crud \ Excluded)
      /\ auto' = Kept(auto, DOMAIN auto \ Excluded)
      /\ stage' = "depage" /\ todo' = DOMAIN functions
      /\ UNCHANGED <<spec, functions, types>>
  BY DEF Exclude
<1>2. Rows /\ Lockstep /\ Verbs /\ Fixed /\ ResourceNames /\ FunctionNames /\ Bound /\ Bound'
  BY <1>1 DEF IInv, Bound
<1>3. /\ DOMAIN resources' = DOMAIN resources \ Excluded
      /\ DOMAIN crud' = DOMAIN crud \ Excluded /\ DOMAIN auto' = DOMAIN auto \ Excluded
      /\ \A x \in DOMAIN resources' : resources'[x] = resources[x]
      /\ \A x \in DOMAIN crud' : crud'[x] = crud[x]
      /\ \A x \in DOMAIN auto' : auto'[x] = auto[x]
  BY <1>1 DEF Kept
<1>4. UNCHANGED <<spec, functions, types>> /\ stage' = "depage" /\ todo' = DOMAIN functions
  BY <1>1
<1>5. ResourceRows' /\ CrudRows' /\ Apart'
  BY <1>2, <1>3, <1>4 DEF Rows, ResourceRows, CrudRows, Apart, Endpoint
<1>6. Rows'
  BY <1>2, <1>4, <1>5 DEF Rows, FunctionRows, TypeRows, Stages
<1>7. Lockstep'
  <2>1. DOMAIN functions \cap Excluded = {} /\ DOMAIN crud = DOMAIN resources \cup DOMAIN functions
    BY <1>1, <1>2 DEF Rows, Apart, Lockstep
  <2>2. DOMAIN crud' = DOMAIN resources' \cup DOMAIN functions'
    BY <1>3, <1>4, <2>1
  <2>3. QED
    BY <1>2, <1>3, <1>4, <2>2 DEF Lockstep
<1>8. Verbs'
  <2>1. \A x \in DOMAIN crud' : OwnVerbs(crud'[x])
    BY <1>2, <1>3 DEF Verbs
  <2>2. QED
    BY <1>4, <2>1 DEF Verbs, OwnVerbs
<1>9. Fixed'
  <2>1. \A x \in DOMAIN resources' : OwnFixed(resources'[x])
    BY <1>1, <1>2, <1>3 DEF Fixed
  <2>2. QED
    BY <1>4, <2>1 DEF Fixed, OwnFixed, IsVariant, Endpoint
<1>10. ResourceNames'
  <2>1. /\ \A x \in DOMAIN resources : x = FinalResource(resources[x].of)
        /\ \A o \in DOMAIN spec.resources : PinFits(o)
        /\ \A o \in DOMAIN spec.resources : \E x \in DOMAIN resources : resources[x].of = o
    BY <1>1, <1>2 DEF ResourceNames
  <2>2. \A x \in DOMAIN resources' : x = FinalResource(resources'[x].of)
    BY <1>3, <2>1
  <2>3. Excluded \subseteq {FinalResource(o) : o \in DOMAIN spec.resources}
    <3>1. \A x \in DOMAIN resources : resources[x].of \in DOMAIN spec.resources
      BY <1>2 DEF Rows, ResourceRows
    <3>2. QED
      BY <1>1, <2>1, <3>1
  <2>4. ASSUME NEW o \in DOMAIN spec.resources
        PROVE  FinalResource(o) \in Excluded \/ \E x \in DOMAIN resources' : resources'[x].of = o
    <3>1. PICK x \in DOMAIN resources : resources[x].of = o
      BY <2>1
    <3>2. x = FinalResource(o)
      BY <2>1, <3>1
    <3>3. QED
      BY <1>3, <3>1, <3>2
  <2>5. Excluded \cap DOMAIN resources' = {}
    BY <1>3
  <2>6. QED
    BY <1>4, <2>1, <2>2, <2>3, <2>4, <2>5 DEF ResourceNames, FinalResource, PinFits, Endpoint
<1>11. FunctionNames'
  <2>1. /\ \A x \in DOMAIN functions : x = NewFunction(functions[x].of)
        /\ \A y \in DOMAIN types : types[y].fields = spec.types[y]
    BY <1>1, <1>2 DEF FunctionNames
  <2>2. QED
    BY <1>4, <2>1 DEF FunctionNames, NewFunction
<1>12. QED
  BY <1>1, <1>6, <1>7, <1>8, <1>9, <1>10, <1>11 DEF IInv, AsGiven, Marked

LEMMA DepageIInv == IInv /\ DepageOne => IInv'
<1> SUFFICES ASSUME IInv, DepageOne PROVE IInv'
  OBVIOUS
<1>1. PICK t \in todo :
        /\ IF Pages(t)
             THEN /\ RenameFunction(t, ListName[t])
                  /\ types' = [types EXCEPT ![functions[t].type].fields = @ \ PagingKnobs]
             ELSE UNCHANGED <<resources, functions, crud, auto, types>>
        /\ todo' = todo \ {t}
  BY DEF DepageOne
<1>2. stage = "depage" /\ UNCHANGED <<spec, stage>> /\ resources' = resources
  BY <1>1 DEF DepageOne, RenameFunction
<1>3. Rows /\ Lockstep /\ Verbs /\ Fixed /\ ResourceNames /\ FunctionNames /\ Bound
  BY <1>2 DEF IInv, Bound
<1>4. /\ todo \subseteq DOMAIN functions
      /\ \A x \in todo : x = NewFunction(functions[x].of)
  BY <1>2, <1>3 DEF FunctionNames
<1>5. PageTypesAreOwn =>
        /\ \A x \in DOMAIN functions \ todo : x = FinalFunction(functions[x].of)
        /\ \A x \in todo : functions[x].type \in DOMAIN types =>
             types[functions[x].type].fields = spec.types[functions[x].type]
  BY <1>2, <1>3 DEF FunctionNames
<1>6. /\ \A x \in DOMAIN functions : functions[x].type = spec.functions[functions[x].of]
                                     /\ functions[x].of \in DOMAIN spec.functions
      /\ \A x, y \in DOMAIN functions : functions[x].of = functions[y].of => x = y
      /\ DOMAIN types = DOMAIN spec.types /\ \A y \in DOMAIN types : DOMAIN types[y] = {"fields", "secret"}
  BY <1>3 DEF Rows, FunctionRows, TypeRows
<1> DEFINE Y == functions[t].type
<1>7. t \in DOMAIN functions /\ t = NewFunction(functions[t].of) /\ Y = spec.functions[functions[t].of]
  BY <1>4, <1>6
<1>8. ASSUME PageTypesAreOwn
      PROVE  FinalFunction(functions[t].of) = IF Pages(t) THEN ListName[t] ELSE t
  <2>1. Y \in DOMAIN types => types[Y].fields = spec.types[Y]
    BY <1>5, <1>8
  <2>2. QED
    BY <1>6, <1>7, <2>1 DEF FinalFunction, Pages
<1>9. /\ Rows' /\ Lockstep' /\ Verbs' /\ todo' \subseteq DOMAIN functions'
      /\ \A x \in todo' : x = NewFunction(functions'[x].of)
      /\ PageTypesAreOwn =>
           /\ \A x \in DOMAIN functions' \ todo' : x = FinalFunction(functions'[x].of)
           /\ \A x \in todo' : functions'[x].type \in DOMAIN types' =>
                types'[functions'[x].type].fields = spec.types[functions'[x].type]
  <2>1. CASE ~Pages(t)
    <3>1. UNCHANGED <<resources, functions, crud, auto, types>>
      BY <1>1, <2>1
    <3>2. Rows'
      BY <1>2, <1>3, <3>1 DEF Rows, ResourceRows, FunctionRows, CrudRows, TypeRows, Apart, Endpoint
    <3>3. Lockstep' /\ Verbs'
      BY <1>2, <1>3, <3>1 DEF Lockstep, Verbs, OwnVerbs, Bound
    <3>4. \A x \in DOMAIN functions \ todo' : x = t \/ x \in DOMAIN functions \ todo
      BY <1>1
    <3>5. todo' \subseteq todo
      BY <1>1
    <3>6. PageTypesAreOwn => \A x \in DOMAIN functions \ todo' : x = FinalFunction(functions[x].of)
      BY <1>5, <1>8, <2>1, <3>4
    <3>7. QED
      BY <1>4, <1>5, <3>1, <3>2, <3>3, <3>5, <3>6
  <2>2. CASE Pages(t)
    <3> DEFINE u == ListName[t]
    <3>1. /\ RenameFunction(t, u) /\ Y \in DOMAIN types /\ Envelope \subseteq types[Y].fields
          /\ types' = [types EXCEPT ![Y].fields = @ \ PagingKnobs]
      BY <1>1, <2>2 DEF Pages
    <3>2. /\ DOMAIN types' = DOMAIN types /\ \A y \in DOMAIN types : DOMAIN types'[y] = {"fields", "secret"}
          /\ \A y \in DOMAIN types \ {Y} : types'[y] = types[y]
      BY <1>6, <3>1
    <3>3. TypeRows'
      BY <1>2, <1>6, <3>2 DEF TypeRows
    <3>4. /\ Rows' /\ Lockstep' /\ Verbs' /\ Relabels(functions, functions', t, u)
          /\ u = t \/ u \notin DOMAIN functions
      BY <1>2, <1>3, <1>7, <3>1, <3>3, FunctionRenamed
    <3> HIDE DEF u, Y
    <3>5. ASSUME NEW x \in todo'
          PROVE  x \in DOMAIN functions' /\ x # t /\ x \in todo /\ functions'[x] = functions[x]
      BY <1>1, <1>4, <3>4 DEF Relabels, Back
    <3>6. ASSUME PageTypesAreOwn, NEW x \in DOMAIN functions' \ todo'
          PROVE  x = FinalFunction(functions'[x].of)
      <4>1. CASE x = u
        <5>1. functions'[x] = functions[t]
          BY <3>4, <4>1 DEF Relabels, Back
        <5>2. QED
          BY <1>8, <2>2, <3>6, <4>1, <5>1 DEF u
      <4>2. CASE x # u
        <5>1. x \in DOMAIN functions \ todo /\ functions'[x] = functions[x]
          BY <1>1, <3>4, <3>6, <4>2 DEF Relabels, Back
        <5>2. QED
          BY <1>5, <3>6, <5>1
      <4>3. QED
        BY <4>1, <4>2
    <3>7. ASSUME PageTypesAreOwn, NEW x \in todo', functions'[x].type \in DOMAIN types'
          PROVE  types'[functions'[x].type].fields = spec.types[functions'[x].type]
      <4>1. /\ x \in todo /\ x # t /\ x \in DOMAIN functions /\ functions'[x].type = functions[x].type
            /\ functions[x].of # functions[t].of
        BY <1>4, <1>6, <1>7, <3>5
      <4>2. functions[x].type # Y
        <5>1. SUFFICES ASSUME functions[x].type = Y PROVE FALSE
          OBVIOUS
        <5>2. types[Y].fields = spec.types[Y]
          BY <1>5, <3>1, <3>7 DEF Y
        <5>3. Envelope \subseteq spec.types[Y] /\ Y \in DOMAIN spec.types
          BY <1>6, <3>1, <5>2
        <5>4. spec.functions[functions[x].of] = Y /\ spec.functions[functions[t].of] = Y
          BY <1>6, <1>7, <4>1, <5>1
        <5>5. functions[x].of \in DOMAIN spec.functions /\ functions[t].of \in DOMAIN spec.functions
          BY <1>6, <1>7, <4>1
        <5>6. QED
          BY <3>7, <4>1, <5>3, <5>4, <5>5 DEF PageTypesAreOwn
      <4>3. types'[functions[x].type] = types[functions[x].type]
        BY <3>2, <3>7, <4>1, <4>2
      <4>4. QED
        BY <1>5, <3>2, <3>7, <4>1, <4>3
    <3>8. \A x \in todo' : x = NewFunction(functions'[x].of)
      BY <1>4, <3>5
    <3>9. QED
      BY <3>4, <3>5, <3>6, <3>7, <3>8
  <2>3. QED
    BY <2>1, <2>2
<1>10. Fixed'
  BY <1>2, <1>3 DEF Fixed, OwnFixed, IsVariant, Endpoint
<1>11. ResourceNames'
  BY <1>2, <1>3 DEF ResourceNames, FinalResource, PinFits, Endpoint
<1>12. FunctionNames'
  BY <1>2, <1>9 DEF FunctionNames, FinalFunction, NewFunction, PageTypesAreOwn
<1>13. QED
  BY <1>2, <1>9, <1>10, <1>11, <1>12 DEF IInv, AsGiven, Marked

\* A loop's end hands its invariant to the next stage.
LEMMA LoopEndsIInv == IInv /\ LoopEnds => IInv'
<1> SUFFICES ASSUME IInv, LoopEnds PROVE IInv'
  OBVIOUS
<1>1. /\ stage \in {"prefix", "normalize", "depage"} /\ todo = {}
      /\ stage = "prefix" => stage' = "normalize" /\ todo' = DOMAIN functions
      /\ stage = "normalize" => stage' = "exclude" /\ todo' = {}
      /\ stage = "depage" => stage' = "describe" /\ todo' = {}
      /\ UNCHANGED <<spec, resources, functions, crud, auto, types>>
  BY DEF LoopEnds
<1>2. Bound /\ Bound' /\ stage' \in {"normalize", "exclude", "describe"}
  BY <1>1 DEF Bound
<1>3. Rows'
  BY <1>1, <1>2 DEF IInv, Rows, Stages, ResourceRows, FunctionRows, CrudRows, TypeRows, Apart, Endpoint
<1>4. Lockstep' /\ Verbs'
  BY <1>1, <1>2 DEF IInv, Lockstep, Verbs, OwnVerbs
<1>5. Fixed'
  <2>1. \A t \in DOMAIN resources : OwnFixed(resources[t])
    BY <1>1 DEF IInv, Fixed
  <2>2. QED
    BY <1>1, <1>2, <2>1 DEF Fixed, OwnFixed, IsVariant, Endpoint
<1>6. ResourceNames'
  BY <1>1 DEF IInv, ResourceNames, FinalResource, PinFits, Endpoint
<1>7. FunctionNames'
  BY <1>1 DEF IInv, FunctionNames, FinalFunction, NewFunction, PageTypesAreOwn
<1>8. QED
  BY <1>2, <1>3, <1>4, <1>5, <1>6, <1>7 DEF IInv, AsGiven, Marked

-----------------------------------------------------------------------------
(* Describing and marking *)

LEMMA DescribeIInv == IInv /\ Describe => IInv'
<1> SUFFICES ASSUME IInv, Describe PROVE IInv'
  OBVIOUS
<1>1. /\ stage = "describe" /\ stage' \in {"secret", "failed"}
      /\ UNCHANGED <<spec, todo, resources, functions, crud, auto, types>>
  BY DEF Describe
<1>2. CASE stage' = "failed"
  BY <1>1, <1>2, FailIInv DEF Fail
<1>3. CASE stage' = "secret"
  <2>1. Rows' /\ Lockstep' /\ Verbs'
    BY <1>1, <1>3 DEF IInv, Rows, Stages, ResourceRows, FunctionRows, CrudRows, TypeRows, Apart, Endpoint,
                      Lockstep, Verbs, OwnVerbs, Bound
  <2>2. Fixed'
    BY <1>1, <1>3 DEF IInv, Fixed, OwnFixed, IsVariant, Endpoint
  <2>3. ResourceNames'
    BY <1>1, <1>3 DEF IInv, ResourceNames, FinalResource, PinFits, Endpoint
  <2>4. FunctionNames'
    BY <1>1, <1>3 DEF IInv, FunctionNames, FinalFunction, NewFunction, PageTypesAreOwn
  <2>5. QED
    BY <1>3, <2>1, <2>2, <2>3, <2>4 DEF IInv, AsGiven, Marked
<1>4. QED
  BY <1>1, <1>2, <1>3

LEMMA SecretIInv == IInv /\ MarkSecrets => IInv'
<1> SUFFICES ASSUME IInv, MarkSecrets PROVE IInv'
  OBVIOUS
<1>1. /\ stage = "secret" /\ stage' = "replace"
      /\ \A s \in SecretProps : s[1] \in DOMAIN types /\ s[2] \in types[s[1]].fields
      /\ types' = [y \in DOMAIN types |->
                     [types[y] EXCEPT !.secret = {s[2] : s \in {x \in SecretProps : x[1] = y}}]]
      /\ UNCHANGED <<spec, todo, resources, functions, crud, auto>>
  BY DEF MarkSecrets
<1>2. UNCHANGED <<spec, todo, resources, functions, crud, auto>> /\ stage = "secret" /\ stage' = "replace"
  BY <1>1
<1>3. TypeRows
  BY DEF IInv, Rows
<1>4. /\ DOMAIN types' = DOMAIN types
      /\ \A y \in DOMAIN types :
           /\ DOMAIN types'[y] = {"fields", "secret"} /\ types'[y].fields = types[y].fields
           /\ types'[y].secret = {s[2] : s \in {x \in SecretProps : x[1] = y}}
  BY <1>1, <1>3 DEF TypeRows
<1>5. TypeRows'
  BY <1>2, <1>3, <1>4 DEF TypeRows
<1>6. Rows'
  BY <1>2, <1>5 DEF IInv, Rows, Stages, ResourceRows, FunctionRows, CrudRows, Apart, Endpoint
<1>7. Lockstep' /\ Verbs'
  BY <1>2 DEF IInv, Lockstep, Verbs, OwnVerbs, Bound
<1>8. Fixed'
  BY <1>2 DEF IInv, Fixed, OwnFixed, IsVariant, Endpoint
<1>9. ResourceNames'
  BY <1>2 DEF IInv, ResourceNames, FinalResource, PinFits, Endpoint
<1>10. FunctionNames'
  BY <1>2 DEF IInv, FunctionNames, FinalFunction, NewFunction, PageTypesAreOwn
<1>11. Marked'
  <2>1. ASSUME NEW s \in SecretProps
        PROVE  s[1] \in DOMAIN types' /\ s[2] \in types'[s[1]].secret \cap types'[s[1]].fields
    BY <1>1, <1>4
  <2>2. QED
    BY <1>2, <2>1 DEF Marked
<1>12. QED
  BY <1>2, <1>6, <1>7, <1>8, <1>9, <1>10, <1>11 DEF IInv, AsGiven

LEMMA ReplaceIInv == IInv /\ ReplaceOnChanges => IInv'
<1> SUFFICES ASSUME IInv, ReplaceOnChanges PROVE IInv'
  OBVIOUS
<1>1. /\ stage = "replace" /\ DeadPins = {} /\ stage' = "done"
      /\ resources' = [t \in DOMAIN resources |-> [resources[t] EXCEPT !.replace = Replaced(t)]]
      /\ UNCHANGED <<spec, todo, functions, crud, auto, types>>
  BY DEF ReplaceOnChanges
<1>2. /\ UNCHANGED <<spec, functions, crud, auto, types>> /\ stage = "replace" /\ stage' = "done"
      /\ DOMAIN resources' = DOMAIN resources
  BY <1>1
<1>3. ResourceRows
  BY DEF IInv, Rows
<1>4. ASSUME NEW t \in DOMAIN resources
      PROVE  /\ DOMAIN resources'[t] = {"of", "inputs", "required", "fixed", "replace"}
             /\ resources'[t].of = resources[t].of /\ resources'[t].inputs = resources[t].inputs
             /\ resources'[t].required = resources[t].required /\ resources'[t].fixed = resources[t].fixed
             /\ resources'[t].replace = Replaced(t)
  <2>1. DOMAIN resources[t] = {"of", "inputs", "required", "fixed", "replace"}
    BY <1>3 DEF ResourceRows
  <2>2. resources'[t] = [resources[t] EXCEPT !.replace = Replaced(t)]
    BY <1>1
  <2>3. QED
    BY <2>1, <2>2
<1>5. ASSUME NEW t \in DOMAIN resources
      PROVE  /\ Replaced(t) \subseteq resources[t].inputs
             /\ resources[t].inputs \cap Immutable \subseteq Replaced(t)
             /\ \A c \in resources[t].fixed : c[1] \in Replaced(t)
  <2>1. \A c \in resources[t].fixed : c[1] \in resources[t].inputs
    BY <1>3 DEF ResourceRows
  <2>2. QED
    BY <2>1 DEF Replaced
<1>6. ResourceRows'
  BY <1>2, <1>3, <1>4, <1>5 DEF ResourceRows
<1>7. Rows'
  BY <1>2, <1>6 DEF IInv, Rows, Stages, FunctionRows, CrudRows, TypeRows, Apart, Endpoint
<1>8. Lockstep' /\ Verbs'
  <2>1. \A t \in DOMAIN resources : resources'[t].of = resources[t].of
    BY <1>4
  <2>2. Lockstep'
    BY <1>2, <2>1 DEF IInv, Lockstep, Bound
  <2>3. Verbs'
    BY <1>2 DEF IInv, Verbs, OwnVerbs, Bound
  <2>4. QED
    BY <2>2, <2>3
<1>9. Fixed'
  <2>1. \A t \in DOMAIN resources : OwnFixed(resources[t])
    BY <1>2 DEF IInv, Fixed
  <2>2. \A t \in DOMAIN resources' : OwnFixed(resources'[t])
    BY <1>2, <1>4, <2>1 DEF OwnFixed
  <2>3. QED
    BY <1>2, <2>2 DEF Fixed, OwnFixed, IsVariant, Endpoint
<1>10. ResourceNames'
  <2>1. \A t \in DOMAIN resources : resources'[t].of = resources[t].of
    BY <1>4
  <2>2. QED
    BY <1>2, <2>1 DEF IInv, ResourceNames, FinalResource, PinFits, Endpoint
<1>11. FunctionNames'
  BY <1>2 DEF IInv, FunctionNames, FinalFunction, NewFunction, PageTypesAreOwn
<1>12. Marked'
  <2>1. \A s \in SecretProps : s[1] \in DOMAIN types /\ s[2] \in types[s[1]].secret \cap types[s[1]].fields
    BY <1>2 DEF IInv, Marked
  <2>2. \A t \in DOMAIN resources' : \A c \in resources'[t].fixed : c[1] \in resources'[t].replace
    BY <1>2, <1>4, <1>5
  <2>3. ASSUME NEW f \in Immutable PROVE \E t \in DOMAIN resources' : f \in resources'[t].replace
    <3>1. PICK t \in DOMAIN resources : f \in resources[t].inputs
      BY <1>1 DEF DeadPins
    <3>2. QED
      BY <1>2, <1>4, <1>5, <3>1
  <2>4. QED
    BY <1>2, <2>1, <2>2, <2>3 DEF Marked
<1>13. QED
  BY <1>2, <1>7, <1>8, <1>9, <1>10, <1>11, <1>12 DEF IInv, AsGiven

-----------------------------------------------------------------------------
LEMMA NextIInv == IInv /\ [Next]_vars => IInv'
<1> SUFFICES ASSUME IInv, [Next]_vars PROVE IInv'
  OBVIOUS
<1>1. CASE Coalesce
  BY <1>1, CoalesceIInv
<1>2. CASE Discriminate
  BY <1>2, DiscriminateIInv
<1>3. CASE PrefixOne
  BY <1>3, PrefixIInv
<1>4. CASE NormalizeOne
  BY <1>4, NormalizeIInv
<1>5. CASE Exclude
  BY <1>5, ExcludeIInv
<1>6. CASE DepageOne
  BY <1>6, DepageIInv
<1>7. CASE LoopEnds
  BY <1>7, LoopEndsIInv
<1>8. CASE Describe
  BY <1>8, DescribeIInv
<1>9. CASE MarkSecrets
  BY <1>9, SecretIInv
<1>10. CASE ReplaceOnChanges
  BY <1>10, ReplaceIInv
<1>11. CASE Failures
  <2>1. Fail
    BY <1>11 DEF Failures, CoalesceFails, DiscriminateFails, PrefixFails, NormalizeFails,
                 ExcludeFails, DepageFails, SecretsFail, ReplaceFails
  <2>2. QED
    BY <2>1, FailIInv
<1>12. CASE Ended \/ UNCHANGED vars
  BY <1>12, StutterIInv DEF Ended
<1>13. QED
  BY <1>1, <1>2, <1>3, <1>4, <1>5, <1>6, <1>7, <1>8, <1>9, <1>10, <1>11, <1>12 DEF Next, Passes

-----------------------------------------------------------------------------
(* Theorems *)

LEMMA AlwaysIInv == Spec => []IInv
<1>1. Init => IInv
  BY InitIInv
<1>2. IInv /\ [Next]_vars => IInv'
  BY NextIInv
<1>3. QED
  BY <1>1, <1>2, PTL DEF Spec

\* Through every pass, for any document and tables, an entry of a map knows a
\* token pulschema gave, required and replaced inputs are inputs and a fixed
\* one is asked of nobody (schema.go:144-150).
THEOREM TypeCorrect == Spec => []TypeOK
<1>1. IInv => TypeOK
  BY DEF IInv, Rows, ResourceRows, FunctionRows, CrudRows, TypeOK
<1>2. QED
  BY <1>1, AlwaysIInv, PTL

\* The token-keyed maps stay in step through any number of renames and
\* deletions, whatever the tables make of the names and whatever order the
\* loops take (pass_token_rename.go:201-245, pass_exclude_resources.go).
THEOREM LockstepCorrect == Spec => []Lockstep
<1>1. IInv => Lockstep
  BY DEF IInv
<1>2. QED
  BY <1>1, AlwaysIInv, PTL

\* Once coalesced, a resource that can be created can be read back and has the
\* verbs of its own item path, wherever it is renamed to (pass_coalesce_crud.go).
THEOREM VerbsCorrect == Spec => []VerbsAreItsOwn
<1>1. ASSUME IInv PROVE VerbsAreItsOwn
  <2>1. SUFFICES ASSUME Bound, NEW t \in Creatable
                 PROVE  /\ crud[t].paths["R"] # NoPath
                        /\ \A v \in Verb \ {"C"} :
                             \/ crud[t].paths[v] = spec.crud[crud[t].of][v]
                             \/ {crud[t].paths[v]} = Items(t) /\ Method[v] \in spec.methods[crud[t].paths[v]]
    BY DEF VerbsAreItsOwn
  <2>2. t \in DOMAIN resources /\ t \in DOMAIN crud /\ crud[t].paths["C"] # NoPath
    BY DEF Creatable, Create
  <2>3. crud[t].of \in DOMAIN spec.resources
    BY <1>1, <2>1, <2>2 DEF IInv, Lockstep, Rows, ResourceRows
  <2>4. OwnVerbs(crud[t])
    BY <1>1, <2>1, <2>2 DEF IInv, Verbs
  <2>5. QED
    BY <2>2, <2>3, <2>4 DEF OwnVerbs, Items, Create
<1>2. QED
  BY <1>1, AlwaysIInv, PTL

\* What ships for a variant is that variant, fixed, supplied by the framework
\* and never edited in place, for any document's discriminators
\* (pass_discriminator.go, pass_replace_on_changes.go).
THEOREM WireCorrect == Spec => []WireIdentity
<1>1. ASSUME IInv PROVE WireIdentity
  <2>1. SUFFICES ASSUME stage = "done", NEW t \in DOMAIN resources
                 PROVE  IF t \in Variants
                          THEN \E v \in DOMAIN Disc(t).names :
                                 /\ Disc(t).names[v] = resources[t].of
                                 /\ resources[t].fixed = {<<Disc(t).field, v>>}
                                 /\ Disc(t).field \in resources[t].replace \ resources[t].required
                          ELSE resources[t].fixed = {}
    BY DEF WireIdentity
  <2>2. /\ Create(t) = Endpoint(resources[t].of)
        /\ t \in Creatable <=> Endpoint(resources[t].of) # NoPath
    BY <1>1, <2>1, CreateIsOwn DEF IInv, Bound
  <2>3. (t \in Variants <=> IsVariant(resources[t].of)) /\ Disc(t) = spec.discs[Endpoint(resources[t].of)]
    BY <2>2 DEF Variants, IsVariant, Disc
  <2>4. OwnFixed(resources[t]) /\ \A c \in resources[t].fixed : c[1] \in resources[t].replace
    BY <1>1, <2>1 DEF IInv, Fixed, Marked
  <2>5. CASE t \notin Variants
    BY <2>3, <2>4, <2>5 DEF OwnFixed
  <2>6. CASE t \in Variants
    <3>1. Disc(t).field \in resources[t].inputs \ resources[t].required
      BY <2>3, <2>4, <2>6 DEF OwnFixed
    <3>2. PICK v \in DOMAIN Disc(t).names :
            Disc(t).names[v] = resources[t].of /\ resources[t].fixed = {<<Disc(t).field, v>>}
      BY <2>3, <2>4, <2>6 DEF OwnFixed
    <3>3. Disc(t).field \in resources[t].replace
      BY <2>4, <3>2
    <3>4. QED
      BY <2>6, <3>1, <3>2, <3>3
  <2>7. QED
    BY <2>5, <2>6
<1>2. QED
  BY <1>1, AlwaysIInv, PTL

\* Where no two reads share a page type, what ships is what pulschema found
\* less the excluded, each once and under the name the tables give, whatever
\* order the loops take (schema.go:144-150, pass_depage.go:31-79).
THEOREM SurfaceCorrect == Spec => [](PageTypesAreOwn => SurfaceIsWhole)
<1>1. ASSUME IInv PROVE PageTypesAreOwn => SurfaceIsWhole
  <2>1. SUFFICES ASSUME PageTypesAreOwn, stage = "done" PROVE SurfaceIsWhole
    BY DEF SurfaceIsWhole
  <2>2. /\ \A t \in DOMAIN resources : t = FinalResource(resources[t].of)
        /\ Excluded \cap DOMAIN resources = {}
        /\ \A o \in DOMAIN spec.resources :
             FinalResource(o) \in Excluded \/ \E t \in DOMAIN resources : resources[t].of = o
        /\ \A t \in DOMAIN resources : resources[t].of \in DOMAIN spec.resources
    BY <1>1, <2>1 DEF IInv, ResourceNames, Rows, ResourceRows
  <2>3. /\ \A t \in DOMAIN functions : t = FinalFunction(functions[t].of)
        /\ \A t \in DOMAIN functions : functions[t].of \in DOMAIN spec.functions
        /\ \A o \in DOMAIN spec.functions : \E t \in DOMAIN functions : functions[t].of = o
    BY <1>1, <2>1 DEF IInv, FunctionNames, Rows, FunctionRows
  <2>4. {<<t, resources[t].of>> : t \in DOMAIN resources}
          = {x \in {<<FinalResource(o), o>> : o \in DOMAIN spec.resources} : x[1] \notin Excluded}
    <3>1. ASSUME NEW t \in DOMAIN resources
          PROVE  <<t, resources[t].of>> \in
                   {x \in {<<FinalResource(o), o>> : o \in DOMAIN spec.resources} : x[1] \notin Excluded}
      BY <2>2
    <3>2. ASSUME NEW o \in DOMAIN spec.resources, FinalResource(o) \notin Excluded
          PROVE  <<FinalResource(o), o>> \in {<<t, resources[t].of>> : t \in DOMAIN resources}
      <4>1. PICK t \in DOMAIN resources : resources[t].of = o
        BY <2>2, <3>2
      <4>2. t = FinalResource(o)
        BY <2>2, <4>1
      <4>3. QED
        BY <4>1, <4>2
    <3>3. QED
      BY <3>1, <3>2
  <2>5. {<<t, functions[t].of>> : t \in DOMAIN functions}
          = {<<FinalFunction(o), o>> : o \in DOMAIN spec.functions}
    <3>1. ASSUME NEW t \in DOMAIN functions
          PROVE  <<t, functions[t].of>> \in {<<FinalFunction(o), o>> : o \in DOMAIN spec.functions}
      BY <2>3
    <3>2. ASSUME NEW o \in DOMAIN spec.functions
          PROVE  <<FinalFunction(o), o>> \in {<<t, functions[t].of>> : t \in DOMAIN functions}
      <4>1. PICK t \in DOMAIN functions : functions[t].of = o
        BY <2>3
      <4>2. t = FinalFunction(o)
        BY <2>3, <4>1
      <4>3. QED
        BY <4>1, <4>2
    <3>3. QED
      BY <3>1, <3>2
  <2>6. QED
    BY <2>4, <2>5 DEF SurfaceIsWhole
<1>2. QED
  BY <1>1, AlwaysIInv, PTL

\* For any document and tables: a build that ends has matched every exclusion,
\* used every immutable pin and secret on what it ships, and given a prefix to
\* exactly the creatable resources of split entities; of entries that meet no
\* resource it says nothing (pass_exclude_resources.go, pass_token_rename.go,
\* pass_secret_fields.go, pass_replace_on_changes.go).
THEOREM DriftCorrect == Spec => []TablesFitWhatShips
<1>1. ASSUME IInv PROVE TablesFitWhatShips
  <2>1. SUFFICES ASSUME stage = "done" PROVE TablesFitWhatShips
    BY DEF TablesFitWhatShips
  <2>2. /\ Excluded \subseteq {FinalResource(o) : o \in DOMAIN spec.resources}
        /\ \A o \in DOMAIN spec.resources : PinFits(o)
    BY <1>1, <2>1 DEF IInv, ResourceNames
  <2>3. QED
    BY <1>1, <2>1, <2>2 DEF IInv, Marked, TablesFitWhatShips, PinFits, Endpoint
<1>2. QED
  BY <1>1, AlwaysIInv, PTL
=============================================================================
