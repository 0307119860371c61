---------------------------- MODULE EnumCleanup ----------------------------
(***************************************************************************)
(* The enum-cleanup generation pass (provider/pkg/gen/pass_enum.go): merge *)
(* the enums of a module that share a value set into one canonical type,   *)
(* rewrite every reference to a merged one, then drop the empty types that *)
(* nothing refers to.                                                      *)
(*                                                                         *)
(* A token is a <<module, name>> pair.  A type is known by its signature   *)
(* (underlying type and value set; NoSig when it is not an enum) and by    *)
(* what its properties refer to: a token, or Plain for a property without  *)
(* a reference.  References of resources and functions are slots.  Which   *)
(* name is the shortest is all the pass asks of spelling, so a name has a  *)
(* rank.  The code walks sorted keys wherever it iterates; here it takes   *)
(* them in any order, so what is checked does not rest on the sorting.     *)
(***************************************************************************)
EXTENDS Integers, FiniteSets

CONSTANTS
  Token,      \* the <<module, name>> pairs a spec or a pin may bring
  Rank,       \* a number per name: shorter names first, ties alphabetical
  Sig,        \* enum signatures
  NoSig,      \* the signature of an object type
  Plain,      \* a property that refers to no type
  Slot,       \* where resources and functions refer to a type
  Schemas,    \* the type graphs pulschema may hand over: [types, slots]
  PinTables   \* enums.canonicalRename: name -> name, for some names

Module(tok) == tok[1]
ShortName(tok) == tok[2]

Type == [sig : Sig \cup {NoSig}, props : SUBSET (Token \cup {Plain})]
IsEnum(ty) == ty.sig # NoSig
IsEmpty(ty) == ty.props = {} /\ ty.sig = NoSig

VARIABLES
  types,    \* Pkg.Types
  slots,    \* the token each slot refers to
  start,    \* the schema the pass was given (history)
  pins,     \* the mapping layer's canonical names
  phase,    \* "group", "merge", "prune", "done" or "aborted"
  families, \* duplicate families still to be merged
  renames   \* merged member -> canonical

vars == <<types, slots, start, pins, phase, families, renames>>

Restricted(f, D) == [x \in D |-> f[x]]

\* The references held by the types of m, whether or not they are reachable.
HeldBy(m) == (UNION {m[t].props : t \in DOMAIN m}) \ {Plain}

\* referencedTypeTokens
Referenced(m, s) == HeldBy(m) \cup {s[x] : x \in Slot}

\* A schema is finite, its references resolve and its enums have no properties;
\* what a pin makes of a token is a token.
ASSUME EnumAssumption ==
  /\ \A t \in Token : t = <<Module(t), ShortName(t)>> /\ Rank[ShortName(t)] \in Nat
  /\ Plain \notin Token /\ NoSig \notin Sig
  /\ \A s \in Schemas :
       /\ DOMAIN s.types \subseteq Token /\ IsFiniteSet(DOMAIN s.types)
       /\ s.types \in [DOMAIN s.types -> Type] /\ s.slots \in [Slot -> Token]
       /\ Referenced(s.types, s.slots) \subseteq DOMAIN s.types
       /\ \A t \in DOMAIN s.types : IsEnum(s.types[t]) => s.types[t].props = {}
  /\ \A p \in PinTables, t \in Token :
       ShortName(t) \in DOMAIN p => <<Module(t), p[ShortName(t)]>> \in Token

Init ==
  /\ start \in Schemas
  /\ types = start.types
  /\ slots = start.slots
  /\ pins \in PinTables
  /\ phase = "group"
  /\ families = {}
  /\ renames = [t \in {} |-> t]

\* Broken: enums are matched across modules.
SameFamilyAnyModule(t, u) ==
  IsEnum(types[t]) /\ types[t].sig = types[u].sig

\* enumSignature: same module, same underlying type, same value set.
SameFamily(t, u) ==
  /\ IsEnum(types[t]) /\ IsEnum(types[u])
  /\ types[t].sig = types[u].sig
  /\ Module(t) = Module(u)

Family(t) == {u \in DOMAIN types : SameFamily(t, u)}

\* Broken: families of two are left alone.
GroupLargeOnly ==
  /\ phase = "group"
  /\ families' = {f \in {Family(t) : t \in DOMAIN types} : Cardinality(f) > 2}
  /\ phase' = "merge"
  /\ UNCHANGED <<types, slots, start, pins, renames>>

\* The families of two or more; a unique enum is already canonical.
Group ==
  /\ phase = "group"
  /\ families' = {f \in {Family(t) : t \in DOMAIN types} : Cardinality(f) > 1}
  /\ phase' = "merge"
  /\ UNCHANGED <<types, slots, start, pins, renames>>

\* canonicalEnumToken: the member with the shortest name, unless a pin keyed by
\* that name gives another, kept in the family's module.
Default(f) ==
  CHOOSE t \in f : \A u \in f : Rank[ShortName(t)] <= Rank[ShortName(u)]

Canonical(f) ==
  LET name == ShortName(Default(f))
  IN  <<Module(Default(f)), IF name \in DOMAIN pins THEN pins[name] ELSE name>>

\* A pin that lands on another member of the same family fails the build.
PinHitsMember(f) == Canonical(f) \in f \ {Default(f)}

MergeFails ==
  /\ phase = "merge"
  /\ \E f \in families : PinHitsMember(f)
  /\ phase' = "aborted"
  /\ UNCHANGED <<types, slots, start, pins, families, renames>>

\* One family: its canonical type is materialised when no type has the token
\* yet, and every other member is to be renamed to it.
Merge ==
  /\ phase = "merge"
  /\ \E f \in families :
       LET to == Canonical(f)
       IN  /\ ~PinHitsMember(f)
           /\ types' = [t \in DOMAIN types \cup {to} |->
                          IF t \in DOMAIN types THEN types[t]
                                                ELSE types[Default(f)]]
           /\ renames' = [t \in DOMAIN renames \cup (f \ {to}) |->
                            IF t \in f THEN to ELSE renames[t]]
           /\ families' = families \ {f}
  /\ UNCHANGED <<slots, start, pins, phase>>

\* Broken: a merged member has no name to be rewritten to.
RenamedToNothing(t) == IF t \in DOMAIN renames THEN Plain ELSE t

\* rewriteTypeRefs, for one reference: a single hop through the map.
Renamed(t) == IF t \in DOMAIN renames THEN renames[t] ELSE t

\* Broken: the references between types are not followed.
RewriteSlotsOnly ==
  /\ phase = "merge"
  /\ families = {}
  /\ types' = [t \in DOMAIN types \ DOMAIN renames |-> types[t]]
  /\ slots' = [x \in Slot |-> Renamed(slots[x])]
  /\ phase' = "prune"
  /\ UNCHANGED <<start, pins, families, renames>>

\* The merged members are dropped, then every reference to one is rewritten.
Rewrite ==
  /\ phase = "merge"
  /\ families = {}
  /\ types' = [t \in DOMAIN types \ DOMAIN renames |->
                 [types[t] EXCEPT !.props = {Renamed(p) : p \in @}]]
  /\ slots' = [x \in Slot |-> Renamed(slots[x])]
  /\ phase' = "prune"
  /\ UNCHANGED <<start, pins, families, renames>>

\* Broken: what is used counts as unused when only a type refers to it.
UnusedBySlots ==
  {t \in DOMAIN types : IsEmpty(types[t])} \ {slots[x] : x \in Slot}

\* pruneUnreferencedEmptyTypes, one turn of its loop.
Unused == {t \in DOMAIN types : IsEmpty(types[t])} \ Referenced(types, slots)

\* Broken: the loop finds unused types and does not delete them.
PruneKeeps ==
  /\ phase = "prune"
  /\ Unused # {}
  /\ UNCHANGED vars

Prune ==
  /\ phase = "prune"
  /\ Unused # {}
  /\ types' = Restricted(types, DOMAIN types \ Unused)
  /\ UNCHANGED <<slots, start, pins, phase, families, renames>>

PruneEnds ==
  /\ phase = "prune"
  /\ Unused = {}
  /\ phase' = "done"
  /\ UNCHANGED <<types, slots, start, pins, families, renames>>

Finished == phase \in {"done", "aborted"} /\ UNCHANGED vars

Next ==
  \/ Group \/ MergeFails \/ Merge \/ Rewrite \/ Prune \/ PruneEnds
  \/ Finished

\* The pass is one goroutine's straight-line code.
Spec == Init /\ [][Next]_vars /\ WF_vars(Next)

-----------------------------------------------------------------------------
(* Properties. *)

\* The type graph stays a graph of types over tokens, and the rename map takes
\* tokens to tokens.
TypeOK ==
  /\ DOMAIN types \subseteq Token
  /\ types \in [DOMAIN types -> Type]
  /\ slots \in [Slot -> Token]
  /\ phase \in {"group", "merge", "prune", "done", "aborted"}
  /\ families \subseteq SUBSET Token
  /\ DOMAIN renames \subseteq Token
  /\ \A t \in DOMAIN renames : renames[t] \in Token

\* The mapping layer names canonicals that are nothing else: a pinned name is
\* the name it pins, or belongs to no type of the schema and to no other pin.
PinsAreFresh ==
  \A n \in DOMAIN pins :
    \/ pins[n] = n
    \/ /\ \A t \in DOMAIN start.types : ShortName(t) # pins[n]
       /\ \A o \in DOMAIN pins \ {n} : pins[o] # pins[n] /\ o # pins[n]

\* Once the references are rewritten every one of them resolves, through the
\* pruning too: no merged or pruned type is still referred to.
NoDanglingRef ==
  PinsAreFresh /\ phase \in {"prune", "done"} =>
    Referenced(types, slots) \subseteq DOMAIN types

\* What a resource or function refers to means what it meant: the same value
\* set in the same module, or the very object it referred to.
MeaningKept ==
  PinsAreFresh /\ phase = "done" =>
    \A x \in Slot :
      LET was == start.types[start.slots[x]]
      IN  /\ slots[x] \in DOMAIN types
          /\ types[slots[x]].sig = was.sig
          /\ Module(slots[x]) = Module(start.slots[x])
          /\ ~IsEnum(was) => slots[x] = start.slots[x]

\* No two enums of one module share a value set when the pass is done.
NoDuplicateEnum ==
  phase = "done" => \A t, u \in DOMAIN types : SameFamily(t, u) => t = u

\* Only noise is dropped, and all of it: every value set keeps an enum in its
\* module, every object that has a property or a reference to it stays, and no
\* unreferenced empty type does.
OnlyNoiseIsDropped ==
  PinsAreFresh /\ phase = "done" =>
    /\ Unused = {}
    /\ \A t \in DOMAIN start.types :
         LET was == start.types[t]
         IN  IF IsEnum(was)
               THEN \E u \in DOMAIN types :
                      types[u].sig = was.sig /\ Module(u) = Module(t)
               ELSE \/ t \in DOMAIN types
                    \/ /\ IsEmpty(was)
                       /\ t \notin Referenced(start.types, start.slots)

\* "A canonical is never a rename source (one canonical per family), so
\* deleting the sources cannot remove a target" (pass_enum.go:109-111).
CanonicalIsNoSource ==
  phase = "merge" /\ families = {} =>
    \A t \in DOMAIN renames : renames[t] \notin DOMAIN renames

\* The pass ends: its pruning loop comes to a fixpoint.
PassEnds == <>(phase \in {"done", "aborted"})
=============================================================================
