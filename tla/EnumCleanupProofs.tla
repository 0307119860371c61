------------------------- MODULE EnumCleanupProofs -------------------------
(***************************************************************************)
(* What holds of EnumCleanup.tla for any schema, pin table and spelling of *)
(* names, whatever order the families are merged in: its types, that no    *)
(* reference dangles, that what is referred to keeps its meaning, that no  *)
(* duplicate stays and that only noise is dropped.                         *)
(***************************************************************************)
EXTENDS EnumCleanup, FiniteSetTheorems, WellFoundedInduction, TLAPS

-----------------------------------------------------------------------------
(* The invariant *)

Given == DOMAIN start.types

\* The members of t's family in the schema as given, and the families of two
\* or more.
Kin(t) ==
  {u \in Given : /\ IsEnum(start.types[t]) /\ IsEnum(start.types[u])
                 /\ start.types[t].sig = start.types[u].sig
                 /\ Module(t) = Module(u)}

Duplicates == {f \in {Kin(t) : t \in Given} : Cardinality(f) > 1}

Merged == Duplicates \ families

\* What merging has done so far, and what it leaves alone.
MergeKnows ==
  phase = "merge" =>
    /\ slots = start.slots
    /\ families \subseteq Duplicates
    /\ Given \subseteq DOMAIN types /\ \A t \in Given : types[t] = start.types[t]
    /\ \A t \in DOMAIN types \ Given :
         \E f \in Duplicates : t = Canonical(f) /\ types[t] = start.types[Default(f)]
    /\ \A f \in Merged : Canonical(f) \in DOMAIN types /\ ~PinHitsMember(f)
    /\ \A f \in Merged : \A t \in f \ {Canonical(f)} :
         t \in DOMAIN renames /\ renames[t] = Canonical(f)
    /\ \A t \in DOMAIN renames : \E f \in Merged : t \in f \ {Canonical(f)}

\* What holds from the rewriting on, whatever is pruned.
NoTwins == \A t, u \in DOMAIN types : SameFamily(t, u) => t = u

Resolves == Referenced(types, slots) \subseteq DOMAIN types

SlotsMean ==
  \A x \in Slot :
    LET was == start.types[start.slots[x]]
    IN  /\ slots[x] \in DOMAIN types
        /\ types[slots[x]].sig = was.sig
        /\ Module(slots[x]) = Module(start.slots[x])
        /\ ~IsEnum(was) => slots[x] = start.slots[x]

\* An object that was referred to still is, and one that is empty was.
ObjectsStay ==
  /\ \A t \in Given :
       ~IsEnum(start.types[t]) =>
         /\ t \in Referenced(start.types, start.slots) => t \in Referenced(types, slots)
         /\ t \in DOMAIN types \/ (IsEmpty(start.types[t]) /\ t \notin Referenced(start.types, start.slots))
  /\ \A t \in DOMAIN types : IsEmpty(types[t]) => t \in Given /\ IsEmpty(start.types[t])

ValuesStay ==
  \A t \in Given :
    IsEnum(start.types[t]) =>
      \E u \in DOMAIN types : types[u].sig = start.types[t].sig /\ Module(u) = Module(t)

RewriteKnows ==
  phase \in {"prune", "done"} =>
    /\ NoTwins
    /\ PinsAreFresh => Resolves /\ SlotsMean /\ ObjectsStay /\ ValuesStay

GroupKnows ==
  /\ start \in Schemas /\ pins \in PinTables
  /\ phase = "group" => types = start.types /\ slots = start.slots /\ DOMAIN renames = {}
  /\ phase = "done" => Unused = {}

IInv == TypeOK /\ GroupKnows /\ MergeKnows /\ RewriteKnows

-----------------------------------------------------------------------------
(* Families and their canonicals *)

LEMMA Smallest ==
  ASSUME NEW T \in SUBSET Nat, T # {}
  PROVE  \E x \in T : \A y \in T : x <= y
<1>1. PICK x \in T : \A y \in T : <<y, x>> \notin OpToRel(<, Nat)
  BY WFMin, NatLessThanWellFounded
<1>2. \A y \in T : ~(y < x)
  BY <1>1 DEF OpToRel
<1>3. QED
  BY <1>2

LEMMA DefaultIsMember ==
  ASSUME NEW f \in SUBSET Token, f # {}
  PROVE  Default(f) \in f
<1> DEFINE ranks == {Rank[ShortName(t)] : t \in f}
<1>1. ranks \in SUBSET Nat /\ ranks # {}
  BY EnumAssumption
<1>2. PICK r \in ranks : \A q \in ranks : r <= q
  BY <1>1, Smallest
<1>3. PICK t \in f : r = Rank[ShortName(t)]
  OBVIOUS
<1>4. \A u \in f : Rank[ShortName(t)] <= Rank[ShortName(u)]
  BY <1>2, <1>3
<1>5. QED
  BY <1>4 DEF Default

LEMMA Pairs == \A m, n : Module(<<m, n>>) = m /\ ShortName(<<m, n>>) = n
  BY DEF Module, ShortName

LEMMA SameToken ==
  ASSUME NEW t \in Token, NEW u \in Token, Module(t) = Module(u), ShortName(t) = ShortName(u)
  PROVE  t = u
  BY EnumAssumption

LEMMA GivenTypes ==
  ASSUME start \in Schemas
  PROVE  /\ Given \subseteq Token /\ IsFiniteSet(Given)
         /\ \A t \in Given : start.types[t] \in Type
         /\ start.slots \in [Slot -> Token]
         /\ \A x \in Slot : start.slots[x] \in Given
         /\ \A t \in Given : \A p \in start.types[t].props \ {Plain} : p \in Given
         /\ \A t \in Given : IsEnum(start.types[t]) => start.types[t].props = {}
<1>1. /\ Given \subseteq Token /\ IsFiniteSet(Given)
      /\ start.types \in [Given -> Type] /\ start.slots \in [Slot -> Token]
      /\ Referenced(start.types, start.slots) \subseteq Given
      /\ \A t \in Given : IsEnum(start.types[t]) => start.types[t].props = {}
  BY EnumAssumption DEF Given
<1>2. \A x \in Slot : start.slots[x] \in Given
  BY <1>1 DEF Referenced
<1>3. \A t \in Given : \A p \in start.types[t].props \ {Plain} : p \in Given
  <2>1. HeldBy(start.types) \subseteq Given
    BY <1>1 DEF Referenced
  <2>2. ASSUME NEW t \in Given, NEW p \in start.types[t].props \ {Plain}
        PROVE  p \in HeldBy(start.types)
    <3>1. start.types[t].props \in {start.types[u].props : u \in DOMAIN start.types}
      BY DEF Given
    <3>2. QED
      BY <3>1 DEF HeldBy
  <2>3. QED
    BY <2>1, <2>2
<1>4. QED
  BY <1>1, <1>2, <1>3

\* A family holds the enums of one module with one signature, and each of its
\* members tells the family.
LEMMA FamilyFacts ==
  ASSUME start \in Schemas, NEW f \in Duplicates
  PROVE  /\ f \subseteq Given /\ f # {}
         /\ \A t \in f : IsEnum(start.types[t]) /\ f = Kin(t)
         /\ \A t, u \in f : start.types[t].sig = start.types[u].sig /\ Module(t) = Module(u)
<1>1. PICK k \in Given : f = Kin(k)
  BY DEF Duplicates
<1>2. f # {}
  BY FS_EmptySet DEF Duplicates
<1>3. \A t \in f : IsEnum(start.types[t]) /\ IsEnum(start.types[k])
                   /\ start.types[t].sig = start.types[k].sig /\ Module(t) = Module(k)
  BY <1>1 DEF Kin
<1>4. \A t \in f : Kin(t) = Kin(k)
  BY <1>3 DEF Kin
<1>5. QED
  BY <1>1, <1>2, <1>3, <1>4 DEF Kin

LEMMA FamiliesApart ==
  ASSUME start \in Schemas, NEW f \in Duplicates, NEW g \in Duplicates, f \cap g # {}
  PROVE  f = g
  BY FamilyFacts

\* Two of a kind make a family.
LEMMA TwinsAreFamily ==
  ASSUME start \in Schemas, NEW t \in Given, NEW u \in Given, t # u, u \in Kin(t)
  PROVE  Kin(t) \in Duplicates /\ t \in Kin(t)
<1>1. t \in Kin(t) /\ Kin(t) \subseteq Given
  BY DEF Kin
<1>2. IsFiniteSet(Kin(t))
  BY <1>1, GivenTypes, FS_Subset
<1>3. Cardinality(Kin(t)) \in Nat /\ Cardinality(Kin(t)) # 0
  BY <1>1, <1>2, FS_CardinalityType, FS_EmptySet
<1>4. Cardinality(Kin(t)) # 1
  BY <1>1, <1>2, FS_Singleton
<1>5. Cardinality(Kin(t)) > 1
  BY <1>3, <1>4
<1>6. QED
  BY <1>1, <1>5 DEF Duplicates

LEMMA CanonicalFacts ==
  ASSUME start \in Schemas, pins \in PinTables, NEW f \in Duplicates
  PROVE  /\ Default(f) \in f /\ Default(f) \in Given
         /\ Canonical(f) \in Token
         /\ \A t \in f : Module(Canonical(f)) = Module(t)
<1>1. f \subseteq Given /\ f # {} /\ Given \subseteq Token
  BY FamilyFacts, GivenTypes
<1>2. Default(f) \in f
  BY <1>1, DefaultIsMember
<1>3. Module(Canonical(f)) = Module(Default(f))
  BY Pairs DEF Canonical
<1>4. Canonical(f) \in Token
  BY <1>1, <1>2, EnumAssumption DEF Canonical
<1>5. QED
  BY <1>1, <1>2, <1>3, <1>4, FamilyFacts

\* A fresh canonical is the family's default or a token of its own.
LEMMA FreshCanonical ==
  ASSUME start \in Schemas, pins \in PinTables, PinsAreFresh, NEW f \in Duplicates
  PROVE  /\ Canonical(f) = Default(f) \/ Canonical(f) \notin Given
         /\ \A g \in Duplicates : Canonical(f) = Canonical(g) => f = g
<1> DEFINE name(h) == ShortName(Default(h))
           Pinned(h) == name(h) \in DOMAIN pins /\ pins[name(h)] # name(h)
<1>1. ASSUME NEW h \in Duplicates
      PROVE  /\ Default(h) \in h /\ Default(h) \in Given /\ Default(h) \in Token
             /\ ~Pinned(h) => Canonical(h) = Default(h)
             /\ Pinned(h) => /\ Canonical(h) \notin Given
                             /\ ShortName(Canonical(h)) = pins[name(h)]
             /\ Module(Canonical(h)) = Module(Default(h))
  <2>1. Default(h) \in h /\ Default(h) \in Given /\ Default(h) \in Token
    BY CanonicalFacts, GivenTypes
  <2>2. Default(h) = <<Module(Default(h)), name(h)>>
    BY <2>1, EnumAssumption
  <2>3. ~Pinned(h) => Canonical(h) = Default(h)
    BY <2>2 DEF Canonical
  <2>4. Pinned(h) => ShortName(Canonical(h)) = pins[name(h)]
    BY Pairs DEF Canonical
  <2>5. Pinned(h) => \A t \in Given : ShortName(t) # pins[name(h)]
    BY DEF PinsAreFresh, Given
  <2>6. Module(Canonical(h)) = Module(Default(h))
    BY Pairs DEF Canonical
  <2>7. QED
    BY <2>1, <2>3, <2>4, <2>5, <2>6
<1>2. ASSUME NEW g \in Duplicates, Canonical(f) = Canonical(g) PROVE f = g
  <2>1. CASE ~Pinned(f) \/ ~Pinned(g)
    <3>1. Default(f) = Default(g)
      BY <1>1, <1>2, <2>1
    <3>2. QED
      BY <1>1, <3>1, FamiliesApart
  <2>2. CASE Pinned(f) /\ Pinned(g)
    <3>1. pins[name(f)] = pins[name(g)] /\ Module(Default(f)) = Module(Default(g))
      BY <1>1, <1>2, <2>2
    <3>2. name(f) = name(g)
      BY <2>2, <3>1 DEF PinsAreFresh
    <3>3. Default(f) = Default(g)
      BY <1>1, <3>1, <3>2, SameToken
    <3>4. QED
      BY <1>1, <3>3, FamiliesApart
  <2>3. QED
    BY <2>1, <2>2
<1>3. QED
  BY <1>1, <1>2

LEMMA GivenUnchanged ==
  ASSUME UNCHANGED <<start, pins>>
  PROVE  /\ Given' = Given /\ Duplicates' = Duplicates
         /\ \A f : Canonical(f)' = Canonical(f) /\ (PinHitsMember(f)' <=> PinHitsMember(f))
         /\ PinsAreFresh' <=> PinsAreFresh
<1>1. Given' = Given
  BY DEF Given
<1>2. \A t : Kin(t)' = Kin(t)
  BY <1>1 DEF Kin
<1>3. Duplicates' = Duplicates
  BY <1>1, <1>2 DEF Duplicates
<1>4. \A f : Canonical(f)' = Canonical(f) /\ (PinHitsMember(f)' <=> PinHitsMember(f))
  BY DEF Canonical, PinHitsMember
<1>5. PinsAreFresh' <=> PinsAreFresh
  BY DEF PinsAreFresh
<1>6. QED
  BY <1>1, <1>3, <1>4, <1>5

-----------------------------------------------------------------------------
(* The steps up to the rewriting *)

LEMMA InitIInv == Init => IInv
<1> SUFFICES ASSUME Init PROVE IInv
  OBVIOUS
<1>1. start \in Schemas /\ types = start.types /\ slots = start.slots /\ phase = "group"
      /\ families = {} /\ pins \in PinTables /\ DOMAIN renames = {}
  BY DEF Init
<1>2. TypeOK
  BY <1>1, EnumAssumption DEF TypeOK
<1>3. QED
  BY <1>1, <1>2 DEF IInv, GroupKnows, MergeKnows, RewriteKnows

LEMMA GroupIInv == IInv /\ Group => IInv'
<1> SUFFICES ASSUME IInv, Group PROVE IInv'
  OBVIOUS
<1>1. /\ phase = "group" /\ phase' = "merge"
      /\ families' = {f \in {Family(t) : t \in DOMAIN types} : Cardinality(f) > 1}
      /\ UNCHANGED <<types, slots, start, pins, renames>>
  BY DEF Group
<1>2. /\ start \in Schemas /\ pins \in PinTables /\ types = start.types
      /\ slots = start.slots /\ DOMAIN renames = {}
  BY <1>1 DEF IInv, GroupKnows
<1>3. families' = Duplicates
  <2>1. \A t : Family(t) = Kin(t)
    BY <1>2 DEF Family, SameFamily, Kin, Given
  <2>2. QED
    BY <1>1, <1>2, <2>1 DEF Duplicates, Given
<1>4. Duplicates \subseteq SUBSET Token
  BY <1>2, FamilyFacts, GivenTypes
<1>5. TypeOK'
  BY <1>1, <1>3, <1>4 DEF IInv, TypeOK
<1>6. GroupKnows'
  BY <1>1, <1>2 DEF GroupKnows
<1>7. MergeKnows'
  <2>1. Duplicates' = Duplicates /\ Given' = Given
    BY <1>1, GivenUnchanged
  <2>2. Merged' = {}
    BY <1>3, <2>1 DEF Merged
  <2>3. DOMAIN types' = Given
    BY <1>1, <1>2 DEF Given
  <2>4. QED
    BY <1>1, <1>2, <1>3, <2>1, <2>2, <2>3 DEF MergeKnows
<1>8. QED
  BY <1>1, <1>5, <1>6, <1>7 DEF IInv, RewriteKnows

LEMMA MergeIInv == IInv /\ Merge => IInv'
<1> SUFFICES ASSUME IInv, Merge PROVE IInv'
  OBVIOUS
<1>1. PICK f \in families :
        /\ phase = "merge" /\ ~PinHitsMember(f)
        /\ types' = [t \in DOMAIN types \cup {Canonical(f)} |->
                       IF t \in DOMAIN types THEN types[t] ELSE types[Default(f)]]
        /\ renames' = [t \in DOMAIN renames \cup (f \ {Canonical(f)}) |->
                         IF t \in f THEN Canonical(f) ELSE renames[t]]
        /\ families' = families \ {f}
        /\ UNCHANGED <<slots, start, pins, phase>>
  BY DEF Merge
<1> DEFINE to == Canonical(f)
<1>2. TypeOK /\ start \in Schemas /\ pins \in PinTables /\ MergeKnows
  BY DEF IInv, GroupKnows
<1>3. /\ slots = start.slots /\ families \subseteq Duplicates
      /\ Given \subseteq DOMAIN types /\ \A t \in Given : types[t] = start.types[t]
      /\ \A t \in DOMAIN types \ Given :
           \E g \in Duplicates : t = Canonical(g) /\ types[t] = start.types[Default(g)]
      /\ \A g \in Merged : Canonical(g) \in DOMAIN types /\ ~PinHitsMember(g)
      /\ \A g \in Merged : \A t \in g \ {Canonical(g)} :
           t \in DOMAIN renames /\ renames[t] = Canonical(g)
      /\ \A t \in DOMAIN renames : \E g \in Merged : t \in g \ {Canonical(g)}
  BY <1>1, <1>2 DEF MergeKnows
<1>4. f \in Duplicates /\ f \notin Merged
  BY <1>3 DEF Merged
<1>5. /\ Default(f) \in f /\ Default(f) \in Given /\ to \in Token /\ f \subseteq Given /\ Given \subseteq Token
  BY <1>2, <1>4, CanonicalFacts, FamilyFacts, GivenTypes
<1>6. /\ Duplicates' = Duplicates /\ Given' = Given
      /\ \A g : Canonical(g)' = Canonical(g) /\ (PinHitsMember(g)' <=> PinHitsMember(g))
  BY <1>1, GivenUnchanged
<1>7. Merged' = Merged \cup {f}
  BY <1>1, <1>4, <1>6 DEF Merged
<1> HIDE DEF to
<1>8. TypeOK'
  <2>1. DOMAIN types' \subseteq Token /\ types' \in [DOMAIN types' -> Type]
    <3>1. Default(f) \in DOMAIN types
      BY <1>3, <1>5
    <3>2. types \in [DOMAIN types -> Type] /\ DOMAIN types \subseteq Token
      BY <1>2 DEF TypeOK
    <3>3. QED
      BY <1>1, <1>5, <3>1, <3>2 DEF to
  <2>2. DOMAIN renames' \subseteq Token /\ \A t \in DOMAIN renames' : renames'[t] \in Token
    BY <1>1, <1>2, <1>5 DEF TypeOK, to
  <2>3. QED
    BY <1>1, <1>2, <2>1, <2>2 DEF TypeOK
<1>9. GroupKnows'
  BY <1>1, <1>2 DEF GroupKnows
<1>10. MergeKnows'
  <2>1. Given \subseteq DOMAIN types' /\ \A t \in Given : types'[t] = start.types[t]
    BY <1>1, <1>3
  <2>2. ASSUME NEW t \in DOMAIN types' \ Given
        PROVE  \E g \in Duplicates : t = Canonical(g) /\ types'[t] = start.types[Default(g)]
    <3>1. CASE t \in DOMAIN types
      BY <1>1, <1>3, <3>1
    <3>2. CASE t \notin DOMAIN types
      BY <1>1, <1>3, <1>4, <1>5, <3>2
    <3>3. QED
      BY <3>1, <3>2
  <2>3. ASSUME NEW g \in Merged \cup {f}
        PROVE  /\ Canonical(g) \in DOMAIN types' /\ ~PinHitsMember(g)
               /\ \A t \in g \ {Canonical(g)} : t \in DOMAIN renames' /\ renames'[t] = Canonical(g)
    <3>1. CASE g = f
      BY <1>1, <3>1
    <3>2. CASE g \in Merged
      <4>1. f \cap g = {}
        BY <1>2, <1>4, <3>2, FamiliesApart DEF Merged
      <4>2. QED
        BY <1>1, <1>3, <3>2, <4>1
    <3>3. QED
      BY <3>1, <3>2
  <2>4. ASSUME NEW t \in DOMAIN renames'
        PROVE  \E g \in Merged \cup {f} : t \in g \ {Canonical(g)}
    BY <1>1, <1>3
  <2>5. slots' = start.slots /\ families' \subseteq Duplicates
    BY <1>1, <1>3
  <2>6. start' = start /\ Given' = Given /\ Duplicates' = Duplicates /\ Merged' = Merged \cup {f}
    BY <1>1, <1>6, <1>7
  <2>7. \A t \in DOMAIN types' \ Given' :
          \E g \in Duplicates' : t = Canonical(g)' /\ types'[t] = start'.types[Default(g)]
    BY <1>6, <2>2, <2>6
  <2>8. \A g \in Merged' :
          /\ Canonical(g)' \in DOMAIN types' /\ ~PinHitsMember(g)'
          /\ \A t \in g \ {Canonical(g)'} : t \in DOMAIN renames' /\ renames'[t] = Canonical(g)'
    BY <1>6, <2>3, <2>6
  <2>9. \A t \in DOMAIN renames' : \E g \in Merged' : t \in g \ {Canonical(g)'}
    BY <1>6, <2>4, <2>6
  <2>10. QED
    BY <2>1, <2>5, <2>6, <2>7, <2>8, <2>9 DEF MergeKnows
<1>11. QED
  BY <1>1, <1>8, <1>9, <1>10 DEF IInv, RewriteKnows

-----------------------------------------------------------------------------
(* The rewriting *)

\* What merging leaves when no family is left to merge.
AllMerged ==
  /\ slots = start.slots
  /\ Given \subseteq DOMAIN types /\ \A t \in Given : types[t] = start.types[t]
  /\ \A t \in DOMAIN types \ Given :
       \E f \in Duplicates : t = Canonical(f) /\ types[t] = start.types[Default(f)]
  /\ \A f \in Duplicates : Canonical(f) \in DOMAIN types
  /\ \A f \in Duplicates : \A t \in f \ {Canonical(f)} :
       t \in DOMAIN renames /\ renames[t] = Canonical(f)
  /\ \A t \in DOMAIN renames : \E f \in Duplicates : t \in f \ {Canonical(f)}

LEMMA MergingDone ==
  ASSUME MergeKnows, phase = "merge", families = {}
  PROVE  AllMerged
<1>1. Merged = Duplicates
  BY DEF Merged
<1>2. QED
  BY <1>1 DEF MergeKnows, AllMerged

\* Every type stands for one that was given.
LEMMA StandsFor ==
  ASSUME start \in Schemas, pins \in PinTables, AllMerged, NEW t \in DOMAIN types
  PROVE  /\ \E k \in Given : types[t] = start.types[k] /\ Module(t) = Module(k)
         /\ ~IsEnum(types[t]) => t \in Given
<1>1. CASE t \in Given
  BY <1>1 DEF AllMerged
<1>2. CASE t \notin Given
  <2>1. PICK f \in Duplicates : t = Canonical(f) /\ types[t] = start.types[Default(f)]
    BY <1>2 DEF AllMerged
  <2>2. Default(f) \in f /\ Default(f) \in Given /\ Module(t) = Module(Default(f))
    BY <2>1, CanonicalFacts
  <2>3. IsEnum(start.types[Default(f)])
    BY <2>2, FamilyFacts
  <2>4. QED
    BY <2>1, <2>2, <2>3
<1>3. QED
  BY <1>1, <1>2

\* A type that is kept and shares a family with one that was given is the
\* family's canonical, or the family has one member.
LEMMA OneIsKept ==
  ASSUME start \in Schemas, pins \in PinTables, AllMerged,
         NEW t \in DOMAIN types \ DOMAIN renames, NEW u \in Given,
         IsEnum(start.types[u]), types[t].sig = start.types[u].sig, Module(t) = Module(u)
  PROVE  IF Kin(u) \in Duplicates THEN t = Canonical(Kin(u)) ELSE t = u
<1>1. CASE t \in Given
  <2>1. t \in Kin(u) /\ u \in Kin(u)
    BY <1>1 DEF Kin, IsEnum, AllMerged
  <2>2. CASE Kin(u) \in Duplicates
    BY <2>1, <2>2 DEF AllMerged
  <2>3. CASE Kin(u) \notin Duplicates
    BY <1>1, <2>1, <2>3, TwinsAreFamily
  <2>4. QED
    BY <2>2, <2>3
<1>2. CASE t \notin Given
  <2>1. PICK f \in Duplicates : t = Canonical(f) /\ types[t] = start.types[Default(f)]
    BY <1>2 DEF AllMerged
  <2>2. /\ Default(f) \in f /\ Default(f) \in Given /\ Module(t) = Module(Default(f))
        /\ IsEnum(start.types[Default(f)]) /\ f = Kin(Default(f))
    BY <2>1, CanonicalFacts, FamilyFacts
  <2>3. u \in Kin(Default(f))
    BY <2>1, <2>2 DEF Kin, IsEnum
  <2>4. f = Kin(u)
    BY <2>2, <2>3, FamilyFacts
  <2>5. QED
    BY <2>1, <2>4
<1>3. QED
  BY <1>1, <1>2

\* With fresh pins no canonical is renamed, and each has its family's values.
LEMMA CanonicalStays ==
  ASSUME start \in Schemas, pins \in PinTables, AllMerged, PinsAreFresh, NEW f \in Duplicates
  PROVE  /\ Canonical(f) \in DOMAIN types \ DOMAIN renames
         /\ types[Canonical(f)].sig = start.types[Default(f)].sig
<1>1. Canonical(f) = Default(f) \/ Canonical(f) \notin Given
  BY FreshCanonical
<1>2. \A g \in Duplicates : Canonical(f) = Canonical(g) => f = g
  BY FreshCanonical
<1>3. Default(f) \in f /\ Default(f) \in Given
  BY CanonicalFacts
<1>4. Canonical(f) \notin DOMAIN renames
  <2>1. SUFFICES ASSUME Canonical(f) \in DOMAIN renames PROVE FALSE
    OBVIOUS
  <2>2. PICK g \in Duplicates : Canonical(f) \in g \ {Canonical(g)}
    BY <2>1 DEF AllMerged
  <2>3. g \subseteq Given
    BY FamilyFacts
  <2>4. Canonical(f) = Default(f)
    BY <1>1, <2>2, <2>3
  <2>5. Default(f) \in f \cap g
    BY <1>3, <2>2, <2>4
  <2>6. f = g
    BY <2>5, FamiliesApart
  <2>7. QED
    BY <2>2, <2>6
<1>5. types[Canonical(f)].sig = start.types[Default(f)].sig
  <2>1. CASE Canonical(f) \in Given
    BY <1>1, <2>1 DEF AllMerged
  <2>2. CASE Canonical(f) \notin Given
    <3>1. PICK g \in Duplicates : /\ Canonical(f) = Canonical(g)
                                  /\ types[Canonical(f)] = start.types[Default(g)]
      BY <2>2 DEF AllMerged
    <3>2. QED
      BY <1>2, <3>1
  <2>3. QED
    BY <2>1, <2>2
<1>6. QED
  BY <1>4, <1>5 DEF AllMerged

\* What a reference is renamed to stays, and means what it meant.
LEMMA RenamedMeans ==
  ASSUME start \in Schemas, pins \in PinTables, AllMerged, PinsAreFresh, NEW t \in Given
  PROVE  /\ Renamed(t) \in DOMAIN types \ DOMAIN renames
         /\ types[Renamed(t)].sig = start.types[t].sig
         /\ Module(Renamed(t)) = Module(t)
         /\ ~IsEnum(start.types[t]) => t \notin DOMAIN renames /\ Renamed(t) = t
<1>1. CASE t \in DOMAIN renames
  <2>1. PICK f \in Duplicates : t \in f \ {Canonical(f)}
    BY <1>1 DEF AllMerged
  <2>2. Renamed(t) = Canonical(f)
    BY <1>1, <2>1 DEF Renamed, AllMerged
  <2>3. IsEnum(start.types[t]) /\ start.types[t].sig = start.types[Default(f)].sig
    BY <2>1, FamilyFacts, CanonicalFacts
  <2>4. Module(Canonical(f)) = Module(t)
    BY <2>1, CanonicalFacts
  <2>5. QED
    BY <2>2, <2>3, <2>4, CanonicalStays
<1>2. CASE t \notin DOMAIN renames
  BY <1>2 DEF Renamed, AllMerged
<1>3. QED
  BY <1>1, <1>2

LEMMA RewriteIInv == IInv /\ Rewrite => IInv'
<1> SUFFICES ASSUME IInv, Rewrite PROVE IInv'
  OBVIOUS
<1>1. /\ phase = "merge" /\ families = {} /\ phase' = "prune"
      /\ types' = [t \in DOMAIN types \ DOMAIN renames |->
                     [types[t] EXCEPT !.props = {Renamed(p) : p \in @}]]
      /\ slots' = [x \in Slot |-> Renamed(slots[x])]
      /\ UNCHANGED <<start, pins, families, renames>>
  BY DEF Rewrite
<1>2. TypeOK /\ start \in Schemas /\ pins \in PinTables /\ AllMerged
  BY <1>1, MergingDone DEF IInv, GroupKnows
<1>3. /\ Given' = Given /\ (PinsAreFresh' <=> PinsAreFresh)
  BY <1>1, GivenUnchanged
<1> DEFINE Kept == DOMAIN types \ DOMAIN renames
<1>4. /\ DOMAIN types' = Kept
      /\ \A t \in Kept : /\ types[t] \in Type /\ types'[t].sig = types[t].sig
                         /\ types'[t].props = {Renamed(p) : p \in types[t].props}
                         /\ types'[t] = [sig |-> types[t].sig, props |-> {Renamed(p) : p \in types[t].props}]
  BY <1>1, <1>2 DEF TypeOK, Type
<1>5. Renamed(Plain) = Plain
  BY <1>2, EnumAssumption DEF TypeOK, Renamed
<1>6. \A p \in Token \cup {Plain} : Renamed(p) \in Token \cup {Plain}
  BY <1>2 DEF TypeOK, Renamed
<1>7. \A p \in Token : Renamed(p) \in Token
  BY <1>2 DEF TypeOK, Renamed
<1>8. TypeOK'
  <2>1. \A t \in Kept : types'[t] \in Type
    <3>1. SUFFICES ASSUME NEW t \in Kept PROVE types'[t] \in Type
      OBVIOUS
    <3>2. types[t].sig \in Sig \cup {NoSig} /\ types[t].props \subseteq Token \cup {Plain}
      BY <1>4 DEF Type
    <3>3. {Renamed(p) : p \in types[t].props} \subseteq Token \cup {Plain}
      BY <1>6, <3>2
    <3>4. QED
      BY <1>4, <3>2, <3>3 DEF Type
  <2>2. types' \in [DOMAIN types' -> Type]
    BY <1>1, <1>4, <2>1
  <2>3. slots' \in [Slot -> Token]
    BY <1>1, <1>2, <1>7 DEF TypeOK
  <2>4. DOMAIN types' \subseteq Token
    BY <1>2, <1>4 DEF TypeOK
  <2>5. QED
    BY <1>1, <1>2, <2>2, <2>3, <2>4 DEF TypeOK
<1>9. GroupKnows'
  BY <1>1, <1>2 DEF GroupKnows
<1> HIDE DEF Kept
<1>10. NoTwins'
  <2>1. SUFFICES ASSUME NEW t \in Kept, NEW u \in Kept, SameFamily(t, u)' PROVE t = u
    BY <1>4 DEF NoTwins
  <2>2. IsEnum(types[t]) /\ types[t].sig = types[u].sig /\ Module(t) = Module(u)
    BY <1>4, <2>1 DEF SameFamily, IsEnum
  <2>3. PICK k \in Given : types[t] = start.types[k] /\ Module(t) = Module(k)
    BY <1>2, StandsFor DEF Kept
  <2>4. IF Kin(k) \in Duplicates THEN t = Canonical(Kin(k)) ELSE t = k
    BY <1>2, <2>2, <2>3, OneIsKept DEF Kept
  <2>5. IF Kin(k) \in Duplicates THEN u = Canonical(Kin(k)) ELSE u = k
    BY <1>2, <2>2, <2>3, OneIsKept DEF Kept
  <2>6. QED
    BY <2>4, <2>5
<1>11. ASSUME PinsAreFresh PROVE Resolves' /\ SlotsMean' /\ ObjectsStay' /\ ValuesStay'
  <2>0. start' = start /\ Given' = Given /\ DOMAIN types' = Kept
    BY <1>1, <1>3, <1>4
  <2>1. \A t \in Given :
          /\ Renamed(t) \in Kept /\ types[Renamed(t)].sig = start.types[t].sig
          /\ Module(Renamed(t)) = Module(t)
          /\ ~IsEnum(start.types[t]) => t \in Kept /\ Renamed(t) = t
    BY <1>2, <1>11, RenamedMeans DEF Kept
  <2>2. /\ \A x \in Slot : start.slots[x] \in Given /\ slots'[x] = Renamed(start.slots[x])
        /\ \A t \in Given : \A p \in start.types[t].props \ {Plain} : p \in Given
        /\ \A t \in Given : IsEnum(start.types[t]) => start.types[t].props = {}
        /\ \A t \in Given : types[t] = start.types[t]
        /\ Given \subseteq Token
    BY <1>1, <1>2, GivenTypes DEF AllMerged
  <2>3. Resolves'
    <3>1. ASSUME NEW t \in Kept, NEW q \in types'[t].props \ {Plain} PROVE q \in Kept
      <4>1. PICK p \in types[t].props : q = Renamed(p)
        BY <1>4
      <4>2. PICK k \in Given : types[t] = start.types[k]
        BY <1>2, StandsFor DEF Kept
      <4>3. p \in Given
        BY <1>5, <2>2, <4>1, <4>2
      <4>4. QED
        BY <2>1, <4>1, <4>3
    <3>2. HeldBy(types') \subseteq Kept
      BY <1>4, <3>1 DEF HeldBy
    <3>3. \A x \in Slot : slots'[x] \in Kept
      BY <2>1, <2>2
    <3>4. QED
      BY <1>4, <3>2, <3>3 DEF Resolves, Referenced
  <2>4. SlotsMean'
    <3>1. SUFFICES ASSUME NEW x \in Slot
                   PROVE  /\ slots'[x] \in Kept
                          /\ types'[slots'[x]].sig = start.types[start.slots[x]].sig
                          /\ Module(slots'[x]) = Module(start.slots[x])
                          /\ ~IsEnum(start.types[start.slots[x]]) => slots'[x] = start.slots[x]
      BY <2>0 DEF SlotsMean, IsEnum, Module
    <3>2. QED
      BY <1>4, <2>1, <2>2
  <2>5. ObjectsStay'
    <3>1. ASSUME NEW t \in Given, ~IsEnum(start.types[t]), t \in Referenced(start.types, start.slots)
          PROVE  t \in Referenced(types', slots')
      <4>1. CASE \E x \in Slot : t = start.slots[x]
        BY <2>1, <2>2, <3>1, <4>1 DEF Referenced
      <4>2. CASE t \in HeldBy(start.types)
        <5>1. PICK u \in Given : t \in start.types[u].props
          BY <4>2 DEF HeldBy, Given
        <5>2. u \in Kept /\ t \in types[u].props
          BY <2>1, <2>2, <5>1
        <5>3. t \in types'[u].props
          BY <1>4, <2>1, <3>1, <5>2
        <5>4. types'[u].props \in {types'[v].props : v \in DOMAIN types'}
          BY <1>4, <5>2
        <5>5. t # Plain
          BY <2>2, EnumAssumption
        <5>6. QED
          BY <5>3, <5>4, <5>5 DEF Referenced, HeldBy
      <4>3. QED
        BY <3>1, <4>1, <4>2 DEF Referenced
    <3>2. ASSUME NEW t \in Kept, IsEmpty(types'[t]) PROVE t \in Given /\ IsEmpty(start.types[t])
      <4>1. types[t].sig = NoSig
        BY <1>4, <3>2 DEF IsEmpty
      <4>2. types[t].props = {}
        BY <1>4, <3>2 DEF IsEmpty
      <4>3. t \in Given
        BY <1>2, <4>1, StandsFor DEF IsEnum, Kept
      <4>4. QED
        BY <2>2, <4>1, <4>2, <4>3 DEF IsEmpty
    <3>3. \A t \in Given : ~IsEnum(start.types[t]) => t \in DOMAIN types'
      BY <1>4, <2>1
    <3>4. QED
      BY <1>1, <1>3, <1>4, <3>1, <3>2, <3>3 DEF ObjectsStay, IsEmpty, IsEnum
  <2>6. ValuesStay'
    <3>1. \A t \in Given : types'[Renamed(t)].sig = start.types[t].sig
      BY <1>4, <2>1
    <3>2. QED
      BY <2>0, <2>1, <3>1 DEF ValuesStay, IsEnum, Module
  <2>7. QED
    BY <2>3, <2>4, <2>5, <2>6
<1>12. QED
  BY <1>1, <1>3, <1>8, <1>9, <1>10, <1>11 DEF IInv, MergeKnows, RewriteKnows

-----------------------------------------------------------------------------
(* The pruning and the end *)

LEMMA PruneIInv == IInv /\ Prune => IInv'
<1> SUFFICES ASSUME IInv, Prune PROVE IInv'
  OBVIOUS
<1>1. /\ phase = "prune" /\ types' = [t \in DOMAIN types \ Unused |-> types[t]]
      /\ UNCHANGED <<slots, start, pins, phase, families, renames>>
  BY DEF Prune, Restricted
<1>2. TypeOK /\ start \in Schemas /\ pins \in PinTables /\ NoTwins
  BY <1>1 DEF IInv, GroupKnows, RewriteKnows
<1> DEFINE Kept == DOMAIN types \ Unused
<1>3. DOMAIN types' = Kept /\ \A t \in Kept : types'[t] = types[t] /\ types[t] \in Type
  BY <1>1, <1>2 DEF TypeOK
<1>4. \A t \in DOMAIN types \ Kept : IsEmpty(types[t]) /\ t \notin Referenced(types, slots)
  BY DEF Unused
<1> HIDE DEF Kept
<1>5. TypeOK'
  <2>1. types' \in [DOMAIN types' -> Type]
    BY <1>1, <1>3 DEF Kept
  <2>2. DOMAIN types' \subseteq Token
    BY <1>2, <1>3 DEF TypeOK, Kept
  <2>3. QED
    BY <1>1, <1>2, <2>1, <2>2 DEF TypeOK
<1>6. GroupKnows'
  BY <1>1, <1>2 DEF GroupKnows
<1>7. NoTwins'
  BY <1>2, <1>3 DEF NoTwins, SameFamily, IsEnum, Module, Kept
<1>8. start' = start /\ slots' = slots /\ Given' = Given /\ (PinsAreFresh' <=> PinsAreFresh)
  BY <1>1, GivenUnchanged
<1>9. ASSUME PinsAreFresh PROVE Resolves' /\ SlotsMean' /\ ObjectsStay' /\ ValuesStay'
  <2>1. Resolves /\ SlotsMean /\ ObjectsStay /\ ValuesStay
    BY <1>1, <1>9 DEF IInv, RewriteKnows
  <2>2. Referenced(types, slots) \subseteq Kept
    BY <1>4, <2>1 DEF Resolves
  <2>3. Referenced(types', slots') = Referenced(types, slots)
    <3>1. HeldBy(types') \subseteq HeldBy(types)
      <4>1. SUFFICES ASSUME NEW t \in Kept, NEW p \in types[t].props \ {Plain}
                     PROVE  p \in HeldBy(types)
        BY <1>3 DEF HeldBy
      <4>2. types[t].props \in {types[u].props : u \in DOMAIN types}
        BY DEF Kept
      <4>3. QED
        BY <4>2 DEF HeldBy
    <3>2. HeldBy(types) \subseteq HeldBy(types')
      <4>1. SUFFICES ASSUME NEW t \in DOMAIN types, NEW p \in types[t].props \ {Plain}
                     PROVE  p \in HeldBy(types')
        BY DEF HeldBy
      <4>2. t \in Kept
        BY <1>4 DEF IsEmpty
      <4>3. types[t].props \in {types'[u].props : u \in DOMAIN types'}
        BY <1>3, <4>2
      <4>4. QED
        BY <4>3 DEF HeldBy
    <3>3. QED
      BY <1>8, <3>1, <3>2 DEF Referenced
  <2>4. Resolves'
    BY <1>3, <2>2, <2>3 DEF Resolves
  <2>5. SlotsMean'
    <3>1. \A x \in Slot : slots[x] \in Kept
      BY <2>2 DEF Referenced
    <3>2. \A x \in Slot : types'[slots[x]] = types[slots[x]]
      BY <1>3, <3>1
    <3>3. QED
      BY <1>3, <1>8, <2>1, <3>1, <3>2 DEF SlotsMean, IsEnum, Module
  <2>6. ObjectsStay'
    <3>1. ASSUME NEW t \in Given, ~IsEnum(start.types[t])
          PROVE  /\ t \in Referenced(start.types, start.slots) => t \in Referenced(types, slots)
                 /\ t \in Kept \/ (IsEmpty(start.types[t]) /\ t \notin Referenced(start.types, start.slots))
      <4>1. CASE t \in DOMAIN types \ Kept
        BY <1>4, <2>1, <3>1, <4>1 DEF ObjectsStay
      <4>2. CASE t \notin DOMAIN types \ Kept
        BY <2>1, <3>1, <4>2 DEF ObjectsStay
      <4>3. QED
        BY <4>1, <4>2
    <3>2. \A t \in Kept : IsEmpty(types'[t]) => t \in Given /\ IsEmpty(start.types[t])
      BY <1>3, <2>1 DEF ObjectsStay, Kept
    <3>3. QED
      BY <1>3, <1>8, <2>3, <3>1, <3>2 DEF ObjectsStay, IsEmpty, IsEnum
  <2>7. ValuesStay'
    <3>1. SUFFICES ASSUME NEW t \in Given, IsEnum(start.types[t])
                   PROVE  \E u \in Kept : types'[u].sig = start.types[t].sig /\ Module(u) = Module(t)
      BY <1>3, <1>8 DEF ValuesStay, IsEnum, Module
    <3>2. PICK u \in DOMAIN types : types[u].sig = start.types[t].sig /\ Module(u) = Module(t)
      BY <2>1, <3>1 DEF ValuesStay
    <3>3. u \in Kept
      BY <1>4, <3>1, <3>2 DEF IsEnum, IsEmpty
    <3>4. QED
      BY <1>3, <3>2, <3>3
  <2>8. QED
    BY <2>4, <2>5, <2>6, <2>7
<1>10. QED
  BY <1>1, <1>5, <1>6, <1>7, <1>8, <1>9 DEF IInv, MergeKnows, RewriteKnows

\* Steps that leave the schema alone.
LEMMA SameGraph ==
  ASSUME UNCHANGED <<types, slots, start, pins, families, renames>>
  PROVE  /\ (TypeOK /\ phase' \in {"group", "merge", "prune", "done", "aborted"}) => TypeOK'
         /\ (NoTwins' <=> NoTwins) /\ (Resolves' <=> Resolves) /\ (SlotsMean' <=> SlotsMean)
         /\ (ObjectsStay' <=> ObjectsStay) /\ (ValuesStay' <=> ValuesStay)
         /\ (PinsAreFresh' <=> PinsAreFresh) /\ Unused' = Unused
<1>1. Given' = Given /\ (PinsAreFresh' <=> PinsAreFresh)
  BY GivenUnchanged
<1>2. (TypeOK /\ phase' \in {"group", "merge", "prune", "done", "aborted"}) => TypeOK'
  BY DEF TypeOK
<1>3. NoTwins' <=> NoTwins
  BY DEF NoTwins, SameFamily, IsEnum, Module
<1>4. Unused' = Unused
  BY DEF Unused, IsEmpty, Referenced, HeldBy
<1>5. Resolves' <=> Resolves
  BY DEF Resolves, Referenced, HeldBy
<1>6. SlotsMean' <=> SlotsMean
  BY DEF SlotsMean, IsEnum, Module
<1>7. ObjectsStay' <=> ObjectsStay
  BY <1>1 DEF ObjectsStay, IsEnum, IsEmpty, Referenced, HeldBy
<1>8. ValuesStay' <=> ValuesStay
  BY <1>1 DEF ValuesStay, IsEnum, Module
<1>9. QED
  BY <1>1, <1>2, <1>3, <1>4, <1>5, <1>6, <1>7, <1>8

LEMMA EndIInv == IInv /\ (PruneEnds \/ MergeFails) => IInv'
<1> SUFFICES ASSUME IInv, PruneEnds \/ MergeFails PROVE IInv'
  OBVIOUS
<1>1. UNCHANGED <<types, slots, start, pins, families, renames>>
  BY DEF PruneEnds, MergeFails
<1>2. CASE PruneEnds
  BY <1>1, <1>2, SameGraph DEF PruneEnds, IInv, GroupKnows, MergeKnows, RewriteKnows
<1>3. CASE MergeFails
  BY <1>1, <1>3, SameGraph DEF MergeFails, IInv, GroupKnows, MergeKnows, RewriteKnows
<1>4. QED
  BY <1>2, <1>3

LEMMA StutterIInv == IInv /\ UNCHANGED vars => IInv'
<1> SUFFICES ASSUME IInv, UNCHANGED vars PROVE IInv'
  OBVIOUS
<1>1. UNCHANGED <<types, slots, start, pins, phase, families, renames>>
  BY DEF vars
<1>2. TypeOK' /\ GroupKnows' /\ RewriteKnows'
  BY <1>1, SameGraph DEF IInv, TypeOK, GroupKnows, RewriteKnows
<1>3. MergeKnows'
  <2>1. SUFFICES ASSUME phase = "merge" PROVE MergeKnows'
    BY <1>1 DEF MergeKnows
  <2>2. /\ Duplicates' = Duplicates /\ Given' = Given
        /\ \A f : Canonical(f)' = Canonical(f) /\ (PinHitsMember(f)' <=> PinHitsMember(f))
    BY <1>1, GivenUnchanged
  <2>3. Merged' = Merged
    BY <1>1, <2>2 DEF Merged
  <2>4. QED
    BY <1>1, <2>1, <2>2, <2>3 DEF IInv, MergeKnows
<1>4. QED
  BY <1>2, <1>3 DEF IInv

LEMMA NextIInv == IInv /\ [Next]_vars => IInv'
<1> SUFFICES ASSUME IInv, [Next]_vars PROVE IInv'
  OBVIOUS
<1>1. CASE Group
  BY <1>1, GroupIInv
<1>2. CASE Merge
  BY <1>2, MergeIInv
<1>3. CASE Rewrite
  BY <1>3, RewriteIInv
<1>4. CASE Prune
  BY <1>4, PruneIInv
<1>5. CASE PruneEnds \/ MergeFails
  BY <1>5, EndIInv
<1>6. CASE Finished \/ UNCHANGED vars
  BY <1>6, StutterIInv DEF Finished
<1>7. QED
  BY <1>1, <1>2, <1>3, <1>4, <1>5, <1>6 DEF Next

-----------------------------------------------------------------------------
(* Theorems *)

LEMMA AlwaysIInv == Spec => []IInv
<1>1. Init => IInv
  BY InitIInv
<1>2. IInv /\ [Next]_vars => IInv'
  BY NextIInv
<1>3. QED
  BY <1>1, <1>2, PTL DEF Spec

\* The pass keeps a graph of types over tokens whatever the schema and the
\* pins: a canonical is a token even when no type had it
\* (pass_enum.go:84-107).
THEOREM TypeCorrect == Spec => []TypeOK
<1>1. IInv => TypeOK
  BY DEF IInv
<1>2. QED
  BY <1>1, AlwaysIInv, PTL

\* With fresh pins no reference dangles once references are rewritten: not
\* after the members are deleted and rewritten in one hop (pass_enum.go:109-115),
\* and not after any turn of the pruning loop (pass_enum.go:155-180).
THEOREM DanglingCorrect == Spec => []NoDanglingRef
<1>1. IInv => NoDanglingRef
  BY DEF IInv, RewriteKnows, NoDanglingRef, Resolves
<1>2. QED
  BY <1>1, AlwaysIInv, PTL

\* With fresh pins what a resource or function refers to is the value set, in
\* its module, or the very object it referred to, in whatever order the
\* families were merged (pass_enum.go:79-115).
THEOREM MeaningCorrect == Spec => []MeaningKept
<1>1. IInv => MeaningKept
  BY DEF IInv, RewriteKnows, MeaningKept, SlotsMean
<1>2. QED
  BY <1>1, AlwaysIInv, PTL

\* No two enums of a module keep one value set, whether or not the pins are
\* fresh: what survives of a family is its canonical (pass_enum.go:79-115).
THEOREM DuplicateCorrect == Spec => []NoDuplicateEnum
<1>1. IInv => NoDuplicateEnum
  BY DEF IInv, RewriteKnows, NoDuplicateEnum, NoTwins
<1>2. QED
  BY <1>1, AlwaysIInv, PTL

\* With fresh pins the merging and the pruning drop noise only, and all of it:
\* no value set, and no object that has a property or was referred to
\* (pass_enum.go:79-115, 155-180).
THEOREM NoiseCorrect == Spec => []OnlyNoiseIsDropped
<1>1. ASSUME IInv PROVE OnlyNoiseIsDropped
  <2>1. SUFFICES ASSUME PinsAreFresh, phase = "done" PROVE OnlyNoiseIsDropped
    BY DEF OnlyNoiseIsDropped
  <2>2. Unused = {} /\ ObjectsStay /\ ValuesStay
    BY <1>1, <2>1 DEF IInv, GroupKnows, RewriteKnows
  <2>3. QED
    BY <2>2 DEF OnlyNoiseIsDropped, ObjectsStay, ValuesStay, Given
<1>2. QED
  BY <1>1, AlwaysIInv, PTL

\* What the comment claims of every pin table ("A canonical is never a rename
\* source", pass_enum.go:109-111) holds of the fresh ones: the freshness of the
\* pins is all the claim lacks.
THEOREM FreshPinsSuffice == Spec => [](PinsAreFresh => CanonicalIsNoSource)
<1>1. ASSUME IInv PROVE PinsAreFresh => CanonicalIsNoSource
  <2>1. SUFFICES ASSUME PinsAreFresh, phase = "merge", families = {}
                 PROVE  \A t \in DOMAIN renames : renames[t] \notin DOMAIN renames
    BY DEF CanonicalIsNoSource
  <2>2. start \in Schemas /\ pins \in PinTables /\ AllMerged
    BY <1>1, <2>1, MergingDone DEF IInv, GroupKnows
  <2>3. ASSUME NEW t \in DOMAIN renames PROVE renames[t] \notin DOMAIN renames
    <3>1. PICK f \in Duplicates : t \in f \ {Canonical(f)}
      BY <2>2 DEF AllMerged
    <3>2. renames[t] = Canonical(f)
      BY <2>2, <3>1 DEF AllMerged
    <3>3. QED
      BY <2>1, <2>2, <3>2, CanonicalStays
  <2>4. QED
    BY <2>3
<1>2. QED
  BY <1>1, AlwaysIInv, PTL
=============================================================================
