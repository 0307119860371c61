---------------------------- MODULE MCEnumCleanup ----------------------------
(***************************************************************************)
(* Small instances of EnumCleanup.tla: four names in one module, one of    *)
(* them also in a second module, a name only a pin brings, two value sets, *)
(* and the pin tables of a run.                                            *)
(***************************************************************************)
EXTENDS EnumCleanup

Names == {"State", "Fresh", "Action", "Filter", "AclAction"}

MCRank == [n \in Names |->
             CASE n = "State"     -> 1
               [] n = "Fresh"     -> 2
               [] n = "Action"    -> 3
               [] n = "Filter"    -> 4
               [] n = "AclAction" -> 5]

MCToken == {"sites", "dpi"} \X Names

\* What the spec may bring: every name but the one only a pin would bring in
\* the one module, a single one in the other.
SpecTokens == {<<"sites", n>> : n \in Names \ {"Fresh"}} \cup {<<"dpi", "State">>}

Enums   == {[sig |-> s, props |-> {}] : s \in Sig}
Objects == {[sig |-> NoSig, props |-> {}]}
             \cup {[sig |-> NoSig, props |-> {p}] : p \in SpecTokens \cup {Plain}}

\* At most one body per token: sets of zero or one <<token, body>> pair.
Maybe(t, bodies) == {{}} \cup {{<<t, b>>} : b \in bodies}

\* Type graphs over those pairs whose every reference resolves.  Two names are
\* enums or absent, two may be anything, and the second module has one enum.
MCSchemas ==
  LET graphs ==
        {a \cup b \cup c \cup d \cup e :
           a \in Maybe(<<"sites", "State">>, Enums),
           b \in Maybe(<<"sites", "AclAction">>, Enums),
           c \in Maybe(<<"sites", "Action">>, Enums \cup Objects),
           d \in Maybe(<<"sites", "Filter">>, Enums \cup Objects),
           e \in Maybe(<<"dpi", "State">>, {CHOOSE b \in Enums : TRUE})}
      AsMap(g) == [t \in {x[1] : x \in g} |-> (CHOOSE x \in g : x[1] = t)[2]]
  IN  {s \in [types : {AsMap(g) : g \in graphs}, slots : [Slot -> SpecTokens]] :
         Referenced(s.types, s.slots) \subseteq DOMAIN s.types}

NoPins == [n \in {} |-> n]
Pin(from, to) == [n \in {from} |-> to]

\* None; the default pinned to itself, to a fresh name, and to a name the spec
\* may have; two defaults pinned to one name.
MCPins == {NoPins, Pin("State", "State"), Pin("State", "Fresh"),
           Pin("Action", "Fresh"), Pin("State", "AclAction"),
           [n \in {"State", "Action"} |-> "Fresh"]}
=============================================================================
