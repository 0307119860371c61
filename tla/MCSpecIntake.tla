---------------------------- MODULE MCSpecIntake ----------------------------
(***************************************************************************)
(* Small instances of SpecIntake.tla: two components of any two names, two *)
(* of which sanitize alike; a sub-schema and one below it, of every kind   *)
(* the repairs tell apart, in any kind of position; references and a       *)
(* discriminator to the components from inside and outside.                *)
(***************************************************************************)
EXTENDS SpecIntake

MCNames == {"A b", "A_b", "(C)", "C", "D"}
MCSane == [n \in MCNames |-> CASE n = "A b" -> "A_b" [] n = "(C)" -> "C" [] OTHER -> n]

Nothing == [null |-> FALSE, free |-> FALSE, extra |-> FALSE, note |-> FALSE, type |-> "none",
            enum |-> "none", ref |-> None, title |-> None, maps |-> {}, kids |-> {}]

\* What a sub-schema may hold, by itself.
Leaves(name) ==
  {Nothing,
   [Nothing EXCEPT !.null = TRUE],
   [Nothing EXCEPT !.note = TRUE, !.extra = TRUE],
   [Nothing EXCEPT !.ref = name],
   [Nothing EXCEPT !.free = TRUE],
   [Nothing EXCEPT !.type = "string", !.enum = "strings"],
   [Nothing EXCEPT !.type = "number", !.enum = "mixed"],
   [Nothing EXCEPT !.enum = "strings"],
   [Nothing EXCEPT !.enum = "mixed"]}

At(x, pos, id) == [x EXCEPT !.kids = {[pos |-> pos, id |-> id]}]

Places == {"items", "not", "elsewhere"}

Document(keys, top, other, sub, leaf, outer) ==
  [schemas |-> keys, hasSchemas |-> TRUE,
   node |-> [n \in {"top", "other", "sub", "leaf", "outer"} |->
               CASE n = "top" -> top [] n = "other" -> other [] n = "sub" -> sub
                 [] n = "leaf" -> leaf [] n = "outer" -> outer],
   outer |-> {"outer"}, license |-> "none", schemes |-> {}, required |-> {},
   server |-> "relative"]

Two(k1, k2) == [k \in {k1, k2} |-> IF k = k1 THEN "top" ELSE "other"]
Union(k1, k2) ==
  [Nothing EXCEPT !.ref = k1,
                  !.maps = {[bare |-> TRUE, name |-> k1], [bare |-> FALSE, name |-> k2]}]

\* Trees of every shape, over every pair of names.
Trees ==
  {Document(Two(k[1], k[2]), At(top, p, "sub"), Union(k[1], k[2]),
            IF q = "none" \/ sub.null THEN sub ELSE At(sub, q, "leaf"), leaf, [Nothing EXCEPT !.ref = k[2]]) :
     k \in {kk \in MCNames \X MCNames : kk[1] # kk[2]},
     top \in {Nothing, [Nothing EXCEPT !.type = "object"]},
     sub \in Leaves("D"), leaf \in Leaves("D"), p \in Places, q \in {"items", "not", "none"}}

\* The facts about the document as a whole.
Plain == Document(Two("A b", "D"), Nothing, Union("A b", "D"), Nothing, Nothing,
                  [Nothing EXCEPT !.ref = "D"])
Wholes ==
  {[Plain EXCEPT !.license = l, !.schemes = s, !.required = r, !.server = v] :
     l \in {"none", "empty", "named"}, s \in {{}, {"Other"}}, r \in {{}, {"Other"}},
     v \in {"none", "relative", "moved"}}

\* No components.schemas, or one without a key.
NoComponents ==
  {[Plain EXCEPT !.schemas = [k \in {} |-> None], !.hasSchemas = h, !.license = l,
                 !.node["other"] = Nothing, !.node["outer"].ref = r] :
     h \in BOOLEAN, l \in {"none", "empty", "named"}, r \in {"D", None}}

\* Components with titles of their own, and references to components.
Titled ==
  UNION {{Document(Two(k, "D"), [Nothing EXCEPT !.type = "object", !.title = t], other,
                   Nothing, Nothing, Nothing) :
            t \in {None, "C", "D"},
            other \in {[Nothing EXCEPT !.type = "object"], [Nothing EXCEPT !.ref = k]}} :
         k \in {"A b", "C"}}

\* A reference to a name that no component has, and one is sanitized to.
Captured ==
  {[Plain EXCEPT !.node["outer"].ref = "A_b"]}

\* A component that is null, and a reference to it.
NullComponents ==
  {Document(Two("A b", "C"), [Nothing EXCEPT !.null = TRUE], [Nothing EXCEPT !.ref = r],
            Nothing, Nothing, Nothing) : r \in {"A b", "D", None}}

EveryDoc == Captured \cup NullComponents \cup Trees \cup Wholes \cup NoComponents \cup Titled
=============================================================================
