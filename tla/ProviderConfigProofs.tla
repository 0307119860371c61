------------------------ MODULE ProviderConfigProofs ------------------------
(***************************************************************************)
(* What holds of ProviderConfig.tla for every set of values, environments, *)
(* hosts and truthy strings, and any number of sessions that overlap in    *)
(* any way: its types, that verification is never off unasked, what a      *)
(* session in a shared process can count on, and that sessions of their    *)
(* own process implement ConfiguredClient.                                 *)
(***************************************************************************)
EXTENDS ProviderConfig, TLAPS

-----------------------------------------------------------------------------
(* Types *)

Settings == [vars : Variables, env : {env}]

Idle == \A i \in Session : call[i] = "none"

\* Sessions come in order, a process that is down serves none, and one that is
\* not shared serves at most the last.
CallsInOrder ==
  /\ \A i \in Session : i > sessions => call[i] = "none"
  /\ proc = "down" => Idle
  /\ ~attached => /\ proc = "up" => Idle
                  /\ \A i \in Session : i # sessions => call[i] = "none"
  /\ attached => proc # "taken"

IInv == TypeOK /\ CallsInOrder

LEMMA VariableValues ==
  ASSUME NEW v \in Variables, NEW k \in Key
  PROVE  v[k] \in Values[k]
  BY DEF Variables

LEMMA FreshType ==
  /\ \A e \in Envs : Fresh \in [apiKey : Values["apiKey"] \cup {e["apiKey"], Unset},
                 siteID : Values["siteId"] \cup {f["siteId"] : f \in Envs} \cup {DefaultSite}]
  /\ Fresh.siteID # Unset
  BY ConfigAssumption DEF Fresh, Key

\* What a session that is under way was given.
LEMMA GivenType ==
  ASSUME TypeOK, NEW i \in Session, call[i] # "none"
  PROVE  given[i] \in Settings /\ given[i].vars \in Variables
  BY DEF TypeOK, Settings

LEMMA AdvanceType ==
  ASSUME TypeOK, NEW i \in Session, NEW from \in Steps, NEW to \in Steps, Advance(i, from, to)
  PROVE  /\ call' \in [Session -> Steps]
         /\ call[i] = from /\ call'[i] = to
         /\ \A j \in Session : j # i => call'[j] = call[j]
  BY DEF TypeOK, Advance

LEMMA SiteType ==
  ASSUME TypeOK, NEW v \in Variables
  PROVE  /\ NewSite(v) \in Values["siteId"] \cup {e["siteId"] : e \in Envs} \cup {DefaultSite}
         /\ NewSite(v) # Unset
<1>1. v["siteId"] \in Values["siteId"]
  BY VariableValues DEF Key
<1>2. env["siteId"] \in {e["siteId"] : e \in Envs}
  BY DEF TypeOK
<1> QED BY <1>1, <1>2 DEF NewSite, ConfigValue, TypeOK

LEMMA InitIInv == Init => IInv
  BY FreshType, ConfigAssumption DEF Init, IInv, TypeOK, CallsInOrder, Idle, UnderWay, Steps, Session

\* A Configure that stores its key is the next session, and none was there.
LEMMA StoreKeyFacts ==
  ASSUME IInv, StoreKey
  PROVE  /\ sessions + 1 \in Session /\ sessions' = sessions + 1
         /\ call[sessions + 1] = "none"
         /\ call' \in [Session -> Steps] /\ call'[sessions + 1] = "site"
         /\ \A j \in Session : j # sessions + 1 => call'[j] = call[j] /\ given'[j] = given[j]
         /\ \E v \in Variables :
              /\ ConfigValue(v, "apiKey") # Unset
              /\ p' = [p EXCEPT !.apiKey = NewKey(v)]
              /\ p'.apiKey = ConfigValue(v, "apiKey") /\ p'.siteID = p.siteID
              /\ given'[sessions + 1] = [vars |-> v, env |-> env]
              /\ given' \in [Session -> Settings \cup {Unset}]
              /\ p' \in [apiKey : Values["apiKey"] \cup {env["apiKey"], Unset},
                         siteID : Values["siteId"] \cup {e["siteId"] : e \in Envs} \cup {DefaultSite}]
<1>1. sessions + 1 \in Session /\ sessions' = sessions + 1
  BY ConfigAssumption DEF IInv, TypeOK, StoreKey, Begin, Session
<1>2. call[sessions + 1] = "none"
  BY <1>1 DEF IInv, CallsInOrder, TypeOK
<1>3. PICK v \in Variables :
         /\ ConfigValue(v, "apiKey") # Unset
         /\ p' = [p EXCEPT !.apiKey = NewKey(v)]
         /\ given' = [given EXCEPT ![sessions + 1] = [vars |-> v, env |-> env]]
  BY DEF StoreKey
<1>4. v["apiKey"] \in Values["apiKey"]
  BY VariableValues DEF Key
<1>5. NewKey(v) \in Values["apiKey"] \cup {env["apiKey"], Unset} /\ NewKey(v) = ConfigValue(v, "apiKey")
  BY <1>4 DEF NewKey, ConfigValue
<1>6. /\ p' \in [apiKey : Values["apiKey"] \cup {env["apiKey"], Unset},
                 siteID : Values["siteId"] \cup {e["siteId"] : e \in Envs} \cup {DefaultSite}]
      /\ p'.apiKey = ConfigValue(v, "apiKey") /\ p'.siteID = p.siteID
  BY <1>3, <1>5 DEF IInv, TypeOK
<1>7. [vars |-> v, env |-> env] \in Settings
  BY DEF Settings
<1>8. /\ given' \in [Session -> Settings \cup {Unset}]
      /\ given'[sessions + 1] = [vars |-> v, env |-> env]
      /\ \A j \in Session : j # sessions + 1 => given'[j] = given[j]
  BY <1>1, <1>3, <1>7 DEF IInv, TypeOK, Settings
<1>9. /\ call' \in [Session -> Steps] /\ call'[sessions + 1] = "site"
      /\ \A j \in Session : j # sessions + 1 => call'[j] = call[j]
  BY <1>1 DEF IInv, TypeOK, StoreKey, Steps
<1> QED BY <1>1, <1>2, <1>3, <1>6, <1>8, <1>9

LEMMA OverType ==
  ASSUME TypeOK, NEW i \in Session, Over(i)
  PROVE  /\ given' \in [Session -> Settings \cup {Unset}]
         /\ given'[i] = Unset /\ \A j \in Session : j # i => given'[j] = given[j]
         /\ disturbed' = disturbed \ {i}
         /\ proc' = IF attached THEN "up" ELSE "down"
  BY DEF TypeOK, Over, Settings, AfterSession

LEMMA NextTypeOK ==
  ASSUME IInv, [Next]_vars
  PROVE  TypeOK'
<1> USE DEF IInv
<1>1. CASE MakeProvider
  <2>1. Idle
    BY <1>1 DEF MakeProvider, CallsInOrder
  <2>2. \A i \in Session : given[i] = Unset /\ call[i] = "none"
    BY <2>1 DEF Idle, TypeOK
  <2>3. given \in [Session -> {Unset}] /\ disturbed = {}
    BY <2>2 DEF TypeOK, UnderWay
  <2> QED BY <1>1, <2>2, <2>3, FreshType DEF MakeProvider, calls, TypeOK, UnderWay
<1>2. CASE RejectNoKey
  <2>1. sessions' \in 0..MaxSessions
    BY <1>2, ConfigAssumption DEF RejectNoKey, Begin, TypeOK
  <2> QED BY <1>2, <2>1 DEF RejectNoKey, AfterSession, TypeOK, UnderWay, client, calls
<1>3. CASE StoreKey
  <2>1. /\ call' \in [Session -> Steps]
        /\ given' \in [Session -> Settings \cup {Unset}]
        /\ p' \in [apiKey : Values["apiKey"] \cup {env["apiKey"], Unset},
                   siteID : Values["siteId"] \cup {e["siteId"] : e \in Envs} \cup {DefaultSite}]
        /\ p'.siteID = p.siteID
    BY <1>3, StoreKeyFacts
  <2>2. \A i \in Session : given'[i] = Unset <=> call'[i] = "none"
    <3>1. PICK v \in Variables : given'[sessions + 1] = [vars |-> v, env |-> env]
      BY <1>3, StoreKeyFacts
    <3>2. [vars |-> v, env |-> env] # Unset
      BY ConfigAssumption DEF TypeOK
    <3> QED BY <1>3, <3>1, <3>2, StoreKeyFacts DEF TypeOK
  <2>3. disturbed' \subseteq UnderWay'
    BY <1>3, StoreKeyFacts DEF StoreKey, UnderWay, InFlight, TypeOK
  <2>4. params' = Unset => \A i \in Session : call'[i] # "live"
    BY <1>3, StoreKeyFacts DEF StoreKey, TypeOK
  <2>5. sessions' \in 0..MaxSessions
    BY <1>3, StoreKeyFacts DEF Session
  <2> QED BY <1>3, <2>1, <2>2, <2>3, <2>4, <2>5 DEF StoreKey, TypeOK, Settings
<1>4. ASSUME NEW i \in Session, StoreSite(i)
      PROVE  TypeOK'
  <2>1. call[i] = "site" /\ given[i].vars \in Variables
    BY <1>4, GivenType DEF StoreSite, Advance
  <2>2. /\ call' \in [Session -> Steps] /\ call'[i] = "check"
        /\ \A j \in Session : j # i => call'[j] = call[j]
    BY <1>4, AdvanceType DEF StoreSite, Steps
  <2>3. /\ p' \in [apiKey : Values["apiKey"] \cup {env["apiKey"], Unset},
                   siteID : Values["siteId"] \cup {e["siteId"] : e \in Envs} \cup {DefaultSite}]
        /\ p'.siteID # Unset
    BY <1>4, <2>1, SiteType DEF StoreSite, TypeOK
  <2> QED BY <1>4, <2>1, <2>2, <2>3 DEF StoreSite, TypeOK, UnderWay
<1>5. ASSUME NEW i \in Session, RejectHost(i) \/ EndSession(i)
      PROVE  TypeOK'
  <2>1. /\ call' \in [Session -> Steps] /\ call'[i] = "none"
        /\ \A j \in Session : j # i => call'[j] = call[j]
    BY <1>5, AdvanceType DEF RejectHost, EndSession, Steps
  <2>2. /\ given' \in [Session -> Settings \cup {Unset}]
        /\ given'[i] = Unset /\ \A j \in Session : j # i => given'[j] = given[j]
        /\ disturbed' = disturbed \ {i}
        /\ proc' \in {"down", "up", "taken"}
    BY <1>5, OverType DEF RejectHost, EndSession
  <2> QED BY <1>5, <2>1, <2>2 DEF RejectHost, EndSession, TypeOK, UnderWay, Settings, client
<1>6. ASSUME NEW i \in Session, Accept(i)
      PROVE  TypeOK'
  <2>1. /\ call' \in [Session -> Steps] /\ call[i] = "check" /\ call'[i] = "framework"
        /\ \A j \in Session : j # i => call'[j] = call[j]
    BY <1>6, AdvanceType DEF Accept, Steps
  <2> QED BY <1>6, <2>1 DEF Accept, TypeOK, UnderWay
<1>7. ASSUME NEW i \in Session, FrameworkConfigures(i)
      PROVE  TypeOK'
  <2>1. /\ call' \in [Session -> Steps] /\ call[i] = "framework" /\ call'[i] = "live"
        /\ \A j \in Session : j # i => call'[j] = call[j]
    BY <1>7, AdvanceType DEF FrameworkConfigures, Steps
  <2> QED BY <1>7, <2>1 DEF FrameworkConfigures, TypeOK, UnderWay
<1>8. ASSUME NEW i \in Session, Request(i)
      PROVE  TypeOK'
  BY <1>8 DEF Request, TypeOK, UnderWay, client, calls
<1>9. CASE UNCHANGED vars
  BY <1>9 DEF vars, TypeOK, UnderWay, client, calls
<1> QED BY <1>1, <1>2, <1>3, <1>4, <1>5, <1>6, <1>7, <1>8, <1>9 DEF Next

LEMMA NextCalls ==
  ASSUME IInv, [Next]_vars
  PROVE  CallsInOrder'
<1> USE DEF IInv
<1>0. sessions \in Int /\ \A i \in Session : i \in Int
  BY ConfigAssumption DEF TypeOK, Session
<1>1. CASE MakeProvider
  BY <1>1 DEF MakeProvider, calls, CallsInOrder, Idle
<1>2. CASE RejectNoKey
  <2>1. sessions' = sessions + 1 /\ proc = "up" /\ call' = call /\ attached' = attached
    BY <1>2 DEF RejectNoKey, Begin, calls
  <2>2. proc' = IF attached THEN "up" ELSE "down"
    BY <1>2 DEF RejectNoKey, AfterSession
  <2> QED BY <1>0, <2>1, <2>2 DEF CallsInOrder, Idle
<1>3. CASE StoreKey
  <2>1. /\ sessions + 1 \in Session /\ sessions' = sessions + 1
        /\ \A j \in Session : j # sessions + 1 => call'[j] = call[j]
    BY <1>3, StoreKeyFacts
  <2>2. /\ attached' = attached /\ proc' = IF attached THEN "up" ELSE "taken"
        /\ proc = "up"
    BY <1>3 DEF StoreKey, Begin
  <2> QED BY <1>0, <2>1, <2>2 DEF CallsInOrder, Idle
<1>4. ASSUME NEW i \in Session, StoreSite(i) \/ Accept(i) \/ FrameworkConfigures(i)
      PROVE  CallsInOrder'
  <2>1. /\ call[i] # "none" /\ \A j \in Session : j # i => call'[j] = call[j]
    BY <1>4, AdvanceType DEF StoreSite, Accept, FrameworkConfigures, Steps, Advance
  <2>2. attached' = attached /\ proc' = proc /\ sessions' = sessions
    BY <1>4 DEF StoreSite, Accept, FrameworkConfigures
  <2> QED BY <2>1, <2>2 DEF CallsInOrder, Idle
<1>5. ASSUME NEW i \in Session, RejectHost(i) \/ EndSession(i)
      PROVE  CallsInOrder'
  <2>1. /\ call[i] # "none" /\ call'[i] = "none"
        /\ \A j \in Session : j # i => call'[j] = call[j]
    BY <1>5, AdvanceType DEF RejectHost, EndSession, Steps, Advance
  <2>2. /\ attached' = attached /\ sessions' = sessions
        /\ proc' = IF attached THEN "up" ELSE "down"
    BY <1>5, OverType DEF RejectHost, EndSession
  <2> QED BY <2>1, <2>2 DEF CallsInOrder, Idle
<1>6. ASSUME NEW i \in Session, Request(i)
      PROVE  CallsInOrder'
  BY <1>6 DEF Request, calls, CallsInOrder, Idle
<1>7. CASE UNCHANGED vars
  BY <1>7 DEF vars, calls, CallsInOrder, Idle
<1> QED BY <1>1, <1>2, <1>3, <1>4, <1>5, <1>6, <1>7 DEF Next

LEMMA AlwaysIInv == Spec => []IInv
<1>1. IInv /\ [Next]_vars => IInv'
  BY NextTypeOK, NextCalls DEF IInv
<1> QED BY InitIInv, <1>1, PTL DEF Spec

\* The fields of the callback, the client and the framework hold what their
\* writers can put there, whatever the configuration and however the sessions
\* overlap (provider.go:34-61).
THEOREM TypeCorrect == Spec => []TypeOK
<1>1. IInv => TypeOK
  BY DEF IInv
<1> QED BY AlwaysIInv, <1>1, PTL

-----------------------------------------------------------------------------
(* Verification *)

\* A flag that reads as true was given as one, here or in the environment.
LEMMA InsecureIsAsked ==
  ASSUME NEW v, Insecure(v)
  PROVE  AsksInsecure(v)
  BY DEF Insecure, AsksInsecure, ConfigValue

\* Certificates go unverified only in a process where a session that got past
\* the checks asked for it (config.go:51-65).
THEOREM InsecureCorrect == Spec => []InsecureWasAskedFor
<1>1. Init => InsecureWasAskedFor
  BY DEF Init, InsecureWasAskedFor
<1>2. InsecureWasAskedFor /\ [Next]_vars => InsecureWasAskedFor'
  <2> SUFFICES ASSUME InsecureWasAskedFor, [Next]_vars
               PROVE  InsecureWasAskedFor'
    OBVIOUS
  <2>1. CASE MakeProvider
    BY <2>1 DEF MakeProvider, InsecureWasAskedFor
  <2>2. ASSUME NEW i \in Session, Accept(i)
        PROVE  InsecureWasAskedFor'
    BY <2>2, InsecureIsAsked DEF Accept, InsecureWasAskedFor
  <2>3. CASE RejectNoKey \/ StoreKey \/ UNCHANGED vars
    BY <2>3 DEF RejectNoKey, StoreKey, vars, client, InsecureWasAskedFor
  <2>4. ASSUME NEW i \in Session,
               StoreSite(i) \/ RejectHost(i) \/ FrameworkConfigures(i) \/ Request(i) \/ EndSession(i)
        PROVE  InsecureWasAskedFor'
    BY <2>4 DEF StoreSite, RejectHost, FrameworkConfigures, Request, EndSession, client,
                InsecureWasAskedFor
  <2> QED BY <2>1, <2>2, <2>3, <2>4 DEF Next
<1> QED BY <1>1, <1>2, PTL DEF Spec

-----------------------------------------------------------------------------
(* What a shared process promises *)

\* What Configure has stored of the settings of i so far is still there.
Holds(i) ==
  LET Said(k) == ConfigValue(given[i].vars, k) IN
  /\ p.apiKey = Said("apiKey")
  /\ call[i] # "site" => p.siteID = Said("siteId") \/ Said("siteId") = Unset
  /\ call[i] \in {"framework", "live"} => (Insecure(given[i].vars) => transport = "insecure")
  /\ call[i] = "live" => /\ params = Said("siteId") \/ Said("siteId") = Unset
                         /\ host = Said("apiHost") \/ Said("apiHost") = Unset

\* While i is undisturbed no other Configure is in flight.
Alone(i) == \A j \in Session : j # i => call[j] \in {"none", "live"}

SharedInv ==
  /\ host \notin URLs
  /\ \A i \in Session :
       /\ call[i] = "framework" => Bare(given[i].vars)
       /\ call[i] # "none" /\ i \notin disturbed => Holds(i) /\ Alone(i)

\* A step of i's Configure meets no other undisturbed session.
LEMMA OnlyItself ==
  ASSUME SharedInv, NEW i \in Session, call[i] \in {"site", "check", "framework"},
         NEW j \in Session, j # i, call[j] # "none"
  PROVE  j \in disturbed
  BY DEF SharedInv, Alone

LEMMA HoldsStays ==
  ASSUME NEW i \in Session, Holds(i), env' = env, given'[i] = given[i], call'[i] = call[i],
         p' = p, params' = params, host' = host, transport' \in {transport, "insecure"}
  PROVE  Holds(i)'
  BY DEF Holds, ConfigValue, Insecure

LEMMA NextSharedInv ==
  ASSUME IInv, SharedInv, [Next]_vars
  PROVE  SharedInv'
<1> USE DEF IInv
<1>1. CASE MakeProvider
  <2>1. Idle /\ call' = call /\ host' = SpecHost
    BY <1>1 DEF MakeProvider, CallsInOrder, calls
  <2> QED BY <2>1, ConfigAssumption DEF SharedInv, Idle
<1>2. CASE RejectNoKey \/ (\E i \in Session : Request(i)) \/ UNCHANGED vars
  <2>1. UNCHANGED <<env, p, transport, params, host, call, given, disturbed>>
    BY <1>2 DEF RejectNoKey, Request, vars, client, calls
  <2>2. \A i \in Session : Holds(i) => Holds(i)'
    BY <2>1, HoldsStays
  <2> QED BY <2>1, <2>2 DEF SharedInv, Alone, Bare, ConfigValue
<1>3. CASE StoreKey
  <2>1. PICK new \in Session :
          /\ new = sessions + 1 /\ call[new] = "none" /\ call'[new] = "site"
          /\ \A j \in Session : j # new => call'[j] = call[j] /\ given'[j] = given[j]
    BY <1>3, StoreKeyFacts
  <2>2. PICK v \in Variables : /\ p'.apiKey = ConfigValue(v, "apiKey")
                               /\ given'[new] = [vars |-> v, env |-> env]
    BY <1>3, <2>1, StoreKeyFacts
  <2>3. UNCHANGED <<env, transport, params, host>>
    BY <1>3 DEF StoreKey
  <2>4. /\ \A j \in Session : j # new /\ call'[j] # "none" => j \in disturbed'
        /\ new \notin disturbed' => InFlight = {}
    BY <1>3, <2>1 DEF StoreKey, UnderWay
  <2>5. Holds(new)'
    BY <2>1, <2>2, <2>3 DEF Holds, ConfigValue
  <2>6. InFlight = {} => Alone(new)'
    BY <2>1 DEF Alone, InFlight, UnderWay
  <2>7. \A j \in Session : call'[j] = "framework" => Bare(given[j].vars)'
    BY <2>1, <2>3 DEF SharedInv, Bare, ConfigValue
  <2> QED BY <2>3, <2>4, <2>5, <2>6, <2>7 DEF SharedInv
<1>4. ASSUME NEW i \in Session, StoreSite(i) \/ Accept(i) \/ FrameworkConfigures(i)
      PROVE  SharedInv'
  <2>1. /\ call[i] \in {"site", "check", "framework"} /\ call'[i] # "none"
        /\ \A j \in Session : j # i => call'[j] = call[j]
    BY <1>4, AdvanceType DEF StoreSite, Accept, FrameworkConfigures, Steps, Advance
  <2>2. UNCHANGED <<env, given, disturbed>>
    BY <1>4 DEF StoreSite, Accept, FrameworkConfigures
  <2>3. \A j \in Session : j # i /\ call[j] # "none" => j \in disturbed
    BY <2>1, OnlyItself
  <2>4. (call'[i] = "framework" => Bare(given[i].vars)) /\ host' \notin URLs
    BY <1>4, AdvanceType DEF StoreSite, Accept, FrameworkConfigures, Steps, SharedInv, NewHost, Bare
  <2>5. ASSUME i \notin disturbed
        PROVE  Holds(i)' /\ Alone(i)'
    <3>1. Holds(i) /\ Alone(i)
      BY <2>1, <2>5 DEF SharedInv
    <3>2. Alone(i)'
      BY <2>1, <3>1 DEF Alone
    <3>3. CASE StoreSite(i)
      <4>1. /\ call'[i] = "check" /\ p'.apiKey = p.apiKey
            /\ p'.siteID = NewSite(given[i].vars)
        BY <3>3, AdvanceType DEF StoreSite, Steps, TypeOK
      <4> QED BY <2>2, <3>1, <3>2, <4>1 DEF Holds, ConfigValue, NewSite
    <3>4. CASE Accept(i)
      <4>1. /\ call[i] = "check" /\ call'[i] = "framework" /\ UNCHANGED <<p, params, host>>
            /\ transport' = IF Insecure(given[i].vars) THEN "insecure" ELSE transport
        BY <3>4, AdvanceType DEF Accept, Steps
      <4> QED BY <2>2, <3>1, <3>2, <4>1 DEF Holds, ConfigValue, Insecure
    <3>5. CASE FrameworkConfigures(i)
      <4>1. /\ call[i] = "framework" /\ call'[i] = "live" /\ UNCHANGED <<p, transport>>
            /\ params' = p.siteID /\ host' = NewHost(given[i].vars)
        BY <3>5, AdvanceType DEF FrameworkConfigures, Steps
      <4> QED BY <2>2, <3>1, <3>2, <4>1 DEF Holds, ConfigValue, Insecure, NewHost
    <3> QED BY <1>4, <3>3, <3>4, <3>5
  <2>6. \A j \in Session : j # i /\ call'[j] = "framework" => Bare(given[j].vars)
    BY <2>1 DEF SharedInv
  <2>7. \A v : Bare(v)' = Bare(v)
    BY <2>2 DEF Bare, ConfigValue
  <2> QED BY <2>1, <2>2, <2>3, <2>4, <2>5, <2>6, <2>7 DEF SharedInv
<1>5. ASSUME NEW i \in Session, RejectHost(i) \/ EndSession(i)
      PROVE  SharedInv'
  <2>1. /\ call[i] # "none" /\ call'[i] = "none"
        /\ \A j \in Session : j # i => call'[j] = call[j]
    BY <1>5, AdvanceType DEF RejectHost, EndSession, Steps, Advance
  <2>2. /\ \A j \in Session : j # i => given'[j] = given[j]
        /\ disturbed' = disturbed \ {i}
    BY <1>5, OverType DEF RejectHost, EndSession
  <2>3. UNCHANGED <<env, p, transport, params, host>>
    BY <1>5 DEF RejectHost, EndSession, client
  <2>4. ASSUME NEW j \in Session, j # i, call'[j] # "none", j \notin disturbed'
        PROVE  Holds(j)' /\ Alone(j)'
    <3>1. Holds(j) /\ Alone(j)
      BY <2>1, <2>2, <2>4 DEF SharedInv
    <3>2. Holds(j)'
      BY <2>1, <2>2, <2>3, <2>4, <3>1, HoldsStays
    <3>3. Alone(j)'
      BY <2>1, <3>1 DEF Alone
    <3> QED BY <3>2, <3>3
  <2>5. \A j \in Session : call'[j] = "framework" => Bare(given[j].vars)'
    BY <2>1, <2>2, <2>3 DEF SharedInv, Bare, ConfigValue
  <2> QED BY <2>1, <2>3, <2>4, <2>5 DEF SharedInv
<1> QED BY <1>1, <1>2, <1>3, <1>4, <1>5 DEF Next

\* However many sessions share a process, and wherever their Configure calls
\* fall, rejected ones among them: no request goes to a host that is not bare,
\* and a session no other Configure has come to sends what it gave
\* (config.go:30-49).
THEOREM SharedCorrect == Spec => UndisturbedSendsWhatItGave
<1>1. Init => IInv /\ SharedInv
  BY InitIInv, ConfigAssumption DEF Init, SharedInv
<1>2. IInv /\ SharedInv /\ [Next]_vars => IInv' /\ SharedInv'
  BY NextTypeOK, NextCalls, NextSharedInv DEF IInv
<1>3. ASSUME IInv, SharedInv, NEW i \in Session, Request(i)
      PROVE  /\ sent'.host \notin URLs
             /\ i \notin disturbed =>
                  LET Said(k) == ConfigValue(given[i].vars, k) IN
                  /\ sent'.key = Said("apiKey")
                  /\ sent'.site = Said("siteId") \/ Said("siteId") = Unset
                  /\ sent'.host = Said("apiHost") \/ Said("apiHost") = Unset
                  /\ sent'.verified => Said("allowInsecure") \notin Truthy
  <2>1. /\ sent'.key = p.apiKey /\ sent'.site = params /\ sent'.host = host
        /\ sent'.verified = (transport = "framework")
    BY <1>3 DEF Request
  <2>2. host \notin URLs /\ call[i] = "live" /\ (i \notin disturbed => Holds(i))
    BY <1>3 DEF SharedInv, Request
  <2> QED BY <2>1, <2>2 DEF Holds, Insecure
<1>4. IInv /\ SharedInv =>
        [\A i \in Session :
           Request(i) =>
             /\ sent'.host \notin URLs
             /\ i \notin disturbed =>
                  LET Said(k) == ConfigValue(given[i].vars, k) IN
                  /\ sent'.key = Said("apiKey")
                  /\ sent'.site = Said("siteId") \/ Said("siteId") = Unset
                  /\ sent'.host = Said("apiHost") \/ Said("apiHost") = Unset
                  /\ sent'.verified => Said("allowInsecure") \notin Truthy]_vars
  BY <1>3
<1> QED BY <1>1, <1>2, <1>4, PTL DEF Spec, UndisturbedSendsWhatItGave

-----------------------------------------------------------------------------
(* Sessions with a process of their own implement ConfiguredClient *)

\* The code's lookup and the promise's differ by the default only.
LEMMA LookupIsEffective ==
  ASSUME NEW v, NEW s, s.vars = v, s.env = env
  PROVE  /\ Promise!Effective(s, "apiKey") = ConfigValue(v, "apiKey")
         /\ Promise!Effective(s, "allowInsecure") = ConfigValue(v, "allowInsecure")
         /\ Promise!Effective(s, "siteId") =
              IF ConfigValue(v, "siteId") # Unset THEN ConfigValue(v, "siteId") ELSE DefaultSite
         /\ Promise!Effective(s, "apiHost") =
              IF ConfigValue(v, "apiHost") # Unset THEN ConfigValue(v, "apiHost") ELSE SpecHost
  BY DEF Promise!Effective, ConfigValue, Key

\* How far the Configure of the process's one session has come: what it has not
\* written yet is as makeProvider made it.
Settling(i) ==
  LET s == given[i] IN
  /\ ConfigValue(s.vars, "apiKey") # Unset
  /\ p.apiKey = ConfigValue(s.vars, "apiKey")
  /\ p.siteID = IF call[i] = "site" THEN DefaultSite ELSE Promise!Effective(s, "siteId")
  /\ call[i] \in {"site", "check"} => transport = "framework"
  /\ call[i] \in {"framework", "live"} =>
       /\ Bare(s.vars)
       /\ transport = IF Insecure(s.vars) THEN "insecure" ELSE "framework"
  /\ IF call[i] = "live"
       THEN params = Promise!Effective(s, "siteId") /\ host = Promise!Effective(s, "apiHost")
       ELSE host = SpecHost

OwnInv ==
  ~attached =>
    /\ proc = "up" => p = Fresh /\ transport = "framework" /\ host = SpecHost
    /\ \A i \in Session : call[i] # "none" => Settling(i)
    /\ sent # Unset => sessions # 0 /\ call[sessions] = "live"

LEMMA InitOwnInv == Init => OwnInv
  BY DEF Init, OwnInv

LEMMA OneSession ==
  ASSUME IInv, ~attached, NEW i \in Session, call[i] # "none"
  PROVE  i = sessions /\ sessions # 0 /\ \A j \in Session : j # i => call[j] = "none"
  BY DEF IInv, CallsInOrder, Session

LEMMA SettlingStays ==
  ASSUME NEW i \in Session, Settling(i), env' = env, given'[i] = given[i], call'[i] = call[i],
         UNCHANGED client
  PROVE  Settling(i)'
  BY DEF Settling, ConfigValue, Insecure, Bare, client

LEMMA NextOwnInv ==
  ASSUME IInv, OwnInv, [Next]_vars
  PROVE  OwnInv'
<1> USE DEF IInv
<1>0. attached' = attached
  BY DEF Next, MakeProvider, RejectNoKey, StoreKey, StoreSite, RejectHost, Accept,
         FrameworkConfigures, Request, EndSession, vars
<1>a. SUFFICES ASSUME ~attached
               PROVE  OwnInv'
  BY <1>0 DEF OwnInv
<1>1. CASE MakeProvider
  <2>1. Idle /\ call' = call /\ sent' = sent /\ sessions' = sessions
    BY <1>1 DEF MakeProvider, CallsInOrder, calls
  <2>2. sent = Unset
    BY <1>a, <2>1, ConfigAssumption DEF OwnInv, Idle, TypeOK, Session
  <2> QED BY <1>1, <2>1, <2>2 DEF MakeProvider, OwnInv, Idle
<1>2. CASE RejectNoKey
  <2>1. Idle /\ call' = call /\ sent' = sent /\ proc' = "down"
    BY <1>2, <1>a DEF RejectNoKey, Begin, CallsInOrder, calls, AfterSession
  <2>2. sent = Unset
    BY <1>a, <2>1, ConfigAssumption DEF OwnInv, Idle, TypeOK, Session
  <2> QED BY <2>1, <2>2 DEF OwnInv, Idle
<1>3. CASE StoreKey
  <2>1. PICK new \in Session :
          /\ new = sessions + 1 /\ call'[new] = "site"
          /\ \A j \in Session : j # new => call'[j] = call[j]
    BY <1>3, StoreKeyFacts
  <2>2. PICK v \in Variables : /\ ConfigValue(v, "apiKey") # Unset
                               /\ p'.apiKey = ConfigValue(v, "apiKey") /\ p'.siteID = p.siteID
                               /\ given'[new] = [vars |-> v, env |-> env]
    BY <1>3, <2>1, StoreKeyFacts
  <2>3. Idle /\ p = Fresh /\ transport = "framework" /\ host = SpecHost
    BY <1>3, <1>a DEF StoreKey, Begin, CallsInOrder, OwnInv
  <2>4. sent = Unset
    BY <1>a, <2>3, ConfigAssumption DEF OwnInv, Idle, TypeOK, Session
  <2>5. UNCHANGED <<env, transport, params, host, sent>> /\ proc' = "taken"
    BY <1>3, <1>a DEF StoreKey
  <2>6. Settling(new)'
    BY <2>1, <2>2, <2>3, <2>5 DEF Settling, ConfigValue, Fresh
  <2> QED BY <2>1, <2>3, <2>4, <2>5, <2>6 DEF OwnInv, Idle
<1>4. ASSUME NEW i \in Session, StoreSite(i) \/ Accept(i) \/ FrameworkConfigures(i)
      PROVE  OwnInv'
  <2>1. /\ call[i] \in {"site", "check", "framework"} /\ call'[i] # "none"
        /\ \A j \in Session : j # i => call'[j] = call[j]
    BY <1>4, AdvanceType DEF StoreSite, Accept, FrameworkConfigures, Steps, Advance
  <2>2. UNCHANGED <<env, given, sent, sessions, proc>>
    BY <1>4 DEF StoreSite, Accept, FrameworkConfigures
  <2>3. /\ i = sessions /\ \A j \in Session : j # i => call[j] = "none"
        /\ proc # "up" /\ sent = Unset
    BY <1>a, <2>1, OneSession DEF CallsInOrder, Idle, OwnInv
  <2>4. Settling(i) /\ given[i] \in Settings
    BY <1>a, <2>1, GivenType DEF OwnInv
  <2>5. /\ Promise!Effective(given[i], "siteId") =
             IF ConfigValue(given[i].vars, "siteId") # Unset
               THEN ConfigValue(given[i].vars, "siteId") ELSE DefaultSite
        /\ Promise!Effective(given[i], "apiHost") =
             IF ConfigValue(given[i].vars, "apiHost") # Unset
               THEN ConfigValue(given[i].vars, "apiHost") ELSE SpecHost
    BY <2>4, LookupIsEffective DEF Settings
  <2>6. \A s, k : Promise!Effective(s, k)' = Promise!Effective(s, k)
    BY DEF Promise!Effective
  <2>7. Settling(i)'
    <3>3. CASE StoreSite(i)
      <4>1. /\ call[i] = "site" /\ call'[i] = "check" /\ p'.apiKey = p.apiKey
            /\ p'.siteID = NewSite(given[i].vars) /\ UNCHANGED <<transport, params, host>>
        BY <3>3, AdvanceType DEF StoreSite, Steps, TypeOK
      <4> QED BY <2>2, <2>4, <2>5, <2>6, <4>1 DEF Settling, ConfigValue, NewSite
    <3>4. CASE Accept(i)
      <4>1. /\ call[i] = "check" /\ call'[i] = "framework" /\ UNCHANGED <<p, params, host>>
            /\ transport' = IF Insecure(given[i].vars) THEN "insecure" ELSE transport
            /\ Bare(given[i].vars)
        BY <3>4, AdvanceType DEF Accept, Steps
      <4> QED BY <2>2, <2>4, <2>6, <4>1 DEF Settling, ConfigValue, Insecure, Bare
    <3>5. CASE FrameworkConfigures(i)
      <4>1. /\ call[i] = "framework" /\ call'[i] = "live" /\ UNCHANGED <<p, transport>>
            /\ params' = p.siteID /\ host' = NewHost(given[i].vars)
        BY <3>5, AdvanceType DEF FrameworkConfigures, Steps
      <4> QED BY <2>2, <2>4, <2>5, <2>6, <4>1 DEF Settling, ConfigValue, Insecure, Bare, NewHost
    <3> QED BY <1>4, <3>3, <3>4, <3>5
  <2> QED BY <2>1, <2>2, <2>3, <2>7 DEF OwnInv
<1>5. ASSUME NEW i \in Session, RejectHost(i) \/ EndSession(i)
      PROVE  OwnInv'
  <2>1. /\ call[i] \in {"check", "live"} /\ call'[i] = "none"
        /\ \A j \in Session : j # i => call'[j] = call[j]
    BY <1>5, AdvanceType DEF RejectHost, EndSession, Steps, Advance
  <2>2. i = sessions /\ \A j \in Session : call'[j] = "none"
    BY <1>a, <2>1, OneSession
  <2>3. proc' = "down" /\ sent' = Unset
    BY <1>5, <1>a, <2>1, <2>2, OverType DEF RejectHost, EndSession, Advance, OwnInv
  <2> QED BY <2>2, <2>3 DEF OwnInv
<1>6. ASSUME NEW i \in Session, Request(i)
      PROVE  OwnInv'
  <2>1. UNCHANGED <<proc, env, client, call, given, sessions>> /\ call[i] = "live"
    BY <1>6 DEF Request, calls
  <2>2. i = sessions /\ sessions # 0
    BY <1>a, <2>1, OneSession
  <2>3. \A j \in Session : Settling(j) => Settling(j)'
    BY <2>1, SettlingStays
  <2> QED BY <1>a, <2>1, <2>2, <2>3 DEF OwnInv, client
<1>7. CASE UNCHANGED vars
  <2>1. UNCHANGED <<proc, env, client, call, given, sent, sessions>>
    BY <1>7 DEF vars, calls
  <2>2. \A j \in Session : Settling(j) => Settling(j)'
    BY <2>1, SettlingStays
  <2> QED BY <1>a, <2>1, <2>2 DEF OwnInv, client
<1> QED BY <1>1, <1>2, <1>3, <1>4, <1>5, <1>6, <1>7 DEF Next

\* A settled session is one the promise would have accepted, and a request of
\* its is the promised one.
LEMMA SettledIsPromised ==
  ASSUME IInv, NEW i \in Session, call[i] # "none", Settling(i)
  PROVE  LET s == given[i] IN
         /\ s \in [vars : Variables, env : Envs] /\ s # Unset
         /\ p.apiKey = Promise!Effective(s, "apiKey")
         /\ call[i] \in {"framework", "live"} =>
              /\ Promise!Acceptable(s)
              /\ (transport = "framework") = (Promise!Effective(s, "allowInsecure") \notin Truthy)
<1>1. given[i] \in Settings /\ env \in Envs
  BY GivenType DEF IInv, TypeOK
<1>2. given[i] \in [vars : Variables, env : Envs] /\ given[i].env = env
  BY <1>1 DEF Settings
<1> QED BY <1>1, <1>2, LookupIsEffective, ConfigAssumption
        DEF Settling, Promise!Acceptable, Bare, Insecure

LEMMA StepKeepsThePromise ==
  ASSUME IInv, OwnInv, [Next]_vars
  PROVE  [Promise!Next]_(Promise!vars)
<1> USE DEF IInv
<1>0. attached' = attached
  BY DEF Next, MakeProvider, RejectNoKey, StoreKey, StoreSite, RejectHost, Accept,
         FrameworkConfigures, Request, EndSession, vars
<1>1. CASE attached
  BY <1>0, <1>1 DEF Promise!vars, OwnSession
<1>a. SUFFICES ASSUME ~attached
               PROVE  [Promise!Next]_(Promise!vars)
  BY <1>1
<1>b. sessions # 0 => sessions \in Session
  BY ConfigAssumption DEF TypeOK, Session
<1>2. CASE MakeProvider \/ UNCHANGED vars
  <2>1. UNCHANGED <<call, given, sessions, sent>>
    BY <1>2 DEF MakeProvider, vars, calls
  <2> QED BY <1>0, <2>1 DEF Promise!vars, OwnSession
<1>3. CASE RejectNoKey \/ StoreKey
  <2>1. Idle /\ sent' = sent
    BY <1>3, <1>a DEF RejectNoKey, StoreKey, Begin, CallsInOrder
  <2>2. OwnSession = Unset
    BY <1>b, <2>1 DEF OwnSession, Idle
  <2>3. /\ sessions' \in Session /\ call'[sessions'] # "live"
    BY <1>3, <2>1, StoreKeyFacts, ConfigAssumption
    DEF RejectNoKey, Begin, TypeOK, Session, calls, Idle
  <2>4. OwnSession' = Unset
    BY <2>3 DEF OwnSession
  <2> QED BY <1>0, <2>1, <2>2, <2>4 DEF Promise!vars
<1>4. ASSUME NEW i \in Session, StoreSite(i) \/ Accept(i) \/ RejectHost(i)
      PROVE  [Promise!Next]_(Promise!vars)
  <2>1. /\ call[i] \in {"site", "check"} /\ call'[i] # "live"
        /\ sessions' = sessions /\ sent' = sent
    BY <1>4, AdvanceType DEF StoreSite, Accept, RejectHost, Steps, Advance
  <2>2. i = sessions /\ sessions # 0
    BY <1>a, <2>1, OneSession
  <2>3. OwnSession = Unset /\ OwnSession' = Unset
    BY <2>1, <2>2 DEF OwnSession
  <2> QED BY <1>0, <2>1, <2>3 DEF Promise!vars
<1>5. ASSUME NEW i \in Session, FrameworkConfigures(i)
      PROVE  [Promise!Next]_(Promise!vars)
  <2>1. /\ call[i] = "framework" /\ call'[i] = "live"
        /\ sessions' = sessions /\ sent' = sent /\ given' = given
    BY <1>5, AdvanceType DEF FrameworkConfigures, Steps
  <2>2. i = sessions /\ sessions # 0
    BY <1>a, <2>1, OneSession
  <2>3. /\ Promise!Acceptable(given[i]) /\ given[i] \in [vars : Variables, env : Envs]
    BY <1>a, <2>1, SettledIsPromised DEF OwnInv
  <2>4. OwnSession = Unset /\ OwnSession' = given[i]
    BY <1>0, <1>a, <2>1, <2>2 DEF OwnSession
  <2> QED BY <1>0, <2>1, <2>3, <2>4 DEF Promise!Next, Promise!Configures
<1>6. ASSUME NEW i \in Session, Request(i)
      PROVE  [Promise!Next]_(Promise!vars)
  <2>1. /\ call[i] = "live" /\ UNCHANGED <<call, given, sessions>>
        /\ sent' = [key |-> p.apiKey, site |-> params, host |-> host,
                    verified |-> transport = "framework"]
    BY <1>6 DEF Request, calls
  <2>2. i = sessions /\ sessions # 0 /\ Settling(i)
    BY <1>a, <2>1, OneSession DEF OwnInv
  <2>3. /\ OwnSession = given[i] /\ OwnSession' = given[i] /\ given[i] # Unset
    BY <1>0, <1>a, <2>1, <2>2, SettledIsPromised DEF OwnSession
  <2>4. /\ p.apiKey = Promise!Effective(given[i], "apiKey")
        /\ params = Promise!Effective(given[i], "siteId")
        /\ host = Promise!Effective(given[i], "apiHost")
        /\ (transport = "framework") = (Promise!Effective(given[i], "allowInsecure") \notin Truthy)
    BY <2>1, <2>2, SettledIsPromised DEF Settling
  <2>5. sent' = [key      |-> Promise!Effective(given[i], "apiKey"),
                 site     |-> Promise!Effective(given[i], "siteId"),
                 host     |-> Promise!Effective(given[i], "apiHost"),
                 verified |-> Promise!Effective(given[i], "allowInsecure") \notin Truthy]
    BY <2>1, <2>4
  <2> QED BY <1>0, <1>a, <2>3, <2>5 DEF Promise!Next, Promise!Requests
<1>7. ASSUME NEW i \in Session, EndSession(i)
      PROVE  [Promise!Next]_(Promise!vars)
  <2>1. call[i] = "live" /\ call'[i] = "none" /\ sessions' = sessions /\ sent' = Unset
    BY <1>7, AdvanceType DEF EndSession, Steps
  <2>2. i = sessions /\ sessions # 0
    BY <1>a, <2>1, OneSession
  <2>3. OwnSession' = Unset
    BY <2>1, <2>2 DEF OwnSession
  <2> QED BY <1>0, <1>a, <2>1, <2>3 DEF Promise!Next, Promise!Ends
<1> QED BY <1>2, <1>3, <1>4, <1>5, <1>6, <1>7 DEF Next

\* With a process for every session, a request is a function of its own
\* session's variables and environment: what a rejected Configure stored, or
\* an earlier session, never shows (config.go:19-72).
THEOREM ConfigCorrect == Spec => RequestsFollowTheirSession
<1>1. IInv /\ OwnInv /\ [Next]_vars => IInv' /\ OwnInv'
  BY NextTypeOK, NextCalls, NextOwnInv DEF IInv
<1>2. Init => Promise!Init
  BY DEF Init, Promise!Init, OwnSession
<1>3. IInv /\ OwnInv /\ [Next]_vars => [Promise!Next]_(Promise!vars)
  BY StepKeepsThePromise
<1> QED
  BY InitIInv, InitOwnInv, <1>1, <1>2, <1>3, PTL DEF Spec, RequestsFollowTheirSession, Promise!Spec
=============================================================================
