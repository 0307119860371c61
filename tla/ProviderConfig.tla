--------------------------- MODULE ProviderConfig ---------------------------
(***************************************************************************)
(* The configuration of the provider process: makeProvider, OnConfigure    *)
(* (provider/pkg/provider/config.go) and what the REST framework makes of  *)
(* them when it sends a request.                                           *)
(*                                                                         *)
(* A Pulumi session configures the provider once and then sends requests.  *)
(* It starts a process of its own, or (attached) connects to one that is   *)
(* already running, as one does to debug a provider.  Such a process sees  *)
(* a Configure at any time, while earlier sessions still send and earlier  *)
(* Configures are still under way: nothing locks the callback's fields, so *)
(* a call's writes are steps of their own.  The framework is external:     *)
(* after OnConfigure it takes the path parameters, and puts the configured *)
(* host, when there is one, in the place of the base URL's.  Requests      *)
(* carry the key of the moment; the transport is the HTTP client's.        *)
(***************************************************************************)
EXTENDS Integers

CONSTANTS
  Values,      \* [Key -> the values a configuration variable may have]
  Envs,        \* the environments a session may run in, [Key -> value]
  Unset,       \* a value that is missing or empty
  DefaultSite, \* defaultSiteID
  SpecHost,    \* the host of the generated server URL
  URLs,        \* hosts with a slash in them
  Truthy,      \* values that strconv.ParseBool reads as true
  Unparsable,  \* values it gives an error for, the empty one apart
  Attachments, \* whether sessions share one process: FALSE, TRUE or either
  MaxSessions

Key == {"apiKey", "siteId", "apiHost", "allowInsecure"}

Variables == {v \in [Key -> UNION {Values[k] : k \in Key}] : \A k \in Key : v[k] \in Values[k]}

\* Every variable may be left out.
ASSUME ConfigAssumption ==
  /\ DOMAIN Values = Key /\ \A k \in Key : Unset \in Values[k]
  /\ Attachments \subseteq BOOLEAN /\ MaxSessions \in Nat
  /\ DefaultSite # Unset /\ SpecHost # Unset /\ SpecHost \notin URLs
  /\ Unset \notin [vars : Variables, env : Envs]

VARIABLES
  attached,  \* whether the sessions share one process
  proc,      \* "down", "up", or "taken": its one session has come
  env,       \* the process environment
  p,         \* the callback's fields: [apiKey, siteID]
  transport, \* the client's: "framework" or "insecure"
  params,    \* the framework's global siteId
  host,      \* the base URL's host
  call,      \* session -> what its Configure does next; "live" once accepted
  given,     \* session -> its settings while it is under way, or Unset
  disturbed, \* sessions another Configure has stored a key during
  sent,      \* the last request, or Unset
  asked,     \* a session of this process that got past its checks asked not to verify
  sessions   \* sessions begun

client == <<p, transport, params, host>>
calls  == <<call, given, disturbed>>
vars   == <<attached, proc, env, client, calls, sent, asked, sessions>>

Session == 1..MaxSessions
Steps   == {"none", "site", "check", "framework", "live"}

Fresh == [apiKey |-> Unset, siteID |-> DefaultSite]

Init ==
  /\ attached \in Attachments /\ proc = "down" /\ env \in Envs
  /\ p = Fresh /\ transport = "framework" /\ params = Unset /\ host = SpecHost
  /\ call = [i \in Session |-> "none"] /\ given = [i \in Session |-> Unset]
  /\ disturbed = {} /\ sent = Unset /\ asked = FALSE /\ sessions = 0

-----------------------------------------------------------------------------
\* Broken: the environment comes first.
EnvValue(v, k) == IF env[k] # Unset THEN env[k] ELSE v[k]

\* The variable when it says something, else the key's environment fallback.
ConfigValue(v, k) == IF v[k] # Unset THEN v[k] ELSE env[k]

\* makeProvider, in a new process.
MakeProvider ==
  /\ proc = "down" /\ sessions < MaxSessions
  /\ proc' = "up"
  /\ env' \in Envs
  /\ p' = Fresh /\ transport' = "framework" /\ params' = Unset /\ host' = SpecHost
  /\ asked' = FALSE
  /\ UNCHANGED <<attached, calls, sent, sessions>>

AfterSession == IF attached THEN "up" ELSE "down"

Begin == proc = "up" /\ sessions < MaxSessions /\ sessions' = sessions + 1

UnderWay == {i \in Session : call[i] # "none"}
InFlight == {i \in UnderWay : call[i] # "live"}

\* OnConfigure's first error: nothing is stored yet.
RejectNoKey ==
  /\ Begin
  /\ \E v \in Variables : ConfigValue(v, "apiKey") = Unset
  /\ proc' = AfterSession
  /\ UNCHANGED <<attached, env, client, calls, sent, asked>>

\* Broken: a provider that has a key keeps it.
FirstKey(v) == IF p.apiKey # Unset THEN p.apiKey ELSE ConfigValue(v, "apiKey")

NewKey(v) == ConfigValue(v, "apiKey")

StoreKey ==
  /\ Begin
  /\ \E v \in Variables :
       /\ ConfigValue(v, "apiKey") # Unset
       /\ p' = [p EXCEPT !.apiKey = NewKey(v)]
       /\ given' = [given EXCEPT ![sessions + 1] = [vars |-> v, env |-> env]]
  /\ call' = [call EXCEPT ![sessions + 1] = "site"]
  /\ disturbed' = disturbed \cup UnderWay
                    \cup (IF InFlight = {} THEN {} ELSE {sessions + 1})
  /\ proc' = IF attached THEN "up" ELSE "taken"
  /\ UNCHANGED <<attached, env, transport, params, host, sent, asked>>

Advance(i, from, to) == call[i] = from /\ call' = [call EXCEPT ![i] = to]

\* Broken: a siteId that is not given is stored all the same.
SiteAsGiven(v) == ConfigValue(v, "siteId")

\* A siteId that is not given leaves the field as it is.
NewSite(v) == IF ConfigValue(v, "siteId") # Unset THEN ConfigValue(v, "siteId") ELSE p.siteID

StoreSite(i) ==
  /\ Advance(i, "site", "check")
  /\ p' = [p EXCEPT !.siteID = NewSite(given[i].vars)]
  /\ UNCHANGED <<attached, proc, env, transport, params, host, given, disturbed, sent, asked,
                 sessions>>

Bare(v) == ConfigValue(v, "apiHost") \notin URLs

\* Session i is over.
Over(i) ==
  /\ given' = [given EXCEPT ![i] = Unset]
  /\ disturbed' = disturbed \ {i}
  /\ proc' = AfterSession

\* Its second error comes when the key and the site are stored, and stay so.
RejectHost(i) ==
  /\ Advance(i, "check", "none")
  /\ ~Bare(given[i].vars)
  /\ Over(i)
  /\ UNCHANGED <<attached, env, client, sent, asked, sessions>>

\* Broken: whatever is not plainly off is on.
InsecureUnlessFalse(v) == ConfigValue(v, "allowInsecure") \in Truthy \cup Unparsable

Insecure(v) == ConfigValue(v, "allowInsecure") \in Truthy

\* What the user said, for the history variable only.
AsksInsecure(v) ==
  \/ v["allowInsecure"] \in Truthy
  \/ v["allowInsecure"] = Unset /\ env["allowInsecure"] \in Truthy

Accept(i) ==
  /\ Advance(i, "check", "framework")
  /\ Bare(given[i].vars)
  /\ transport' = IF Insecure(given[i].vars) THEN "insecure" ELSE transport
  /\ asked' = (asked \/ AsksInsecure(given[i].vars))
  /\ UNCHANGED <<attached, proc, env, p, params, host, given, disturbed, sent, sessions>>

\* The framework's raw baseURL.Host = apiHost.
NewHost(v) == IF ConfigValue(v, "apiHost") # Unset THEN ConfigValue(v, "apiHost") ELSE host

\* GetGlobalPathParams and the host, after OnConfigure has returned.
FrameworkConfigures(i) ==
  /\ Advance(i, "framework", "live")
  /\ params' = p.siteID
  /\ host' = NewHost(given[i].vars)
  /\ UNCHANGED <<attached, proc, env, p, transport, given, disturbed, sent, asked, sessions>>

\* The headers, path, URL and client of one request.
Request(i) ==
  /\ call[i] = "live"
  /\ sent' = [key |-> p.apiKey, site |-> params, host |-> host,
              verified |-> transport = "framework"]
  /\ UNCHANGED <<attached, proc, env, client, calls, asked, sessions>>

EndSession(i) ==
  /\ Advance(i, "live", "none")
  /\ Over(i)
  /\ sent' = Unset
  /\ UNCHANGED <<attached, env, client, asked, sessions>>

Next ==
  \/ MakeProvider \/ RejectNoKey \/ StoreKey
  \/ \E i \in Session : \/ StoreSite(i) \/ RejectHost(i) \/ Accept(i)
                         \/ FrameworkConfigures(i) \/ Request(i) \/ EndSession(i)

Spec == Init /\ [][Next]_vars

-----------------------------------------------------------------------------
(* Properties *)

\* Each field holds what its writers can put there (provider.go:34-61).
TypeOK ==
  /\ attached \in Attachments /\ proc \in {"down", "up", "taken"}
  /\ env \in Envs
  /\ p \in [apiKey : Values["apiKey"] \cup {env["apiKey"], Unset},
            siteID : Values["siteId"] \cup {e["siteId"] : e \in Envs} \cup {DefaultSite}]
  /\ p.siteID # Unset
  /\ transport \in {"framework", "insecure"}
  /\ call \in [Session -> Steps] /\ disturbed \subseteq UnderWay
  /\ given \in [Session -> [vars : Variables, env : {env}] \cup {Unset}]
  /\ \A i \in Session : given[i] = Unset <=> call[i] = "none"
  /\ params = Unset => \A i \in Session : call[i] # "live"
  /\ sessions \in 0..MaxSessions

\* The settings of a session that has a process of its own, once accepted.
OwnSession ==
  IF attached \/ sessions = 0 THEN Unset
  ELSE IF call[sessions] = "live" THEN given[sessions] ELSE Unset

Promise ==
  INSTANCE ConfiguredClient WITH
    session  <- OwnSession,
    sent     <- IF attached THEN Unset ELSE sent,
    Settings <- [vars : Variables, env : Envs],
    Defaults <- [k \in Key |-> CASE k = "siteId"  -> DefaultSite
                                 [] k = "apiHost" -> SpecHost
                                 [] OTHER         -> Unset]

\* With a process for every session, a request is a function of its own
\* session's variables and environment: what an earlier session, or a
\* rejected one, left behind never shows (config.go:19-72).
RequestsFollowTheirSession == Promise!Spec

\* What a shared process still promises.  No request goes to a host that is
\* not bare.  And a session that no other Configure has stored a key during
\* (accepted or not: config.go:34 comes before the check at 47) sends the key,
\* the site and the host that it gave, and skips verification if it said so.
\* What it left unsaid may be an earlier session's, and one that another
\* Configure has come to sends that one's key, even of a refused one, to its
\* own host.
UndisturbedSendsWhatItGave ==
  [][\A i \in Session :
       Request(i) =>
         /\ sent'.host \notin URLs
         /\ i \notin disturbed =>
              LET Said(k) == ConfigValue(given[i].vars, k) IN
              /\ sent'.key = Said("apiKey")
              /\ sent'.site = Said("siteId") \/ Said("siteId") = Unset
              /\ sent'.host = Said("apiHost") \/ Said("apiHost") = Unset
              /\ sent'.verified => Said("allowInsecure") \notin Truthy]_vars

\* Certificates go unverified only in a process where a session that got past
\* the checks asked for it in so many words: never by a typo or a rejected
\* session (config.go:51-65).
InsecureWasAskedFor == transport = "insecure" => asked
=============================================================================
