-------------------------- MODULE ConfiguredClient --------------------------
(***************************************************************************)
(* What the configuration of the provider promises: a session is either    *)
(* refused or configured, and every request of a configured session is a   *)
(* function of that session's own configuration and environment.           *)
(***************************************************************************)
CONSTANTS
  Settings,  \* what a session may be given: [vars, env], each [Key -> value]
  Unset,     \* a value that is missing or empty
  Defaults,  \* [Key -> value] where neither says anything
  URLs,      \* hosts that are not bare
  Truthy     \* values that ask for the insecure transport

VARIABLES
  session,   \* the settings of the session under way, or Unset
  sent       \* the last request: [key, site, host, verified], or Unset

Key == {"apiKey", "siteId", "apiHost", "allowInsecure"}

\* The first of variable, environment and default that says something.
Effective(s, k) ==
  CASE s.vars[k] # Unset                   -> s.vars[k]
    [] s.vars[k] = Unset /\ s.env[k] # Unset -> s.env[k]
    [] OTHER                                -> Defaults[k]

Acceptable(s) == Effective(s, "apiKey") # Unset /\ Effective(s, "apiHost") \notin URLs

Configures ==
  /\ session = Unset
  /\ session' \in {s \in Settings : Acceptable(s)}
  /\ UNCHANGED sent

Requests ==
  /\ session # Unset
  /\ sent' = [key      |-> Effective(session, "apiKey"),
              site     |-> Effective(session, "siteId"),
              host     |-> Effective(session, "apiHost"),
              verified |-> Effective(session, "allowInsecure") \notin Truthy]
  /\ UNCHANGED session

Ends == session' = Unset /\ sent' = Unset

vars == <<session, sent>>
Init == session = Unset /\ sent = Unset
Next == Configures \/ Requests \/ Ends

Spec == Init /\ [][Next]_vars
=============================================================================
