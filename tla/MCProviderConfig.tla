-------------------------- MODULE MCProviderConfig --------------------------
(***************************************************************************)
(* Small instances of ProviderConfig.tla: two keys, two sites, two bare    *)
(* hosts and a URL, a flag that is on, off or misspelt, and environments   *)
(* with and without each fallback.                                         *)
(***************************************************************************)
EXTENDS ProviderConfig

OneURL == {"url"}
Yes == {"true"}
Both == BOOLEAN
Typo == {"yess"}

MCValues ==
  [apiKey |-> {Unset, "k1", "k2"}, siteId |-> {Unset, "s1"},
   apiHost |-> {Unset, "h1", "url"}, allowInsecure |-> {Unset, "true", "false", "yess"}]

Environment(key, site, name, insecure) ==
  [apiKey |-> key, siteId |-> site, apiHost |-> name, allowInsecure |-> insecure]

\* None of the fallbacks, all of them, a URL, and a flag that is off.
MCEnvs ==
  {Environment(Unset, Unset, Unset, Unset), Environment("k3", "s2", "h2", "true"),
   Environment("k3", Unset, "url", Unset), Environment(Unset, "s2", Unset, "false")}
=============================================================================
