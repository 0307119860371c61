---------------------------- MODULE MCGenPipeline ----------------------------
(***************************************************************************)
(* Small instances of GenPipeline.tla: one split entity with two variants, *)
(* a flat one and an action RPC the mapping excludes, three list reads and *)
(* a get, and documents that each depart from the pinned one in some way:  *)
(* without the split entity ("noDns") its prefix and descriptions are dead *)
(* entries, and the build goes through.                                    *)
(***************************************************************************)
EXTENDS GenPipeline, FiniteSetsExt, TLC

CONSTANT Deviations   \* the ways a document may depart, a subset of Ways

Ways == {"noItem", "twoItems", "noItemGet", "noCreate", "lostVariant",
         "twinVariant", "flatDns", "splitZone", "noType", "readOnly",
         "takenName", "takenAuto", "takenFunction", "takenList", "noVoucher",
         "plainPage", "ownRead", "noVlan", "noSecret", "noSummary", "noDns"}

EveryWay == Ways
NoWay == {}

Paths == {"dns", "dnsId", "dnsRec", "zones", "zonesId", "vouchers", "voucherId"}

None == [v \in Verb |-> NoPath]
At(create, read) == [None EXCEPT !.C = create, !.R = read]

\* The document that departs from the pinned one in the ways of d.
Document(d) ==
  LET has(w) == w \in d
      flat == IF has("takenName") THEN {"DnsARecord"} ELSE {}
      rpc  == IF has("noVoucher") THEN {} ELSE {"Voucher"}
      dns  == IF has("noDns") THEN {} ELSE {"ARecord", "MxRecord"}
      res  == {"Zone"} \cup dns \cup flat \cup rpc
      extraFn == (IF has("takenFunction") THEN {"getZone"} ELSE {})
                   \cup (IF has("takenList") THEN {"getPolicyPage"} ELSE {})
                   \cup (IF has("plainPage") THEN {"getReportPage"} ELSE {})
      fns  == {"getDnsPage", "getIntegrationZone", "getPolicie", "getVoucher"} \cup extraFn
      dtos == {"DnsCreateUpdate"}
      envelope == {"data", "limit", "offset", "count"}
  IN
  [resources |->
     [t \in res |->
        CASE t \in {"ARecord", "MxRecord"} ->
               {"siteId", "domain"} \cup (IF has("noType") THEN {} ELSE {"type"})
          [] t = "Zone" -> {"siteId", "name"} \cup (IF has("noVlan") THEN {} ELSE {"vlanId"})
          [] t = "Voucher" -> {"siteId", "vlanId"}
          [] OTHER -> {"siteId", "name"}],
   functions |->
     [f \in fns |->
        CASE f = "getDnsPage" -> "DnsPage"
          [] f = "getPolicie" -> "PolicyPage"
          [] f = "getPolicyPage" -> "PolicyListPage"
          [] f = "getReportPage" -> "Report"
          [] f = "getVoucher" -> "VoucherDetails"
          [] OTHER -> "Zone"],
   types |->
     [y \in {"DnsPage", "PolicyPage", "PolicyListPage"} |-> envelope]
       @@ ("Report" :> {"data", "limit"})
       @@ ("Zone" :> {"name"})
       @@ ("VoucherDetails" :> IF has("noSecret") THEN {"id"} ELSE {"id", "code"}),
   crud |->
     [t \in res \cup fns \cup dtos |->
        CASE t = "ARecord" /\ has("ownRead") -> At("dns", "dnsRec")
          [] t \in {"ARecord", "MxRecord"} \cup dtos -> At("dns", NoPath)
          [] t = "Zone" -> At(IF has("noCreate") THEN NoPath ELSE "zones", "zonesId")
          [] t = "Voucher" -> At("vouchers", "voucherId")
          [] t = "DnsARecord" -> At("zones", NoPath)
          [] t = "getDnsPage" -> At(NoPath, "dns")
          [] t = "getVoucher" -> At(NoPath, "voucherId")
          [] OTHER -> At(NoPath, "zones")],
   auto |-> ({"Zone", "ARecord"} \cap res) \cup (IF has("takenAuto") THEN {"DnsARecord"} ELSE {}),
   items |->
     [p \in {"dns", "zones", "vouchers"} |->
        CASE p = "dns" /\ has("noItem")   -> {}
          [] p = "dns" /\ has("twoItems") -> {"dnsId", "dnsRec"}
          [] p = "dns"      -> {"dnsId"}
          [] p = "zones"    -> {"zonesId"}
          [] p = "vouchers" -> {"voucherId"}],
   methods |->
     [p \in {"dnsId", "dnsRec", "zonesId", "voucherId"} |->
        CASE p = "dnsId" /\ has("noItemGet") -> {"put", "delete"}
          [] p = "voucherId" -> {"get", "delete"}
          [] OTHER -> {"get", "put", "delete"}],
   discs |->
     [p \in {"dns", "zones", "vouchers"} |->
        CASE p = "dns" /\ ~has("flatDns") ->
               [field |-> "type",
                names |->
                  ("A" :> "ARecord")
                    @@ (IF has("lostVariant") THEN ("X" :> "XRecord") ELSE ("MX" :> "MxRecord"))
                    @@ (IF has("twinVariant") THEN ("a" :> "ARecord") ELSE ("A" :> "ARecord"))]
          [] p = "zones" /\ has("splitZone") ->
               [field |-> "name", names |-> ("ZONE" :> "Zone")]
          [] OTHER -> NoDisc],
   readOnly |->
     [p \in {"dns", "zones", "vouchers"} |->
        IF p = "dns" /\ has("readOnly") THEN {"domain", "etag"} ELSE {}],
   summaries |->
     {<<p, m>> \in Paths \X {"post", "get"} : ~(has("noSummary") /\ p = "zones")}]

\* Up to three ways together, for the interplay of departures.
MCSpecs == {Document(d) : d \in UNION {kSubset(k, Deviations) : k \in 0..3}}

MCEntityPrefix == ("dns" :> "Dns")
MCJoined == (<<"Dns", "ARecord">> :> "DnsARecord") @@ (<<"Dns", "MxRecord">> :> "DnsMxRecord")
\* One new name is an old one that moves in its turn.
MCNormalized == ("getIntegrationZone" :> "getZone") @@ ("getZone" :> "listZones")
                  @@ ("getPolicie" :> "listPolicies")
MCListName == ("getDnsPage" :> "listDnsPolicies") @@ ("getPolicyPage" :> "listPolicies")
                @@ ("getReportPage" :> "listReports")
MCExcluded == {"Voucher"}
MCImmutable == {"siteId", "vlanId"}
MCSecretProps == {<<"VoucherDetails", "code">>}
MCOverrides == {"DnsARecord", "DnsMxRecord", "Zone"}
=============================================================================
