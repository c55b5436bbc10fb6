---------------------------- MODULE MCViewPages -----------------------------
(* Small lists for the pages of ViewPages: names that differ in case, two  *)
(* backup files of saved filters (one of them with a repeated name and     *)
(* more entries than are kept), failures of which one has no date, five    *)
(* deployments with every status, a compose project with a proxy, and a    *)
(* selection of settings of services.                                      *)
EXTENDS ViewPages

MCNames == {"a", "A", "b", "c"}
MCNameKey == [n \in MCNames |-> IF n = "A" THEN "a" ELSE n]
Custom == [period |-> "custom", date |-> 1]
AllTime == [period |-> "all", date |-> 1]
Saved(n, f) == [name |-> n, filters |-> f]
MCFilterFiles ==
    {<<Saved("A", Custom)>>,
     <<Saved("a", Custom), Saved("A", AllTime), Saved("b", AllTime), Saved("c", Custom)>>}

MCEntryType == <<"login", "external_api", "login">>
MCEntryDay == <<1, 0, 8>>

Deployment(v, st, fs, t, d, a, s, ms) ==
    [version |-> v, status |-> st, stage |-> fs, took |-> t, day |-> d,
     archived |-> a, sample |-> s, stages |-> ms]
MCDeployments ==
    {Deployment("v4", "success", "none", 40, 3, FALSE, "none", [build |-> 15, migration |-> 5]),
     Deployment("v3", "failed_before_switch", "build", 90, 2, FALSE, "none", [build |-> 80]),
     Deployment("v3", "rolled_back", "none", 95, 2, FALSE, "none", << >>),
     Deployment("v2", "success", "none", -1, 1, TRUE, "detailed", [build |-> 10]),
     Deployment("v1", "rollback_failed", "none", 20, 1, TRUE, "daily", << >>)}

Container(n, p, x, h, s) == [name |-> n, project |-> p, proxy |-> x, http |-> h, score |-> s]
MCContainers ==
    {Container("app", "a", FALSE, TRUE, 0), Container("nginx", "a", TRUE, TRUE, 2),
     Container("gateway", "a", FALSE, TRUE, 3), Container("db", "a", FALSE, FALSE, 0)}
MCStoredServices ==
    {s \in Storable : /\ s.redirect = s.tls /\ s.skip = s.https /\ s.tls = s.https
                      /\ s.rateOn = s.basic /\ s.basic = (s.auth = "none")
                      /\ s.tls = (s.group = NoGroup)}

MCGeneratedFor ==
    {s \in GeneratorSettings : /\ s.httpsRedirect = s.basic /\ s.rateLimit = (s.auth = "token")
                               /\ (s.auth = "none" => s.basic)}

=============================================================================
