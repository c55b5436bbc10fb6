--------------------------- MODULE MCManagerParts ----------------------------
(* Three backup files: a good one, one that names an entry twice and one   *)
(* that the backend cannot resolve, and one that is not JSON.  Accounts    *)
(* are explored in campaigns: changes of users beside each other, changes  *)
(* beside logins, all kinds of changes one after the other, deletions and  *)
(* creations beside each other, and revocations beside touching requests   *)
(* and the end of a session's time.                                        *)
EXTENDS ManagerParts

Item(domain, known) == [domain |-> domain, known |-> known]

MCBackupFiles ==
    [good    |-> [services |-> <<Item("d1", TRUE), Item("d2", TRUE)>>, redirects |-> << >>],
     unknown |-> [services |-> <<Item("d2", TRUE), Item("d2", TRUE), Item("d1", FALSE)>>,
                  redirects |-> << >>],
     broken  |-> NotJson]

MCTraefikReleases == << <<3, 5, 0>>, <<3, 5, 9>>, <<3, 6, 1>> >>

Explored(ops, racing, perishable) == [ops |-> ops, racing |-> racing, perishable |-> perishable]
MCCampaigns ==
    {Explored({"update"}, {"update"}, {}),
     Explored({"update", "login"}, {"login"}, {}),
     Explored({"update", "delete", "create"}, {}, {}),
     Explored({"delete", "create"}, {"delete", "create"}, {}),
     Explored({"read", "logout", "logout all", "revoke"}, {"read", "logout", "revoke"}, {}),
     Explored({"read", "logout"}, {"read"}, {1})}

=============================================================================
