---------------------------- MODULE CatalogPages ----------------------------
(***************************************************************************)
(* The pages that list redirects, users and middleware templates, with a   *)
(* dialog to create, to edit and to delete an entry.  Each dialog has its  *)
(* own mutation: the button is disabled while it is pending, also when the *)
(* dialog was cancelled and opened again, for another entry perhaps; a     *)
(* success waits for the list to be fetched and closes the dialog of that  *)
(* kind, whichever entry it shows by then.  A row has a name, and a user   *)
(* has a password that the form never shows.                               *)
(***************************************************************************)
EXTENDS Browser, Naturals

CONSTANTS
    CatalogKinds,    \* the pages explored, of {"redirects", "users", "templates"}
    EntryIds,        \* the entries
    MaxRequests      \* bound: submissions

NoRow == [name |-> "noEntry"]
NoDialog == [op |-> "none"]
NoRequest == [phase |-> "none"]
Operations == {"create", "edit", "delete"}
Rows == [name : {"n1", "n2"}, secret : {"p1", "p2"}]

VARIABLE ct

CTMounted ==
    \E kind \in CatalogKinds :
      LET first == CHOOSE id \in EntryIds : TRUE
          rows == [id \in EntryIds |-> IF id = first THEN [name |-> "n1", secret |-> "p1"]
                                       ELSE NoRow]
      IN  ct = [kind |-> kind, server |-> rows, cached |-> rows, dialog |-> NoDialog,
                request |-> [op \in Operations |-> NoRequest], requests |-> 0,
                failed |-> [op \in Operations |-> FALSE], others |-> 0,
                saved |-> NoRequest]

-----------------------------------------------------------------------------
(* The dialogs. *)

OpenCreate ==
    /\ ct.dialog = NoDialog
    /\ ct' = [ct EXCEPT !.dialog = [op |-> "create", id |-> 0,
                                    form |-> [name |-> "", secret |-> ""],
                                    base |-> NoRow, typed |-> {}]]

(* The form of the row on screen; the password field starts empty. *)
FormOf(row) == [row EXCEPT !.secret = ""]

OpenRow(op, id) ==
    /\ ct.dialog = NoDialog /\ ct.cached[id] # NoRow
    /\ ct' = [ct EXCEPT !.dialog = [op |-> op, id |-> id, form |-> FormOf(ct.cached[id]),
                                    base |-> ct.cached[id], typed |-> {}]]

CancelDialog == ct.dialog # NoDialog /\ ct' = [ct EXCEPT !.dialog = NoDialog]

TypeInto(field, value) ==
    /\ ct.dialog.op \in {"create", "edit"}
    /\ field = "secret" => ct.kind = "users"
    /\ ct' = [ct EXCEPT !.dialog.form[field] = value, !.dialog.typed = @ \union {field}]

-----------------------------------------------------------------------------
(* The requests. *)

(* The schema wants a name; a new user needs a password. *)
FormAccepted(d) ==
    /\ d.form.name # ""
    /\ (d.op = "create" /\ ct.kind = "users") => d.form.secret # ""

(* A password that was not typed is left out of the payload of an edit. *)
BlankPasswordSent(d, row) == [d.form EXCEPT !.secret = IF @ = "" THEN "p2" ELSE @]
PayloadApplied(d, row) ==
    [name |-> d.form.name,
     secret |-> CASE d.form.secret # "" -> d.form.secret
                  [] d.form.secret = "" /\ row # NoRow -> row.secret
                  [] d.form.secret = "" /\ row = NoRow -> "p1"]

Submit ==
    /\ ct.dialog # NoDialog /\ ct.requests < MaxRequests
    /\ ct.request[ct.dialog.op] = NoRequest
    /\ ct.dialog.op # "delete" => FormAccepted(ct.dialog)
    /\ ct' = [ct EXCEPT !.request[ct.dialog.op] = [phase |-> "sent", dialog |-> ct.dialog],
                        !.failed[ct.dialog.op] = FALSE, !.requests = @ + 1]

(* The backend applies the request; an edit or a deletion of an entry that *)
(* is gone is refused.                                                     *)
RequestApplied(op) ==
    /\ ct.request[op].phase = "sent"
    /\ \E id \in EntryIds :
         /\ (op = "create") = (ct.server[id] = NoRow)
         /\ op = "create" \/ id = ct.request[op].dialog.id
         /\ LET d == ct.request[op].dialog
                row == IF op = "delete" THEN NoRow ELSE PayloadApplied(d, ct.server[id])
            IN  ct' = [ct EXCEPT !.server[id] = row,
                         !.request[op] = [phase |-> "refetch", dialog |-> d, id |-> id, row |-> row],
                         !.saved = NoRequest]

RequestFails(op) ==
    /\ ct.request[op].phase = "sent"
    /\ ct' = [ct EXCEPT !.request[op] = NoRequest, !.failed[op] = TRUE]

(* onSuccess returns the promise of the refetch, mutateAsync waits for it. *)
WithoutRefetch(s) == s
Refetched(s) == [s EXCEPT !.cached = s.server]

RequestDone(op) ==
    /\ ct.request[op].phase = "refetch"
    /\ ct' = [Refetched(ct) EXCEPT
                !.request[op] = NoRequest, !.saved = ct.request[op],
                !.dialog = IF @.op = op THEN NoDialog ELSE @]

ListRefetched ==
    /\ ct.cached # ct.server
    /\ ct' = Refetched(ct)

(* Another administrator. *)
OtherRenames(id) ==
    /\ ct.others = 0 /\ ct.server[id] # NoRow
    /\ ct' = [ct EXCEPT !.server[id].name = IF @ = "n1" THEN "n2" ELSE "n1",
                        !.others = 1, !.saved = NoRequest]

CTNext ==
    \/ OpenCreate \/ CancelDialog \/ Submit \/ ListRefetched
    \/ \E id \in EntryIds : OpenRow("edit", id) \/ OpenRow("delete", id) \/ OtherRenames(id)
    \/ TypeInto("name", "n2") \/ TypeInto("secret", "p2")
    \/ \E op \in Operations : RequestApplied(op) \/ RequestFails(op) \/ RequestDone(op)

-----------------------------------------------------------------------------
(* Properties. *)

CTTypeOK ==
    ct # Unmounted =>
      /\ \A id \in EntryIds : ct.server[id] \in Rows \union {NoRow}
      /\ ct.dialog.op \in Operations \union {"none"}
      /\ \A op \in Operations : ct.request[op].phase \in {"none", "sent", "refetch"}

(* The list shows what was just saved, until somebody changes it again:    *)
(* also with requests of other dialogs, cancelled or failed, in between.   *)
ListShowsSave ==
    (ct # Unmounted /\ ct.saved # NoRequest) =>
      (ct.server[ct.saved.id] = ct.saved.row => ct.cached[ct.saved.id] = ct.saved.row)

(* Saving an edit changes what was typed and nothing else: an empty        *)
(* password field keeps the password, and the fields of an entry that is   *)
(* still as the dialog showed it keep their values.                        *)
EditKeepsUntyped ==
    [][(ct # Unmounted /\ ct' # Unmounted /\ ct.request["edit"].phase = "sent"
          /\ ct'.request["edit"].phase = "refetch")
        => LET d == ct.request["edit"].dialog
               id == d.id
           IN  \A field \in {"name", "secret"} \ d.typed :
                 ct.server[id] = d.base => ct'.server[id][field] = ct.server[id][field]]_ct

=============================================================================
