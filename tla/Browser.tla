------------------------------ MODULE Browser ------------------------------
(***************************************************************************)
(* What the pages of the dashboard share: a page that is not on screen has *)
(* no state, and the query string of the location is a function from the   *)
(* parameter names of the page to values.                                  *)
(***************************************************************************)

(* The state of a page that is not mounted. *)
Unmounted == [mounted |-> FALSE]

=============================================================================
