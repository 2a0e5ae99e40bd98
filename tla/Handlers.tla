------------------------------ MODULE Handlers ------------------------------
(* What the pages' asynchronous handlers have in common: the record that    *)
(* describes one. KraamOps, MemberOps and AdminOps hold the records, Pages  *)
(* runs them.                                                               *)

None == "none"
Me == "me"       \* the profile: no query, AuthProvider keeps it

(* name        the function                                                 *)
(* page        where its button is                                          *)
(* slot, own   the busy flag it sets; own: the button compares it with the  *)
(*             number of its own row, so that other rows stay enabled       *)
(* blockedBy   the flags that disable the button                            *)
(* from, hides the list whose rows carry it; hides: not during a fetch      *)
(* checks      it first looks at what was filled in                         *)
(* asks        it asks for a confirmation                                   *)
(* attaches    it makes a second request after the first                    *)
(* patch       setQueryData before the request (guess), after it (answer)   *)
(*             or both; what was a guess is put back when the request fails *)
(* column      the column of its row that it writes, if a handler patches   *)
(*             that column; puts: a value other than the displayed one, the *)
(*             displayed one once more, any, or all that the form holds     *)
(* refetches   what it invalidates on success; loose: without awaiting it   *)
(* rescues     what it invalidates when the server refused                  *)
(* profile     refresh() is awaited with the lists, after them or not       *)
(* success, failure: what it tells, and whether it waits for that to be     *)
(*             closed; "first": before the lists; "page": text on the page  *)
(* changes     the lists the server answers differently afterwards          *)
(* hints       what the server announces to this browser, if it is the      *)
(*             kraam's or the browser of the member concerned               *)
Handler == [name |-> None, page |-> None, slot |-> None, own |-> FALSE,
            blockedBy |-> {}, from |-> None, hides |-> FALSE, checks |-> FALSE,
            asks |-> FALSE, attaches |-> FALSE, patch |-> "no",
            column |-> None, puts |-> "any",
            refetches |-> {}, loose |-> {}, rescues |-> {}, profile |-> "no",
            success |-> "await", failure |-> "await", changes |-> {}, hints |-> {}]

(* A handler behind a button with a busy flag that disables just that button *)
Guarded(name, slot) ==
    [Handler EXCEPT !.name = name, !.slot = slot, !.blockedBy = {slot}]

On(page, ops) == {[o EXCEPT !.page = page] : o \in ops}
=============================================================================
