------------------------------ MODULE PagesProps ------------------------------
(* What should hold of the pages, whatever is pressed and however answers,  *)
(* hints and panels cross.                                                  *)
EXTENDS Pages

CONSTANT Gaps   \* <<name, list>>: changes on display that are not fetched again

(* What the pages see to with their flags and their patches: a button is     *)
(* disabled by the flag it sets, the buttons of a page that share a flag all *)
(* compare it with their row or all do not, what is patched or written is a  *)
(* list that the server changes, with one request and before its outcome is  *)
(* told, and a guess is of the column that is written                       *)
ASSUME HandlersAssumption ==
    /\ \A o \in Ops : o.slot # None => o.slot \in o.blockedBy
    /\ \A o, p \in Ops : (o.page = p.page /\ o.slot = p.slot) => (o.own = p.own \/ o.slot = None)
    /\ \A o \in Ops : o.patch # "no" \/ o.column # None =>
          o.from \in o.changes /\ ~o.attaches /\ o.success # "await first"
    /\ \A o \in Ops : o.patch \in {"guess", "both"} => o.column # None
    /\ \A z \in Scenes : \A o, p \in z.ops :
          o.from = z.list /\ p.from = z.list => o.column = p.column \/ None \in {o.column, p.column}

(* What the pages see to with their fetches: a change of a list on display   *)
(* is fetched again or patched in by its handler, asked for with the profile *)
(* or heard of, unless it is a known gap; a hint tells nothing of a second   *)
(* request. The profile is on every page, and no rows of it carry buttons   *)
ASSUME RefetchAssumption ==
    /\ \A o \in Ops : \A l \in o.changes \cap Shows(o.page) :
          \/ l \in o.refetches
          \/ o.patch # "no" /\ l = o.from
          \/ l = Me /\ o.profile # "no"
          \/ ~o.attaches /\ \E k \in o.hints : l \in Hears(o.page, k)
          \/ <<o.name, l>> \in Gaps
    /\ \A o \in Ops : o.from # Me
    /\ \A p \in Screens : Me \in Shows(p)
    /\ \A z \in Scenes : \A o \in z.ops : o.page \in z.pages

(* Every variable has its type; a run is idle or one of this behaviour's. *)
TypeOK ==
    /\ scene \in Scenes
    /\ page \in Screens
    /\ busy \in [Slots -> Rows \cup {None}]
    /\ dialog \in [kind: {None, "alert", "confirm"}, of: Runs \cup {Nobody},
                   alertRef: Runs \cup {Nobody}, confirmRef: Runs \cup {Nobody}]
    /\ run \in [Runs -> Run]
    /\ cache \in Cache /\ server \in [Keys -> Values]
    /\ hints \subseteq Kinds \cup {"open"}
    /\ cause \in {None, "overtaken", "failed", "lost", "crossed", "cached", "displaced",
                  "unmarked", "unheard", "shared", "stale"}

(* A panel answers for the handler that put it there: the buttons of a      *)
(* question settle the promise of the handler whose text it shows, which    *)
(* has sent nothing yet, and OK settles that of a handler which waits for   *)
(* it; without a panel no promise is left to settle (AlertDialogProvider).  *)
DialogMatches ==
    /\ dialog.of = (IF dialog.kind = "confirm" THEN dialog.confirmRef ELSE dialog.alertRef)
    /\ dialog.kind = "confirm" =>
         /\ dialog.alertRef = Nobody
         /\ dialog.confirmRef \in Runs
         /\ run[dialog.confirmRef].stage = "asking"
    /\ dialog.alertRef \in Runs =>
         /\ dialog.kind = "alert"
         /\ run[dialog.alertRef].stage = "telling" /\ ~run[dialog.alertRef].displaced
    /\ dialog.kind # "confirm" => dialog.confirmRef = Nobody

(* A button is disabled only on behalf of a handler of this page that is    *)
(* still under way for that very row: no way out of a handler forgets the   *)
(* flag, and no handler of a page left before sets one on this page.        *)
FlagsHeld ==
    \A s \in Slots : busy[s] # None =>
        \E f \in Runs : /\ run[f].here /\ UnderWay(f)
                        /\ run[f].op.slot = s /\ run[f].row = busy[s]

(* The one way an awaited alert can leave its handler waiting for good, and *)
(* the button with it, is that another panel took its place: an alert of a  *)
(* query, or of what was started with the keyboard under the panel.  (The   *)
(* handler of a question that was replaced waits for good as well, but it   *)
(* holds no flag.)                                                          *)
StuckOnlyByReplacement ==
    \A f \in Runs : run[f].stage = "telling" =>
        (dialog.alertRef = f <=> ~run[f].displaced)

(* A flag that its button does not compare with the row, and that no button *)
(* with a question shares with one without                                  *)
Exclusive(o) ==
    /\ o.slot # None /\ ~o.own
    /\ \A p \in Ops : (p.page = o.page /\ p.slot = o.slot) => p.asks = o.asks

(* While a handler is under way no button with its flag starts another, in  *)
(* any row: not by the keyboard under a question, and not after another     *)
(* handler's end. The flags that are not exclusive are not as safe.         *)
OneAtATime ==
    \A f, g \in Runs :
        (/\ f # g
         /\ UnderWay(f) /\ run[f].here /\ UnderWay(g) /\ run[g].here
         /\ run[f].op.slot = run[g].op.slot)
        => ~Exclusive(run[f].op)

(* What is on display in a row is what the server has, unless the handler    *)
(* that changes it is under way: a refused change does not stay on display,  *)
(* an accepted one does, and neither takes that of another row or an older   *)
(* answer along. Of a row that two handlers had in hand at the same time, or *)
(* that was not current when its handler took it along, nothing is said: the *)
(* code puts back what it took, whatever came in between.                   *)
GuessesEnd ==
    \A k \in Keys : cache.loaded /\ cache.shown[k] # server[k] =>
        \/ cause # None
        \/ Earlier \in cache.missing
        \/ \E f \in Patchers : Key(f) = k /\ UnderWay(f)

AtRest ==
    /\ \A f \in Runs :
          \/ run[f].stage \in {"idle", "asking"}
          \/ run[f].stage = "telling" /\ (run[f].displaced \/ Outcome(f) = "await")
    /\ hints = {}
    /\ cache.fetch = "none"

(* When everything has settled, the list on display has all that this       *)
(* browser changed, whichever handler changed it and whatever it crossed;   *)
(* if not, then a request failed, an answer was lost, an alert was          *)
(* displaced before its lists were asked for, a newer answer was overtaken  *)
(* by an older one, the list counted as new, a patch took its mark away,    *)
(* two handlers had one row in hand, or took along what was not current,    *)
(* the page that would have heard was left, or the code has a gap here.     *)
ShownCurrent ==
    /\ AtRest /\ Watched \in Active
    /\ cache.missing # {} \/ (cache.loaded /\ cache.shown # server)
    => cause # None \/ \E o \in scene.ops : <<o.name, Watched>> \in Gaps
=============================================================================
