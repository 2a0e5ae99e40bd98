------------------------------- MODULE Pages -------------------------------
(* The pages of the frontend as one browser runs them: a person presses    *)
(* buttons; an asynchronous handler asks, sends its request, has lists     *)
(* fetched again and tells the outcome. Handlers share the dialog (one     *)
(* panel and the two promises it settles), the busy flags of the page and  *)
(* the query cache. What each handler does is a record (Handlers); what is *)
(* said of lists is said of any one, the list of the scene. The hints are  *)
(* heard when they come: Realtime has the delays and the lost connections. *)
EXTENDS Naturals, FiniteSets, Handlers

CONSTANTS
    Runs,         \* handler runs that can be under way at the same time
    Rows,         \* rows of a list that have a button each
    Screens,      \* pages
    Lists,        \* answers of the server that pages keep; Me is the profile
    Slots,        \* busy flags
    Kinds,        \* what the WebSocket announces
    Ops,          \* operations: records of Op
    Scenes,       \* what a behaviour looks at: operations, pages, a list and runs
    Shows(_),     \* the lists a page displays
    Alarms(_),    \* those of which it reports that they could not be loaded
    Reloads(_),   \* the lists a page fetches again when its buttons for that are pressed
    Hears(_, _),  \* the lists a page fetches again on a hint
    Foldable,     \* flags of a part of a page that can be closed: a tab, a panel
    Values,       \* of the column that handlers write
    Start         \* what every row has in it to begin with, one of Values

Earlier == "earlier"
Nobody == "nobody"
NoOp == [name |-> None]

Op == [name: STRING, page: Screens, slot: Slots \cup {None}, own: BOOLEAN,
       blockedBy: SUBSET Slots, from: Lists \cup {None}, hides: BOOLEAN,
       checks: BOOLEAN, asks: BOOLEAN, attaches: BOOLEAN,
       patch: {"no", "guess", "answer", "both"},
       column: STRING, puts: {"another", "shown", "any", "form"},
       refetches: SUBSET Lists, loose: SUBSET Lists, rescues: SUBSET Lists,
       profile: {"no", "with", "after"},
       success: {"silent", "await", "void", "await first", "void first"},
       failure: {"await", "void", "page"},
       changes: SUBSET Lists, hints: SUBSET Kinds]

ASSUME PagesAssumption ==
    /\ Ops \subseteq Op
    /\ NoOp \notin Ops
    /\ Nobody \notin Runs /\ Earlier \notin Runs
    /\ None \notin Slots /\ None \notin Rows /\ None \notin Lists
    /\ \A z \in Scenes : 
          /\ z.ops \subseteq Ops /\ z.pages \subseteq Screens /\ z.list \in Lists
          /\ z.runs \subseteq Runs
    /\ \A p \in Screens : Shows(p) \cup Alarms(p) \cup Reloads(p) \subseteq Lists
    /\ \A p \in Screens, k \in Kinds \cup {"open"} : Hears(p, k) \subseteq Lists
    /\ Foldable \subseteq Slots
    /\ Start \in Values

VARIABLES
    scene,    \* the operations, pages and list of this behaviour
    page,     \* the page on display
    busy,     \* [Slots -> Rows or None]: the flags that disable buttons
    dialog,   \* the panel, whose text it shows, and who waits for its button
    run,      \* [Runs -> Run]: handlers under way
    cache,    \* the list of the scene
    server,   \* the column of it that handlers write, as the server has it
    hints,    \* announcements on their way to this browser that concern the list
    cause     \* the first thing to happen that can leave the list behind

vars == <<scene, page, busy, dialog, run, cache, server, hints, cause>>

(* The rows, and the form of a page that shows one record *)
Keys == Rows \cup {None}

Run == [op: Ops \cup {NoOp}, row: Rows \cup {None},
        stage: {"idle", "asking", "sending", "attaching", "answered", "waiting", "telling"},
        here: BOOLEAN,       \* the page or part it was started on is still on display
        did: BOOLEAN,        \* the server carried it out
        ok: BOOLEAN,         \* what the handler knows: nothing was thrown so far
        told: BOOLEAN,       \* the person has closed its alert
        displaced: BOOLEAN,  \* another panel took the place of its alert
        awaits: BOOLEAN,     \* it awaits the list
        profile: {"none", "asked", "read", "old", "done"},
        held: Values \cup {None},   \* what its row displayed when it was started
        next: Values \cup {None},   \* what it writes in its place
        older: BOOLEAN]      \* the server changed the list after it made its answer

Idle == [op |-> NoOp, row |-> None, stage |-> "idle", here |-> FALSE, did |-> FALSE,
         ok |-> FALSE, told |-> FALSE, displaced |-> FALSE, awaits |-> FALSE,
         profile |-> "none", held |-> None, next |-> None, older |-> FALSE]

Active == Shows(page)
Watched == scene.list
Concerns(k) == \E p \in scene.pages : Watched \in Hears(p, k)

(* Of the refusals one has lists fetched again: that it had been done before *)
ToRefetch(f) == IF run[f].ok THEN {run[f].op.refetches}
                ELSE IF run[f].did THEN {{}} ELSE {{}, run[f].op.rescues}

Outcome(f) == IF run[f].ok THEN run[f].op.success ELSE run[f].op.failure
Because(S) == IF cause # None \/ S = {} THEN cause ELSE CHOOSE c \in S : TRUE
UnderWay(f) == run[f].stage \notin {"idle", "asking"}

(* The handler writes a column of the list, in the row of its button; it     *)
(* patches the list; it patches that column                                 *)
Writes(o) == o.column # None /\ Watched = o.from
Patches(o) == o.patch # "no" /\ Watched = o.from
PatchesColumn(o) == Writes(o) /\ Patches(o)

KeyOf(o, r) == IF o.puts = "form" THEN None ELSE r
Key(f) == KeyOf(run[f].op, run[f].row)

(* It has yet to write, or to patch *)
InHand(f) ==
    \/ run[f].stage \in {"sending", "answered"}
    \/ run[f].stage = "asking" /\ dialog.confirmRef = f

Patchers == {f \in Runs : InHand(f) /\ PatchesColumn(run[f].op)}

NoPanel_Unset == [kind |-> None, of |-> None, alertRef |-> None, confirmRef |-> None]
NoPanel == [kind |-> None, of |-> Nobody, alertRef |-> Nobody, confirmRef |-> Nobody]

-----------------------------------------------------------------------------
(* The dialog: a promise whose resolver is overwritten never settles, so    *)
(* the handler that awaits it never goes on                                 *)

Displaced(runs) ==
    IF dialog.alertRef = Nobody THEN runs
    ELSE [runs EXCEPT ![dialog.alertRef].displaced = TRUE]

(* What was to be done after that alert *)
Unheard ==
    IF dialog.alertRef # Nobody /\ Outcome(dialog.alertRef) = "await first"
    THEN {"displaced"} ELSE {}

(* waiting is Nobody where the code says void alert(...) *)
Alert_KeepsQuestion(waiting, runs, S) ==
    /\ dialog' = [kind |-> "alert", of |-> waiting, alertRef |-> waiting,
                  confirmRef |-> dialog.confirmRef]
    /\ run' = Displaced(runs)
    /\ cause' = Because(S \cup Unheard)

Alert(waiting, runs, S) ==
    /\ dialog' = [kind |-> "alert", of |-> waiting, alertRef |-> waiting, confirmRef |-> Nobody]
    /\ run' = Displaced(runs)
    /\ cause' = Because(S \cup Unheard)

Confirm(f, runs, S) ==
    /\ dialog' = [kind |-> "confirm", of |-> f, alertRef |-> Nobody, confirmRef |-> f]
    /\ run' = Displaced(runs)
    /\ cause' = Because(S \cup Unheard)

-----------------------------------------------------------------------------
(* The query cache, as TanStack Query 5 keeps it. missing: changes that the *)
(* data lack; late: those that the answer under way will lack. Of the column *)
(* that handlers write the values are kept: as displayed, and as the answer  *)
(* under way has them                                                       *)

Cache == [loaded: BOOLEAN, missing: SUBSET (Runs \cup {Earlier}),
          invalid: BOOLEAN, fetch: {"none", "asked", "read"},
          late: SUBSET (Runs \cup {Earlier}), failed: {"no", "new", "told"},
          shown: [Keys -> Values], read: [Keys -> Values]]

(* There is no such answer *)
Unread == [k \in Keys |-> Start]

(* A list on display is asked for again, and a request under way is given   *)
(* up for the new one, unless nothing was loaded yet. A list that is not on *)
(* display is marked; a request under way goes on and removes the mark. The *)
(* profile is no query: nothing gives up an older request for it            *)
Restarts(S) ==
    /\ Watched \in S \cap Active
    /\ cache.fetch = "none" \/ (cache.loaded /\ Watched # Me)

Invalidated_NotUnderWay(c, S) ==
    IF Restarts(S) /\ c.fetch = "none"
    THEN [c EXCEPT !.fetch = "asked", !.late = {}, !.invalid = TRUE]
    ELSE [c EXCEPT !.invalid = @ \/ Watched \in S]

Invalidated(c, S) ==
    IF Restarts(S)
    THEN [c EXCEPT !.fetch = "asked", !.late = {}, !.read = Unread, !.invalid = TRUE]
    ELSE [c EXCEPT !.invalid = @ \/ Watched \in S]

(* Whoever awaited a request that is given up goes on *)
Released(runs, S) ==
    IF Restarts(S) THEN [g \in Runs |-> [runs[g] EXCEPT !.awaits = FALSE]] ELSE runs

Overtaken(S) ==
    IF Watched \in S /\ ~Restarts(S) /\ cache.late # {} THEN {"overtaken"} ELSE {}

(* Somebody comes back to the window after the data have become old *)
Refocus ==
    /\ Watched \in Active \ {Me}
    /\ cache.fetch = "none"
    /\ cache' = [cache EXCEPT !.fetch = "asked", !.late = {}]
    /\ UNCHANGED <<scene, page, busy, dialog, run, server, hints, cause>>

(* The button in the header, or the one that tries again *)
Reload ==
    /\ Watched \in Reloads(page)
    /\ cache' = Invalidated(cache, {Watched})
    /\ cause' = Because(Overtaken({Watched}))
    /\ run' = Released(run, {Watched})
    /\ UNCHANGED <<scene, page, busy, dialog, server, hints>>

(* The server reads the list *)
FetchRead ==
    /\ cache.fetch = "asked"
    /\ cache' = [cache EXCEPT !.fetch = "read", !.read = server]
    /\ UNCHANGED <<scene, page, busy, dialog, run, server, hints, cause>>

NoLongerAwaited == [g \in Runs |-> [run[g] EXCEPT !.awaits = FALSE]]

(* A handler that patches the column it writes goes on with what it knows,  *)
(* so a cause stays for as long as there is one                             *)
FetchArrives ==
    /\ cache.fetch = "read"
    /\ cache' = [loaded |-> TRUE, missing |-> cache.late, invalid |-> FALSE,
                 fetch |-> "none", late |-> {}, failed |-> "no",
                 shown |-> cache.read, read |-> Unread]
    /\ cause' = IF cache.late = {} /\ cache.read = server /\ Patchers = {} THEN None
                ELSE Because(IF Watched = Me /\ cache.missing = {} /\ cache.late # {}
                             THEN {"crossed"} ELSE {})
    /\ run' = NoLongerAwaited
    /\ UNCHANGED <<scene, page, busy, dialog, server, hints>>

(* Twice over (retry: 1). What awaits an invalidation does not learn of it *)
FetchFails ==
    /\ cache.fetch # "none"
    /\ cache' = [cache EXCEPT !.fetch = "none", !.late = {}, !.read = Unread,
                              !.failed = "new", !.invalid = TRUE]
    /\ cause' = Because({"failed"})
    /\ run' = NoLongerAwaited
    /\ UNCHANGED <<scene, page, busy, dialog, server, hints>>

(* The page renders with the query in error: an effect opens an alert that  *)
(* nobody awaits                                                            *)
QueryErrorAlert ==
    /\ cache.failed = "new"
    /\ Watched \in Alarms(page)
    /\ cache' = [cache EXCEPT !.failed = "told"]
    /\ Alert(Nobody, run, {})
    /\ UNCHANGED <<scene, page, busy, server, hints>>

HintArrives(k) ==
    /\ k \in hints
    /\ hints' = hints \ {k}
    /\ cache' = Invalidated(cache, Hears(page, k))
    /\ cause' = Because(Overtaken(Hears(page, k)))
    /\ run' = Released(run, Hears(page, k))
    /\ UNCHANGED <<scene, page, busy, dialog, server>>

-----------------------------------------------------------------------------
(* Handlers *)

(* A run that is over, or that waits for a question nobody can answer *)
Free(f) ==
    run[f].stage = "idle" \/ (run[f].stage = "asking" /\ dialog.confirmRef # f)

(* The button of operation o in row r: the flags that disable it, the rows   *)
(* that carry it and their being hidden during a fetch. A panel keeps the    *)
(* pointer from it, the keyboard still reaches it                            *)
CanPress_OtherRow(o, r) ==
    /\ page = o.page
    /\ \A s \in o.blockedBy : busy[s] # r
    /\ o.from = Watched => cache.loaded /\ (o.hides => cache.fetch = "none")

CanPress(o, r) ==
    /\ page = o.page
    /\ IF o.own THEN busy[o.slot] # r ELSE \A s \in o.blockedBy : busy[s] = None
    /\ o.from = Watched => cache.loaded /\ (o.hides => cache.fetch = "none")

SetBusy(o, r) == IF o.slot = None THEN busy ELSE [busy EXCEPT ![o.slot] = r]

(* A handler takes along what the render it belongs to displays *)
Displayed(o, r) == IF Writes(o) THEN cache.shown[KeyOf(o, r)] ELSE None

Choices(o, r) ==
    IF ~Writes(o) THEN {None}
    ELSE CASE o.puts = "another" -> Values \ {Displayed(o, r)}
           [] o.puts = "shown" -> {Displayed(o, r)}
           [] OTHER -> Values

Begun(o, r, v, stage) ==
    [Idle EXCEPT !.op = o, !.row = r, !.stage = stage, !.here = TRUE,
                 !.held = Displayed(o, r), !.next = v]

(* A change that an earlier run of this name left behind keeps no name *)
Renamed(f, S) == IF f \in S THEN (S \ {f}) \cup {Earlier} ELSE S

(* setQueryData; the data count as new, so a mark that another handler set   *)
(* goes, and what it was set for is not fetched                             *)
Touched(c) == [c EXCEPT !.invalid = FALSE, !.failed = "no"]

Put(c, k, v) == [Touched(c) EXCEPT !.shown[k] = v]

Unmarked(c) ==
    IF cache.invalid /\ ~c.invalid /\ cache.fetch = "none" /\ c.missing # {}
    THEN {"unmarked"} ELSE {}

Guess(o, k, v, c) ==
    IF o.patch \in {"guess", "both"} /\ Writes(o) /\ c.loaded THEN Put(c, k, v) ELSE c

(* Two handlers have a row in hand, one of which patches it; what a handler  *)
(* may put back is not what the server has                                  *)
Shared(f, o, r) ==
    IF \E g \in Runs \ {f} : /\ InHand(g) /\ Writes(o) /\ Writes(run[g].op)
                            /\ Key(g) = KeyOf(o, r)
                            /\ (Patches(o) \/ Patches(run[g].op))
    THEN {"shared"} ELSE {}

Stale(o, r) ==
    IF PatchesColumn(o) /\ cache.shown[KeyOf(o, r)] # server[KeyOf(o, r)]
    THEN {"stale"} ELSE {}

Press(f, o, r) ==
    /\ Free(f)
    /\ CanPress(o, r)
    /\ \E v \in Choices(o, r) :
          LET c == [cache EXCEPT !.missing = Renamed(f, @), !.late = Renamed(f, @)]
              risks == Shared(f, o, r) \cup Stale(o, r)
          IN  IF o.asks
              THEN /\ Confirm(f, [run EXCEPT ![f] = Begun(o, r, v, "asking")], risks)
                   /\ cache' = c
                   /\ UNCHANGED busy
              ELSE /\ run' = [run EXCEPT ![f] = Begun(o, r, v, "sending")]
                   /\ cache' = Guess(o, KeyOf(o, r), v, c)
                   /\ cause' = Because(risks \cup Unmarked(cache'))
                   /\ busy' = SetBusy(o, r)
                   /\ UNCHANGED dialog
    /\ UNCHANGED <<scene, page, server, hints>>

(* What is filled in is not acceptable: the page says so and sends nothing *)
Unacceptable(o, r) ==
    /\ o.checks
    /\ CanPress(o, r)
    /\ Alert(Nobody, run, {})
    /\ UNCHANGED <<scene, page, busy, cache, server, hints>>

(* What the panel lets a person answer: a question has a button that         *)
(* confirms; its other button, Escape and the backdrop decline. An alert is  *)
(* closed by its button, Escape or the backdrop                             *)
Answers == CASE dialog.kind = "confirm" -> {"yes", "no"}
             [] dialog.kind = "alert" -> {"ok"}
             [] OTHER -> {}

FinishConfirm(yes) ==
    /\ (IF yes THEN "yes" ELSE "no") \in Answers
    /\ dialog' = NoPanel
    /\ LET f == dialog.confirmRef
       IN  IF yes
           THEN /\ run' = [run EXCEPT ![f].stage = "sending"]
                /\ busy' = IF run[f].here THEN SetBusy(run[f].op, run[f].row) ELSE busy
                /\ cache' = Guess(run[f].op, Key(f), run[f].next, cache)
                /\ cause' = Because(Unmarked(cache'))
           ELSE /\ run' = [run EXCEPT ![f] = Idle]
                /\ UNCHANGED <<busy, cache, cause>>
    /\ UNCHANGED <<scene, page, server, hints>>

(* Of the column that a handler patches the values tell; another change has  *)
(* a name while its handler may still patch it in                           *)
ChangeBy(f) ==
    IF PatchesColumn(run[f].op) THEN {} ELSE IF Patches(run[f].op) THEN {f} ELSE {Earlier}

(* What the server changes, as the cache and the profile requests under way *)
(* come to lack it                                                          *)
Changed(f) ==
    IF Watched \notin run[f].op.changes THEN cache
    ELSE [cache EXCEPT
            !.missing = IF cache.loaded THEN @ \cup ChangeBy(f) ELSE @,
            !.late = IF cache.fetch = "read" THEN @ \cup ChangeBy(f) ELSE @]

(* An answer that holds the whole row, made before the change of f *)
Outdated(f, runs) ==
    [g \in Runs |->
        IF /\ g # f /\ run[g].stage = "answered" /\ run[g].did
           /\ PatchesColumn(run[g].op) /\ run[g].op.patch # "guess"
           /\ Watched \in run[f].op.changes /\ ~Patches(run[f].op)
        THEN [runs[g] EXCEPT !.older = TRUE] ELSE runs[g]]

Profiles(o) ==
    [g \in Runs |-> IF run[g].profile = "read" /\ Me \in o.changes
                    THEN [run[g] EXCEPT !.profile = "old"] ELSE run[g]]

(* The list was or will be loaded for another page, and is not among those   *)
(* marked: for thirty seconds it counts as new                              *)
Cached(o) ==
    IF Watched \in o.changes \ o.refetches /\ (Watched \notin Active \/ page # o.page)
    THEN {"cached"} ELSE {}

ServerActs(f) ==
    /\ run[f].stage = "sending"
    /\ LET o == run[f].op
       IN  /\ run' = [Outdated(f, Profiles(o)) EXCEPT
                        ![f].stage = IF o.attaches THEN "attaching" ELSE "answered",
                        ![f].did = TRUE, ![f].ok = TRUE]
           /\ hints' = hints \cup {k \in o.hints : Concerns(k)}
           /\ cause' = Because(Cached(o))
           /\ server' = IF Writes(o) THEN [server EXCEPT ![Key(f)] = run[f].next] ELSE server
    /\ cache' = Changed(f)
    /\ UNCHANGED <<scene, page, busy, dialog>>

ServerRefuses(f) ==
    /\ run[f].stage = "sending"
    /\ run' = [run EXCEPT ![f].stage = "answered"]
    /\ UNCHANGED <<scene, page, busy, dialog, cache, server, hints, cause>>

(* The second request of an operation that makes two *)
Attach(f) ==
    /\ run[f].stage = "attaching"
    /\ run' = [Outdated(f, run) EXCEPT ![f].stage = "answered"]
    /\ cache' = Changed(f)
    /\ cause' = Because(Cached(run[f].op))
    /\ UNCHANGED <<scene, page, busy, dialog, server, hints>>

(* An answer does not arrive or does not fit its schema, or the second       *)
(* request is refused: an exception, although the server acted               *)
AnswerLost(f) ==
    /\ run[f].stage \in {"attaching", "answered"} /\ run[f].ok /\ ~run[f].told
    /\ run' = [run EXCEPT ![f].stage = "answered", ![f].ok = FALSE]
    /\ cause' = IF Watched \in run[f].op.changes THEN Because({"lost"}) ELSE cause
    /\ UNCHANGED <<scene, page, busy, dialog, cache, server, hints>>

(* A new entry of the answer enters the data, whatever else they lack; a row  *)
(* of the answer takes the place of the row; on failure a guess makes place   *)
(* for what the row displayed when the handler was started                   *)
Patched_NoRollback(f, c) ==
    LET o == run[f].op
    IN  IF ~Patches(o) \/ ~c.loaded \/ ~run[f].ok \/ o.patch = "guess" THEN c
        ELSE IF o.column = None THEN [Touched(c) EXCEPT !.missing = @ \ {f}]
        ELSE [Put(c, Key(f), run[f].next) EXCEPT
                !.missing = IF run[f].older THEN @ \cup {Earlier} ELSE @]

Patched(f, c) ==
    LET o == run[f].op
        r == run[f]
    IN  IF ~Patches(o) \/ ~c.loaded \/ (r.ok /\ o.patch = "guess")
             \/ (~r.ok /\ (o.patch = "answer" \/ o.column = None)) THEN c
        ELSE IF ~r.ok THEN Put(c, Key(f), r.held)
        ELSE IF o.column = None THEN [Touched(c) EXCEPT !.missing = @ \ {f}]
        ELSE [Put(c, Key(f), r.next) EXCEPT
                !.missing = IF r.older THEN @ \cup {Earlier} ELSE @]

(* A patch does not stop a request under way; a guess has gone when an older  *)
(* answer came, and a whole row brings back what was changed meanwhile       *)
PatchRisks(f) ==
    LET o == run[f].op
    IN  IF /\ Patches(o) /\ run[f].ok
           /\ \/ f \in cache.late
              \/ o.column # None /\ cache.fetch = "read" /\ cache.read[Key(f)] # run[f].next
              \/ o.patch = "guess" /\ o.column # None /\ cache.shown[Key(f)] # run[f].next
              \/ o.patch # "guess" /\ run[f].older
        THEN {"overtaken"} ELSE {}

(* await alert(...) before the lists are fetched *)
TellFirst(f) ==
    /\ run[f].stage = "answered" /\ ~run[f].told
    /\ Outcome(f) = "await first"
    /\ Alert(f, [run EXCEPT ![f].stage = "telling"], {})
    /\ UNCHANGED <<scene, page, busy, cache, server, hints>>

(* The handler goes on: it patches the data, invalidates lists, and awaits   *)
(* the one on display, if it awaits any                                      *)
Resume(f) ==
    /\ run[f].stage = "answered"
    /\ Outcome(f) = "await first" => run[f].told
    /\ \E S \in ToRefetch(f) :
         LET o == run[f].op
             runs == [Released(run, S) EXCEPT
                        ![f].stage = "waiting",
                        ![f].awaits = Watched \in (S \cap Active) \ (o.loose \cup {Me}),
                        ![f].profile = IF run[f].ok /\ o.profile = "with" THEN "asked"
                                       ELSE "none"]
             risks == Overtaken(S) \cup PatchRisks(f) \cup Unmarked(Patched(f, cache))
         IN  /\ cache' = Invalidated(Patched(f, cache), S)
             /\ IF Outcome(f) = "void first" THEN Alert(Nobody, runs, risks)
                ELSE run' = runs /\ cause' = Because(risks) /\ UNCHANGED dialog
    /\ UNCHANGED <<scene, page, busy, server, hints>>

(* refresh(): nothing gives up an older request for the profile *)
ProfileAsked(f) ==
    /\ run[f].stage = "waiting" /\ run[f].ok /\ ~run[f].awaits
    /\ run[f].op.profile = "after" /\ run[f].profile = "none"
    /\ run' = [run EXCEPT ![f].profile = "asked"]
    /\ UNCHANGED <<scene, page, busy, dialog, cache, server, hints, cause>>

ProfileRead(f) ==
    /\ run[f].profile = "asked" /\ Watched = Me
    /\ run' = [run EXCEPT ![f].profile = "read"]
    /\ UNCHANGED <<scene, page, busy, dialog, cache, server, hints, cause>>

ProfileArrives(f) ==
    /\ run[f].profile \in {"read", "old"} \/ (run[f].profile = "asked" /\ Watched # Me)
    /\ run' = [run EXCEPT ![f].profile = "done"]
    /\ IF Watched # Me THEN UNCHANGED <<cache, cause>>
       ELSE IF run[f].profile = "read"
            THEN cache' = [cache EXCEPT !.missing = {}] /\ cause' = None
            ELSE /\ cache' = [cache EXCEPT !.missing = @ \cup {Earlier}]
                 /\ cause' = Because(IF cache.missing = {} THEN {"crossed"} ELSE {})
    /\ UNCHANGED <<scene, page, busy, dialog, server, hints>>

(* refresh() throws: the handler takes it for a failure of the operation *)
ProfileFails(f) ==
    /\ run[f].profile \in {"asked", "read", "old"}
    /\ run' = [run EXCEPT ![f].profile = "done", ![f].ok = FALSE, ![f].awaits = FALSE]
    /\ cause' = Because({"failed"})
    /\ UNCHANGED <<scene, page, busy, dialog, cache, server, hints>>

(* Nothing is left to await *)
Settled(f) ==
    /\ run[f].stage = "waiting"
    /\ ~run[f].awaits
    /\ run[f].profile = "done" \/ ~run[f].ok \/ run[f].op.profile = "no"

(* The finally block *)
Cleared_OnSuccess(f) ==
    IF run[f].here /\ run[f].ok /\ run[f].op.slot # None
    THEN [busy EXCEPT ![run[f].op.slot] = None] ELSE busy

Cleared(f) ==
    IF run[f].here /\ run[f].op.slot # None
    THEN [busy EXCEPT ![run[f].op.slot] = None] ELSE busy

(* await alert(...) with the outcome *)
Tell(f) ==
    /\ Settled(f) /\ Outcome(f) = "await"
    /\ Alert(f, [run EXCEPT ![f].stage = "telling"], {})
    /\ UNCHANGED <<scene, page, busy, cache, server, hints>>

(* The handler is done; what it says last it does not wait for *)
End(f) ==
    /\ Settled(f) /\ Outcome(f) # "await"
    /\ busy' = Cleared(f)
    /\ LET runs == [run EXCEPT ![f] = Idle]
       IN  IF Outcome(f) = "void" THEN Alert(Nobody, runs, {})
           ELSE run' = runs /\ UNCHANGED <<dialog, cause>>
    /\ UNCHANGED <<scene, page, cache, server, hints>>

(* The handler that waited goes on *)
CloseAlert_Unresolved ==
    /\ "ok" \in Answers
    /\ dialog' = NoPanel
    /\ UNCHANGED <<scene, page, busy, run, cache, server, hints, cause>>

CloseAlert ==
    /\ "ok" \in Answers
    /\ dialog' = NoPanel
    /\ LET f == dialog.alertRef
       IN  IF f = Nobody THEN UNCHANGED <<busy, run>>
           ELSE IF Outcome(f) = "await first"
           THEN /\ run' = [run EXCEPT ![f].stage = "answered", ![f].told = TRUE]
                /\ UNCHANGED busy
           ELSE /\ run' = [run EXCEPT ![f] = Idle]
                /\ busy' = Cleared(f)
    /\ UNCHANGED <<scene, page, cache, server, hints, cause>>

-----------------------------------------------------------------------------
(* A run that waits for a promise nobody can settle, of a page that is gone, *)
(* is gone too                                                               *)
Left(f) ==
    IF Free(f) \/ (run[f].stage = "telling" /\ dialog.alertRef # f)
    THEN Idle ELSE [run[f] EXCEPT !.here = FALSE]

(* The page that would have heard of a change goes before it does *)
LeftUnheard(p) ==
    IF cache.missing \cup cache.late # {}
         /\ \E k \in hints : Watched \in Hears(page, k) \ Hears(p, k)
    THEN {"unheard"} ELSE {}

(* A list that is displayed now is fetched when it is marked *)
Mounts(p) ==
    /\ Watched \in Shows(p) \ {Me}
    /\ cache.fetch = "none"
    /\ ~cache.loaded \/ cache.invalid

(* The flags of the new page are new, the handlers of the old one run on  *)
Navigate(p) ==
    /\ p \in scene.pages \ {page}
    /\ page' = p
    /\ busy' = [s \in Slots |-> None]
    /\ run' = [g \in Runs |-> Left(g)]
    /\ cache' = [cache EXCEPT !.fetch = IF Mounts(p) THEN "asked" ELSE @,
                              !.failed = IF @ = "told" THEN "new" ELSE @]
    /\ hints' = hints \cup {k \in {"open"} : Concerns(k)}
    /\ cause' = Because(LeftUnheard(p))
    /\ UNCHANGED <<scene, dialog, server>>

(* A part of the page with a flag of its own is closed *)
Fold(s) ==
    /\ s \in Foldable
    /\ \E o \in scene.ops : o.slot = s /\ o.page = page
    /\ busy' = [busy EXCEPT ![s] = None]
    /\ run' = [g \in Runs |->
                  IF run[g].op \in Ops /\ run[g].op.slot = s THEN Left(g) ELSE run[g]]
    /\ UNCHANGED <<scene, page, dialog, cache, server, hints, cause>>

Init ==
    /\ scene \in Scenes
    /\ page \in {o.page : o \in scene.ops}
    /\ busy = [s \in Slots |-> None]
    /\ dialog = NoPanel
    /\ run = [f \in Runs |-> Idle]
    /\ server = [k \in Keys |-> Start]
    /\ cache = [loaded |-> scene.list = Me, missing |-> {}, invalid |-> FALSE,
                fetch |-> IF scene.list \in Shows(page) \ {Me} THEN "asked" ELSE "none",
                late |-> {}, failed |-> "no", shown |-> server, read |-> Unread]
    /\ hints = {}
    /\ cause = None

(* What happens by itself to a run that is under way *)
Proceed(f) ==
    \/ ServerActs(f) \/ ServerRefuses(f) \/ Attach(f) \/ TellFirst(f) \/ Resume(f)
    \/ ProfileAsked(f) \/ ProfileRead(f) \/ ProfileArrives(f) \/ Tell(f) \/ End(f)

Next ==
    \/ \E f \in scene.runs, o \in scene.ops, r \in Rows : Press(f, o, r)
    \/ \E o \in scene.ops, r \in Rows : Unacceptable(o, r)
    \/ \E yes \in BOOLEAN : FinishConfirm(yes)
    \/ \E f \in Runs : Proceed(f) \/ AnswerLost(f) \/ ProfileFails(f)
    \/ CloseAlert \/ QueryErrorAlert
    \/ Reload \/ Refocus \/ FetchRead \/ FetchArrives \/ FetchFails
    \/ \E k \in Kinds \cup {"open"} : HintArrives(k)
    \/ \E p \in Screens : Navigate(p)
    \/ \E s \in Slots : Fold(s)

Spec == Init /\ [][Next]_vars
=============================================================================
