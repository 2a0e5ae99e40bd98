---------------------------- MODULE PagesProofs ----------------------------
(***************************************************************************)
(* For every program of handlers, pages and lists that fits the engine of  *)
(* Pages: panels answer for their handlers, flags are held, nothing with   *)
(* an exclusive flag runs twice, no guess outlives its handler, and the    *)
(* list of the scene has every change once all is at rest.                 *)
(***************************************************************************)
EXTENDS PagesProps, TLAPS

-----------------------------------------------------------------------------
(* The helpers keep types *)

LEMMA OpFields ==
    ASSUME NEW o \in Ops
    PROVE  /\ o.page \in Screens /\ o.slot \in Slots \cup {None} /\ o.own \in BOOLEAN
           /\ o.from \in Lists \cup {None} /\ o.asks \in BOOLEAN /\ o.patch \in {"no", "guess", "answer", "both"}
           /\ o.refetches \subseteq Lists /\ o.rescues \subseteq Lists /\ o.changes \subseteq Lists
           /\ o.hints \subseteq Kinds
           /\ o.failure # "await first" /\ o.attaches \in BOOLEAN
           /\ o.puts \in {"another", "shown", "any", "form"}
  BY PagesAssumption DEF Op

LEMMA KeyType ==
    ASSUME NEW o, NEW r \in Rows PROVE KeyOf(o, r) \in Keys
  BY DEF KeyOf, Keys

LEMMA IdleType == Idle \in Run
  BY DEF Idle, Run

Stages == {"idle", "asking", "sending", "attaching", "answered", "waiting", "telling"}

(* One field of a run at a time *)
LEMMA RunWith ==
    ASSUME NEW r \in Run, NEW b \in BOOLEAN, NEW s \in Stages,
           NEW p \in {"none", "asked", "read", "old", "done"}
    PROVE  /\ [r EXCEPT !.stage = s] \in Run
           /\ [r EXCEPT !.did = b] \in Run
           /\ [r EXCEPT !.ok = b] \in Run
           /\ [r EXCEPT !.told = b] \in Run
           /\ [r EXCEPT !.awaits = b] \in Run
           /\ [r EXCEPT !.profile = p] \in Run
  BY DEF Run, Stages

LEMMA BegunType ==
    ASSUME TypeOK, NEW o \in Ops, NEW r \in Rows, NEW v \in Values \cup {None},
           NEW stage \in {"asking", "sending"}
    PROVE  Begun(o, r, v, stage) \in Run
<1>1. Displayed(o, r) \in Values \cup {None}
  BY KeyType DEF Displayed, TypeOK, Cache
<1>. PICK held \in Values \cup {None} : held = Displayed(o, r)
  BY <1>1
<1>2. [Idle EXCEPT !.op = o, !.row = r, !.stage = stage, !.here = TRUE,
                   !.held = held, !.next = v] \in Run
  BY DEF Idle, Run
<1>. QED
  BY <1>2 DEF Begun

LEMMA ChoicesType ==
    ASSUME TypeOK, NEW o \in Ops, NEW r \in Rows, NEW v \in Choices(o, r)
    PROVE  v \in Values \cup {None} /\ (Writes(o) => v \in Values /\ Displayed(o, r) \in Values)
<1>1. Writes(o) => Displayed(o, r) \in Values
  BY KeyType DEF Displayed, TypeOK, Cache
<1>2. CASE ~Writes(o)
  BY <1>2 DEF Choices
<1>3. CASE Writes(o)
  BY <1>1, <1>3, OpFields DEF Choices
<1>. QED
  BY <1>2, <1>3

LEMMA DisplacedType ==
    ASSUME TypeOK, NEW runs \in [Runs -> Run] PROVE Displaced(runs) \in [Runs -> Run]
<1>1. ASSUME NEW r \in Run PROVE [r EXCEPT !.displaced = TRUE] \in Run
  BY DEF Run
<1>2. ASSUME NEW f \in Runs PROVE [runs EXCEPT ![f].displaced = TRUE] \in [Runs -> Run]
  BY <1>1
<1>. QED
  BY <1>2, PagesAssumption DEF Displaced, TypeOK

LEMMA ReleasedType ==
    ASSUME NEW runs \in [Runs -> Run], NEW S PROVE Released(runs, S) \in [Runs -> Run]
<1>1. ASSUME NEW r \in Run PROVE [r EXCEPT !.awaits = FALSE] \in Run
  BY DEF Run
<1>. QED
  BY <1>1 DEF Released

LEMMA NoLongerAwaitedType == TypeOK => NoLongerAwaited \in [Runs -> Run]
<1>1. ASSUME NEW r \in Run PROVE [r EXCEPT !.awaits = FALSE] \in Run
  BY DEF Run
<1>. QED
  BY <1>1 DEF NoLongerAwaited, TypeOK

Causes == {None, "overtaken", "failed", "lost", "crossed", "cached", "displaced",
           "unmarked", "unheard", "shared", "stale"}

LEMMA BecauseType ==
    ASSUME TypeOK, NEW S \in SUBSET Causes PROVE Because(S) \in Causes
<1>1. S # {} => (CHOOSE c \in S : TRUE) \in S
  OBVIOUS
<1>. QED
  BY <1>1 DEF Because, TypeOK, Causes

LEMMA AlertType ==
    ASSUME TypeOK, NEW waiting \in Runs \cup {Nobody}, NEW runs \in [Runs -> Run],
           NEW S \in SUBSET Causes, Alert(waiting, runs, S)
    PROVE  /\ dialog' \in [kind: {None, "alert", "confirm"}, of: Runs \cup {Nobody},
                           alertRef: Runs \cup {Nobody}, confirmRef: Runs \cup {Nobody}]
           /\ run' \in [Runs -> Run]
           /\ cause' \in Causes
<1>1. S \cup Unheard \in SUBSET Causes
  BY DEF Unheard, Causes
<1>. QED
  BY <1>1, DisplacedType, BecauseType DEF Alert

LEMMA UnreadType == Unread \in [Keys -> Values]
  BY PagesAssumption DEF Unread

LEMMA InvalidatedType ==
    ASSUME NEW c \in Cache, NEW S PROVE Invalidated(c, S) \in Cache
<1>1. ASSUME NEW u \in [Keys -> Values]
      PROVE  /\ [c EXCEPT !.fetch = "asked", !.late = {}, !.read = u, !.invalid = TRUE] \in Cache
             /\ [c EXCEPT !.invalid = @ \/ Watched \in S] \in Cache
  BY DEF Cache
<1>. QED
  BY <1>1, UnreadType DEF Invalidated

LEMMA PutType ==
    ASSUME NEW c \in Cache, NEW k \in Keys, NEW v \in Values
    PROVE  Put(c, k, v) \in Cache /\ Touched(c) \in Cache
<1>1. Touched(c) \in Cache
  BY DEF Touched, Cache
<1>. QED
  BY <1>1 DEF Put, Cache

LEMMA GuessType ==
    ASSUME NEW c \in Cache, NEW o, NEW k \in Keys, NEW v, Writes(o) => v \in Values
    PROVE  Guess(o, k, v, c) \in Cache
  BY PutType DEF Guess

LEMMA PatchedType ==
    ASSUME NEW c \in Cache, NEW f \in Runs, run[f].op \in Ops, run[f].row \in Rows,
           Writes(run[f].op) => run[f].held \in Values /\ run[f].next \in Values
    PROVE  Patched(f, c) \in Cache
<1>1. Key(f) \in Keys
  BY KeyType DEF Key
<1>. PICK d : d = Touched(c)
  OBVIOUS
<1>2. d \in Cache
  BY <1>1, PutType DEF Touched, Cache
<1>3. Patches(run[f].op) /\ run[f].op.column # None => Writes(run[f].op)
  BY DEF Patches, Writes
<1>4. ASSUME NEW v \in Values PROVE Put(c, Key(f), v) \in Cache
  BY <1>1, PutType
<1>5. [d EXCEPT !.missing = @ \ {f}] \in Cache
  BY <1>2 DEF Cache
<1>6. ASSUME NEW v \in Values, NEW b \in Cache, b = Put(c, Key(f), v)
      PROVE  [b EXCEPT !.missing = IF run[f].older THEN @ \cup {Earlier} ELSE @] \in Cache
  BY <1>6 DEF Cache
<1>. QED
  BY <1>3, <1>4, <1>5, <1>6, HandlersAssumption DEF Patched

LEMMA ChangedType ==
    ASSUME TypeOK, NEW f \in Runs PROVE Changed(f) \in Cache
<1>1. ChangeBy(f) \subseteq Runs \cup {Earlier}
  BY DEF ChangeBy
<1>. QED
  BY <1>1 DEF Changed, TypeOK, Cache

LEMMA OvertakenType == ASSUME NEW S PROVE Overtaken(S) \subseteq Causes
  BY DEF Overtaken, Causes

LEMMA PatchRisksType ==
    ASSUME NEW f, NEW c PROVE PatchRisks(f) \cup Unmarked(c) \subseteq Causes
  BY DEF PatchRisks, Unmarked, Causes

LEMMA PressRisksType ==
    ASSUME NEW f, NEW o, NEW r PROVE Shared(f, o, r) \cup Stale(o, r) \subseteq Causes
  BY DEF Shared, Stale, Causes

-----------------------------------------------------------------------------
(* The inductive invariant *)

(* A run that is not over belongs to a handler and a row, of the page on    *)
(* display if it is of one; who asks has a question; only an alert is       *)
(* displaced                                                                *)
HandlersOK ==
    \A f \in Runs :
        /\ run[f].stage # "idle" => run[f].op \in Ops /\ run[f].row \in Rows
        /\ run[f].stage # "idle" /\ run[f].here => run[f].op.page = page
        /\ run[f].stage = "asking" => run[f].op.asks
        /\ run[f].displaced => run[f].stage = "telling"
        /\ run[f].stage # "idle" /\ Writes(run[f].op) =>
              run[f].held \in Values /\ run[f].next \in Values

DialogOK == DialogMatches /\ StuckOnlyByReplacement

(* Nothing clears an exclusive flag but the end of its handler *)
FlagsSet ==
    \A f \in Runs : (UnderWay(f) /\ run[f].here /\ Exclusive(run[f].op)) =>
        busy[run[f].op.slot] = run[f].row

(* Nor does anything set it while a question about it is on display *)
QuestionAlone ==
    \A f, g \in Runs :
        (/\ f # g /\ dialog.confirmRef = f /\ run[f].here
         /\ UnderWay(g) /\ run[g].here /\ run[f].op.slot = run[g].op.slot)
        => ~Exclusive(run[f].op)

FlagsOK == FlagsHeld /\ FlagsSet /\ QuestionAlone /\ OneAtATime

(* g has a row of the column in hand, and patches it in the list *)
Hand(g) == InHand(g) /\ Writes(run[g].op)
Patcher(g) == Hand(g) /\ Patches(run[g].op)

(* Who is at its second request makes one *)
AttachOK == \A f \in Runs : run[f].stage = "attaching" => run[f].op.attaches

(* Of the profile no handler writes the column *)
ProfileOK ==
    Watched = Me => cache.shown = server /\ (cache.fetch = "read" => cache.read = server)

(* Unless there is a cause: a row that is patched is in one hand; what was    *)
(* taken along is what the server has until it acts, and then it has what    *)
(* was to be written; it told of it                                          *)
RowsApart ==
    \A f, g \in Runs : Patcher(f) /\ Hand(g) /\ f # g => Key(g) # Key(f)

HoldsTrue ==
    \A f \in Runs : Patcher(f) =>
        /\ run[f].ok = run[f].did
        /\ run[f].did => run[f].stage = "answered" /\ server[Key(f)] = run[f].next
        /\ ~run[f].did => server[Key(f)] = run[f].held

(* What the answer under way and the list on display have of a row is what    *)
(* the server has, but for what handlers patch in and others changed         *)
Due(f, k) == Patcher(f) /\ Key(f) = k /\ run[f].did

Showing(f, k) ==
    Patcher(f) /\ Key(f) = k /\ UnderWay(f) /\ (run[f].did \/ run[f].op.patch # "answer")

ReadTrue ==
    cache.fetch = "read" =>
        \A k \in Keys : \/ cache.read[k] = server[k]
                         \/ Earlier \in cache.late
                         \/ \E f \in Runs : Due(f, k)

ShownTrue ==
    cache.loaded =>
        \A k \in Keys : \/ cache.shown[k] = server[k]
                         \/ Earlier \in cache.missing
                         \/ \E f \in Runs : Showing(f, k)

Unharmed == RowsApart /\ HoldsTrue /\ ReadTrue /\ ShownTrue

GuessOK == AttachOK /\ ProfileOK /\ (cause = None => Unharmed)

PagesOK == TypeOK /\ HandlersOK /\ DialogOK /\ FlagsOK /\ GuessOK

-----------------------------------------------------------------------------
(* Type correctness *)

LEMMA RunTypes ==
    ASSUME TypeOK, NEW f \in Runs
    PROVE  /\ run[f] \in Run /\ run[f].here \in BOOLEAN /\ run[f].did \in BOOLEAN
           /\ run[f].ok \in BOOLEAN /\ run[f].told \in BOOLEAN
           /\ run[f].displaced \in BOOLEAN /\ run[f].awaits \in BOOLEAN
  BY DEF TypeOK, Run

LEMMA InitType == Init => TypeOK
<1>. SUFFICES ASSUME Init PROVE TypeOK
  OBVIOUS
<1>1. scene \in Scenes /\ page \in Screens
  BY PagesAssumption, OpFields DEF Init
<1>2. server \in [Keys -> Values]
  BY PagesAssumption DEF Init
<1>3. cache \in Cache
  BY <1>2, UnreadType DEF Init, Cache
<1>4. dialog \in [kind: {None, "alert", "confirm"}, of: Runs \cup {Nobody},
                  alertRef: Runs \cup {Nobody}, confirmRef: Runs \cup {Nobody}]
  BY DEF Init, NoPanel
<1>. QED
  BY <1>1, <1>2, <1>3, <1>4, IdleType DEF Init, TypeOK

LEMMA PressType ==
    ASSUME TypeOK, NEW f \in Runs, NEW o \in Ops, NEW r \in Rows, Press(f, o, r)
    PROVE  TypeOK'
<1>1. SetBusy(o, r) \in [Slots -> Rows \cup {None}]
  BY OpFields DEF SetBusy, TypeOK
<1>0. PICK v \in Choices(o, r) :
         LET c == [cache EXCEPT !.missing = Renamed(f, @), !.late = Renamed(f, @)]
             risks == Shared(f, o, r) \cup Stale(o, r)
         IN  IF o.asks
             THEN /\ Confirm(f, [run EXCEPT ![f] = Begun(o, r, v, "asking")], risks)
                  /\ cache' = c
                  /\ UNCHANGED busy
             ELSE /\ run' = [run EXCEPT ![f] = Begun(o, r, v, "sending")]
                  /\ cache' = Guess(o, KeyOf(o, r), v, c)
                  /\ cause' = Because(risks \cup Unmarked(cache'))
                  /\ busy' = SetBusy(o, r)
                  /\ UNCHANGED dialog
  BY DEF Press
<1>. DEFINE c == [cache EXCEPT !.missing = Renamed(f, @), !.late = Renamed(f, @)]
            risks == Shared(f, o, r) \cup Stale(o, r)
<1>2. c \in Cache /\ Guess(o, KeyOf(o, r), v, c) \in Cache
  <2>1. c \in Cache
    BY DEF Renamed, TypeOK, Cache
  <2>. HIDE DEF c
  <2>. QED
    BY <2>1, GuessType, ChoicesType, KeyType
<1>5. risks \in SUBSET Causes /\ risks \cup Unmarked(cache') \in SUBSET Causes
                             /\ risks \cup Unheard \in SUBSET Causes
  BY PressRisksType, PatchRisksType DEF Unheard, Causes
<1>3. CASE o.asks
  <2>. PICK b : b = Begun(o, r, v, "asking")
    OBVIOUS
  <2>1. [run EXCEPT ![f] = b] \in [Runs -> Run]
    BY BegunType, ChoicesType DEF TypeOK
  <2>2. Displaced([run EXCEPT ![f] = b]) \in [Runs -> Run]
    BY <2>1, DisplacedType
  <2>4. Confirm(f, [run EXCEPT ![f] = b], risks) /\ UNCHANGED busy /\ cache' = c
    BY <1>0, <1>3
  <2>. HIDE DEF c, risks
  <2>3. Because(risks \cup Unheard) \in Causes
    BY <1>5, BecauseType
  <2>5. run' \in [Runs -> Run] /\ cause' \in Causes
    BY <2>2, <2>3, <2>4 DEF Confirm
  <2>6. dialog' \in [kind: {None, "alert", "confirm"}, of: Runs \cup {Nobody},
                     alertRef: Runs \cup {Nobody}, confirmRef: Runs \cup {Nobody}]
    BY <2>4 DEF Confirm
  <2>. QED
    BY <1>2, <2>4, <2>5, <2>6 DEF Press, TypeOK, Causes
<1>4. CASE ~o.asks
  <2>. PICK b : b = Begun(o, r, v, "sending")
    OBVIOUS
  <2>1. [run EXCEPT ![f] = b] \in [Runs -> Run]
    BY BegunType, ChoicesType DEF TypeOK
  <2>2. /\ run' = [run EXCEPT ![f] = b]
        /\ cache' = Guess(o, KeyOf(o, r), v, c)
        /\ cause' = Because(risks \cup Unmarked(cache'))
        /\ busy' = SetBusy(o, r)
        /\ UNCHANGED dialog
    BY <1>0, <1>4
  <2>. HIDE DEF c, risks
  <2>3. Because(risks \cup Unmarked(cache')) \in Causes
    BY <1>5, BecauseType
  <2>. QED
    BY <1>1, <1>2, <2>1, <2>2, <2>3 DEF Press, TypeOK, Causes
<1>. QED
  BY <1>3, <1>4

LEMMA UnacceptableType ==
    ASSUME TypeOK, NEW o, NEW r, Unacceptable(o, r)
    PROVE  TypeOK'
<1>1. Alert(Nobody, run, {})
  BY DEF Unacceptable
<1>. QED
  BY <1>1, AlertType DEF Unacceptable, TypeOK, Causes

LEMMA FinishConfirmType ==
    ASSUME TypeOK, HandlersOK, DialogMatches, NEW yes \in BOOLEAN, FinishConfirm(yes)
    PROVE  TypeOK'
<1>. PICK f : f = dialog.confirmRef
  OBVIOUS
<1>1. f \in Runs /\ run[f].op \in Ops /\ run[f].row \in Rows
  BY DEF FinishConfirm, Answers, DialogMatches, HandlersOK
<1>2. NoPanel \in [kind: {None, "alert", "confirm"}, of: Runs \cup {Nobody},
                   alertRef: Runs \cup {Nobody}, confirmRef: Runs \cup {Nobody}]
  BY DEF NoPanel
<1>3. CASE yes
  <2>1. [run EXCEPT ![f].stage = "sending"] \in [Runs -> Run]
    BY <1>1 DEF TypeOK, Run
  <2>2. SetBusy(run[f].op, run[f].row) \in [Slots -> Rows \cup {None}]
    BY <1>1, OpFields DEF SetBusy, TypeOK
  <2>3. Guess(run[f].op, Key(f), run[f].next, cache) \in Cache
    <3>1. Key(f) \in Keys
      BY <1>1, KeyType DEF Key
    <3>2. run[f].stage # "idle"
      BY DEF FinishConfirm, Answers, DialogMatches
    <3>3. Writes(run[f].op) => run[f].next \in Values
      BY <1>1, <3>2 DEF HandlersOK
    <3>. QED
      BY <3>1, <3>3, GuessType DEF TypeOK
  <2>4. Unmarked(cache') \in SUBSET Causes
    BY PatchRisksType
  <2>5. Because(Unmarked(cache')) \in Causes
    BY <2>4, BecauseType
  <2>. QED
    BY <1>2, <1>3, <2>1, <2>2, <2>3, <2>5 DEF FinishConfirm, TypeOK, Causes
<1>4. CASE ~yes
  <2>1. [run EXCEPT ![f] = Idle] \in [Runs -> Run]
    BY <1>1, IdleType DEF TypeOK
  <2>. QED
    BY <1>2, <1>4, <2>1 DEF FinishConfirm, TypeOK
<1>. QED
  BY <1>3, <1>4

LEMMA ActedType ==
    ASSUME NEW r \in Run, NEW stage \in {"attaching", "answered"}
    PROVE  [r EXCEPT !.stage = stage, !.did = TRUE, !.ok = TRUE] \in Run
<1>1. CASE stage = "attaching"
  BY <1>1 DEF Run
<1>2. CASE stage = "answered"
  BY <1>2 DEF Run
<1>. QED
  BY <1>1, <1>2

LEMMA ProfilesType ==
    ASSUME TypeOK, NEW o PROVE Profiles(o) \in [Runs -> Run]
<1>1. ASSUME NEW r \in Run PROVE [r EXCEPT !.profile = "old"] \in Run
  BY DEF Run
<1>. QED
  BY <1>1 DEF Profiles, TypeOK

LEMMA OutdatedType ==
    ASSUME NEW f, NEW runs \in [Runs -> Run] PROVE Outdated(f, runs) \in [Runs -> Run]
<1>1. ASSUME NEW r \in Run PROVE [r EXCEPT !.older = TRUE] \in Run
  BY DEF Run
<1>. QED
  BY <1>1 DEF Outdated

LEMMA ServerType ==
    ASSUME TypeOK, HandlersOK, NEW f \in Runs,
           ServerActs(f) \/ ServerRefuses(f) \/ Attach(f) \/ AnswerLost(f)
    PROVE  TypeOK'
<1>1. run[f].op \in Ops
  BY DEF ServerActs, ServerRefuses, Attach, AnswerLost, HandlersOK
<1>5. run[f].stage # "idle"
  BY DEF ServerActs, ServerRefuses, Attach, AnswerLost
<1>2. CASE ServerActs(f)
  <2>. PICK o \in Ops : o = run[f].op
    BY <1>1
  <2>1. Profiles(o) \in [Runs -> Run]
    BY ProfilesType
  <2>. PICK runs \in [Runs -> Run] : runs = Outdated(f, Profiles(o))
    BY <2>1, OutdatedType
  <2>. PICK stage \in {"attaching", "answered"} :
               stage = IF o.attaches THEN "attaching" ELSE "answered"
    OBVIOUS
  <2>2. [runs EXCEPT ![f].stage = stage, ![f].did = TRUE, ![f].ok = TRUE] \in [Runs -> Run]
    <3>. PICK r \in Run : r = runs[f]
      OBVIOUS
    <3>1. [r EXCEPT !.stage = stage, !.did = TRUE, !.ok = TRUE] \in Run
      BY ActedType
    <3>2. [runs EXCEPT ![f] = [r EXCEPT !.stage = stage, !.did = TRUE, !.ok = TRUE]]
            = [runs EXCEPT ![f].stage = stage, ![f].did = TRUE, ![f].ok = TRUE]
      OBVIOUS
    <3>. QED
      BY <3>1, <3>2
  <2>3. run' \in [Runs -> Run]
    BY <1>2, <2>2 DEF ServerActs
  <2>4. Because(Cached(o)) \in Causes
    BY BecauseType DEF Cached, Causes
  <2>5. hints' \subseteq Kinds \cup {"open"}
    BY <1>2, OpFields DEF ServerActs, TypeOK
  <2>6. server' \in [Keys -> Values]
    <3>1. server' = IF Writes(o) THEN [server EXCEPT ![Key(f)] = run[f].next] ELSE server
      BY <1>2 DEF ServerActs
    <3>2. Writes(o) => run[f].next \in Values
      BY <1>5 DEF HandlersOK
    <3>. QED
      BY <3>1, <3>2 DEF TypeOK
  <2>. QED
    BY <1>2, <2>3, <2>4, <2>5, <2>6, ChangedType DEF ServerActs, TypeOK, Causes
<1>3. CASE ServerRefuses(f) \/ Attach(f)
  <2>. PICK runs \in [Runs -> Run] : runs = IF Attach(f) THEN Outdated(f, run) ELSE run
    BY OutdatedType DEF TypeOK
  <2>1. [runs EXCEPT ![f].stage = "answered"] \in [Runs -> Run]
    BY DEF Run
  <2>2. cause' = cause \/ cause' = Because(Cached(run[f].op))
    BY <1>3 DEF ServerRefuses, Attach
  <2>3. cause' \in Causes
    BY <2>2, BecauseType DEF Cached, TypeOK, Causes
  <2>4. run' = [runs EXCEPT ![f].stage = "answered"]
    BY <1>3 DEF ServerRefuses, Attach
  <2>5. cache' \in Cache /\ UNCHANGED <<scene, page, busy, dialog, server, hints>>
    BY <1>3, ChangedType DEF ServerRefuses, Attach, TypeOK
  <2>. QED
    BY <2>1, <2>3, <2>4, <2>5 DEF TypeOK, Causes
<1>4. CASE AnswerLost(f)
  <2>1. [run EXCEPT ![f].stage = "answered", ![f].ok = FALSE] \in [Runs -> Run]
    <3>. PICK r \in Run : r = run[f]
      BY RunTypes
    <3>. PICK q \in Run : q = [r EXCEPT !.stage = "answered"]
      BY RunWith DEF Stages
    <3>1. [q EXCEPT !.ok = FALSE] \in Run
      BY RunWith DEF Stages
    <3>2. [run EXCEPT ![f] = [r EXCEPT !.stage = "answered", !.ok = FALSE]]
            = [run EXCEPT ![f].stage = "answered", ![f].ok = FALSE]
      OBVIOUS
    <3>. QED
      BY <3>1, <3>2 DEF TypeOK
  <2>2. Because({"lost"}) \in Causes
    BY BecauseType DEF Causes
  <2>. QED
    BY <1>4, <2>1, <2>2 DEF AnswerLost, TypeOK, Causes
<1>. QED
  BY <1>2, <1>3, <1>4

LEMMA TellType ==
    ASSUME TypeOK, NEW f \in Runs, TellFirst(f) \/ Tell(f)
    PROVE  TypeOK'
<1>. PICK runs : runs = [run EXCEPT ![f].stage = "telling"]
  OBVIOUS
<1>1. runs \in [Runs -> Run]
  BY DEF TypeOK, Run
<1>2. Alert(f, runs, {})
  BY DEF TellFirst, Tell
<1>. QED
  BY <1>1, <1>2, AlertType DEF TellFirst, Tell, TypeOK, Causes

LEMMA ResumedType ==
    ASSUME TypeOK, NEW f \in Runs, NEW S
    PROVE  [Released(run, S) EXCEPT
              ![f].stage = "waiting",
              ![f].awaits = Watched \in (S \cap Active) \ (run[f].op.loose \cup {Me}),
              ![f].profile = IF run[f].ok /\ run[f].op.profile = "with" THEN "asked" ELSE "none"]
             \in [Runs -> Run]
<1>. DEFINE old == Released(run, S)
            awaits == Watched \in (S \cap Active) \ (run[f].op.loose \cup {Me})
            profile == IF run[f].ok /\ run[f].op.profile = "with" THEN "asked" ELSE "none"
<1>1. old \in [Runs -> Run]
  BY ReleasedType DEF TypeOK
<1>2. awaits \in BOOLEAN /\ profile \in {"none", "asked"}
  OBVIOUS
<1>. HIDE DEF old, awaits, profile
<1>. PICK r \in Run : r = old[f]
  BY <1>1
<1>. PICK q \in Run : q = [r EXCEPT !.stage = "waiting"]
  BY RunWith DEF Stages
<1>. PICK s \in Run : s = [q EXCEPT !.awaits = awaits]
  BY <1>2, RunWith DEF Stages
<1>3. [s EXCEPT !.profile = profile] \in Run
  BY <1>2, RunWith DEF Stages
<1>4. [old EXCEPT ![f] = [r EXCEPT !.stage = "waiting", !.awaits = awaits, !.profile = profile]]
        = [old EXCEPT ![f].stage = "waiting", ![f].awaits = awaits, ![f].profile = profile]
  OBVIOUS
<1>5. [old EXCEPT ![f].stage = "waiting", ![f].awaits = awaits, ![f].profile = profile]
        \in [Runs -> Run]
  BY <1>1, <1>3, <1>4
<1>. QED
  BY <1>5 DEF old, awaits, profile

LEMMA ResumeType ==
    ASSUME TypeOK, HandlersOK, NEW f \in Runs, Resume(f)
    PROVE  TypeOK'
<1>1. PICK S \in ToRefetch(f) :
         LET o == run[f].op
             runs == [Released(run, S) EXCEPT
                        ![f].stage = "waiting",
                        ![f].awaits = Watched \in (S \cap Active) \ (o.loose \cup {Me}),
                        ![f].profile = IF run[f].ok /\ o.profile = "with" THEN "asked"
                                       ELSE "none"]
             risks == Overtaken(S) \cup PatchRisks(f) \cup Unmarked(Patched(f, cache))
         IN  /\ cache' = Invalidated(Patched(f, cache), S)
             /\ IF Outcome(f) = "void first" THEN Alert(Nobody, runs, risks)
                ELSE run' = runs /\ cause' = Because(risks) /\ UNCHANGED dialog
  BY DEF Resume
<1>. DEFINE runs == [Released(run, S) EXCEPT
                        ![f].stage = "waiting",
                        ![f].awaits = Watched \in (S \cap Active) \ (run[f].op.loose \cup {Me}),
                        ![f].profile = IF run[f].ok /\ run[f].op.profile = "with" THEN "asked"
                                       ELSE "none"]
            risks == Overtaken(S) \cup PatchRisks(f) \cup Unmarked(Patched(f, cache))
<1>2. runs \in [Runs -> Run]
  BY ResumedType
<1>3. risks \in SUBSET Causes
  BY OvertakenType, PatchRisksType
<1>4. /\ cache' = Invalidated(Patched(f, cache), S)
      /\ IF Outcome(f) = "void first" THEN Alert(Nobody, runs, risks)
         ELSE run' = runs /\ cause' = Because(risks) /\ UNCHANGED dialog
  BY <1>1
<1>. HIDE DEF runs, risks
<1>5. cache' \in Cache
  <2>1. run[f].stage # "idle"
    BY DEF Resume
  <2>2. Patched(f, cache) \in Cache
    BY <2>1, PatchedType DEF TypeOK, HandlersOK
  <2>. QED
    BY <1>4, <2>2, InvalidatedType
<1>6. Because(risks) \in Causes
  BY <1>3, BecauseType
<1>. QED
  BY <1>2, <1>3, <1>4, <1>5, <1>6, AlertType DEF Resume, TypeOK, Causes

LEMMA ProfileType ==
    ASSUME TypeOK, NEW f \in Runs,
           ProfileAsked(f) \/ ProfileRead(f) \/ ProfileArrives(f) \/ ProfileFails(f)
    PROVE  TypeOK'
<1>1. CASE ProfileAsked(f)
  <2>1. [run EXCEPT ![f].profile = "asked"] \in [Runs -> Run]
    BY DEF TypeOK, Run
  <2>. QED
    BY <1>1, <2>1 DEF ProfileAsked, TypeOK
<1>2. CASE ProfileRead(f)
  <2>1. [run EXCEPT ![f].profile = "read"] \in [Runs -> Run]
    BY DEF TypeOK, Run
  <2>. QED
    BY <1>2, <2>1 DEF ProfileRead, TypeOK
<1>3. CASE ProfileArrives(f)
  <2>1. [run EXCEPT ![f].profile = "done"] \in [Runs -> Run]
    BY DEF TypeOK, Run
  <2>2. /\ [cache EXCEPT !.missing = {}] \in Cache
        /\ [cache EXCEPT !.missing = @ \cup {Earlier}] \in Cache
    BY DEF TypeOK, Cache
  <2>3. Because(IF cache.missing = {} THEN {"crossed"} ELSE {}) \in Causes
    BY BecauseType DEF Causes
  <2>4. cache' \in Cache /\ cause' \in Causes
    BY <1>3, <2>2, <2>3 DEF ProfileArrives, TypeOK, Causes
  <2>. QED
    BY <1>3, <2>1, <2>4 DEF ProfileArrives, TypeOK, Causes
<1>4. CASE ProfileFails(f)
  <2>. PICK r \in Run : r = run[f]
    BY RunTypes
  <2>. PICK q \in Run : q = [r EXCEPT !.profile = "done"]
    BY RunWith DEF Stages
  <2>. PICK s \in Run : s = [q EXCEPT !.ok = FALSE]
    BY RunWith DEF Stages
  <2>1. [s EXCEPT !.awaits = FALSE] \in Run
    BY RunWith DEF Stages
  <2>2. run' = [run EXCEPT ![f] = [r EXCEPT !.profile = "done", !.ok = FALSE, !.awaits = FALSE]]
    BY <1>4 DEF ProfileFails
  <2>3. run' \in [Runs -> Run]
    BY <2>1, <2>2 DEF TypeOK
  <2>4. Because({"failed"}) \in Causes
    BY BecauseType DEF Causes
  <2>. QED
    BY <1>4, <2>3, <2>4 DEF ProfileFails, TypeOK, Causes
<1>. QED
  BY <1>1, <1>2, <1>3, <1>4

LEMMA ClearedType ==
    ASSUME TypeOK, NEW f \in Runs
    PROVE  Cleared(f) \in [Slots -> Rows \cup {None}]
  BY DEF Cleared, TypeOK

LEMMA EndType ==
    ASSUME TypeOK, NEW f \in Runs, End(f)
    PROVE  TypeOK'
<1>. PICK runs : runs = [run EXCEPT ![f] = Idle]
  OBVIOUS
<1>1. runs \in [Runs -> Run]
  BY IdleType DEF TypeOK
<1>2. \/ Alert(Nobody, runs, {})
      \/ run' = runs /\ UNCHANGED <<dialog, cause>>
  BY DEF End
<1>. QED
  BY <1>1, <1>2, AlertType, ClearedType DEF End, TypeOK, Causes

LEMMA CloseAlertType ==
    ASSUME TypeOK, CloseAlert
    PROVE  TypeOK'
<1>. PICK f : f = dialog.alertRef
  OBVIOUS
<1>1. dialog' \in [kind: {None, "alert", "confirm"}, of: Runs \cup {Nobody},
                   alertRef: Runs \cup {Nobody}, confirmRef: Runs \cup {Nobody}]
  BY DEF CloseAlert, NoPanel
<1>2. CASE f = Nobody
  BY <1>1, <1>2 DEF CloseAlert, TypeOK
<1>3. CASE f \in Runs /\ Outcome(f) = "await first"
  <2>. PICK r \in Run : r = run[f]
    BY <1>3, RunTypes
  <2>1. [r EXCEPT !.stage = "answered", !.told = TRUE] \in Run
    BY DEF Run
  <2>2. run' = [run EXCEPT ![f] = [r EXCEPT !.stage = "answered", !.told = TRUE]]
    BY <1>3, PagesAssumption DEF CloseAlert
  <2>3. run' \in [Runs -> Run] /\ UNCHANGED busy
    BY <1>3, <2>1, <2>2, PagesAssumption DEF CloseAlert, TypeOK
  <2>. QED
    BY <1>1, <2>3 DEF CloseAlert, TypeOK
<1>4. CASE f \in Runs /\ Outcome(f) # "await first"
  <2>1. run' = [run EXCEPT ![f] = Idle] /\ busy' = Cleared(f)
    BY <1>4, PagesAssumption DEF CloseAlert
  <2>2. [run EXCEPT ![f] = Idle] \in [Runs -> Run]
    BY <1>4, IdleType DEF TypeOK
  <2>. QED
    BY <1>1, <1>4, <2>1, <2>2, ClearedType DEF CloseAlert, TypeOK
<1>5. f \in Runs \cup {Nobody}
  BY DEF TypeOK
<1>. QED
  BY <1>2, <1>3, <1>4, <1>5

LEMMA ListType ==
    ASSUME TypeOK,
           Reload \/ Refocus \/ FetchRead \/ FetchArrives \/ FetchFails
             \/ \E k \in Kinds \cup {"open"} : HintArrives(k)
    PROVE  TypeOK'
<1>0. \A S : Because(Overtaken(S)) \in Causes
  BY OvertakenType, BecauseType
<1>1. CASE Reload
  <2>1. Invalidated(cache, {Watched}) \in Cache /\ Released(run, {Watched}) \in [Runs -> Run]
    BY InvalidatedType, ReleasedType DEF TypeOK
  <2>. QED
    BY <1>0, <1>1, <2>1 DEF Reload, TypeOK, Causes
<1>2. CASE Refocus \/ FetchRead
  <2>1. ASSUME NEW u \in [Keys -> Values]
        PROVE  /\ [cache EXCEPT !.fetch = "asked", !.late = {}] \in Cache
               /\ [cache EXCEPT !.fetch = "read", !.read = u] \in Cache
    BY DEF TypeOK, Cache
  <2>2. cache' \in Cache
    BY <1>2, <2>1 DEF Refocus, FetchRead, TypeOK
  <2>. QED
    BY <1>2, <2>2 DEF Refocus, FetchRead, TypeOK
<1>3. CASE FetchArrives
  <2>1. cache' \in Cache
    BY <1>3, UnreadType DEF FetchArrives, TypeOK, Cache
  <2>2. Because(IF Watched = Me /\ cache.missing = {} /\ cache.late # {}
                THEN {"crossed"} ELSE {}) \in Causes
    BY BecauseType DEF Causes
  <2>3. cause' \in Causes
    BY <1>3, <2>2 DEF FetchArrives, Causes
  <2>. QED
    BY <1>3, <2>1, <2>3, NoLongerAwaitedType DEF FetchArrives, TypeOK, Causes
<1>4. CASE FetchFails
  <2>1. ASSUME NEW u \in [Keys -> Values]
        PROVE  [cache EXCEPT !.fetch = "none", !.late = {}, !.read = u,
                             !.failed = "new", !.invalid = TRUE] \in Cache
    BY DEF TypeOK, Cache
  <2>2. Because({"failed"}) \in Causes
    BY BecauseType DEF Causes
  <2>3. cache' \in Cache
    BY <1>4, <2>1, UnreadType DEF FetchFails
  <2>. QED
    BY <1>4, <2>2, <2>3, NoLongerAwaitedType DEF FetchFails, TypeOK, Causes
<1>5. ASSUME NEW k \in Kinds \cup {"open"}, HintArrives(k) PROVE TypeOK'
  <2>. PICK S : S = Hears(page, k)
    OBVIOUS
  <2>1. Invalidated(cache, S) \in Cache /\ Released(run, S) \in [Runs -> Run]
    BY InvalidatedType, ReleasedType DEF TypeOK
  <2>. QED
    BY <1>0, <1>5, <2>1 DEF HintArrives, TypeOK, Causes
<1>. QED
  BY <1>1, <1>2, <1>3, <1>4, <1>5

LEMMA QueryErrorAlertType ==
    ASSUME TypeOK, QueryErrorAlert
    PROVE  TypeOK'
<1>1. [cache EXCEPT !.failed = "told"] \in Cache
  BY DEF TypeOK, Cache
<1>2. Alert(Nobody, run, {})
  BY DEF QueryErrorAlert
<1>. QED
  BY <1>1, <1>2, AlertType DEF QueryErrorAlert, TypeOK, Causes

LEMMA LeftType ==
    ASSUME TypeOK, NEW f \in Runs PROVE Left(f) \in Run
<1>1. [run[f] EXCEPT !.here = FALSE] \in Run
  BY RunTypes DEF Run
<1>. QED
  BY <1>1, IdleType DEF Left

LEMMA NavigateType ==
    ASSUME TypeOK, NEW p \in Screens, Navigate(p)
    PROVE  TypeOK'
<1>1. cache' \in Cache
  <2>1. cache' = [cache EXCEPT !.fetch = IF Mounts(p) THEN "asked" ELSE @,
                               !.failed = IF @ = "told" THEN "new" ELSE @]
    BY DEF Navigate
  <2>. QED
    BY <2>1 DEF TypeOK, Cache
<1>2. run' \in [Runs -> Run]
  BY LeftType DEF Navigate
<1>3. cause' \in Causes
  BY BecauseType DEF Navigate, LeftUnheard, Causes
<1>. QED
  BY <1>1, <1>2, <1>3 DEF Navigate, TypeOK, Causes

LEMMA FoldType ==
    ASSUME TypeOK, NEW s \in Slots, Fold(s)
    PROVE  TypeOK'
<1>1. run' \in [Runs -> Run]
  BY LeftType, RunTypes DEF Fold
<1>. QED
  BY <1>1 DEF Fold, TypeOK

LEMMA SceneOps == TypeOK => scene.ops \subseteq Ops /\ scene.runs \subseteq Runs
  BY PagesAssumption DEF TypeOK

LEMMA TypeStep ==
    ASSUME TypeOK, HandlersOK, DialogMatches, [Next]_vars
    PROVE  TypeOK'
<1>1. CASE \E f \in scene.runs, o \in scene.ops, r \in Rows : Press(f, o, r)
  BY <1>1, SceneOps, PressType
<1>2. CASE \E f \in Runs : Proceed(f) \/ AnswerLost(f) \/ ProfileFails(f)
  BY <1>2, ServerType, TellType, ResumeType, ProfileType, EndType DEF Proceed
<1>3. CASE UNCHANGED vars
  BY <1>3 DEF vars, TypeOK
<1>. QED
  BY <1>1, <1>2, <1>3, UnacceptableType, FinishConfirmType, CloseAlertType, ListType,
     QueryErrorAlertType, NavigateType, FoldType
  DEF Next

-----------------------------------------------------------------------------
(* What the steps do to the handlers, the flags and the panel *)

Working == {"sending", "attaching", "answered", "waiting"}

Same(g) ==
    /\ run'[g].op = run[g].op /\ run'[g].row = run[g].row /\ run'[g].here = run[g].here
    /\ run'[g].held = run[g].held /\ run'[g].next = run[g].next
    /\ \/ run'[g].stage = run[g].stage
       \/ run[g].stage \in Working /\ run'[g].stage \in Working

Others(f) == \A g \in Runs : g # f => Same(g)

SamePanel == UNCHANGED dialog /\ \A g \in Runs : run'[g].displaced = run[g].displaced

NewAlert(w) ==
    /\ dialog' = [kind |-> "alert", of |-> w, alertRef |-> w, confirmRef |-> Nobody]
    /\ \A g \in Runs : run'[g].displaced = (run[g].displaced \/ g = dialog.alertRef)

(* Every handler goes on where it was *)
Quiet ==
    /\ \A g \in Runs : Same(g)
    /\ UNCHANGED <<page, busy>>
    /\ SamePanel \/ NewAlert(Nobody)

Told(f) ==
    /\ Others(f) /\ run[f].stage \in Working /\ run'[f].stage = "telling"
    /\ run'[f].op = run[f].op /\ run'[f].row = run[f].row /\ run'[f].here = run[f].here
    /\ run'[f].held = run[f].held /\ run'[f].next = run[f].next
    /\ UNCHANGED <<page, busy>>
    /\ NewAlert(f)

Ended(f) ==
    /\ Others(f) /\ run[f].stage \in Working /\ run'[f] = Idle
    /\ UNCHANGED page /\ busy' = Cleared(f)
    /\ SamePanel \/ NewAlert(Nobody)

(* The alert that f waited for is closed *)
Closed(f) ==
    /\ dialog.alertRef = f /\ dialog.kind = "alert" /\ dialog' = NoPanel
    /\ Others(f) /\ UNCHANGED page
    /\ \A g \in Runs : run'[g].displaced = run[g].displaced
    /\ f \in Runs => \/ /\ run'[f].stage = "answered" /\ UNCHANGED busy
                        /\ run'[f].op = run[f].op /\ run'[f].row = run[f].row
                        /\ run'[f].here = run[f].here
                        /\ run'[f].held = run[f].held /\ run'[f].next = run[f].next
                     \/ run'[f] = Idle /\ busy' = Cleared(f)
    /\ f \notin Runs => UNCHANGED busy

Begins(f, o, r, stage) ==
    /\ Free(f) /\ CanPress(o, r) /\ Others(f) /\ UNCHANGED page
    /\ run'[f].op = o /\ run'[f].row = r /\ run'[f].stage = stage
    /\ run'[f].here /\ ~run'[f].displaced
    /\ run'[f].held = Displayed(o, r) /\ run'[f].next \in Choices(o, r)

Asks(f, o, r) ==
    /\ o.asks /\ Begins(f, o, r, "asking") /\ UNCHANGED busy
    /\ dialog' = [kind |-> "confirm", of |-> f, alertRef |-> Nobody, confirmRef |-> f]
    /\ \A g \in Runs : g # f => run'[g].displaced = (run[g].displaced \/ g = dialog.alertRef)

Sends(f, o, r) ==
    /\ ~o.asks /\ Begins(f, o, r, "sending")
    /\ busy' = SetBusy(o, r) /\ SamePanel

(* The question of f is answered *)
Confirmed(f) ==
    /\ dialog.kind = "confirm" /\ dialog.confirmRef = f /\ dialog' = NoPanel
    /\ Others(f) /\ UNCHANGED page
    /\ \A g \in Runs : run'[g].displaced = run[g].displaced
    /\ \/ /\ run'[f].op = run[f].op /\ run'[f].row = run[f].row /\ run'[f].here = run[f].here
          /\ run'[f].held = run[f].held /\ run'[f].next = run[f].next
          /\ run'[f].stage = "sending"
          /\ busy' = IF run[f].here THEN SetBusy(run[f].op, run[f].row) ELSE busy
       \/ run'[f] = Idle /\ UNCHANGED busy

(* What a page or part that goes leaves of g *)
Leaves(g) ==
    \/ /\ run'[g] = Idle
       /\ Free(g) \/ (run[g].stage = "telling" /\ dialog.alertRef # g)
    \/ /\ ~Free(g) /\ (run[g].stage = "telling" => dialog.alertRef = g)
       /\ run'[g].op = run[g].op /\ run'[g].row = run[g].row /\ run'[g].here = FALSE
       /\ run'[g].held = run[g].held /\ run'[g].next = run[g].next
       /\ run'[g].stage = run[g].stage /\ run'[g].displaced = run[g].displaced

Goes ==
    /\ \A g \in Runs : Leaves(g)
    /\ busy' = [s \in Slots |-> None] /\ UNCHANGED dialog

Folds(s) ==
    /\ \A g \in Runs : IF run[g].op \in Ops /\ run[g].op.slot = s
                       THEN Leaves(g) ELSE run'[g] = run[g]
    /\ busy' = [busy EXCEPT ![s] = None] /\ UNCHANGED <<page, dialog>>

IdleColumns(r) == r.stage = "idle" /\ r.here = FALSE /\ r.displaced = FALSE

LEMMA IdleFields == IdleColumns(Idle)
  BY DEF Idle, IdleColumns

(* The runs become these, but for the one whose alert is displaced *)
Become(runs) ==
    \A g \in Runs :
        /\ run'[g].op = runs[g].op /\ run'[g].row = runs[g].row
        /\ run'[g].here = runs[g].here /\ run'[g].stage = runs[g].stage
        /\ run'[g].held = runs[g].held /\ run'[g].next = runs[g].next
        /\ run'[g].did = runs[g].did
        /\ run'[g].ok = runs[g].ok /\ run'[g].profile = runs[g].profile
        /\ run'[g].displaced = (runs[g].displaced \/ g = dialog.alertRef)

LEMMA DisplacedShape ==
    ASSUME TypeOK, NEW runs \in [Runs -> Run], run' = Displaced(runs)
    PROVE  Become(runs)
<1>1. \A g \in Runs : runs[g].displaced \in BOOLEAN
  BY DEF Run
<1>2. CASE dialog.alertRef = Nobody
  BY <1>1, <1>2, PagesAssumption DEF Displaced, Become
<1>3. CASE dialog.alertRef # Nobody
  <2>1. run' = [runs EXCEPT ![dialog.alertRef].displaced = TRUE]
    BY <1>3 DEF Displaced
  <2>2. ASSUME NEW g \in Runs, g = dialog.alertRef
        PROVE  /\ run'[g].op = runs[g].op /\ run'[g].row = runs[g].row
               /\ run'[g].here = runs[g].here /\ run'[g].stage = runs[g].stage
               /\ run'[g].held = runs[g].held /\ run'[g].next = runs[g].next
               /\ run'[g].ok = runs[g].ok /\ run'[g].displaced = TRUE
               /\ run'[g].did = runs[g].did
               /\ run'[g].profile = runs[g].profile
    <3>. PICK r \in Run : r = runs[g]
      OBVIOUS
    <3>1. run'[g] = [r EXCEPT !.displaced = TRUE]
      BY <2>1, <2>2
    <3>. QED
      BY <3>1 DEF Run
  <2>3. ASSUME NEW g \in Runs, g # dialog.alertRef PROVE run'[g] = runs[g]
    BY <2>1, <2>3
  <2>4. ASSUME NEW g \in Runs
        PROVE  run'[g].displaced = (runs[g].displaced \/ g = dialog.alertRef)
    BY <1>1, <2>2, <2>3
  <2>5. ASSUME NEW g \in Runs
        PROVE  /\ run'[g].op = runs[g].op /\ run'[g].row = runs[g].row
               /\ run'[g].here = runs[g].here /\ run'[g].stage = runs[g].stage
               /\ run'[g].held = runs[g].held /\ run'[g].next = runs[g].next
               /\ run'[g].did = runs[g].did
               /\ run'[g].ok = runs[g].ok /\ run'[g].profile = runs[g].profile
    <3>1. CASE g = dialog.alertRef
      BY <2>2, <3>1
    <3>2. CASE g # dialog.alertRef
      BY <2>3, <3>2
    <3>. QED
      BY <3>1, <3>2
  <2>. QED
    BY <2>4, <2>5 DEF Become
<1>. QED
  BY <1>2, <1>3

LEMMA AlertShape ==
    ASSUME TypeOK, NEW w, NEW runs \in [Runs -> Run], NEW S, Alert(w, runs, S)
    PROVE  /\ dialog' = [kind |-> "alert", of |-> w, alertRef |-> w, confirmRef |-> Nobody]
           /\ Become(runs)
  BY DisplacedShape DEF Alert

(* The server tells the other handlers nothing *)
LEMMA OutdatedFields ==
    ASSUME TypeOK, NEW f, NEW g \in Runs, NEW o, NEW before, before \in {Profiles(o), run},
           NEW runs, runs = Outdated(f, before)
    PROVE  /\ runs[g].op = run[g].op /\ runs[g].row = run[g].row
           /\ runs[g].here = run[g].here /\ runs[g].stage = run[g].stage
           /\ runs[g].displaced = run[g].displaced
           /\ runs[g].ok = run[g].ok /\ runs[g].did = run[g].did
           /\ runs[g].held = run[g].held /\ runs[g].next = run[g].next
           /\ runs \in [Runs -> Run]
<1>. DEFINE Fields(q, r) == /\ q.op = r.op /\ q.row = r.row /\ q.here = r.here
                            /\ q.stage = r.stage /\ q.displaced = r.displaced
                            /\ q.ok = r.ok /\ q.did = r.did
                            /\ q.held = r.held /\ q.next = r.next
<1>1. ASSUME NEW r \in Run
      PROVE  Fields([r EXCEPT !.older = TRUE], r) /\ Fields([r EXCEPT !.profile = "old"], r)
  BY DEF Run
<1>2. before \in [Runs -> Run]
  BY ProfilesType DEF TypeOK
<1>3. runs \in [Runs -> Run]
  BY <1>2, OutdatedType
<1>4. Fields(Profiles(o)[g], run[g])
  <2>1. Profiles(o)[g] = run[g] \/ Profiles(o)[g] = [run[g] EXCEPT !.profile = "old"]
    BY DEF Profiles
  <2>. PICK r \in Run : r = run[g]
    BY RunTypes
  <2>2. CASE Profiles(o)[g] = r
    BY <2>2
  <2>3. CASE Profiles(o)[g] = [r EXCEPT !.profile = "old"]
    BY <1>1, <2>3
  <2>. QED
    BY <2>1, <2>2, <2>3
<1>5. Fields(before[g], run[g])
  BY <1>2, <1>4
<1>6. Fields(runs[g], before[g])
  <2>1. runs[g] = before[g] \/ runs[g] = [before[g] EXCEPT !.older = TRUE]
    BY DEF Outdated
  <2>. PICK r \in Run : r = before[g]
    BY <1>2
  <2>2. CASE runs[g] = r
    BY <2>2
  <2>3. CASE runs[g] = [r EXCEPT !.older = TRUE]
    BY <1>1, <2>3
  <2>. QED
    BY <2>1, <2>2, <2>3
<1>. QED
  BY <1>3, <1>5, <1>6

LEMMA ServerShape ==
    ASSUME PagesOK, NEW f \in Runs,
           ServerActs(f) \/ ServerRefuses(f) \/ Attach(f) \/ AnswerLost(f)
    PROVE  Quiet
<1>1. CASE ServerActs(f)
  <2>. PICK o : o = run[f].op
    OBVIOUS
  <2>. PICK before : before = Profiles(o)
    OBVIOUS
  <2>. PICK runs : runs = Outdated(f, before)
    OBVIOUS
  <2>1. \A g \in Runs : /\ runs[g].op = run[g].op /\ runs[g].row = run[g].row
                        /\ runs[g].here = run[g].here /\ runs[g].stage = run[g].stage
                        /\ runs[g].held = run[g].held /\ runs[g].next = run[g].next
                        /\ runs[g].displaced = run[g].displaced
    <3>1. before \in {Profiles(o), run}
      OBVIOUS
    <3>2. TypeOK
      BY DEF PagesOK
    <3>. QED
      BY <3>1, <3>2, OutdatedFields
  <2>2. runs \in [Runs -> Run]
    BY ProfilesType, OutdatedType DEF PagesOK
  <2>. PICK stage \in Working : stage = IF o.attaches THEN "attaching" ELSE "answered"
    BY DEF Working
  <2>3. run' = [runs EXCEPT ![f].stage = stage, ![f].did = TRUE, ![f].ok = TRUE]
    BY <1>1 DEF ServerActs
  <2>4. \A g \in Runs : /\ run'[g].op = runs[g].op /\ run'[g].row = runs[g].row
                        /\ run'[g].here = runs[g].here
                        /\ run'[g].held = runs[g].held /\ run'[g].next = runs[g].next
                        /\ run'[g].displaced = runs[g].displaced
                        /\ run'[g].stage = IF g = f THEN stage ELSE runs[g].stage
    BY <2>2, <2>3 DEF Run
  <2>5. run[f].stage \in Working
    BY <1>1 DEF ServerActs, Working
  <2>6. UNCHANGED <<page, busy, dialog>>
    BY <1>1 DEF ServerActs
  <2>7. \A g \in Runs : Same(g) /\ run'[g].displaced = run[g].displaced
    BY <2>1, <2>4, <2>5 DEF Same
  <2>. QED
    BY <2>6, <2>7 DEF Quiet, SamePanel
<1>2. CASE ServerRefuses(f) \/ Attach(f) \/ AnswerLost(f)
  <2>1. \A g \in Runs : /\ run'[g].op = run[g].op /\ run'[g].row = run[g].row
                        /\ run'[g].here = run[g].here
                        /\ run'[g].held = run[g].held /\ run'[g].next = run[g].next
                        /\ run'[g].displaced = run[g].displaced
                        /\ run'[g].stage = IF g = f THEN "answered" ELSE run[g].stage
    <3>. PICK runs : runs = IF Attach(f) THEN Outdated(f, run) ELSE run
      OBVIOUS
    <3>1. \A g \in Runs : /\ runs[g].op = run[g].op /\ runs[g].row = run[g].row
                          /\ runs[g].here = run[g].here /\ runs[g].stage = run[g].stage
                          /\ runs[g].held = run[g].held /\ runs[g].next = run[g].next
                          /\ runs[g].displaced = run[g].displaced
      <4>1. CASE runs = run
        BY <4>1
      <4>2. CASE runs = Outdated(f, run)
        <5>. PICK o, before : o = run[f].op /\ before = run
          OBVIOUS
        <5>. QED
          BY <4>2, OutdatedFields DEF PagesOK
      <4>. QED
        BY <4>1, <4>2
    <3>2. runs \in [Runs -> Run]
      BY OutdatedType DEF PagesOK, TypeOK
    <3>3. \/ run' = [runs EXCEPT ![f].stage = "answered"]
          \/ run' = [runs EXCEPT ![f].stage = "answered", ![f].ok = FALSE]
      <4>1. Attach(f) => run' = [runs EXCEPT ![f].stage = "answered"]
        BY DEF Attach
      <4>2. ServerRefuses(f) /\ ~Attach(f) => run' = [runs EXCEPT ![f].stage = "answered"]
        BY DEF ServerRefuses
      <4>3. AnswerLost(f) /\ ~Attach(f) =>
              run' = [runs EXCEPT ![f].stage = "answered", ![f].ok = FALSE]
        BY DEF AnswerLost
      <4>. QED
        BY <1>2, <4>1, <4>2, <4>3
    <3>4. \A g \in Runs : /\ run'[g].op = runs[g].op /\ run'[g].row = runs[g].row
                          /\ run'[g].here = runs[g].here
                          /\ run'[g].held = runs[g].held /\ run'[g].next = runs[g].next
                          /\ run'[g].displaced = runs[g].displaced
                          /\ run'[g].stage = IF g = f THEN "answered" ELSE runs[g].stage
      BY <3>2, <3>3 DEF Run
    <3>. QED
      BY <3>1, <3>4
  <2>2. run[f].stage \in Working
    BY <1>2 DEF ServerRefuses, Attach, AnswerLost, Working
  <2>. QED
    BY <1>2, <2>1, <2>2 DEF ServerRefuses, Attach, AnswerLost, Quiet, Same, SamePanel, Working
<1>. QED
  BY <1>1, <1>2

LEMMA ProfileShape ==
    ASSUME PagesOK, NEW f \in Runs,
           ProfileAsked(f) \/ ProfileRead(f) \/ ProfileArrives(f) \/ ProfileFails(f)
    PROVE  Quiet
<1>1. \A g \in Runs : /\ run'[g].op = run[g].op /\ run'[g].row = run[g].row
                      /\ run'[g].here = run[g].here
                      /\ run'[g].held = run[g].held /\ run'[g].next = run[g].next
                      /\ run'[g].displaced = run[g].displaced
                      /\ run'[g].stage = run[g].stage
  BY DEF ProfileAsked, ProfileRead, ProfileArrives, ProfileFails, PagesOK, TypeOK, Run
<1>. QED
  BY <1>1 DEF ProfileAsked, ProfileRead, ProfileArrives, ProfileFails, Quiet, Same, SamePanel

(* Only what is awaited changes *)
LEMMA ReleasedFields ==
    ASSUME NEW runs \in [Runs -> Run], NEW S, NEW g \in Runs
    PROVE  /\ Released(runs, S)[g].op = runs[g].op /\ Released(runs, S)[g].row = runs[g].row
           /\ Released(runs, S)[g].here = runs[g].here /\ Released(runs, S)[g].stage = runs[g].stage
           /\ Released(runs, S)[g].displaced = runs[g].displaced
           /\ Released(runs, S)[g].ok = runs[g].ok /\ Released(runs, S)[g].did = runs[g].did
           /\ Released(runs, S)[g].held = runs[g].held /\ Released(runs, S)[g].next = runs[g].next
  BY DEF Released, Run

LEMMA ListShape ==
    ASSUME PagesOK,
           Reload \/ Refocus \/ FetchRead \/ FetchArrives \/ FetchFails
             \/ \E k \in Kinds \cup {"open"} : HintArrives(k)
    PROVE  Quiet
<1>1. \A g \in Runs : /\ run'[g].op = run[g].op /\ run'[g].row = run[g].row
                      /\ run'[g].here = run[g].here
                      /\ run'[g].held = run[g].held /\ run'[g].next = run[g].next
                      /\ run'[g].displaced = run[g].displaced
                      /\ run'[g].stage = run[g].stage
  <2>1. CASE \E S : run' = Released(run, S)
    BY <2>1, ReleasedFields DEF PagesOK, TypeOK
  <2>2. CASE run' = NoLongerAwaited
    BY <2>2, RunTypes DEF NoLongerAwaited, Run, PagesOK
  <2>3. CASE run' = run
    BY <2>3
  <2>. QED
    BY <2>1, <2>2, <2>3 DEF Reload, Refocus, FetchRead, FetchArrives, FetchFails, HintArrives
<1>. QED
  BY <1>1 DEF Reload, Refocus, FetchRead, FetchArrives, FetchFails, HintArrives,
              Quiet, Same, SamePanel

LEMMA ResumeShape ==
    ASSUME PagesOK, NEW f \in Runs, Resume(f)
    PROVE  Quiet
<1>1. PICK S \in ToRefetch(f) :
         LET o == run[f].op
             runs == [Released(run, S) EXCEPT
                        ![f].stage = "waiting",
                        ![f].awaits = Watched \in (S \cap Active) \ (o.loose \cup {Me}),
                        ![f].profile = IF run[f].ok /\ o.profile = "with" THEN "asked"
                                       ELSE "none"]
             risks == Overtaken(S) \cup PatchRisks(f) \cup Unmarked(Patched(f, cache))
         IN  /\ cache' = Invalidated(Patched(f, cache), S)
             /\ IF Outcome(f) = "void first" THEN Alert(Nobody, runs, risks)
                ELSE run' = runs /\ cause' = Because(risks) /\ UNCHANGED dialog
  BY DEF Resume
<1>. DEFINE old == Released(run, S)
            runs == [old EXCEPT
                        ![f].stage = "waiting",
                        ![f].awaits = Watched \in (S \cap Active) \ (run[f].op.loose \cup {Me}),
                        ![f].profile = IF run[f].ok /\ run[f].op.profile = "with" THEN "asked"
                                       ELSE "none"]
            risks == Overtaken(S) \cup PatchRisks(f) \cup Unmarked(Patched(f, cache))
<1>2. runs \in [Runs -> Run]
  BY ResumedType DEF PagesOK
<1>3. \A g \in Runs : /\ runs[g].op = run[g].op /\ runs[g].row = run[g].row
                      /\ runs[g].here = run[g].here
                      /\ runs[g].held = run[g].held /\ runs[g].next = run[g].next
                      /\ runs[g].displaced = run[g].displaced
                      /\ runs[g].stage = IF g = f THEN "waiting" ELSE run[g].stage
  <2>1. \A g \in Runs : /\ old[g].op = run[g].op /\ old[g].row = run[g].row
                        /\ old[g].here = run[g].here
                        /\ old[g].held = run[g].held /\ old[g].next = run[g].next
                        /\ old[g].displaced = run[g].displaced
                        /\ old[g].stage = run[g].stage
    BY ReleasedFields DEF PagesOK, TypeOK
  <2>2. old \in [Runs -> Run]
    BY ReleasedType DEF PagesOK, TypeOK
  <2>. HIDE DEF old
  <2>. QED
    BY <2>1, <2>2 DEF Run
<1>4. /\ \/ Alert(Nobody, runs, risks)
         \/ run' = runs /\ UNCHANGED dialog
      /\ UNCHANGED <<page, busy>> /\ run[f].stage \in Working
  BY <1>1 DEF Resume, Working
<1>. HIDE DEF runs, risks
<1>5. CASE Alert(Nobody, runs, risks)
  <2>1. /\ dialog' = [kind |-> "alert", of |-> Nobody, alertRef |-> Nobody,
                      confirmRef |-> Nobody]
        /\ Become(runs)
    BY <1>2, <1>5, AlertShape DEF PagesOK
  <2>2. NewAlert(Nobody)
    BY <1>3, <2>1 DEF NewAlert, Become
  <2>3. \A g \in Runs : Same(g)
    BY <1>3, <1>4, <2>1 DEF Same, Working, Become
  <2>. QED
    BY <1>4, <2>2, <2>3 DEF Quiet
<1>6. CASE run' = runs /\ UNCHANGED dialog
  <2>1. SamePanel
    BY <1>3, <1>6 DEF SamePanel
  <2>2. \A g \in Runs : Same(g)
    BY <1>3, <1>4, <1>6 DEF Same, Working
  <2>. QED
    BY <1>4, <2>1, <2>2 DEF Quiet
<1>. QED
  BY <1>4, <1>5, <1>6

LEMMA NobodyTold ==
    ASSUME PagesOK, (\E o, r : Unacceptable(o, r)) \/ QueryErrorAlert
    PROVE  Quiet
<1>1. Alert(Nobody, run, {}) /\ UNCHANGED <<page, busy>>
  BY DEF Unacceptable, QueryErrorAlert
<1>2. run \in [Runs -> Run]
  BY DEF PagesOK, TypeOK
<1>. QED
  BY <1>1, <1>2, AlertShape DEF PagesOK, Quiet, Same, NewAlert, Become

LEMMA TellShape ==
    ASSUME PagesOK, NEW f \in Runs, TellFirst(f) \/ Tell(f)
    PROVE  Told(f)
<1>. PICK runs : runs = [run EXCEPT ![f].stage = "telling"]
  OBVIOUS
<1>0. run \in [Runs -> Run]
  BY DEF PagesOK, TypeOK
<1>1. runs \in [Runs -> Run]
  BY <1>0 DEF Run
<1>2. \A g \in Runs : /\ runs[g].op = run[g].op /\ runs[g].row = run[g].row
                      /\ runs[g].here = run[g].here
                      /\ runs[g].held = run[g].held /\ runs[g].next = run[g].next
                      /\ runs[g].displaced = run[g].displaced
                      /\ runs[g].stage = IF g = f THEN "telling" ELSE run[g].stage
  BY DEF PagesOK, TypeOK, Run
<1>3. Alert(f, runs, {}) /\ UNCHANGED <<page, busy>> /\ run[f].stage \in Working
  BY DEF TellFirst, Tell, Settled, Working
<1>4. /\ dialog' = [kind |-> "alert", of |-> f, alertRef |-> f, confirmRef |-> Nobody]
      /\ Become(runs)
  BY <1>1, <1>3, AlertShape DEF PagesOK
<1>5. NewAlert(f)
  BY <1>2, <1>4 DEF NewAlert, Become
<1>6. \A g \in Runs : /\ run'[g].op = run[g].op /\ run'[g].row = run[g].row
                      /\ run'[g].here = run[g].here
                      /\ run'[g].held = run[g].held /\ run'[g].next = run[g].next
                      /\ run'[g].stage = IF g = f THEN "telling" ELSE run[g].stage
  BY <1>2, <1>4 DEF Become
<1>. QED
  BY <1>3, <1>5, <1>6 DEF Told, Others, Same

LEMMA EndShape ==
    ASSUME PagesOK, NEW f \in Runs, End(f)
    PROVE  Ended(f)
<1>. PICK runs : runs = [run EXCEPT ![f] = Idle]
  OBVIOUS
<1>1. runs \in [Runs -> Run] /\ runs[f] = Idle /\ \A g \in Runs : g # f => runs[g] = run[g]
  BY IdleType DEF PagesOK, TypeOK
<1>2. /\ run[f].stage \in Working /\ UNCHANGED page /\ busy' = Cleared(f)
      /\ \/ Alert(Nobody, runs, {})
         \/ run' = runs /\ UNCHANGED dialog
  BY DEF End, Settled, Working
<1>3. run[f].displaced = FALSE /\ dialog.alertRef # f
  BY <1>2, RunTypes DEF PagesOK, HandlersOK, Working, DialogOK, DialogMatches
<1>0. \A g \in Runs : runs[g].displaced = run[g].displaced
  BY <1>1, <1>3, IdleFields DEF IdleColumns
<1>4. CASE run' = runs /\ UNCHANGED dialog
  <2>1. SamePanel
    BY <1>0, <1>4 DEF SamePanel
  <2>2. Others(f)
    BY <1>1, <1>4 DEF Others, Same
  <2>. QED
    BY <1>1, <1>2, <1>4, <2>1, <2>2 DEF Ended
<1>5. CASE Alert(Nobody, runs, {})
  <2>1. run' = Displaced(runs)
    BY <1>5 DEF Alert
  <2>2. run'[f] = Idle
    BY <1>1, <1>3, <2>1 DEF Displaced
  <2>3. /\ dialog' = [kind |-> "alert", of |-> Nobody, alertRef |-> Nobody,
                      confirmRef |-> Nobody]
        /\ Become(runs)
    BY <1>1, <1>5, AlertShape DEF PagesOK
  <2>4. NewAlert(Nobody)
    BY <1>0, <2>3 DEF NewAlert, Become
  <2>5. Others(f)
    BY <1>1, <2>3 DEF Others, Same, Become
  <2>. QED
    BY <1>2, <2>2, <2>4, <2>5 DEF Ended
<1>. QED
  BY <1>2, <1>4, <1>5

LEMMA CloseShape ==
    ASSUME PagesOK, CloseAlert
    PROVE  \E f \in Runs \cup {Nobody} : Closed(f)
<1>. PICK f \in Runs \cup {Nobody} : f = dialog.alertRef
  BY DEF PagesOK, TypeOK
<1>1. dialog.kind = "alert" /\ dialog' = NoPanel /\ UNCHANGED page
  BY DEF CloseAlert, Answers
<1>2. CASE f = Nobody
  BY <1>1, <1>2, PagesAssumption DEF CloseAlert, Closed, Others, Same
<1>3. CASE f \in Runs
  <2>1. run[f].displaced = FALSE
    BY <1>3, RunTypes DEF PagesOK, DialogOK, DialogMatches
  <2>2. CASE run' = [run EXCEPT ![f].stage = "answered", ![f].told = TRUE] /\ UNCHANGED busy
    <3>1. \A g \in Runs : /\ run'[g].op = run[g].op /\ run'[g].row = run[g].row
                          /\ run'[g].here = run[g].here
                          /\ run'[g].held = run[g].held /\ run'[g].next = run[g].next
                          /\ run'[g].displaced = run[g].displaced
                          /\ run'[g].stage = IF g = f THEN "answered" ELSE run[g].stage
      BY <2>2 DEF PagesOK, TypeOK, Run
    <3>2. Others(f)
      BY <3>1 DEF Others, Same
    <3>. QED
      BY <1>1, <1>3, <2>2, <3>1, <3>2 DEF Closed
  <2>3. CASE run' = [run EXCEPT ![f] = Idle] /\ busy' = Cleared(f)
    <3>1. run'[f] = Idle /\ \A g \in Runs : g # f => run'[g] = run[g]
      BY <1>3, <2>3 DEF PagesOK, TypeOK
    <3>2. Others(f)
      BY <3>1 DEF Others, Same
    <3>3. \A g \in Runs : run'[g].displaced = run[g].displaced
      BY <2>1, <3>1, IdleFields DEF IdleColumns
    <3>. QED
      BY <1>1, <1>3, <2>3, <3>1, <3>2, <3>3 DEF Closed
  <2>. QED
    BY <1>3, <2>2, <2>3, PagesAssumption DEF CloseAlert
<1>. QED
  BY <1>2, <1>3

LEMMA FreeRun ==
    ASSUME PagesOK, NEW f \in Runs, Free(f)
    PROVE  /\ run[f].stage \in {"idle", "asking"} /\ dialog.alertRef # f
           /\ dialog.confirmRef # f /\ run[f].displaced = FALSE
<1>1. run[f].stage \in {"idle", "asking"}
  BY DEF Free
<1>2. dialog.alertRef # f
  BY <1>1 DEF PagesOK, DialogOK, DialogMatches
<1>3. dialog.confirmRef # f
  BY PagesAssumption DEF Free, PagesOK, DialogOK, DialogMatches
<1>4. run[f].displaced = FALSE
  BY <1>1, RunTypes DEF PagesOK, HandlersOK
<1>. QED
  BY <1>1, <1>2, <1>3, <1>4

LEMMA PressShape ==
    ASSUME PagesOK, NEW f \in Runs, NEW o \in Ops, NEW r \in Rows, Press(f, o, r)
    PROVE  Asks(f, o, r) \/ Sends(f, o, r)
<1>. PICK stage \in {"asking", "sending"} : stage = IF o.asks THEN "asking" ELSE "sending"
  OBVIOUS
<1>7. PICK v \in Choices(o, r) :
         LET c == [cache EXCEPT !.missing = Renamed(f, @), !.late = Renamed(f, @)]
             risks == Shared(f, o, r) \cup Stale(o, r)
         IN  IF o.asks
             THEN /\ Confirm(f, [run EXCEPT ![f] = Begun(o, r, v, "asking")], risks)
                  /\ cache' = c
                  /\ UNCHANGED busy
             ELSE /\ run' = [run EXCEPT ![f] = Begun(o, r, v, "sending")]
                  /\ cache' = Guess(o, KeyOf(o, r), v, c)
                  /\ cause' = Because(risks \cup Unmarked(cache'))
                  /\ busy' = SetBusy(o, r)
                  /\ UNCHANGED dialog
  BY DEF Press
<1>. PICK b : b = Begun(o, r, v, stage)
  OBVIOUS
<1>0. b \in Run
  BY BegunType, ChoicesType DEF PagesOK
<1>1. /\ b.op = o /\ b.row = r /\ b.stage = stage /\ b.here = TRUE /\ b.displaced = FALSE
      /\ b.held = Displayed(o, r) /\ b.next = v
  BY DEF Begun, Idle
<1>. PICK runs : runs = [run EXCEPT ![f] = b]
  OBVIOUS
<1>2. runs \in [Runs -> Run] /\ runs[f] = b /\ \A g \in Runs : g # f => runs[g] = run[g]
  BY <1>0 DEF PagesOK, TypeOK
<1>3. Free(f) /\ CanPress(o, r) /\ UNCHANGED page
  BY DEF Press
<1>4. /\ dialog.alertRef # f /\ run[f].displaced = FALSE
      /\ \A g \in Runs : runs[g].displaced = run[g].displaced
  BY <1>1, <1>2, <1>3, FreeRun
<1>5. CASE o.asks
  <2>1. /\ run' = Displaced(runs) /\ UNCHANGED busy
        /\ dialog' = [kind |-> "confirm", of |-> f, alertRef |-> Nobody, confirmRef |-> f]
    BY <1>5, <1>7 DEF Confirm
  <2>2. Become(runs)
    BY <1>2, <2>1, DisplacedShape DEF PagesOK
  <2>3. Others(f)
    BY <1>2, <2>2 DEF Others, Same, Become
  <2>4. /\ run'[f].op = o /\ run'[f].row = r /\ run'[f].stage = "asking"
        /\ run'[f].here = TRUE /\ run'[f].displaced = FALSE
    BY <1>1, <1>2, <1>4, <1>5, <2>2 DEF Become
  <2>6. run'[f].held = Displayed(o, r) /\ run'[f].next \in Choices(o, r)
    BY <1>1, <1>2, <2>2 DEF Become
  <2>5. \A g \in Runs : g # f => run'[g].displaced = (run[g].displaced \/ g = dialog.alertRef)
    BY <1>4, <2>2 DEF Become
  <2>. QED
    BY <1>3, <1>5, <2>1, <2>3, <2>4, <2>5, <2>6 DEF Asks, Begins
<1>6. CASE ~o.asks
  <2>1. run' = runs /\ UNCHANGED dialog /\ busy' = SetBusy(o, r)
    BY <1>6, <1>7
  <2>2. Others(f)
    BY <1>2, <2>1 DEF Others, Same
  <2>. QED
    BY <1>1, <1>2, <1>3, <1>4, <1>6, <2>1, <2>2 DEF Sends, Begins, SamePanel
<1>. QED
  BY <1>5, <1>6

LEMMA ConfirmShape ==
    ASSUME PagesOK, NEW yes \in BOOLEAN, FinishConfirm(yes)
    PROVE  \E f \in Runs : Confirmed(f)
<1>1. dialog.kind = "confirm" /\ dialog' = NoPanel /\ UNCHANGED page
  BY DEF FinishConfirm, Answers
<1>. PICK f \in Runs : f = dialog.confirmRef
  BY <1>1 DEF PagesOK, DialogOK, DialogMatches
<1>2. run[f].displaced = FALSE
  BY <1>1, RunTypes DEF PagesOK, DialogOK, DialogMatches, HandlersOK
<1>3. CASE yes
  <2>1. /\ run' = [run EXCEPT ![f].stage = "sending"]
        /\ busy' = IF run[f].here THEN SetBusy(run[f].op, run[f].row) ELSE busy
    BY <1>3 DEF FinishConfirm
  <2>2. \A g \in Runs : /\ run'[g].op = run[g].op /\ run'[g].row = run[g].row
                        /\ run'[g].here = run[g].here
                        /\ run'[g].held = run[g].held /\ run'[g].next = run[g].next
                        /\ run'[g].displaced = run[g].displaced
                        /\ run'[g].stage = IF g = f THEN "sending" ELSE run[g].stage
    BY <2>1 DEF PagesOK, TypeOK, Run
  <2>3. Others(f)
    BY <2>2 DEF Others, Same
  <2>. QED
    BY <1>1, <2>1, <2>2, <2>3 DEF Confirmed
<1>4. CASE ~yes
  <2>1. run' = [run EXCEPT ![f] = Idle] /\ UNCHANGED busy
    BY <1>4 DEF FinishConfirm
  <2>2. run'[f] = Idle /\ \A g \in Runs : g # f => run'[g] = run[g]
    BY <2>1 DEF PagesOK, TypeOK
  <2>3. Others(f)
    BY <2>2 DEF Others, Same
  <2>4. \A g \in Runs : run'[g].displaced = run[g].displaced
    BY <1>2, <2>2, IdleFields DEF IdleColumns
  <2>. QED
    BY <1>1, <2>1, <2>2, <2>3, <2>4 DEF Confirmed
<1>. QED
  BY <1>3, <1>4

LEMMA LeftShape ==
    ASSUME TypeOK, NEW g \in Runs, run'[g] = Left(g)
    PROVE  Leaves(g)
<1>1. CASE Free(g) \/ (run[g].stage = "telling" /\ dialog.alertRef # g)
  BY <1>1 DEF Left, Leaves
<1>2. CASE ~(Free(g) \/ (run[g].stage = "telling" /\ dialog.alertRef # g))
  <2>. PICK r \in Run : r = run[g]
    BY RunTypes
  <2>1. run'[g] = [r EXCEPT !.here = FALSE]
    BY <1>2 DEF Left
  <2>2. run'[g].op = r.op /\ run'[g].row = r.row /\ run'[g].here = FALSE
        /\ run'[g].held = r.held /\ run'[g].next = r.next
        /\ run'[g].stage = r.stage /\ run'[g].displaced = r.displaced
    BY <2>1 DEF Run
  <2>. QED
    BY <1>2, <2>2 DEF Leaves
<1>. QED
  BY <1>1, <1>2

LEMMA NavigateShape ==
    ASSUME PagesOK, NEW p \in Screens, Navigate(p)
    PROVE  Goes
  BY LeftShape DEF Navigate, Goes, PagesOK

LEMMA FoldShape ==
    ASSUME PagesOK, NEW s \in Slots, Fold(s)
    PROVE  Folds(s)
  BY LeftShape DEF Fold, Folds, PagesOK

-----------------------------------------------------------------------------
(* The handlers and the panel *)

(* One step of the pages is one of these *)
Shape ==
    \/ Quiet \/ Goes
    \/ \E f \in Runs : Told(f) \/ Ended(f) \/ Confirmed(f)
    \/ \E f \in Runs \cup {Nobody} : Closed(f)
    \/ \E f \in Runs, o \in Ops, r \in Rows : Asks(f, o, r) \/ Sends(f, o, r)
    \/ \E s \in Slots : Folds(s)

LEMMA SceneKept == [Next]_vars => UNCHANGED scene
  BY DEF vars, Next, Press, Unacceptable, FinishConfirm, Proceed, AnswerLost, ProfileFails,
         ServerActs, ServerRefuses, Attach, TellFirst, Resume, ProfileAsked, ProfileRead,
         ProfileArrives, Tell, End, CloseAlert, QueryErrorAlert, Reload, Refocus, FetchRead,
         FetchArrives, FetchFails, HintArrives, Navigate, Fold

LEMMA StepShape == PagesOK /\ [Next]_vars => Shape
<1>. SUFFICES ASSUME PagesOK, [Next]_vars PROVE Shape
  OBVIOUS
<1>1. CASE \E f \in scene.runs, o \in scene.ops, r \in Rows : Press(f, o, r)
  BY <1>1, SceneOps, PressShape DEF Shape, PagesOK
<1>2. CASE \E f \in Runs : Proceed(f) \/ AnswerLost(f) \/ ProfileFails(f)
  <2>1. PICK f \in Runs : Proceed(f) \/ AnswerLost(f) \/ ProfileFails(f)
    BY <1>2
  <2>2. Quiet \/ Told(f) \/ Ended(f)
    BY <2>1, ServerShape, TellShape, ResumeShape, ProfileShape, EndShape DEF Proceed
  <2>. QED
    BY <2>2 DEF Shape
<1>3. CASE UNCHANGED vars
  BY <1>3 DEF vars, Shape, Quiet, Same, SamePanel
<1>4. CASE \E yes \in BOOLEAN : FinishConfirm(yes)
  BY <1>4, ConfirmShape DEF Shape
<1>5. CASE CloseAlert
  BY <1>5, CloseShape DEF Shape
<1>6. CASE (\E o \in scene.ops, r \in Rows : Unacceptable(o, r)) \/ QueryErrorAlert
  BY <1>6, NobodyTold DEF Shape
<1>7. CASE \/ Reload \/ Refocus \/ FetchRead \/ FetchArrives \/ FetchFails
           \/ \E k \in Kinds \cup {"open"} : HintArrives(k)
  BY <1>7, ListShape DEF Shape
<1>8. CASE \E p \in Screens : Navigate(p)
  BY <1>8, NavigateShape DEF Shape
<1>9. CASE \E s \in Slots : Fold(s)
  BY <1>9, FoldShape DEF Shape
<1>. QED
  BY <1>1, <1>2, <1>3, <1>4, <1>5, <1>6, <1>7, <1>8, <1>9 DEF Next

(* A handler keeps what it took along until it is over or another begins *)
LEMMA KeptShape ==
    ASSUME PagesOK, Shape, NEW g \in Runs
    PROVE  \/ run'[g].stage = "idle"
           \/ /\ run[g].stage # "idle" /\ run'[g].op = run[g].op
              /\ run'[g].held = run[g].held /\ run'[g].next = run[g].next
           \/ \E o \in Ops, r \in Rows : \E stage : Begins(g, o, r, stage)
<1>1. CASE Same(g)
  BY <1>1 DEF Same, Working
<1>2. CASE run'[g] = Idle
  BY <1>2, IdleFields DEF IdleColumns
<1>3. CASE Quiet
  BY <1>1, <1>3 DEF Quiet
<1>4. ASSUME NEW f \in Runs, Told(f) \/ Ended(f)
      PROVE  \/ run'[g] = Idle \/ Same(g)
             \/ /\ run[g].stage # "idle" /\ run'[g].op = run[g].op
                /\ run'[g].held = run[g].held /\ run'[g].next = run[g].next
  BY <1>4 DEF Told, Ended, Others, Working
<1>5. ASSUME NEW f \in Runs, Confirmed(f)
      PROVE  \/ run'[g] = Idle \/ Same(g)
             \/ /\ run[g].stage # "idle" /\ run'[g].op = run[g].op
                /\ run'[g].held = run[g].held /\ run'[g].next = run[g].next
  <2>1. run[f].stage = "asking"
    BY <1>5 DEF Confirmed, PagesOK, DialogOK, DialogMatches
  <2>. QED
    BY <1>5, <2>1 DEF Confirmed, Others
<1>6. ASSUME NEW f \in Runs \cup {Nobody}, Closed(f)
      PROVE  \/ run'[g] = Idle \/ Same(g)
             \/ /\ run[g].stage # "idle" /\ run'[g].op = run[g].op
                /\ run'[g].held = run[g].held /\ run'[g].next = run[g].next
  <2>1. f \in Runs => run[f].stage = "telling"
    BY <1>6 DEF Closed, PagesOK, DialogOK, DialogMatches
  <2>. QED
    BY <1>6, <2>1 DEF Closed, Others
<1>7. ASSUME NEW f \in Runs, NEW o \in Ops, NEW r \in Rows, Asks(f, o, r) \/ Sends(f, o, r)
      PROVE  Same(g) \/ Begins(g, o, r, "asking") \/ Begins(g, o, r, "sending")
  BY <1>7 DEF Asks, Sends, Begins, Others
<1>8. ASSUME Leaves(g)
      PROVE  \/ run'[g] = Idle
             \/ /\ run[g].stage # "idle" /\ run'[g].op = run[g].op
                /\ run'[g].held = run[g].held /\ run'[g].next = run[g].next
  BY <1>8 DEF Leaves, Free
<1>9. ASSUME NEW s \in Slots, Folds(s) PROVE Leaves(g) \/ Same(g)
  BY <1>9 DEF Folds, Same
<1>. QED
  BY <1>1, <1>2, <1>3, <1>4, <1>5, <1>6, <1>7, <1>8, <1>9 DEF Shape, Goes

LEMMA HandlersStep ==
    ASSUME PagesOK, Shape, UNCHANGED scene PROVE HandlersOK'
<1>. DEFINE OK(g) == /\ run'[g].stage # "idle" => run'[g].op \in Ops /\ run'[g].row \in Rows
                     /\ run'[g].stage # "idle" /\ run'[g].here => run'[g].op.page = page'
                     /\ run'[g].stage = "asking" => run'[g].op.asks
                     /\ run'[g].displaced => run'[g].stage = "telling"
            Holding(g) == run'[g].stage # "idle" /\ Writes(run'[g].op) =>
                             run'[g].held \in Values /\ run'[g].next \in Values
<1>. SUFFICES ASSUME NEW g \in Runs PROVE OK(g) /\ Holding(g)
  BY DEF HandlersOK, Writes, Watched
<1>0. /\ run[g].stage # "idle" => run[g].op \in Ops /\ run[g].row \in Rows
      /\ run[g].stage # "idle" /\ run[g].here => run[g].op.page = page
      /\ run[g].stage = "asking" => run[g].op.asks
      /\ run[g].displaced => run[g].stage = "telling"
      /\ dialog.alertRef = g => run[g].stage = "telling"
  BY DEF PagesOK, HandlersOK, DialogOK, DialogMatches
<1>1. ASSUME Quiet PROVE OK(g)
  BY <1>0, <1>1 DEF Quiet, Same, SamePanel, NewAlert, Working
<1>2. ASSUME NEW f \in Runs, Told(f) PROVE OK(g)
  <2>1. CASE g = f
    BY <1>0, <1>2, <2>1 DEF Told, Working
  <2>2. CASE g # f
    BY <1>0, <1>2, <2>2 DEF Told, Others, Same, NewAlert, Working
  <2>. QED
    BY <2>1, <2>2
<1>3. ASSUME NEW f \in Runs, Ended(f) PROVE OK(g)
  BY <1>0, <1>3, IdleFields DEF Ended, Others, Same, SamePanel, NewAlert, Working, IdleColumns
<1>4. ASSUME NEW f \in Runs, Confirmed(f) PROVE OK(g)
  <2>1. run[f].stage = "asking"
    BY <1>4 DEF Confirmed, PagesOK, DialogOK, DialogMatches
  <2>. QED
    BY <1>0, <1>4, <2>1, IdleFields DEF Confirmed, Others, Same, Working, IdleColumns
<1>5. ASSUME NEW f \in Runs \cup {Nobody}, Closed(f) PROVE OK(g)
  <2>1. f \in Runs => run[f].stage = "telling" /\ run[f].displaced = FALSE
    BY <1>5, RunTypes DEF Closed, PagesOK, DialogOK, DialogMatches
  <2>. QED
    BY <1>0, <1>5, <2>1, IdleFields DEF Closed, Others, Same, Working, IdleColumns
<1>6. ASSUME NEW f \in Runs, NEW o \in Ops, NEW r \in Rows, Asks(f, o, r) PROVE OK(g)
  BY <1>0, <1>6 DEF Asks, Begins, CanPress, Others, Same, Working
<1>7. ASSUME NEW f \in Runs, NEW o \in Ops, NEW r \in Rows, Sends(f, o, r) PROVE OK(g)
  BY <1>0, <1>7 DEF Sends, Begins, CanPress, Others, Same, SamePanel, Working
<1>8. ASSUME Goes PROVE OK(g)
  BY <1>0, <1>8, IdleFields DEF Goes, Leaves, IdleColumns
<1>9. ASSUME NEW s \in Slots, Folds(s) PROVE OK(g)
  BY <1>0, <1>9, IdleFields DEF Folds, Leaves, IdleColumns
<1>10. Holding(g)
  <2>1. CASE run'[g].stage = "idle"
    BY <2>1
  <2>2. CASE /\ run[g].stage # "idle" /\ run'[g].op = run[g].op
             /\ run'[g].held = run[g].held /\ run'[g].next = run[g].next
    BY <2>2 DEF PagesOK, HandlersOK
  <2>3. CASE \E o \in Ops, r \in Rows : \E stage : Begins(g, o, r, stage)
    BY <2>3, ChoicesType DEF Begins, PagesOK
  <2>. QED
    BY <2>1, <2>2, <2>3, KeptShape
<1>. HIDE DEF OK, Holding
<1>. QED
  BY <1>1, <1>2, <1>3, <1>4, <1>5, <1>6, <1>7, <1>8, <1>9, <1>10 DEF Shape

(* DialogOK of one run g, and of the panel alone *)
RefOK(g) ==
    /\ dialog.confirmRef = g => run[g].stage = "asking"
    /\ dialog.alertRef = g => run[g].stage = "telling" /\ ~run[g].displaced
    /\ run[g].stage = "telling" => (dialog.alertRef = g <=> ~run[g].displaced)

PanelOK ==
    /\ dialog.of = (IF dialog.kind = "confirm" THEN dialog.confirmRef ELSE dialog.alertRef)
    /\ dialog.kind = "confirm" => dialog.alertRef = Nobody /\ dialog.confirmRef \in Runs
    /\ dialog.alertRef \in Runs => dialog.kind = "alert"
    /\ dialog.kind # "confirm" => dialog.confirmRef = Nobody

LEMMA DialogParts ==
    ASSUME TypeOK
    PROVE  DialogOK <=> PanelOK /\ \A g \in Runs : RefOK(g)
  BY PagesAssumption DEF DialogOK, DialogMatches, StuckOnlyByReplacement, PanelOK, RefOK, TypeOK

LEMMA PanelStep ==
    ASSUME PagesOK, Shape PROVE PanelOK'
<1>0. PanelOK
  BY DialogParts DEF PagesOK
<1>1. CASE UNCHANGED dialog
  BY <1>0, <1>1 DEF PanelOK
<1>2. CASE dialog' = NoPanel
  BY <1>2, PagesAssumption DEF PanelOK, NoPanel, None
<1>3. CASE \E w \in Runs \cup {Nobody} : NewAlert(w)
  BY <1>3 DEF PanelOK, NewAlert
<1>4. CASE \E f \in Runs, o \in Ops, r \in Rows : Asks(f, o, r)
  BY <1>4, PagesAssumption DEF PanelOK, Asks
<1>. QED
  BY <1>1, <1>2, <1>3, <1>4
  DEF Shape, Quiet, Told, Ended, Closed, Confirmed, Sends, Goes, Folds, SamePanel

LEMMA RefStep ==
    ASSUME PagesOK, Shape, NEW g \in Runs PROVE RefOK(g)'
<1>0. /\ RefOK(g) /\ PanelOK
      /\ run[g].displaced \in BOOLEAN /\ g # Nobody
      /\ run[g].displaced => run[g].stage = "telling"
  BY DialogParts, RunTypes, PagesAssumption DEF PagesOK, HandlersOK
<1>1. CASE Quiet
  <2>1. CASE SamePanel
    BY <1>0, <1>1, <2>1 DEF Quiet, Same, SamePanel, Working, RefOK
  <2>2. CASE NewAlert(Nobody)
    <3>1. /\ dialog'.alertRef = Nobody /\ dialog'.confirmRef = Nobody
          /\ run'[g].displaced = (run[g].displaced \/ g = dialog.alertRef)
      BY <2>2 DEF NewAlert
    <3>. QED
      BY <1>0, <1>1, <3>1 DEF Quiet, Same, Working, RefOK
  <2>. QED
    BY <1>1, <2>1, <2>2 DEF Quiet
<1>2. ASSUME NEW f \in Runs, Told(f) PROVE RefOK(g)'
  BY <1>0, <1>2 DEF Told, Others, Same, NewAlert, Working, RefOK
<1>3. ASSUME NEW f \in Runs, Ended(f) PROVE RefOK(g)'
  <2>0. run[f].stage \in Working /\ run'[f].stage = "idle" /\ (g # f => Same(g))
    BY <1>3, IdleFields DEF Ended, Others, IdleColumns
  <2>1. CASE SamePanel
    BY <1>0, <2>0, <2>1 DEF Same, SamePanel, Working, RefOK
  <2>2. CASE NewAlert(Nobody)
    <3>1. /\ dialog'.alertRef = Nobody /\ dialog'.confirmRef = Nobody
          /\ run'[g].displaced = (run[g].displaced \/ g = dialog.alertRef)
      BY <2>2 DEF NewAlert
    <3>. QED
      BY <1>0, <2>0, <3>1 DEF Same, Working, RefOK
  <2>. QED
    BY <1>3, <2>1, <2>2 DEF Ended
<1>4. ASSUME NEW f \in Runs, Confirmed(f) PROVE RefOK(g)'
  <2>1. dialog.alertRef = Nobody /\ dialog.confirmRef = f /\ RefOK(f)
    BY <1>0, <1>4, DialogParts DEF Confirmed, PanelOK, PagesOK
  <2>2. dialog'.alertRef = Nobody /\ dialog'.confirmRef = Nobody
    BY <1>4 DEF Confirmed, NoPanel
  <2>. QED
    BY <1>0, <1>4, <2>1, <2>2, IdleFields
    DEF Confirmed, Others, Same, Working, IdleColumns, RefOK
<1>5. ASSUME NEW f \in Runs \cup {Nobody}, Closed(f) PROVE RefOK(g)'
  <2>1. dialog.alertRef = f /\ dialog.confirmRef = Nobody
    BY <1>0, <1>5 DEF Closed, PanelOK
  <2>2. dialog'.alertRef = Nobody /\ dialog'.confirmRef = Nobody
    BY <1>5 DEF Closed, NoPanel
  <2>. QED
    BY <1>0, <1>5, <2>1, <2>2, IdleFields
    DEF Closed, Others, Same, Working, IdleColumns, RefOK
<1>6. ASSUME NEW f \in Runs, NEW o \in Ops, NEW r \in Rows, Asks(f, o, r) PROVE RefOK(g)'
  BY <1>0, <1>6 DEF Asks, Begins, Free, Others, Same, Working, RefOK
<1>7. ASSUME NEW f \in Runs, NEW o \in Ops, NEW r \in Rows, Sends(f, o, r) PROVE RefOK(g)'
  <2>1. dialog.alertRef # f /\ dialog.confirmRef # f
    BY <1>7, FreeRun DEF Sends, Begins
  <2>. QED
    BY <1>0, <1>7, <2>1 DEF Sends, Begins, Others, Same, SamePanel, Working, RefOK
<1>8. CASE Goes
  BY <1>0, <1>8, IdleFields DEF Goes, Leaves, Free, IdleColumns, RefOK
<1>9. ASSUME NEW s \in Slots, Folds(s) PROVE RefOK(g)'
  BY <1>0, <1>9, IdleFields DEF Folds, Leaves, Free, IdleColumns, RefOK
<1>. QED
  BY <1>1, <1>2, <1>3, <1>4, <1>5, <1>6, <1>7, <1>8, <1>9 DEF Shape

-----------------------------------------------------------------------------
(* The flags *)

Holds(f, s) == run[f].here /\ UnderWay(f) /\ run[f].op.slot = s /\ run[f].row = busy[s]

LEMMA UnderWayStages ==
    ASSUME TypeOK, NEW f \in Runs
    PROVE  UnderWay(f) <=> run[f].stage \in Working \cup {"telling"}
  BY RunTypes DEF UnderWay, Working, Run

LEMMA FlagsHeldStep ==
    ASSUME PagesOK, Shape PROVE FlagsHeld'
<1>. SUFFICES ASSUME NEW s \in Slots, busy'[s] # None
              PROVE  \E f \in Runs : Holds(f, s)'
  BY DEF FlagsHeld, Holds
<1>0. ASSUME busy[s] # None PROVE \E f \in Runs : Holds(f, s)
  BY <1>0 DEF PagesOK, FlagsOK, FlagsHeld, Holds
<1>. USE DEF Working, UnderWay
<1>1. CASE Quiet
  BY <1>0, <1>1 DEF Quiet, Same, Holds
<1>2. ASSUME NEW f \in Runs, Told(f) PROVE \E g \in Runs : Holds(g, s)'
  BY <1>0, <1>2 DEF Told, Others, Same, Holds
<1>3. ASSUME NEW f \in Runs, Ended(f) PROVE \E g \in Runs : Holds(g, s)'
  <2>1. busy'[s] = busy[s] /\ ~Holds(f, s)
    BY <1>3, PagesAssumption DEF Ended, Cleared, Holds, PagesOK, TypeOK
  <2>. QED
    BY <1>0, <1>3, <2>1 DEF Ended, Others, Same, Holds
<1>4. ASSUME NEW f \in Runs, Confirmed(f) PROVE \E g \in Runs : Holds(g, s)'
  <2>1. run[f].stage = "asking"
    BY <1>4 DEF Confirmed, PagesOK, DialogOK, DialogMatches
  <2>2. CASE busy'[s] = busy[s]
    BY <1>0, <1>4, <2>1, <2>2 DEF Confirmed, Others, Same, Holds
  <2>3. CASE busy'[s] # busy[s]
    <3>1. busy' = SetBusy(run[f].op, run[f].row) /\ run[f].here
      BY <1>4, <2>3 DEF Confirmed
    <3>2. run[f].op.slot = s /\ busy'[s] = run[f].row
      BY <2>3, <3>1 DEF SetBusy, PagesOK, TypeOK
    <3>3. run'[f].stage = "sending" /\ run'[f].op = run[f].op /\ run'[f].row = run[f].row
          /\ run'[f].here
      BY <1>4, <2>3, <3>1 DEF Confirmed
    <3>. QED
      BY <3>2, <3>3 DEF Holds
  <2>. QED
    BY <2>2, <2>3
<1>5. ASSUME NEW f \in Runs \cup {Nobody}, Closed(f) PROVE \E g \in Runs : Holds(g, s)'
  <2>1. CASE f \in Runs /\ run'[f] = Idle /\ busy' = Cleared(f)
    <3>1. busy'[s] = busy[s] /\ ~Holds(f, s)
      BY <1>5, <2>1, PagesAssumption DEF Cleared, Holds, PagesOK, TypeOK
    <3>. QED
      BY <1>0, <1>5, <2>1, <3>1 DEF Closed, Others, Same, Holds
  <2>2. CASE ~(f \in Runs /\ run'[f] = Idle /\ busy' = Cleared(f))
    BY <1>0, <1>5, <2>2 DEF Closed, Others, Same, Holds
  <2>. QED
    BY <2>1, <2>2
<1>6. ASSUME NEW f \in Runs, NEW o \in Ops, NEW r \in Rows, Asks(f, o, r)
      PROVE  \E g \in Runs : Holds(g, s)'
  <2>1. run[f].stage \in {"idle", "asking"} /\ busy'[s] = busy[s]
    BY <1>6 DEF Asks, Begins, Free
  <2>. QED
    BY <1>0, <1>6, <2>1 DEF Asks, Begins, Others, Same, Holds
<1>7. ASSUME NEW f \in Runs, NEW o \in Ops, NEW r \in Rows, Sends(f, o, r)
      PROVE  \E g \in Runs : Holds(g, s)'
  <2>1. run[f].stage \in {"idle", "asking"}
    BY <1>7 DEF Sends, Begins, Free
  <2>2. CASE o.slot = s
    <3>1. busy'[s] = r
      BY <1>7, <2>2, PagesAssumption DEF Sends, SetBusy, PagesOK, TypeOK
    <3>. QED
      BY <1>7, <2>2, <3>1 DEF Sends, Begins, Holds
  <2>3. CASE o.slot # s
    <3>1. busy'[s] = busy[s]
      BY <1>7, <2>3 DEF Sends, SetBusy, PagesOK, TypeOK
    <3>. QED
      BY <1>0, <1>7, <2>1, <3>1 DEF Sends, Begins, Others, Same, Holds
  <2>. QED
    BY <2>2, <2>3
<1>8. CASE Goes
  BY <1>8 DEF Goes
<1>9. ASSUME NEW z \in Slots, Folds(z) PROVE \E g \in Runs : Holds(g, s)'
  <2>1. z # s /\ busy'[s] = busy[s]
    BY <1>9 DEF Folds, PagesOK, TypeOK
  <2>. QED
    BY <1>0, <1>9, <2>1 DEF Folds, Holds
<1>. QED
  BY <1>1, <1>2, <1>3, <1>4, <1>5, <1>6, <1>7, <1>8, <1>9 DEF Shape

(* A run under way with an exclusive flag *)
Alone(f) == UnderWay(f) /\ run[f].here /\ Exclusive(run[f].op)

(* Buttons of a page with one flag are exclusive together *)
LEMMA ExclusiveTogether ==
    ASSUME NEW o \in Ops, NEW p \in Ops, o.page = p.page, o.slot = p.slot, Exclusive(o)
    PROVE  /\ Exclusive(p) /\ p.asks = o.asks /\ p.slot \in p.blockedBy /\ ~p.own
           /\ p.slot \in Slots
<1>1. o.slot # None /\ ~o.own /\ \A q \in Ops : q.page = o.page /\ q.slot = o.slot => q.asks = o.asks
  BY DEF Exclusive
<1>2. p.own = o.own /\ p.slot \in p.blockedBy
  BY <1>1, HandlersAssumption
<1>. QED
  BY <1>1, <1>2, OpFields DEF Exclusive

(* Two runs of this page that an exclusive flag should have kept apart *)
Clash(f, g) ==
    /\ f # g /\ run[f].here /\ run[g].here /\ UnderWay(g)
    /\ run[f].op.slot = run[g].op.slot /\ Exclusive(run[f].op)

LEMMA NoClash ==
    ASSUME PagesOK, NEW f \in Runs, NEW g \in Runs, Clash(f, g)
    PROVE  ~UnderWay(f) /\ dialog.confirmRef # f
  BY DEF PagesOK, FlagsOK, OneAtATime, QuestionAlone, Clash

LEMMA ClashOps ==
    ASSUME PagesOK, NEW f \in Runs, NEW g \in Runs, Clash(f, g), run[f].stage # "idle"
    PROVE  /\ Exclusive(run[g].op) /\ run[f].op.asks = run[g].op.asks
           /\ Alone(g) /\ busy[run[g].op.slot] = run[g].row
<1>1. /\ run[f].op \in Ops /\ run[g].op \in Ops
      /\ run[f].op.page = run[g].op.page
  BY DEF PagesOK, HandlersOK, Clash, UnderWay
<1>2. Exclusive(run[g].op) /\ run[f].op.asks = run[g].op.asks
  BY <1>1, ExclusiveTogether DEF Clash
<1>. QED
  BY <1>2 DEF Clash, Alone, PagesOK, FlagsOK, FlagsSet

(* A button with an exclusive flag cannot be pressed while another is under *)
(* way with that flag                                                       *)
LEMMA PressBlocked ==
    ASSUME PagesOK, NEW g \in Runs, UnderWay(g), run[g].here, NEW o \in Ops, NEW r \in Rows,
           o.slot = run[g].op.slot, Exclusive(o) \/ Exclusive(run[g].op)
    PROVE  ~CanPress(o, r)
<1>. SUFFICES ASSUME CanPress(o, r) PROVE FALSE
  OBVIOUS
<1>1. /\ run[g].op \in Ops /\ run[g].row \in Rows
      /\ run[g].op.page = o.page
  BY DEF PagesOK, HandlersOK, UnderWay, CanPress
<1>2. Exclusive(o) /\ Exclusive(run[g].op) /\ o.slot \in o.blockedBy /\ ~o.own
  BY <1>1, ExclusiveTogether
<1>3. busy[o.slot] = run[g].row
  BY <1>2 DEF PagesOK, FlagsOK, FlagsSet
<1>4. busy[o.slot] = None
  BY <1>2 DEF CanPress
<1>. QED
  BY <1>1, <1>3, <1>4, PagesAssumption

LEMMA FlagsSetStep ==
    ASSUME PagesOK, Shape PROVE FlagsSet'
<1>. DEFINE Set(h) == busy'[run'[h].op.slot] = run'[h].row
<1>. SUFFICES ASSUME NEW g \in Runs, Alone(g)' PROVE Set(g)
  BY DEF FlagsSet, Alone
<1>0. Alone(g) => busy[run[g].op.slot] = run[g].row
  BY DEF PagesOK, FlagsOK, FlagsSet, Alone
<1>a. Same(g) => /\ run'[g].op = run[g].op /\ run'[g].row = run[g].row /\ Alone(g)
  BY DEF Same, Alone, UnderWay, Working
<1>b. run'[g].here /\ run'[g] # Idle /\ run'[g].stage \notin {"idle", "asking"}
  BY IdleFields DEF Alone, IdleColumns, UnderWay
<1>c. ASSUME NEW f \in Runs, f # g, UnderWay(f), Same(g), busy' = Cleared(f) PROVE Set(g)
  <2>1. Alone(g) /\ run[g].op.slot # None
    BY <1>a, <1>c DEF Alone, Exclusive
  <2>2. ~(run[f].here /\ run[f].op.slot = run[g].op.slot)
    BY <1>c, <2>1, NoClash DEF Clash, Alone
  <2>3. busy'[run[g].op.slot] = busy[run[g].op.slot]
    BY <1>c, <2>2 DEF Cleared, PagesOK, TypeOK
  <2>. QED
    BY <1>0, <1>a, <1>c, <2>1, <2>3
<1>1. CASE Quiet
  BY <1>0, <1>1, <1>a DEF Quiet
<1>2. ASSUME NEW f \in Runs, Told(f) PROVE Set(g)
  <2>1. f = g => Alone(g)
    BY <1>2 DEF Told, Alone, UnderWay, Working
  <2>. QED
    BY <1>0, <1>2, <1>a, <2>1 DEF Told, Others
<1>3. ASSUME NEW f \in Runs, Ended(f) PROVE Set(g)
  <2>1. f # g /\ UnderWay(f) /\ Same(g) /\ busy' = Cleared(f)
    BY <1>3, <1>b DEF Ended, Others, UnderWay, Working
  <2>. QED
    BY <2>1, <1>c
<1>4. ASSUME NEW f \in Runs, Confirmed(f) PROVE Set(g)
  <2>1. run[f].stage = "asking" /\ run[f].op \in Ops /\ dialog.confirmRef = f
    BY <1>4 DEF Confirmed, PagesOK, DialogOK, DialogMatches, HandlersOK
  <2>2. CASE f = g
    <3>1. /\ run'[g].op = run[f].op /\ run'[g].row = run[f].row
          /\ busy' = SetBusy(run[f].op, run[f].row)
      BY <1>4, <1>b, <2>2 DEF Confirmed
    <3>2. run[f].op.slot \in Slots
      BY <2>1, <2>2, <3>1, OpFields DEF Alone, Exclusive
    <3>. QED
      BY <2>2, <3>1, <3>2, PagesAssumption DEF SetBusy, PagesOK, TypeOK
  <2>3. CASE f # g
    <3>1. Same(g) /\ Alone(g)
      BY <1>4, <1>a, <2>3 DEF Confirmed, Others
    <3>2. ~(run[f].here /\ run[f].op.slot = run[g].op.slot)
      <4>. SUFFICES ASSUME run[f].here, run[f].op.slot = run[g].op.slot PROVE FALSE
        OBVIOUS
      <4>1. run[g].op \in Ops /\ run[f].op.page = run[g].op.page
        BY <2>1, <3>1 DEF PagesOK, HandlersOK, Alone, UnderWay
      <4>2. Exclusive(run[f].op)
        BY <2>1, <3>1, <4>1, ExclusiveTogether DEF Alone
      <4>. QED
        BY <2>1, <2>3, <3>1, <4>2, NoClash DEF Clash, Alone
    <3>3. busy'[run[g].op.slot] = busy[run[g].op.slot]
      <4>1. busy' = busy \/ (run[f].here /\ busy' = SetBusy(run[f].op, run[f].row))
        BY <1>4 DEF Confirmed
      <4>2. CASE run[f].here /\ busy' = SetBusy(run[f].op, run[f].row)
        BY <3>2, <4>2 DEF SetBusy, PagesOK, TypeOK
      <4>. QED
        BY <4>1, <4>2
    <3>. QED
      BY <1>0, <1>a, <3>1, <3>3
  <2>. QED
    BY <2>2, <2>3
<1>5. ASSUME NEW f \in Runs \cup {Nobody}, Closed(f) PROVE Set(g)
  <2>1. f \in Runs => UnderWay(f)
    BY <1>5 DEF Closed, PagesOK, DialogOK, DialogMatches, UnderWay
  <2>2. CASE f # g
    <3>1. Same(g)
      BY <1>5, <2>2 DEF Closed, Others
    <3>. QED
      BY <1>0, <1>5, <1>a, <1>c, <2>1, <2>2, <3>1 DEF Closed
  <2>3. CASE f = g
    <3>1. Alone(g)
      BY <1>5, <1>b, <2>1, <2>3 DEF Closed, Alone
    <3>. QED
      BY <1>0, <1>5, <1>b, <2>3, <3>1 DEF Closed
  <2>. QED
    BY <2>2, <2>3
<1>6. ASSUME NEW f \in Runs, NEW o \in Ops, NEW r \in Rows, Asks(f, o, r) PROVE Set(g)
  BY <1>0, <1>6, <1>a, <1>b DEF Asks, Begins, Others
<1>7. ASSUME NEW f \in Runs, NEW o \in Ops, NEW r \in Rows, Sends(f, o, r) PROVE Set(g)
  <2>1. CASE f = g
    <3>1. run'[g].op = o /\ run'[g].row = r /\ o.slot \in Slots /\ busy' = SetBusy(o, r)
      BY <1>7, <2>1, OpFields DEF Sends, Begins, Alone, Exclusive
    <3>. QED
      BY <3>1, PagesAssumption DEF SetBusy, PagesOK, TypeOK
  <2>2. CASE f # g
    <3>1. Same(g) /\ Alone(g)
      BY <1>7, <1>a, <2>2 DEF Sends, Begins, Others
    <3>2. o.slot # run[g].op.slot
      BY <1>7, <3>1, PressBlocked DEF Sends, Begins, Alone
    <3>3. busy'[run[g].op.slot] = busy[run[g].op.slot]
      BY <1>7, <3>2 DEF Sends, SetBusy, PagesOK, TypeOK
    <3>. QED
      BY <1>0, <1>a, <3>1, <3>3
  <2>. QED
    BY <2>1, <2>2
<1>8. CASE Goes
  BY <1>8, <1>b DEF Goes, Leaves
<1>9. ASSUME NEW s \in Slots, Folds(s) PROVE Set(g)
  <2>1. run'[g] = run[g] /\ ~(run[g].op \in Ops /\ run[g].op.slot = s)
    BY <1>9, <1>b DEF Folds, Leaves
  <2>2. Alone(g) /\ run[g].op \in Ops
    BY <2>1 DEF Alone, UnderWay, PagesOK, HandlersOK
  <2>3. busy'[run[g].op.slot] = busy[run[g].op.slot]
    BY <1>9, <2>1, <2>2 DEF Folds, PagesOK, TypeOK
  <2>. QED
    BY <1>0, <2>1, <2>2, <2>3
<1>. HIDE DEF Set
<1>. QED
  BY <1>1, <1>2, <1>3, <1>4, <1>5, <1>6, <1>7, <1>8, <1>9 DEF Shape

(* A clash can only begin with a handler that begins or is confirmed *)
LEMMA ClashStep ==
    ASSUME PagesOK, Shape, NEW f \in Runs, NEW g \in Runs, Clash(f, g)',
           UnderWay(f)' \/ dialog'.confirmRef = f
    PROVE  FALSE
<1>. DEFINE Old(h) == /\ run[h].op = run'[h].op /\ run[h].here = run'[h].here
                      /\ UnderWay(h) <=> UnderWay(h)'
<1>a. \A h \in Runs : Same(h) => Old(h)
  BY DEF Same, UnderWay, Working
<1>b. /\ f # g /\ run'[f].here /\ run'[g].here /\ run'[f].stage # "idle"
      /\ run'[g].stage \notin {"idle", "asking"}
      /\ run'[f].op.slot = run'[g].op.slot /\ Exclusive(run'[f].op)
      /\ run'[f] # Idle /\ run'[g] # Idle
  <2>1. RefOK(f)'
    BY RefStep
  <2>. QED
    BY <2>1, IdleFields DEF Clash, UnderWay, IdleColumns, RefOK
<1>c. Old(f) /\ Old(g) /\ dialog'.confirmRef \in {dialog.confirmRef, Nobody} => FALSE
  BY NoClash, PagesAssumption DEF Clash
<1>. HIDE DEF Old
<1>1. CASE Quiet
  <2>1. dialog'.confirmRef \in {dialog.confirmRef, Nobody}
    BY <1>1 DEF Quiet, SamePanel, NewAlert
  <2>. QED
    BY <1>1, <1>a, <1>c, <2>1 DEF Quiet
<1>2. ASSUME NEW h \in Runs, Told(h) PROVE FALSE
  <2>1. Old(h)
    BY <1>2 DEF Told, Old, UnderWay, Working
  <2>2. dialog'.confirmRef = Nobody
    BY <1>2 DEF Told, NewAlert
  <2>. QED
    BY <1>2, <1>a, <1>c, <2>1, <2>2 DEF Told, Others
<1>3. ASSUME NEW h \in Runs, Ended(h) PROVE FALSE
  <2>1. dialog'.confirmRef \in {dialog.confirmRef, Nobody}
    BY <1>3 DEF Ended, SamePanel, NewAlert
  <2>. QED
    BY <1>3, <1>a, <1>b, <1>c, <2>1 DEF Ended, Others
<1>4. ASSUME NEW h \in Runs, Confirmed(h) PROVE FALSE
  <2>1. /\ dialog'.confirmRef = Nobody /\ dialog.confirmRef = h
        /\ run[h].stage = "asking" /\ run[h].op \in Ops
    BY <1>4 DEF Confirmed, NoPanel, PagesOK, DialogOK, DialogMatches, HandlersOK
  <2>2. \A i \in Runs : i # h => Old(i)
    BY <1>4, <1>a DEF Confirmed, Others
  <2>3. CASE h # f /\ h # g
    BY <1>c, <2>1, <2>2, <2>3
  <2>4. CASE h = f \/ h = g
    <3>1. run'[h].op = run[h].op /\ run'[h].here = run[h].here /\ run[h].op \in Ops
      BY <1>4, <1>b, <2>1, <2>4 DEF Confirmed
    <3>2. CASE h = f
      BY <1>b, <2>1, <2>2, <3>1, <3>2, NoClash DEF Clash, Old
    <3>3. CASE h = g
      <4>1. /\ run[f].op \in Ops /\ run[g].op \in Ops /\ run[f].op.page = run[g].op.page
        BY <1>b, <2>1, <2>2, <3>1, <3>3, PagesAssumption
        DEF Old, Clash, UnderWay, PagesOK, HandlersOK
      <4>2. Exclusive(run[g].op)
        BY <1>b, <2>2, <3>1, <3>3, <4>1, ExclusiveTogether DEF Old
      <4>3. UnderWay(f)
        BY <1>b, <2>1, <2>2, <3>3, PagesAssumption DEF Old, Clash
      <4>. QED
        BY <1>b, <2>1, <2>2, <3>1, <3>3, <4>2, <4>3, NoClash DEF Clash, Old
    <3>. QED
      BY <2>4, <3>2, <3>3
  <2>. QED
    BY <2>3, <2>4
<1>5. ASSUME NEW h \in Runs \cup {Nobody}, Closed(h) PROVE FALSE
  <2>1. dialog'.confirmRef = Nobody
    BY <1>5 DEF Closed, NoPanel
  <2>2. h \in Runs => UnderWay(h)
    BY <1>5 DEF Closed, PagesOK, DialogOK, DialogMatches, UnderWay
  <2>3. h \in Runs /\ run'[h] # Idle => Old(h)
    BY <1>5, <2>2 DEF Closed, Old, UnderWay
  <2>. QED
    BY <1>5, <1>a, <1>b, <1>c, <2>1, <2>3 DEF Closed, Others
<1>6. ASSUME NEW h \in Runs, NEW o \in Ops, NEW r \in Rows, Asks(h, o, r) PROVE FALSE
  <2>1. \A i \in Runs : i # h => Old(i)
    BY <1>6, <1>a DEF Asks, Begins, Others
  <2>2. dialog'.confirmRef = h /\ run'[h].stage = "asking" /\ run'[h].op = o /\ CanPress(o, r)
    BY <1>6 DEF Asks, Begins
  <2>3. CASE h = f
    <3>1. Old(g)
      BY <1>b, <2>1, <2>3
    <3>2. UnderWay(g) /\ run[g].here /\ o.slot = run[g].op.slot /\ Exclusive(o)
      BY <1>b, <2>2, <2>3, <3>1 DEF Old, UnderWay
    <3>. QED
      BY <2>2, <3>2, PressBlocked
  <2>4. CASE h # f
    <3>1. Old(f) /\ Old(g) /\ UnderWay(f)
      BY <1>b, <2>1, <2>2, <2>4 DEF Old
    <3>. QED
      BY <1>b, <3>1, NoClash DEF Clash, Old, UnderWay
  <2>. QED
    BY <2>3, <2>4
<1>7. ASSUME NEW h \in Runs, NEW o \in Ops, NEW r \in Rows, Sends(h, o, r) PROVE FALSE
  <2>1. \A i \in Runs : i # h => Old(i)
    BY <1>7, <1>a DEF Sends, Begins, Others
  <2>2. /\ dialog' = dialog /\ run'[h].op = o /\ CanPress(o, r) /\ ~o.asks
        /\ dialog.confirmRef # h /\ run'[h].here
    BY <1>7, FreeRun DEF Sends, Begins, SamePanel
  <2>3. CASE h # f /\ h # g
    BY <1>c, <2>1, <2>2, <2>3
  <2>4. CASE h = f
    <3>1. Old(g)
      BY <1>b, <2>1, <2>4
    <3>2. UnderWay(g) /\ run[g].here /\ o.slot = run[g].op.slot /\ Exclusive(o)
      BY <1>b, <2>2, <2>4, <3>1 DEF Old, UnderWay
    <3>. QED
      BY <2>2, <3>2, PressBlocked
  <2>5. CASE h = g
    <3>1. Old(f) /\ run[f].here /\ o.slot = run[f].op.slot /\ Exclusive(run[f].op)
      BY <1>b, <2>1, <2>2, <2>5 DEF Old
    <3>2. CASE UnderWay(f)
      BY <2>2, <3>1, <3>2, PressBlocked
    <3>3. CASE dialog.confirmRef = f
      <4>1. run[f].stage = "asking" /\ run[f].op \in Ops /\ run[f].op.asks
            /\ run[f].op.page = page /\ o.page = page
        <5>1. RefOK(f)
          BY DialogParts DEF PagesOK
        <5>. QED
          BY <2>2, <3>1, <3>3, <5>1 DEF RefOK, PagesOK, HandlersOK, CanPress
      <4>. QED
        BY <2>2, <3>1, <4>1, ExclusiveTogether
    <3>. QED
      BY <2>2, <3>1, <3>2, <3>3 DEF Old
  <2>. QED
    BY <2>3, <2>4, <2>5
<1>8. CASE Goes
  BY <1>8, <1>b DEF Goes, Leaves
<1>9. ASSUME NEW s \in Slots, Folds(s) PROVE FALSE
  <2>1. dialog' = dialog /\ run'[f] = run[f] /\ run'[g] = run[g]
    BY <1>9, <1>b DEF Folds, Leaves
  <2>. QED
    BY <1>c, <2>1 DEF Old, UnderWay
<1>. QED
  BY <1>1, <1>2, <1>3, <1>4, <1>5, <1>6, <1>7, <1>8, <1>9 DEF Shape

LEMMA FlagsStep ==
    ASSUME PagesOK, Shape PROVE FlagsOK'
<1>1. OneAtATime'
  BY ClashStep DEF OneAtATime, Clash
<1>2. QuestionAlone'
  BY ClashStep DEF QuestionAlone, Clash
<1>. QED
  BY <1>1, <1>2, FlagsHeldStep, FlagsSetStep DEF FlagsOK

-----------------------------------------------------------------------------
(* The guesses *)

LEMMA PatchersAre == \A g : g \in Patchers <=> g \in Runs /\ Patcher(g)
  BY DEF Patchers, Patcher, Hand, PatchesColumn

LEMMA CacheFields ==
    ASSUME TypeOK
    PROVE  /\ cache \in Cache /\ cache.loaded \in BOOLEAN
           /\ cache.shown \in [Keys -> Values] /\ cache.read \in [Keys -> Values]
           /\ server \in [Keys -> Values]
  BY DEF TypeOK, Cache

(* The profile has no rows: nothing is written there *)
LEMMA ProfileUnwritten ==
    ASSUME PagesOK, NEW g \in Runs, run[g].stage # "idle", Watched = Me
    PROVE  ~Writes(run[g].op)
  BY RefetchAssumption DEF Writes, PagesOK, HandlersOK

LEMMA HandUsed == ASSUME NEW g, Hand(g) PROVE run[g].stage # "idle"
  BY DEF Hand, InHand

(* g goes on with what it took along *)
Stays(g) ==
    /\ run'[g].op = run[g].op /\ run'[g].row = run[g].row
    /\ run'[g].ok = run[g].ok /\ run'[g].did = run[g].did
    /\ run'[g].held = run[g].held /\ run'[g].next = run[g].next
    /\ \/ run'[g].stage = run[g].stage
       \/ run[g].stage = "sending" /\ run'[g].stage = "answered"
       \/ run[g].stage = "asking" /\ run'[g].stage = "sending"

(* Nothing that matters to its guess happens to g *)
Unmoved(g) ==
    /\ run'[g].op = run[g].op /\ run'[g].row = run[g].row /\ run'[g].stage = run[g].stage
    /\ run'[g].ok = run[g].ok /\ run'[g].did = run[g].did
    /\ run'[g].held = run[g].held /\ run'[g].next = run[g].next
    /\ dialog'.confirmRef = g => dialog.confirmRef = g

(* g takes no row in hand, and puts none down that it patches but with its   *)
(* question                                                                  *)
HandStays(g) ==
    /\ Hand(g)' => Hand(g) /\ Stays(g)
    /\ Patcher(g) /\ run[g].stage # "asking" => Hand(g)'

CacheStays ==
    /\ cache'.loaded => cache.loaded
    /\ Watched = Me => cache'.shown = cache.shown
    /\ \A k \in Keys : cache'.shown[k] = cache.shown[k] \/ \E f \in Runs : Showing(f, k)'
    /\ Earlier \in cache.missing => Earlier \in cache'.missing
    /\ cache'.fetch = "read" =>
         \/ cache'.read = server
         \/ /\ cache.fetch = "read" /\ cache'.read = cache.read
            /\ Earlier \in cache.late => Earlier \in cache'.late

LEMMA UnmovedHand ==
    ASSUME UNCHANGED scene, NEW g, Unmoved(g) PROVE HandStays(g)
  BY DEF Unmoved, HandStays, Patcher, Hand, InHand, Writes, Watched, Stays

LEMMA StaysKeys ==
    ASSUME UNCHANGED scene, NEW g, Hand(g), Stays(g)
    PROVE  /\ Key(g)' = Key(g) /\ (Patcher(g)' => Patcher(g))
           /\ UnderWay(g) => UnderWay(g)'
           /\ Hand(g)' /\ Patcher(g) => Patcher(g)'
  BY DEF Key, KeyOf, Stays, Patcher, Patches, Watched, UnderWay

LEMMA HandsStay ==
    ASSUME PagesOK, UNCHANGED <<scene, server>>, CacheStays,
           \A g \in Runs : HandStays(g),
           AttachOK', cause' = None => cause = None
    PROVE  GuessOK'
<1>1. ProfileOK'
  BY DEF ProfileOK, CacheStays, Watched, PagesOK, GuessOK
<1>2. ASSUME cause' = None PROVE Unharmed'
  <2>1. Unharmed
    BY <1>2 DEF PagesOK, GuessOK
  <2>2. ASSUME NEW g \in Runs, Hand(g)'
        PROVE  /\ Hand(g) /\ Stays(g) /\ Key(g)' = Key(g) /\ (Patcher(g)' => Patcher(g))
               /\ UnderWay(g) => UnderWay(g)'
    BY <2>2, StaysKeys DEF HandStays
  <2>3. ASSUME NEW g \in Runs, Patcher(g), run[g].stage # "asking"
        PROVE  Patcher(g)' /\ Key(g)' = Key(g) /\ Stays(g) /\ (UnderWay(g) => UnderWay(g)')
    <3>1. Hand(g)' /\ Hand(g)
      BY <2>3 DEF HandStays, Patcher
    <3>. QED
      BY <2>2, <2>3, <3>1, StaysKeys
  <2>4. RowsApart'
    BY <2>1, <2>2 DEF Unharmed, RowsApart, Patcher
  <2>5. HoldsTrue'
    <3>. SUFFICES ASSUME NEW f \in Runs, Patcher(f)'
                  PROVE  /\ run'[f].ok = run'[f].did
                         /\ run'[f].did => run'[f].stage = "answered"
                                           /\ server'[Key(f)'] = run'[f].next
                         /\ ~run'[f].did => server'[Key(f)'] = run'[f].held
      BY DEF HoldsTrue
    <3>1. Patcher(f) /\ Stays(f) /\ Key(f)' = Key(f)
      BY <2>2 DEF Patcher
    <3>. QED
      BY <2>1, <3>1 DEF Unharmed, HoldsTrue, Stays
  <2>6. ASSUME NEW f \in Runs, NEW k, Due(f, k) PROVE Due(f, k)'
    <3>1. Patcher(f) /\ run[f].did /\ run[f].stage = "answered"
      BY <2>1, <2>6 DEF Due, Unharmed, HoldsTrue
    <3>. QED
      BY <2>3, <2>6, <3>1 DEF Due, Stays
  <2>7. ASSUME NEW f \in Runs, NEW k, Showing(f, k) PROVE Showing(f, k)'
    BY <2>3, <2>7 DEF Showing, Stays, UnderWay
  <2>8. ReadTrue'
    <3>. SUFFICES ASSUME cache'.fetch = "read", NEW k \in Keys
                  PROVE  \/ cache'.read[k] = server'[k]
                         \/ Earlier \in cache'.late
                         \/ \E f \in Runs : Due(f, k)'
      BY DEF ReadTrue, Keys
    <3>1. CASE cache'.read = server
      BY <3>1
    <3>2. CASE /\ cache.fetch = "read" /\ cache'.read = cache.read
               /\ Earlier \in cache.late => Earlier \in cache'.late
      BY <2>1, <2>6, <3>2 DEF Unharmed, ReadTrue
    <3>. QED
      BY <3>1, <3>2 DEF CacheStays
  <2>9. ShownTrue'
    <3>. SUFFICES ASSUME cache'.loaded, NEW k \in Keys
                  PROVE  \/ cache'.shown[k] = server'[k]
                         \/ Earlier \in cache'.missing
                         \/ \E f \in Runs : Showing(f, k)'
      BY DEF ShownTrue, Keys
    <3>. QED
      BY <2>1, <2>7 DEF Unharmed, ShownTrue, CacheStays
  <2>. QED
    BY <2>4, <2>5, <2>8, <2>9 DEF Unharmed
<1>. QED
  BY <1>1, <1>2 DEF GuessOK

(* Once there is a cause nothing more is said, and of the profile nothing    *)
LEMMA HarmGuess ==
    ASSUME AttachOK', ProfileOK', cause' # None PROVE GuessOK'
  BY DEF GuessOK

(* One handler moves, or Nobody does *)
LEMMA OneMoves ==
    ASSUME PagesOK, UNCHANGED <<scene, server>>, CacheStays, NEW f,
           \A g \in Runs : g # f => Unmoved(g),
           f \in Runs => HandStays(f) /\ (run'[f].stage = "attaching" => run'[f].op.attaches),
           cause' = None => cause = None
    PROVE  GuessOK'
<1>1. \A g \in Runs : HandStays(g)
  BY UnmovedHand
<1>2. AttachOK'
  BY DEF AttachOK, Unmoved, PagesOK, GuessOK
<1>. QED
  BY <1>1, <1>2, HandsStay

LEMMA BecauseNone ==
    ASSUME NEW S, None \notin S, Because(S) = None
    PROVE  cause = None /\ S = {}
<1>1. S # {} => (CHOOSE c \in S : TRUE) \in S
  OBVIOUS
<1>. QED
  BY <1>1 DEF Because

LEMMA CauseKept == ASSUME NEW S, Because(S) = None PROVE cause = None
  BY DEF Because

LEMMA AlertUnmoved ==
    ASSUME PagesOK, NEW w, NEW runs \in [Runs -> Run], NEW S, Alert(w, runs, S)
    PROVE  /\ \A g \in Runs : runs[g] = run[g] => Unmoved(g)
           /\ \A g \in Runs : /\ run'[g].op = runs[g].op /\ run'[g].stage = runs[g].stage
                              /\ dialog'.confirmRef # g
           /\ cause' = None => cause = None
<1>1. Become(runs) /\ dialog'.confirmRef = Nobody
  BY AlertShape DEF PagesOK
<1>2. cause' = None => cause = None
  BY CauseKept DEF Alert
<1>. QED
  BY <1>1, <1>2, PagesAssumption DEF Become, Unmoved

(* The same where there may be no alert *)
LEMMA MaybeAlert ==
    ASSUME PagesOK, NEW runs \in [Runs -> Run], NEW S,
           \/ Alert(Nobody, runs, S)
           \/ run' = runs /\ UNCHANGED dialog /\ (cause' = None => cause = None)
    PROVE  /\ \A g \in Runs : runs[g] = run[g] => Unmoved(g)
           /\ \A g \in Runs : run'[g].op = runs[g].op /\ run'[g].stage = runs[g].stage
           /\ cause' = None => cause = None
<1>1. CASE Alert(Nobody, runs, S)
  BY <1>1, AlertUnmoved
<1>2. CASE run' = runs /\ UNCHANGED dialog /\ (cause' = None => cause = None)
  BY <1>2 DEF Unmoved
<1>. QED
  BY <1>1, <1>2

LEMMA SameCache == cache' = cache => CacheStays
  BY DEF CacheStays

LEMMA NobodyGuess ==
    ASSUME PagesOK, (\E o, r : Unacceptable(o, r)) \/ QueryErrorAlert
    PROVE  GuessOK'
<1>1. Alert(Nobody, run, {}) /\ UNCHANGED <<scene, server>>
  BY DEF Unacceptable, QueryErrorAlert
<1>2. CacheStays
  BY CacheFields DEF Unacceptable, QueryErrorAlert, CacheStays, Cache, PagesOK
<1>3. run \in [Runs -> Run]
  BY DEF PagesOK, TypeOK
<1>4. (\A g \in Runs : Unmoved(g)) /\ (cause' = None => cause = None)
  BY <1>1, <1>3, AlertUnmoved
<1>. QED
  BY <1>1, <1>2, <1>4, OneMoves, PagesAssumption

(* A handler that writes the column tells nothing before it goes on *)
LEMMA WritersTellLast ==
    ASSUME PagesOK, NEW f \in Runs, run[f].stage # "idle", Outcome(f) = "await first"
    PROVE  ~Writes(run[f].op)
<1>1. run[f].op \in Ops
  BY DEF PagesOK, HandlersOK
<1>. QED
  BY <1>1, OpFields, HandlersAssumption DEF Outcome, Writes

LEMMA TellGuess ==
    ASSUME PagesOK, NEW f \in Runs, TellFirst(f) \/ Tell(f)
    PROVE  GuessOK'
<1>. PICK runs : runs = [run EXCEPT ![f].stage = "telling"]
  OBVIOUS
<1>0. run \in [Runs -> Run]
  BY DEF PagesOK, TypeOK
<1>1. /\ runs \in [Runs -> Run] /\ runs[f].stage = "telling"
      /\ \A g \in Runs : g # f => runs[g] = run[g]
  BY <1>0 DEF Run
<1>2. Alert(f, runs, {}) /\ UNCHANGED <<scene, server, cache>>
  BY DEF TellFirst, Tell
<1>3. /\ \A g \in Runs : g # f => Unmoved(g)
      /\ run'[f].stage = "telling" /\ (cause' = None => cause = None)
  BY <1>1, <1>2, AlertUnmoved
<1>4. ~Hand(f)
  <2>1. CASE TellFirst(f)
    BY <2>1, WritersTellLast DEF TellFirst, Hand
  <2>2. CASE Tell(f)
    BY <2>2 DEF Tell, Settled, Hand, InHand
  <2>. QED
    BY <2>1, <2>2
<1>5. HandStays(f)
  BY <1>3, <1>4 DEF HandStays, Patcher, Hand, InHand
<1>. QED
  BY <1>2, <1>3, <1>5, OneMoves, SameCache

LEMMA EndGuess ==
    ASSUME PagesOK, NEW f \in Runs, End(f)
    PROVE  GuessOK'
<1>. PICK runs : runs = [run EXCEPT ![f] = Idle]
  OBVIOUS
<1>1. /\ runs \in [Runs -> Run] /\ runs[f].stage = "idle"
      /\ \A g \in Runs : g # f => runs[g] = run[g]
  BY IdleType, IdleFields DEF PagesOK, TypeOK, IdleColumns
<1>2. /\ \/ Alert(Nobody, runs, {})
         \/ run' = runs /\ UNCHANGED <<dialog, cause>>
      /\ UNCHANGED <<scene, server, cache>>
  BY DEF End
<1>3. /\ \A g \in Runs : g # f => Unmoved(g)
      /\ run'[f].stage = "idle" /\ (cause' = None => cause = None)
  BY <1>1, <1>2, MaybeAlert
<1>4. ~Hand(f)
  BY DEF End, Settled, Hand, InHand
<1>5. HandStays(f)
  BY <1>3, <1>4 DEF HandStays, Patcher, Hand, InHand
<1>. QED
  BY <1>2, <1>3, <1>5, OneMoves, SameCache

LEMMA CloseGuess ==
    ASSUME PagesOK, CloseAlert
    PROVE  GuessOK'
<1>. PICK f \in Runs \cup {Nobody} : f = dialog.alertRef
  BY DEF PagesOK, TypeOK
<1>1. dialog.kind = "alert" /\ dialog' = NoPanel /\ UNCHANGED <<scene, server, cache, cause>>
  BY DEF CloseAlert, Answers
<1>2. \A g \in Runs : dialog'.confirmRef # g
  BY <1>1, PagesAssumption DEF NoPanel
<1>0. run \in [Runs -> Run]
  BY DEF PagesOK, TypeOK
<1>3. CASE f = Nobody
  <2>1. UNCHANGED run
    BY <1>3 DEF CloseAlert
  <2>2. \A g \in Runs : Unmoved(g)
    BY <1>2, <2>1 DEF Unmoved
  <2>. QED
    BY <1>1, <2>2, OneMoves, SameCache, <1>3, PagesAssumption
<1>4. CASE f \in Runs
  <2>1. run[f].stage = "telling"
    BY <1>4 DEF PagesOK, DialogOK, DialogMatches
  <2>2. /\ \A g \in Runs : g # f => run'[g] = run[g]
        /\ \/ run'[f].stage = "idle"
           \/ /\ Outcome(f) = "await first" /\ run'[f].stage = "answered"
              /\ run'[f].op = run[f].op
    <3>1. CASE Outcome(f) = "await first"
      <4>. PICK r \in Run : r = run[f]
        BY <1>0, <1>4
      <4>1. run' = [run EXCEPT ![f] = [r EXCEPT !.stage = "answered", !.told = TRUE]]
        BY <1>4, <3>1, PagesAssumption DEF CloseAlert
      <4>2. run'[f] = [r EXCEPT !.stage = "answered", !.told = TRUE]
            /\ \A g \in Runs : g # f => run'[g] = run[g]
        BY <1>0, <1>4, <4>1
      <4>. QED
        BY <3>1, <4>2 DEF Run
    <3>2. CASE Outcome(f) # "await first"
      <4>1. run' = [run EXCEPT ![f] = Idle]
        BY <1>4, <3>2, PagesAssumption DEF CloseAlert
      <4>. QED
        BY <1>0, <1>4, <4>1, IdleFields DEF IdleColumns
    <3>. QED
      BY <3>1, <3>2
  <2>3. \A g \in Runs : g # f => Unmoved(g)
    BY <1>2, <2>2 DEF Unmoved
  <2>4. ~Hand(f) /\ ~Hand(f)'
    <3>1. ~InHand(f) /\ (Outcome(f) = "await first" => ~Writes(run[f].op))
      BY <1>4, <2>1, WritersTellLast DEF InHand
    <3>. QED
      BY <1>1, <2>2, <3>1 DEF Hand, InHand, Writes, Watched
  <2>5. HandStays(f) /\ run'[f].stage # "attaching"
    BY <2>2, <2>4 DEF HandStays, Patcher
  <2>. QED
    BY <1>1, <2>3, <2>5, OneMoves, SameCache
<1>. QED
  BY <1>3, <1>4

LEMMA ChangedStays ==
    ASSUME PagesOK, NEW f \in Runs, cache' = Changed(f)
    PROVE  /\ CacheStays
           /\ cache'.shown = cache.shown /\ cache'.read = cache.read
           /\ cache'.loaded = cache.loaded /\ cache'.fetch = cache.fetch
           /\ cache.missing \subseteq cache'.missing /\ cache.late \subseteq cache'.late
           /\ Watched \in run[f].op.changes =>
                /\ cache.loaded => cache'.missing = cache.missing \cup ChangeBy(f)
                /\ cache.fetch = "read" => cache'.late = cache.late \cup ChangeBy(f)
<1>1. /\ cache'.shown = cache.shown /\ cache'.read = cache.read
      /\ cache'.loaded = cache.loaded /\ cache'.fetch = cache.fetch
      /\ cache.missing \subseteq cache'.missing /\ cache.late \subseteq cache'.late
      /\ Watched \in run[f].op.changes =>
           /\ cache.loaded => cache'.missing = cache.missing \cup ChangeBy(f)
           /\ cache.fetch = "read" => cache'.late = cache.late \cup ChangeBy(f)
  BY CacheFields DEF Changed, Cache, PagesOK
<1>. QED
  BY <1>1 DEF CacheStays

(* What the server and the answer do to the handlers *)
LEMMA ServerMoves ==
    ASSUME PagesOK, NEW f \in Runs,
           ServerActs(f) \/ ServerRefuses(f) \/ Attach(f) \/ AnswerLost(f)
    PROVE  /\ \A g \in Runs : g # f => Unmoved(g)
           /\ run'[f].op = run[f].op /\ run'[f].row = run[f].row
           /\ run'[f].held = run[f].held /\ run'[f].next = run[f].next
           /\ ServerActs(f) => /\ run'[f].stage = IF run[f].op.attaches THEN "attaching" ELSE "answered"
                               /\ run'[f].did = TRUE /\ run'[f].ok = TRUE
           /\ ~ServerActs(f) => run'[f].stage = "answered" /\ run'[f].did = run[f].did
           /\ ServerRefuses(f) => run'[f].ok = run[f].ok
           /\ UNCHANGED <<scene, dialog>>
<1>1. TypeOK /\ run \in [Runs -> Run]
  BY DEF PagesOK, TypeOK
<1>. PICK o : o = run[f].op
  OBVIOUS
<1>. PICK before : before = IF ServerActs(f) THEN Profiles(o) ELSE run
  OBVIOUS
<1>. PICK runs : runs = IF ServerActs(f) \/ Attach(f) THEN Outdated(f, before) ELSE run
  OBVIOUS
<1>2. before \in {Profiles(o), run}
  OBVIOUS
<1>. DEFINE Fields(q, r) == /\ q.op = r.op /\ q.row = r.row /\ q.stage = r.stage
                            /\ q.ok = r.ok /\ q.did = r.did
                            /\ q.held = r.held /\ q.next = r.next
<1>3. runs \in [Runs -> Run] /\ \A g \in Runs : Fields(runs[g], run[g])
  <2>1. CASE runs = run
    BY <1>1, <2>1
  <2>2. CASE runs = Outdated(f, before)
    BY <1>1, <1>2, <2>2, OutdatedFields
  <2>. QED
    BY <2>1, <2>2
<1>. PICK stage \in {"attaching", "answered"} :
              stage = IF ServerActs(f) /\ o.attaches THEN "attaching" ELSE "answered"
  OBVIOUS
<1>4. /\ ServerActs(f) => run' = [runs EXCEPT ![f].stage = stage, ![f].did = TRUE, ![f].ok = TRUE]
      /\ ~ServerActs(f) /\ ~AnswerLost(f) => run' = [runs EXCEPT ![f].stage = stage]
      /\ ~ServerActs(f) /\ AnswerLost(f) /\ ~Attach(f) =>
            run' = [runs EXCEPT ![f].stage = stage, ![f].ok = FALSE]
      /\ Attach(f) /\ ~ServerActs(f) => run' = [runs EXCEPT ![f].stage = stage]
  <2>1. ServerActs(f) => run' = [runs EXCEPT ![f].stage = stage, ![f].did = TRUE, ![f].ok = TRUE]
    BY DEF ServerActs
  <2>2. Attach(f) /\ ~ServerActs(f) => run' = [runs EXCEPT ![f].stage = stage]
    BY DEF Attach
  <2>3. ServerRefuses(f) /\ ~ServerActs(f) /\ ~Attach(f) => run' = [runs EXCEPT ![f].stage = stage]
    BY DEF ServerRefuses
  <2>4. ~ServerActs(f) /\ AnswerLost(f) /\ ~Attach(f) =>
            run' = [runs EXCEPT ![f].stage = stage, ![f].ok = FALSE]
    BY DEF AnswerLost
  <2>. QED
    BY <2>1, <2>2, <2>3, <2>4
<1>. PICK r \in Run : r = runs[f]
  BY <1>3
<1>5. \/ ServerActs(f) /\ run' = [runs EXCEPT ![f] = [r EXCEPT !.stage = stage, !.did = TRUE, !.ok = TRUE]]
      \/ ~ServerActs(f) /\ run' = [runs EXCEPT ![f] = [r EXCEPT !.stage = stage]]
      \/ /\ ~ServerActs(f) /\ ~ServerRefuses(f)
         /\ run' = [runs EXCEPT ![f] = [r EXCEPT !.stage = stage, !.ok = FALSE]]
  <2>1. CASE ServerActs(f)
    <3>1. run' = [runs EXCEPT ![f].stage = stage, ![f].did = TRUE, ![f].ok = TRUE]
      BY <1>4, <2>1
    <3>2. run' = [runs EXCEPT ![f] = [r EXCEPT !.stage = stage, !.did = TRUE, !.ok = TRUE]]
      BY <1>3, <3>1
    <3>. QED
      BY <2>1, <3>2
  <2>2. CASE ~ServerActs(f) /\ (Attach(f) \/ ServerRefuses(f))
    <3>1. run' = [runs EXCEPT ![f].stage = stage]
      <4>1. ServerRefuses(f) => ~AnswerLost(f)
        BY DEF ServerRefuses, AnswerLost
      <4>. QED
        BY <1>4, <2>2, <4>1
    <3>. QED
      BY <2>2, <3>1
  <2>3. CASE ~ServerActs(f) /\ ~Attach(f) /\ ~ServerRefuses(f)
    BY <1>4, <2>3
  <2>. QED
    BY <2>1, <2>2, <2>3
<1>6. /\ \A g \in Runs : g # f => run'[g] = runs[g]
      /\ run'[f].op = r.op /\ run'[f].row = r.row
      /\ run'[f].held = r.held /\ run'[f].next = r.next /\ run'[f].stage = stage
      /\ ServerActs(f) => run'[f].did = TRUE /\ run'[f].ok = TRUE
      /\ ~ServerActs(f) => run'[f].did = r.did
      /\ ~ServerActs(f) /\ ServerRefuses(f) => run'[f].ok = r.ok
  <2>1. CASE ServerActs(f) /\ run' = [runs EXCEPT ![f] = [r EXCEPT !.stage = stage, !.did = TRUE, !.ok = TRUE]]
    BY <1>3, <2>1 DEF Run
  <2>2. CASE ~ServerActs(f) /\ run' = [runs EXCEPT ![f] = [r EXCEPT !.stage = stage]]
    BY <1>3, <2>2 DEF Run
  <2>3. CASE /\ ~ServerActs(f) /\ ~ServerRefuses(f)
             /\ run' = [runs EXCEPT ![f] = [r EXCEPT !.stage = stage, !.ok = FALSE]]
    BY <1>3, <2>3 DEF Run
  <2>. QED
    BY <1>5, <2>1, <2>2, <2>3
<1>7. UNCHANGED <<scene, dialog>>
  BY DEF ServerActs, ServerRefuses, Attach, AnswerLost
<1>8. \A g \in Runs : g # f => Unmoved(g)
  BY <1>3, <1>6, <1>7 DEF Unmoved
<1>9. ServerRefuses(f) => run'[f].ok = run[f].ok
  BY <1>1 DEF ServerRefuses, Run
<1>. QED
  BY <1>3, <1>6, <1>7, <1>8, <1>9

LEMMA AnswerGuess ==
    ASSUME PagesOK, NEW f \in Runs, ServerRefuses(f) \/ Attach(f) \/ AnswerLost(f), ~ServerActs(f)
    PROVE  GuessOK'
<1>1. /\ \A g \in Runs : g # f => Unmoved(g)
      /\ run'[f].op = run[f].op /\ run'[f].row = run[f].row
      /\ run'[f].held = run[f].held /\ run'[f].next = run[f].next
      /\ run'[f].stage = "answered" /\ run'[f].did = run[f].did
      /\ ServerRefuses(f) => run'[f].ok = run[f].ok
      /\ UNCHANGED <<scene, dialog>>
  BY ServerMoves
<1>2. CacheStays /\ UNCHANGED server
  BY ChangedStays, SameCache DEF ServerRefuses, Attach, AnswerLost
<1>3. cause' = None => cause = None
  BY CauseKept DEF ServerRefuses, Attach, AnswerLost
<1>4. run[f].stage \in {"sending", "attaching", "answered"} /\ run[f].op \in Ops
  BY DEF ServerRefuses, Attach, AnswerLost, PagesOK, HandlersOK
<1>5. CASE ~Writes(run[f].op)
  <2>1. HandStays(f)
    BY <1>1, <1>5 DEF HandStays, Patcher, Hand, Writes, Watched
  <2>. QED
    BY <1>1, <1>2, <1>3, <2>1, OneMoves
<1>6. CASE Writes(run[f].op)
  <2>1. run[f].stage # "attaching" /\ Watched \in run[f].op.changes
    BY <1>4, <1>6, HandlersAssumption DEF Writes, PagesOK, GuessOK, AttachOK
  <2>2. CASE ServerRefuses(f)
    <3>1. run[f].stage = "sending"
      BY <2>2 DEF ServerRefuses
    <3>2. HandStays(f)
      BY <1>1, <1>6, <2>2, <3>1 DEF HandStays, Patcher, Hand, InHand, Stays, Writes, Watched
    <3>. QED
      BY <1>1, <1>2, <1>3, <3>2, OneMoves
  <2>3. CASE AnswerLost(f)
    <3>1. cause' # None
      <4>1. Because({"lost"}) # None
        BY DEF Because, None
      <4>. QED
        BY <2>1, <2>3, <4>1 DEF AnswerLost
    <3>2. AttachOK'
      BY <1>1 DEF AttachOK, Unmoved, PagesOK, GuessOK
    <3>3. ProfileOK'
      BY <1>1, <1>2 DEF ProfileOK, CacheStays, Watched, PagesOK, GuessOK
    <3>. QED
      BY <3>1, <3>2, <3>3, HarmGuess
  <2>. QED
    BY <1>4, <2>1, <2>2, <2>3 DEF Attach
<1>. QED
  BY <1>5, <1>6

(* What a handler writes reaches one row, its own: it is to be patched in, or  *)
(* the data lack it                                                          *)
LEMMA ActsGuess ==
    ASSUME PagesOK, NEW f \in Runs, ServerActs(f)
    PROVE  GuessOK'
<1>1. /\ \A g \in Runs : g # f => Unmoved(g)
      /\ run'[f].op = run[f].op /\ run'[f].row = run[f].row
      /\ run'[f].held = run[f].held /\ run'[f].next = run[f].next
      /\ run'[f].stage = IF run[f].op.attaches THEN "attaching" ELSE "answered"
      /\ run'[f].did = TRUE /\ run'[f].ok = TRUE
      /\ UNCHANGED <<scene, dialog>>
  BY ServerMoves
<1>2. /\ CacheStays
      /\ cache'.shown = cache.shown /\ cache'.read = cache.read
      /\ cache'.loaded = cache.loaded /\ cache'.fetch = cache.fetch
      /\ cache.missing \subseteq cache'.missing /\ cache.late \subseteq cache'.late
      /\ Watched \in run[f].op.changes =>
           /\ cache.loaded => cache'.missing = cache.missing \cup ChangeBy(f)
           /\ cache.fetch = "read" => cache'.late = cache.late \cup ChangeBy(f)
  BY ChangedStays DEF ServerActs
<1>3. cause' = None => cause = None
  BY CauseKept DEF ServerActs
<1>4. /\ run[f].stage = "sending" /\ run[f].op \in Ops /\ run[f].row \in Rows
      /\ server' = IF Writes(run[f].op) THEN [server EXCEPT ![Key(f)] = run[f].next] ELSE server
  BY DEF ServerActs, PagesOK, HandlersOK
<1>5. CASE ~Writes(run[f].op)
  <2>1. HandStays(f)
    BY <1>1, <1>5 DEF HandStays, Patcher, Hand, Writes, Watched
  <2>. QED
    BY <1>1, <1>2, <1>3, <1>4, <1>5, <2>1, OneMoves
<1>6. CASE Writes(run[f].op)
  <2>1. Watched \in run[f].op.changes /\ run[f].op.attaches = FALSE
    BY <1>4, <1>6, OpFields, HandlersAssumption DEF Writes
  <2>2. Hand(f) /\ run'[f].stage = "answered"
    BY <1>1, <1>4, <1>6, <2>1 DEF Hand, InHand
  <2>3. Watched # Me
    BY <1>4, <1>6, ProfileUnwritten
  <2>4. AttachOK' /\ ProfileOK'
    BY <1>1, <2>2, <2>3 DEF AttachOK, ProfileOK, Unmoved, Watched, PagesOK, GuessOK
  <2>5. ASSUME NEW g \in Runs
        PROVE  Hand(g)' = Hand(g) /\ Patcher(g)' = Patcher(g) /\ Key(g)' = Key(g)
               /\ (UnderWay(g) => UnderWay(g)')
    <3>1. CASE g = f
      BY <1>1, <2>2, <3>1 DEF Hand, InHand, Patcher, Patches, Writes, Watched, Key, KeyOf, UnderWay
    <3>2. CASE g # f
      BY <1>1, <3>2 DEF Unmoved, Hand, InHand, Patcher, Patches, Writes, Watched, Key, KeyOf, UnderWay
    <3>. QED
      BY <3>1, <3>2
  <2>6. /\ server'[Key(f)] = run[f].next
        /\ \A k \in Keys : k # Key(f) => server'[k] = server[k]
    <3>1. Key(f) \in Keys /\ server \in [Keys -> Values]
      BY <1>4, KeyType, CacheFields DEF Key, PagesOK
    <3>. QED
      BY <1>4, <1>6, <3>1
  <2>7. Patcher(f) \/ ChangeBy(f) = {Earlier}
    BY <2>2 DEF Patcher, ChangeBy, PatchesColumn
  <2>8. ASSUME cause' = None PROVE Unharmed'
    <3>1. Unharmed
      BY <1>3, <2>8 DEF PagesOK, GuessOK
    <3>2. RowsApart'
      BY <2>5, <3>1 DEF Unharmed, RowsApart
    <3>3. HoldsTrue'
      <4>. SUFFICES ASSUME NEW g \in Runs, Patcher(g)'
                    PROVE  /\ run'[g].ok = run'[g].did
                           /\ run'[g].did => run'[g].stage = "answered"
                                             /\ server'[Key(g)'] = run'[g].next
                           /\ ~run'[g].did => server'[Key(g)'] = run'[g].held
        BY DEF HoldsTrue
      <4>1. CASE g = f
        BY <1>1, <2>2, <2>5, <2>6, <4>1
      <4>2. CASE g # f
        <5>1. Patcher(g) /\ Key(g)' = Key(g) /\ Key(g) # Key(f)
          BY <2>2, <2>5, <3>1, <4>2 DEF Unharmed, RowsApart
        <5>2. run[g].stage # "idle"
          BY <5>1, HandUsed DEF Patcher
        <5>3. Key(g) \in Keys
          BY <5>2, KeyType DEF Key, PagesOK, HandlersOK
        <5>. QED
          BY <1>1, <2>6, <3>1, <4>2, <5>1, <5>3 DEF Unharmed, HoldsTrue, Unmoved
      <4>. QED
        BY <4>1, <4>2
    <3>4. ASSUME NEW g \in Runs, NEW k, k # Key(f)
          PROVE  (Due(g, k) => Due(g, k)') /\ (Showing(g, k) => Showing(g, k)')
      <4>1. CASE g = f
        BY <3>4, <4>1 DEF Due, Showing
      <4>2. CASE g # f
        BY <1>1, <2>5, <4>2 DEF Due, Showing, Unmoved
      <4>. QED
        BY <4>1, <4>2
    <3>5. ASSUME NEW k, k = Key(f), Patcher(f) PROVE Due(f, k)' /\ Showing(f, k)'
      BY <1>1, <2>2, <2>5, <3>5 DEF Due, Showing, UnderWay
    <3>6. ReadTrue'
      <4>. SUFFICES ASSUME cache'.fetch = "read", NEW k \in Keys
                    PROVE  \/ cache'.read[k] = server'[k]
                           \/ Earlier \in cache'.late
                           \/ \E g \in Runs : Due(g, k)'
        BY DEF ReadTrue, Keys
      <4>1. CASE k = Key(f)
        BY <1>2, <2>1, <2>7, <3>5, <4>1
      <4>2. CASE k # Key(f)
        BY <1>2, <2>6, <3>1, <3>4, <4>2 DEF Unharmed, ReadTrue
      <4>. QED
        BY <4>1, <4>2
    <3>7. ShownTrue'
      <4>. SUFFICES ASSUME cache'.loaded, NEW k \in Keys
                    PROVE  \/ cache'.shown[k] = server'[k]
                           \/ Earlier \in cache'.missing
                           \/ \E g \in Runs : Showing(g, k)'
        BY DEF ShownTrue, Keys
      <4>1. CASE k = Key(f)
        BY <1>2, <2>1, <2>7, <3>5, <4>1
      <4>2. CASE k # Key(f)
        BY <1>2, <2>6, <3>1, <3>4, <4>2 DEF Unharmed, ShownTrue
      <4>. QED
        BY <4>1, <4>2
    <3>. QED
      BY <3>2, <3>3, <3>6, <3>7 DEF Unharmed
  <2>. QED
    BY <2>4, <2>8 DEF GuessOK
<1>. QED
  BY <1>5, <1>6

(* On the pages without such a column nothing can be wrong with it            *)
LEMMA MeGuess ==
    ASSUME PagesOK, UNCHANGED <<scene, server>>, Watched = Me, AttachOK',
           cache'.shown = cache.shown, cache'.fetch = cache.fetch, cache'.read = cache.read,
           \A g \in Runs : run'[g].op = run[g].op /\ run'[g].stage = run[g].stage
    PROVE  GuessOK'
<1>1. ProfileOK'
  BY DEF ProfileOK, Watched, PagesOK, GuessOK
<1>2. \A g \in Runs : ~Hand(g)' /\ ~Patcher(g)'
  BY ProfileUnwritten, HandUsed DEF Hand, InHand, Patcher, Writes, Watched
<1>3. Unharmed'
  BY <1>1, <1>2 DEF ProfileOK, Watched, Unharmed, RowsApart, HoldsTrue, ReadTrue, ShownTrue
<1>. QED
  BY <1>1, <1>3 DEF GuessOK

LEMMA ProfileGuess ==
    ASSUME PagesOK, NEW f \in Runs,
           ProfileAsked(f) \/ ProfileRead(f) \/ ProfileArrives(f) \/ ProfileFails(f)
    PROVE  GuessOK'
<1>0. run \in [Runs -> Run] /\ UNCHANGED <<scene, dialog, server>>
  BY DEF PagesOK, TypeOK, ProfileAsked, ProfileRead, ProfileArrives, ProfileFails
<1>1. \A g \in Runs : run'[g].op = run[g].op /\ run'[g].stage = run[g].stage
  BY <1>0 DEF ProfileAsked, ProfileRead, ProfileArrives, ProfileFails, Run
<1>3. AttachOK'
  BY <1>1 DEF AttachOK, PagesOK, GuessOK
<1>4. CASE cache' # cache
  <2>1. Watched = Me /\ cache'.shown = cache.shown /\ cache'.fetch = cache.fetch
        /\ cache'.read = cache.read
    BY <1>4, CacheFields
    DEF ProfileAsked, ProfileRead, ProfileArrives, ProfileFails, Cache, PagesOK
  <2>. QED
    BY <1>0, <1>1, <1>3, <2>1, MeGuess
<1>5. CASE cache' = cache /\ Watched = Me
  BY <1>0, <1>1, <1>3, <1>5, MeGuess
<1>6. CASE cache' = cache /\ Watched # Me /\ ~ProfileFails(f)
  <2>1. cause' = cause
    BY <1>6 DEF ProfileAsked, ProfileRead, ProfileArrives
  <2>2. \A g \in Runs : run'[g].ok = run[g].ok /\ run'[g].did = run[g].did
                        /\ run'[g].held = run[g].held /\ run'[g].next = run[g].next
                        /\ run'[g].row = run[g].row
    BY <1>0, <1>6 DEF ProfileAsked, ProfileRead, ProfileArrives, Run
  <2>3. \A g \in Runs : Unmoved(g)
    BY <1>0, <1>1, <2>2 DEF Unmoved
  <2>. QED
    BY <1>0, <1>6, <2>1, <2>3, OneMoves, SameCache, PagesAssumption
<1>7. CASE cache' = cache /\ Watched # Me /\ ProfileFails(f)
  <2>1. cause' # None
    <3>1. Because({"failed"}) # None
      BY DEF Because, None
    <3>. QED
      BY <1>7, <3>1 DEF ProfileFails
  <2>2. ProfileOK'
    BY <1>0, <1>7 DEF ProfileOK, Watched
  <2>. QED
    BY <1>3, <2>1, <2>2, HarmGuess
<1>. QED
  BY <1>4, <1>5, <1>6, <1>7

LEMMA InvalidatedFields ==
    ASSUME NEW c \in Cache, NEW S, NEW d, d = Invalidated(c, S)
    PROVE  /\ d.shown = c.shown /\ d.loaded = c.loaded /\ d.missing = c.missing
           /\ d.fetch = "read" => c.fetch = "read" /\ d.read = c.read /\ d.late = c.late
<1>1. CASE Restarts(S)
  BY <1>1 DEF Invalidated, Cache
<1>2. CASE ~Restarts(S)
  BY <1>2 DEF Invalidated, Cache
<1>. QED
  BY <1>1, <1>2

LEMMA InvalidatedStays ==
    ASSUME PagesOK, NEW S, cache' = Invalidated(cache, S)
    PROVE  CacheStays
<1>. PICK d : d = cache'
  OBVIOUS
<1>1. d = Invalidated(cache, S) /\ cache \in Cache
  BY CacheFields DEF PagesOK
<1>2. /\ d.shown = cache.shown /\ d.loaded = cache.loaded /\ d.missing = cache.missing
      /\ d.fetch = "read" => cache.fetch = "read" /\ d.read = cache.read /\ d.late = cache.late
  BY <1>1, InvalidatedFields
<1>. QED
  BY <1>2 DEF CacheStays

(* What is fetched has all that the server had, but for what handlers do     *)
LEMMA ArrivesGuess ==
    ASSUME PagesOK, FetchArrives, \A g \in Runs : Unmoved(g)
    PROVE  GuessOK'
<1>1. /\ cache.fetch = "read" /\ cache'.fetch = "none" /\ cache'.loaded = TRUE
      /\ cache'.missing = cache.late /\ cache'.shown = cache.read
      /\ UNCHANGED <<scene, server, dialog>>
  BY DEF FetchArrives
<1>2. ProfileOK' /\ AttachOK'
  BY <1>1 DEF ProfileOK, AttachOK, Unmoved, Watched, PagesOK, GuessOK
<1>3. ASSUME NEW g \in Runs
      PROVE  /\ Hand(g)' = Hand(g) /\ Patcher(g)' = Patcher(g) /\ Key(g)' = Key(g)
             /\ UnderWay(g)' = UnderWay(g)
  BY <1>1, <1>3 DEF Unmoved, Hand, InHand, Patcher, Patches, Writes, Watched, Key, KeyOf, UnderWay
<1>4. ASSUME cause' = None PROVE Unharmed'
  <2>1. CASE cache.read = server /\ Patchers = {}
    <3>1. \A g \in Runs : ~Patcher(g)'
      BY <1>3, <2>1, PatchersAre
    <3>. QED
      BY <1>1, <2>1, <3>1 DEF Unharmed, RowsApart, HoldsTrue, ReadTrue, ShownTrue
  <2>2. CASE ~(cache.late = {} /\ cache.read = server /\ Patchers = {})
    <3>1. cause = None
      BY <1>4, <2>2, CauseKept DEF FetchArrives
    <3>2. Unharmed
      BY <3>1 DEF PagesOK, GuessOK
    <3>3. RowsApart'
      BY <1>3, <3>2 DEF Unharmed, RowsApart
    <3>4. HoldsTrue'
      BY <1>1, <1>3, <3>2 DEF Unharmed, HoldsTrue, Unmoved
    <3>5. ReadTrue'
      BY <1>1 DEF ReadTrue
    <3>6. ShownTrue'
      <4>. SUFFICES ASSUME NEW k \in Keys
                    PROVE  \/ cache'.shown[k] = server'[k]
                           \/ Earlier \in cache'.missing
                           \/ \E g \in Runs : Showing(g, k)'
        BY DEF ShownTrue, Keys
      <4>1. ASSUME NEW g \in Runs, Due(g, k) PROVE Showing(g, k)'
        BY <1>3, <3>2, <4>1 DEF Due, Showing, Unharmed, HoldsTrue, Unmoved, UnderWay
      <4>. QED
        BY <1>1, <3>2, <4>1 DEF Unharmed, ReadTrue
    <3>. QED
      BY <3>3, <3>4, <3>5, <3>6 DEF Unharmed
  <2>. QED
    BY <2>1, <2>2
<1>. QED
  BY <1>2, <1>4 DEF GuessOK

LEMMA ListGuess ==
    ASSUME PagesOK,
           Reload \/ Refocus \/ FetchRead \/ FetchArrives \/ FetchFails
             \/ \E k \in Kinds \cup {"open"} : HintArrives(k)
    PROVE  GuessOK'
<1>0. run \in [Runs -> Run] /\ UNCHANGED <<scene, dialog, server>>
  BY DEF PagesOK, TypeOK, Reload, Refocus, FetchRead, FetchArrives, FetchFails, HintArrives
<1>1. \A g \in Runs : Unmoved(g)
  <2>1. CASE \E S : run' = Released(run, S)
    BY <1>0, <2>1, ReleasedFields DEF Unmoved
  <2>2. CASE run' = NoLongerAwaited
    BY <1>0, <2>2, RunTypes DEF NoLongerAwaited, Run, PagesOK, Unmoved
  <2>3. CASE run' = run
    BY <1>0, <2>3 DEF Unmoved
  <2>. QED
    BY <2>1, <2>2, <2>3 DEF Reload, Refocus, FetchRead, FetchArrives, FetchFails, HintArrives
<1>2. CASE FetchArrives
  BY <1>1, <1>2, ArrivesGuess
<1>3. CASE ~FetchArrives
  <2>1. CacheStays
    <3>1. CASE \E S : cache' = Invalidated(cache, S)
      BY <3>1, InvalidatedStays
    <3>2. CASE Refocus \/ FetchRead \/ FetchFails
      BY <3>2, CacheFields DEF Refocus, FetchRead, FetchFails, Cache, PagesOK, CacheStays
    <3>. QED
      BY <1>3, <3>1, <3>2 DEF Reload, HintArrives
  <2>2. cause' = None => cause = None
    BY <1>3, CauseKept DEF Reload, Refocus, FetchRead, FetchFails, HintArrives
  <2>. QED
    BY <1>0, <1>1, <2>1, <2>2, OneMoves, PagesAssumption
<1>. QED
  BY <1>2, <1>3

(* A page that is left: its questions are gone, and nothing else             *)
LEMMA LeaveGuess ==
    ASSUME PagesOK, (\E p \in Screens : Navigate(p)) \/ (\E s \in Slots : Fold(s))
    PROVE  GuessOK'
<1>1. UNCHANGED <<scene, dialog, server>> /\ (cause' = None => cause = None)
  BY CauseKept DEF Navigate, Fold
<1>2. CacheStays
  BY CacheFields DEF Navigate, Fold, Cache, PagesOK, CacheStays
<1>3. ASSUME NEW g \in Runs
      PROVE  HandStays(g) /\ (run'[g].stage = "attaching" => run'[g].op.attaches)
  <2>. PICK r \in Run : r = run[g]
    BY RunTypes DEF PagesOK
  <2>1. run'[g] = Left(g) \/ run'[g] = run[g]
    BY DEF Navigate, Fold
  <2>2. CASE run'[g] = Idle /\ (Free(g) \/ run[g].stage = "telling")
    BY <2>2, IdleFields DEF IdleColumns, HandStays, Patcher, Hand, InHand, Free
  <2>3. CASE run'[g] = r \/ run'[g] = [r EXCEPT !.here = FALSE]
    <3>1. Unmoved(g)
      BY <1>1, <2>3 DEF Unmoved, Run
    <3>. QED
      BY <1>1, <3>1, UnmovedHand DEF Unmoved, PagesOK, GuessOK, AttachOK
  <2>. QED
    BY <2>1, <2>2, <2>3 DEF Left
<1>4. AttachOK'
  BY <1>3 DEF AttachOK
<1>. QED
  BY <1>1, <1>2, <1>3, <1>4, HandsStay

(* A guess is put on display, and changes nothing else of the data            *)
LEMMA GuessFields ==
    ASSUME NEW c \in Cache, NEW o, NEW k, NEW v, NEW d, d = Guess(o, k, v, c)
    PROVE  /\ d.loaded = c.loaded /\ d.fetch = c.fetch /\ d.read = c.read
           /\ d.missing = c.missing /\ d.late = c.late
           /\ \/ d.shown = c.shown
              \/ /\ o.patch \in {"guess", "both"} /\ Writes(o)
                 /\ \A j \in Keys : j # k => d.shown[j] = c.shown[j]
<1>1. CASE ~(o.patch \in {"guess", "both"} /\ Writes(o) /\ c.loaded)
  BY <1>1 DEF Guess
<1>2. CASE o.patch \in {"guess", "both"} /\ Writes(o) /\ c.loaded
  BY <1>2 DEF Guess, Put, Touched, Cache
<1>. QED
  BY <1>1, <1>2

LEMMA RenamedIn ==
    ASSUME NEW f, NEW S, NEW x \in Renamed(f, S)
    PROVE  (x \in S /\ x # f) \/ (x = Earlier /\ (f \in S \/ Earlier \in S))
  BY DEF Renamed

(* A handler takes along what is current, of a row that nobody has in hand    *)
LEMMA PressGuess ==
    ASSUME PagesOK, NEW f \in Runs, NEW o \in Ops, NEW r \in Rows, Press(f, o, r)
    PROVE  GuessOK'
<1>13. PICK c : c = [cache EXCEPT !.missing = Renamed(f, @), !.late = Renamed(f, @)]
  OBVIOUS
<1>. DEFINE risks == Shared(f, o, r) \cup Stale(o, r)
            As(runs) == \A g \in Runs :
                /\ run'[g].op = runs[g].op /\ run'[g].row = runs[g].row
                /\ run'[g].stage = runs[g].stage
                /\ run'[g].held = runs[g].held /\ run'[g].next = runs[g].next
                /\ run'[g].did = runs[g].did /\ run'[g].ok = runs[g].ok
<1>0. PICK v \in Choices(o, r) :
         IF o.asks
         THEN /\ Confirm(f, [run EXCEPT ![f] = Begun(o, r, v, "asking")], risks)
              /\ cache' = c
              /\ UNCHANGED busy
         ELSE /\ run' = [run EXCEPT ![f] = Begun(o, r, v, "sending")]
              /\ cache' = Guess(o, KeyOf(o, r), v, c)
              /\ cause' = Because(risks \cup Unmarked(cache'))
              /\ busy' = SetBusy(o, r)
              /\ UNCHANGED dialog
  BY <1>13 DEF Press
<1>. PICK b : b = Begun(o, r, v, IF o.asks THEN "asking" ELSE "sending")
  OBVIOUS
<1>1. /\ b.op = o /\ b.row = r /\ b.stage = (IF o.asks THEN "asking" ELSE "sending")
      /\ b.held = Displayed(o, r) /\ b.next = v /\ b.ok = FALSE /\ b.did = FALSE
      /\ b \in Run
  BY BegunType, ChoicesType DEF Begun, Idle, PagesOK
<1>. PICK runs : runs = [run EXCEPT ![f] = b]
  OBVIOUS
<1>2. runs \in [Runs -> Run] /\ runs[f] = b /\ \A g \in Runs : g # f => runs[g] = run[g]
  BY <1>1 DEF PagesOK, TypeOK
<1>3. UNCHANGED <<scene, server>> /\ Free(f) /\ CanPress(o, r)
  BY DEF Press
<1>4. ~InHand(f) /\ ~Hand(f)
  BY <1>3, FreeRun DEF InHand, Hand
<1>5. /\ c.loaded = cache.loaded /\ c.fetch = cache.fetch /\ c.read = cache.read
      /\ c.shown = cache.shown /\ c \in Cache
      /\ Earlier \in cache.missing => Earlier \in c.missing
      /\ Earlier \in cache.late => Earlier \in c.late
  BY <1>13, PagesAssumption DEF Renamed, PagesOK, TypeOK, Cache
<1>6. /\ As(runs)
      /\ \/ dialog'.confirmRef = f \/ UNCHANGED dialog
      /\ o.asks => dialog'.confirmRef = f
      /\ \E S : None \notin S /\ cause' = Because(risks \cup S)
  <2>0. None \notin Unheard /\ None \notin Unmarked(cache')
    BY DEF Unheard, Unmarked, None
  <2>1. CASE o.asks
    <3>1. run' = Displaced(runs) /\ dialog'.confirmRef = f /\ cause' = Because(risks \cup Unheard)
      BY <1>0, <2>1 DEF Confirm
    <3>2. Become(runs)
      BY <1>2, <3>1, DisplacedShape DEF PagesOK
    <3>3. As(runs)
      BY <3>2 DEF Become
    <3>. QED
      BY <2>0, <3>1, <3>3
  <2>2. CASE ~o.asks
    BY <1>0, <2>0, <2>2
  <2>. QED
    BY <2>1, <2>2
<1>7. /\ cache'.loaded = c.loaded /\ cache'.fetch = c.fetch /\ cache'.read = c.read
      /\ cache'.missing = c.missing /\ cache'.late = c.late
      /\ \/ cache'.shown = c.shown
         \/ /\ o.patch \in {"guess", "both"} /\ Writes(o) /\ ~o.asks
            /\ \A j \in Keys : j # KeyOf(o, r) => cache'.shown[j] = c.shown[j]
  <2>1. CASE o.asks
    BY <1>0, <2>1
  <2>2. CASE ~o.asks
    <3>1. cache' = Guess(o, KeyOf(o, r), v, c) /\ c \in Cache
      BY <1>0, <1>5, <2>2
    <3>2. PICK d, k : d = cache' /\ k = KeyOf(o, r)
      OBVIOUS
    <3>3. d = Guess(o, k, v, c)
      BY <3>1, <3>2
    <3>4. /\ d.loaded = c.loaded /\ d.fetch = c.fetch /\ d.read = c.read
          /\ d.missing = c.missing /\ d.late = c.late
          /\ \/ d.shown = c.shown
             \/ /\ o.patch \in {"guess", "both"} /\ Writes(o)
                /\ \A j \in Keys : j # k => d.shown[j] = c.shown[j]
      BY <3>1, <3>3, GuessFields
    <3>. QED
      BY <2>2, <3>2, <3>4
  <2>. QED
    BY <2>1, <2>2
<1>8. ASSUME NEW g \in Runs, g # f PROVE HandStays(g)
  <2>1. /\ run'[g].op = run[g].op /\ run'[g].row = run[g].row
        /\ run'[g].ok = run[g].ok /\ run'[g].did = run[g].did
        /\ run'[g].held = run[g].held /\ run'[g].next = run[g].next
        /\ run'[g].stage = run[g].stage
    BY <1>2, <1>6, <1>8
  <2>2. dialog'.confirmRef = g => dialog.confirmRef = g
    BY <1>6, <1>8
  <2>. QED
    BY <1>3, <2>1, <2>2 DEF HandStays, Patcher, Hand, InHand, Writes, Watched, Stays
<1>9. /\ run'[f].op = o /\ run'[f].row = r /\ run'[f].held = Displayed(o, r)
      /\ run'[f].next = v /\ run'[f].ok = FALSE /\ run'[f].did = FALSE
      /\ run'[f].stage = (IF o.asks THEN "asking" ELSE "sending")
  BY <1>1, <1>2, <1>6
<1>10. AttachOK'
  BY <1>2, <1>6, <1>9 DEF AttachOK, PagesOK, GuessOK
<1>11. ProfileOK'
  BY <1>3, <1>5, <1>7, RefetchAssumption DEF ProfileOK, Writes, Watched, PagesOK, GuessOK
<1>12. ASSUME cause' = None PROVE Unharmed'
  <2>1. cause = None /\ Shared(f, o, r) = {} /\ Stale(o, r) = {}
    <3>1. None \notin risks
      BY DEF Shared, Stale, None
    <3>. QED
      BY <1>6, <1>12, <3>1, BecauseNone
  <2>2. Unharmed
    BY <2>1 DEF PagesOK, GuessOK
  <2>3. /\ Key(f)' = KeyOf(o, r) /\ (Hand(f)' <=> Writes(o))
        /\ (Patcher(f)' <=> Writes(o) /\ Patches(o))
    BY <1>3, <1>6, <1>9
    DEF Key, KeyOf, Hand, InHand, Patcher, Writes, Patches, Watched
  <2>4. ASSUME NEW g \in Runs, g # f, Hand(g)'
        PROVE  /\ Hand(g) /\ Stays(g) /\ Key(g)' = Key(g) /\ (Patcher(g)' => Patcher(g))
               /\ Hand(f)' /\ (Patcher(f)' \/ Patcher(g)') => Key(g) # KeyOf(o, r)
    <3>1. Hand(g) /\ Stays(g)
      BY <1>8, <2>4 DEF HandStays
    <3>2. Key(g)' = Key(g) /\ (Patcher(g)' => Patcher(g))
      BY <1>3, <3>1, StaysKeys
    <3>3. Hand(f)' /\ (Patcher(f)' \/ Patcher(g)') => Key(g) # KeyOf(o, r)
      BY <2>1, <2>3, <2>4, <3>1, <3>2 DEF Shared, Hand, Patcher
    <3>. QED
      BY <3>1, <3>2, <3>3
  <2>5. ASSUME NEW g \in Runs, Patcher(g), run[g].stage # "asking"
        PROVE  /\ g # f /\ Patcher(g)' /\ Key(g)' = Key(g) /\ Stays(g)
               /\ (UnderWay(g) => UnderWay(g)')
    <3>1. g # f /\ Hand(g)
      BY <1>4, <2>5 DEF Patcher
    <3>2. Hand(g)'
      BY <1>8, <2>5, <3>1 DEF HandStays
    <3>. QED
      BY <1>3, <2>4, <2>5, <3>1, <3>2, StaysKeys
  <2>6. RowsApart'
    <3>. SUFFICES ASSUME NEW g \in Runs, NEW h \in Runs, Patcher(g)', Hand(h)', g # h
                  PROVE  Key(h)' # Key(g)'
      BY DEF RowsApart
    <3>0. Hand(g)'
      BY DEF Patcher
    <3>1. CASE g = f
      BY <2>3, <2>4, <3>0, <3>1
    <3>2. CASE h = f
      BY <2>3, <2>4, <3>0, <3>2
    <3>3. CASE g # f /\ h # f
      BY <2>2, <2>4, <3>0, <3>3 DEF Unharmed, RowsApart
    <3>. QED
      BY <3>1, <3>2, <3>3
  <2>7. HoldsTrue'
    <3>. SUFFICES ASSUME NEW g \in Runs, Patcher(g)'
                  PROVE  /\ run'[g].ok = run'[g].did
                         /\ run'[g].did => run'[g].stage = "answered"
                                           /\ server'[Key(g)'] = run'[g].next
                         /\ ~run'[g].did => server'[Key(g)'] = run'[g].held
      BY DEF HoldsTrue
    <3>1. CASE g = f
      BY <1>3, <1>9, <2>1, <2>3, <3>1 DEF Stale, PatchesColumn, Displayed
    <3>2. CASE g # f
      <4>1. Hand(g)'
        BY DEF Patcher
      <4>2. Patcher(g) /\ Stays(g) /\ Key(g)' = Key(g)
        BY <2>4, <3>2, <4>1
      <4>. QED
        BY <1>3, <2>2, <4>2 DEF Unharmed, HoldsTrue, Stays
    <3>. QED
      BY <3>1, <3>2
  <2>8. ASSUME NEW g \in Runs, NEW k, Due(g, k) PROVE Due(g, k)'
    <3>1. Patcher(g) /\ run[g].did /\ run[g].stage = "answered"
      BY <2>2, <2>8 DEF Due, Unharmed, HoldsTrue
    <3>. QED
      BY <2>5, <2>8, <3>1 DEF Due, Stays
  <2>9. ASSUME NEW g \in Runs, NEW k, Showing(g, k) PROVE Showing(g, k)'
    BY <2>5, <2>9 DEF Showing, Stays, UnderWay
  <2>10. ReadTrue'
    BY <1>3, <1>5, <1>7, <2>2, <2>8 DEF Unharmed, ReadTrue, Keys
  <2>11. ShownTrue'
    <3>. SUFFICES ASSUME cache'.loaded, NEW k \in Keys
                  PROVE  \/ cache'.shown[k] = server'[k]
                         \/ Earlier \in cache'.missing
                         \/ \E g \in Runs : Showing(g, k)'
      BY DEF ShownTrue, Keys
    <3>1. CASE cache'.shown[k] = cache.shown[k]
      BY <1>3, <1>5, <1>7, <2>2, <2>9, <3>1 DEF Unharmed, ShownTrue
    <3>2. CASE cache'.shown[k] # cache.shown[k]
      <4>1. o.patch \in {"guess", "both"} /\ Writes(o) /\ ~o.asks /\ k = KeyOf(o, r)
        BY <1>5, <1>7, <3>2, CacheFields DEF PagesOK
      <4>2. Showing(f, k)'
        BY <1>9, <2>3, <4>1 DEF Showing, UnderWay, Patches, Writes
      <4>. QED
        BY <4>2
    <3>. QED
      BY <3>1, <3>2
  <2>. QED
    BY <2>6, <2>7, <2>10, <2>11 DEF Unharmed
<1>. QED
  BY <1>10, <1>11, <1>12 DEF GuessOK

LEMMA ConfirmGuess ==
    ASSUME PagesOK, NEW yes \in BOOLEAN, FinishConfirm(yes)
    PROVE  GuessOK'
<1>1. dialog.kind = "confirm" /\ dialog' = NoPanel /\ UNCHANGED <<scene, server>>
  BY DEF FinishConfirm, Answers
<1>. PICK f \in Runs : f = dialog.confirmRef
  BY <1>1 DEF PagesOK, DialogOK, DialogMatches
<1>2. /\ run[f].stage = "asking" /\ run \in [Runs -> Run] /\ cache \in Cache
      /\ \A g \in Runs : dialog'.confirmRef # g
  BY <1>1, PagesAssumption DEF PagesOK, DialogOK, DialogMatches, NoPanel, TypeOK
<1>3. \A g \in Runs : g # f => run'[g] = run[g]
  BY <1>2 DEF FinishConfirm
<1>4. \A g \in Runs : g # f => Unmoved(g)
  BY <1>2, <1>3 DEF Unmoved
<1>5. cause' = None => cause = None
  BY CauseKept DEF FinishConfirm
<1>6. CASE yes
  <2>0. PICK r \in Run : r = run[f]
    BY <1>2
  <2>1. run' = [run EXCEPT ![f] = [r EXCEPT !.stage = "sending"]]
    BY <1>6, <2>0 DEF FinishConfirm
  <2>2. /\ run'[f].op = r.op /\ run'[f].row = r.row /\ run'[f].stage = "sending"
        /\ run'[f].held = r.held /\ run'[f].next = r.next
        /\ run'[f].ok = r.ok /\ run'[f].did = r.did
    BY <1>2, <2>0, <2>1 DEF Run
  <2>3. HandStays(f)
    BY <1>1, <1>2, <2>0, <2>2 DEF HandStays, Patcher, Hand, InHand, Writes, Watched, Stays
  <2>4. CacheStays
    <3>0. PICK d, k, o, v : d = cache' /\ k = Key(f) /\ o = r.op /\ v = r.next
      OBVIOUS
    <3>1. d = Guess(o, k, v, cache)
      BY <1>6, <2>0, <3>0 DEF FinishConfirm
    <3>5. PICK c \in Cache : c = cache
      BY <1>2
    <3>6. d = Guess(o, k, v, c)
      BY <3>1, <3>5
    <3>2. /\ d.loaded = c.loaded /\ d.fetch = c.fetch /\ d.read = c.read
          /\ d.missing = c.missing /\ d.late = c.late
          /\ \/ d.shown = c.shown
             \/ /\ o.patch \in {"guess", "both"} /\ Writes(o)
                /\ \A j \in Keys : j # k => d.shown[j] = c.shown[j]
      BY <3>6, GuessFields
    <3>3. CASE d.shown = cache.shown
      BY <2>0, <3>0, <3>2, <3>5, <3>3 DEF CacheStays
    <3>4. CASE /\ o.patch \in {"guess", "both"} /\ Writes(o)
               /\ \A j \in Keys : j # k => d.shown[j] = cache.shown[j]
      <4>1. Watched # Me
        BY <1>2, <2>0, <3>0, <3>4, ProfileUnwritten
      <4>2. Showing(f, k)'
        BY <1>1, <2>2, <2>0, <3>0, <3>4
        DEF Showing, Patcher, Hand, InHand, Writes, Patches, Watched, Key, KeyOf, UnderWay
      <4>3. \A j \in Keys : d.shown[j] = cache.shown[j] \/ j = k
        BY <3>4, CacheFields DEF PagesOK
      <4>. QED
        BY <2>0, <3>0, <3>2, <3>5, <4>1, <4>2, <4>3 DEF CacheStays
    <3>. QED
      BY <3>2, <3>3, <3>4, <3>5
  <2>. QED
    BY <1>1, <1>4, <1>5, <2>0, <2>2, <2>3, <2>4, OneMoves
<1>7. CASE ~yes
  <2>1. run'[f].stage = "idle" /\ UNCHANGED cache
    BY <1>2, <1>7, IdleFields DEF FinishConfirm, IdleColumns
  <2>2. HandStays(f)
    BY <1>2, <2>1 DEF HandStays, Patcher, Hand, InHand
  <2>. QED
    BY <1>1, <1>4, <1>5, <2>1, <2>2, OneMoves, SameCache
<1>. QED
  BY <1>6, <1>7

(* What a handler makes of the data when it goes on                          *)
LEMMA PatchedFields ==
    ASSUME TypeOK, NEW f \in Runs, Key(f) \in Keys, NEW d, d = Patched(f, cache)
    PROVE  /\ d.loaded = cache.loaded /\ d.fetch = cache.fetch /\ d.read = cache.read
           /\ d.late = cache.late /\ (Earlier \in cache.missing => Earlier \in d.missing)
           /\ \A k \in Keys : k # Key(f) => d.shown[k] = cache.shown[k]
           /\ ~PatchesColumn(run[f].op) => d.shown = cache.shown
           /\ PatchesColumn(run[f].op) /\ cache.loaded =>
                IF run[f].ok
                THEN IF run[f].op.patch = "guess" THEN d.shown = cache.shown
                     ELSE d.shown[Key(f)] = run[f].next
                ELSE IF run[f].op.patch = "answer" THEN d.shown = cache.shown
                     ELSE d.shown[Key(f)] = run[f].held
<1>. PICK o, k : o = run[f].op /\ k = Key(f)
  OBVIOUS
<1>0. /\ cache \in Cache /\ k \in Keys /\ cache.shown \in [Keys -> Values] /\ Earlier # f
      /\ PatchesColumn(o) <=> Patches(o) /\ o.column # None
  BY CacheFields, PagesAssumption DEF PatchesColumn, Patches, Writes
<1>1. ASSUME NEW v, NEW p, p = Put(cache, k, v)
      PROVE  /\ p.loaded = cache.loaded /\ p.fetch = cache.fetch /\ p.read = cache.read
             /\ p.late = cache.late /\ p.missing = cache.missing
             /\ p.shown[k] = v /\ \A j \in Keys : j # k => p.shown[j] = cache.shown[j]
  BY <1>0, <1>1 DEF Put, Touched, Cache
<1>2. CASE \/ ~Patches(o) \/ ~cache.loaded \/ (run[f].ok /\ o.patch = "guess")
           \/ ~run[f].ok /\ (o.patch = "answer" \/ o.column = None)
  <2>1. d = cache
    BY <1>2 DEF Patched
  <2>. QED
    BY <1>0, <1>2, <2>1
<1>3. CASE ~run[f].ok /\ Patches(o) /\ cache.loaded /\ o.patch # "answer" /\ o.column # None
  <2>1. d = Put(cache, k, run[f].held)
    BY <1>3 DEF Patched
  <2>2. /\ d.loaded = cache.loaded /\ d.fetch = cache.fetch /\ d.read = cache.read
        /\ d.late = cache.late /\ d.missing = cache.missing
        /\ d.shown[k] = run[f].held /\ \A j \in Keys : j # k => d.shown[j] = cache.shown[j]
    BY <1>1, <2>1
  <2>. QED
    BY <1>0, <1>3, <2>2
<1>4. CASE run[f].ok /\ Patches(o) /\ cache.loaded /\ o.patch # "guess" /\ o.column = None
  <2>1. d = [Touched(cache) EXCEPT !.missing = @ \ {f}]
    BY <1>4 DEF Patched
  <2>2. /\ d.loaded = cache.loaded /\ d.fetch = cache.fetch /\ d.read = cache.read
        /\ d.late = cache.late /\ d.missing = cache.missing \ {f} /\ d.shown = cache.shown
    BY <1>0, <2>1 DEF Touched, Cache
  <2>. QED
    BY <1>0, <1>4, <2>2
<1>5. CASE run[f].ok /\ Patches(o) /\ cache.loaded /\ o.patch # "guess" /\ o.column # None
  <2>. PICK p : p = Put(cache, k, run[f].next)
    OBVIOUS
  <2>0. p = Put(cache, k, run[f].next)
    OBVIOUS
  <2>1. d = [p EXCEPT !.missing = IF run[f].older THEN @ \cup {Earlier} ELSE @]
    BY <1>5 DEF Patched
  <2>2. /\ p.loaded = cache.loaded /\ p.fetch = cache.fetch /\ p.read = cache.read
        /\ p.late = cache.late /\ p.missing = cache.missing
        /\ p.shown[k] = run[f].next /\ \A j \in Keys : j # k => p.shown[j] = cache.shown[j]
    BY <1>1, <2>0
  <2>3. /\ d.loaded = p.loaded /\ d.fetch = p.fetch /\ d.read = p.read
        /\ d.late = p.late /\ d.shown = p.shown
        /\ d.missing = IF run[f].older THEN p.missing \cup {Earlier} ELSE p.missing
    BY <1>0, <2>1 DEF Put, Touched, Cache
  <2>. QED
    BY <1>0, <1>5, <2>2, <2>3
<1>. QED
  BY <1>2, <1>3, <1>4, <1>5

(* A handler goes on: it leaves on display what the server has, be it by      *)
(* putting back what it took along                                           *)
LEMMA ResumeGuess ==
    ASSUME PagesOK, NEW f \in Runs, Resume(f)
    PROVE  GuessOK'
<1>1. PICK S \in ToRefetch(f) :
         LET o == run[f].op
             runs == [Released(run, S) EXCEPT
                        ![f].stage = "waiting",
                        ![f].awaits = Watched \in (S \cap Active) \ (o.loose \cup {Me}),
                        ![f].profile = IF run[f].ok /\ o.profile = "with" THEN "asked"
                                       ELSE "none"]
             risks == Overtaken(S) \cup PatchRisks(f) \cup Unmarked(Patched(f, cache))
         IN  /\ cache' = Invalidated(Patched(f, cache), S)
             /\ IF Outcome(f) = "void first" THEN Alert(Nobody, runs, risks)
                ELSE run' = runs /\ cause' = Because(risks) /\ UNCHANGED dialog
  BY DEF Resume
<1>. DEFINE old == Released(run, S)
            resumed == [old EXCEPT
                        ![f].stage = "waiting",
                        ![f].awaits = Watched \in (S \cap Active) \ (run[f].op.loose \cup {Me}),
                        ![f].profile = IF run[f].ok /\ run[f].op.profile = "with" THEN "asked"
                                       ELSE "none"]
            risks == Overtaken(S) \cup PatchRisks(f) \cup Unmarked(Patched(f, cache))
<1>. PICK runs : runs = resumed
  OBVIOUS
<1>2. runs \in [Runs -> Run]
  BY ResumedType DEF PagesOK
<1>3. \A g \in Runs : g # f => /\ runs[g].op = run[g].op /\ runs[g].row = run[g].row
                               /\ runs[g].held = run[g].held /\ runs[g].next = run[g].next
                               /\ runs[g].ok = run[g].ok /\ runs[g].did = run[g].did
                               /\ runs[g].stage = run[g].stage
  <2>1. \A g \in Runs : /\ old[g].op = run[g].op /\ old[g].row = run[g].row
                        /\ old[g].held = run[g].held /\ old[g].next = run[g].next
                        /\ old[g].ok = run[g].ok /\ old[g].did = run[g].did
                        /\ old[g].stage = run[g].stage
    BY ReleasedFields DEF PagesOK, TypeOK
  <2>2. old \in [Runs -> Run]
    BY ReleasedType DEF PagesOK, TypeOK
  <2>. HIDE DEF old
  <2>. QED
    BY <2>1, <2>2
<1>4. runs[f].stage = "waiting"
  <2>2. old \in [Runs -> Run]
    BY ReleasedType DEF PagesOK, TypeOK
  <2>. HIDE DEF old
  <2>. QED
    BY <2>2 DEF Run
<1>5. /\ cache' = Invalidated(Patched(f, cache), S)
      /\ \/ Alert(Nobody, runs, risks)
         \/ run' = runs /\ cause' = Because(risks) /\ UNCHANGED dialog
      /\ UNCHANGED <<scene, server>> /\ run[f].stage = "answered"
      /\ run[f].op \in Ops /\ run[f].row \in Rows
  BY <1>1 DEF Resume, PagesOK, HandlersOK
<1>. HIDE DEF resumed, risks
<1>6. /\ \A g \in Runs : g # f => Unmoved(g)
      /\ run'[f].stage = "waiting"
      /\ cause' = None => cause = None /\ PatchRisks(f) = {}
  <2>0. None \notin risks /\ None \notin Unheard
    BY DEF risks, Overtaken, PatchRisks, Unmarked, Unheard, None
  <2>1. CASE Alert(Nobody, runs, risks)
    <3>1. Become(runs) /\ dialog'.confirmRef = Nobody
      BY <1>2, <2>1, AlertShape DEF PagesOK
    <3>2. cause' = Because(risks \cup Unheard)
      BY <2>1 DEF Alert
    <3>3. cause' = None => cause = None /\ risks = {}
      BY <2>0, <3>2, BecauseNone
    <3>4. \A g \in Runs : g # f => Unmoved(g)
      BY <1>3, <3>1, PagesAssumption DEF Become, Unmoved
    <3>. QED
      BY <1>4, <3>1, <3>3, <3>4 DEF Become, risks
  <2>2. CASE run' = runs /\ cause' = Because(risks) /\ UNCHANGED dialog
    <3>1. cause' = None => cause = None /\ risks = {}
      BY <2>0, <2>2, BecauseNone
    <3>. QED
      BY <1>3, <1>4, <2>2, <3>1 DEF Unmoved, risks
  <2>. QED
    BY <1>5, <2>1, <2>2
<1>. PICK d \in Cache : d = Patched(f, cache)
  BY <1>5, PatchedType DEF PagesOK, HandlersOK, TypeOK
<1>7. /\ cache'.shown = d.shown /\ cache'.loaded = d.loaded /\ cache'.missing = d.missing
      /\ cache'.fetch = "read" => d.fetch = "read" /\ cache'.read = d.read /\ cache'.late = d.late
  <2>. PICK c : c = cache'
    OBVIOUS
  <2>1. c = Invalidated(d, S)
    BY <1>5
  <2>2. /\ c.shown = d.shown /\ c.loaded = d.loaded /\ c.missing = d.missing
        /\ c.fetch = "read" => d.fetch = "read" /\ c.read = d.read /\ c.late = d.late
    BY <2>1, InvalidatedFields
  <2>. QED
    BY <2>2
<1>8. Key(f) \in Keys
  BY <1>5, KeyType DEF Key
<1>9. /\ d.loaded = cache.loaded /\ d.fetch = cache.fetch /\ d.read = cache.read
      /\ d.late = cache.late /\ (Earlier \in cache.missing => Earlier \in d.missing)
      /\ \A k \in Keys : k # Key(f) => d.shown[k] = cache.shown[k]
      /\ ~PatchesColumn(run[f].op) => d.shown = cache.shown
      /\ PatchesColumn(run[f].op) /\ cache.loaded =>
           IF run[f].ok
           THEN IF run[f].op.patch = "guess" THEN d.shown = cache.shown
                ELSE d.shown[Key(f)] = run[f].next
           ELSE IF run[f].op.patch = "answer" THEN d.shown = cache.shown
                ELSE d.shown[Key(f)] = run[f].held
  BY <1>8, PatchedFields DEF PagesOK
<1>10. ~Hand(f)' /\ (Patcher(f) <=> PatchesColumn(run[f].op))
  BY <1>5, <1>6 DEF Hand, InHand, Patcher, PatchesColumn
<1>11. CASE ~Patcher(f)
  <2>1. HandStays(f)
    BY <1>10, <1>11 DEF HandStays
  <2>2. CacheStays
    BY <1>7, <1>9, <1>10, <1>11 DEF CacheStays
  <2>. QED
    BY <1>5, <1>6, <2>1, <2>2, OneMoves
<1>12. CASE Patcher(f)
  <2>1. AttachOK'
    BY <1>6 DEF AttachOK, Unmoved, PagesOK, GuessOK
  <2>2. ProfileOK'
    BY <1>5, <1>12, ProfileUnwritten DEF ProfileOK, Patcher, Hand, Watched
  <2>3. ASSUME cause' = None PROVE Unharmed'
    <3>1. Unharmed /\ PatchRisks(f) = {}
      BY <1>6, <2>3 DEF PagesOK, GuessOK
    <3>2. ASSUME NEW g \in Runs, g # f
          PROVE  /\ Hand(g)' => Hand(g) /\ Stays(g) /\ Key(g)' = Key(g) /\ (Patcher(g)' => Patcher(g))
                 /\ Patcher(g) => Key(g) # Key(f)
                 /\ Patcher(g) /\ run[g].stage # "asking" =>
                      /\ Patcher(g)' /\ Key(g)' = Key(g) /\ Stays(g)
                      /\ UnderWay(g) => UnderWay(g)'
      <4>1. HandStays(g)
        BY <1>5, <1>6, <3>2, UnmovedHand
      <4>2. Hand(g)' => /\ Hand(g) /\ Stays(g) /\ Key(g)' = Key(g)
                        /\ Patcher(g)' => Patcher(g)
                        /\ UnderWay(g) => UnderWay(g)'
                        /\ Patcher(g) => Patcher(g)'
        BY <1>5, <4>1, StaysKeys DEF HandStays
      <4>3. Patcher(g) => Key(g) # Key(f)
        BY <1>12, <3>1, <3>2 DEF Unharmed, RowsApart, Patcher
      <4>. QED
        BY <4>1, <4>2, <4>3 DEF HandStays
    <3>3. RowsApart'
      BY <1>10, <3>1, <3>2 DEF Unharmed, RowsApart, Patcher
    <3>4. HoldsTrue'
      <4>. SUFFICES ASSUME NEW g \in Runs, Patcher(g)'
                    PROVE  /\ run'[g].ok = run'[g].did
                           /\ run'[g].did => run'[g].stage = "answered"
                                             /\ server'[Key(g)'] = run'[g].next
                           /\ ~run'[g].did => server'[Key(g)'] = run'[g].held
        BY DEF HoldsTrue
      <4>1. g # f /\ Hand(g)'
        BY <1>10 DEF Patcher
      <4>2. Patcher(g) /\ Stays(g) /\ Key(g)' = Key(g)
        BY <3>2, <4>1
      <4>. QED
        BY <1>5, <3>1, <4>2 DEF Unharmed, HoldsTrue, Stays
    <3>5. ASSUME NEW g \in Runs, g # f, NEW k
          PROVE  (Due(g, k) => Due(g, k)') /\ (Showing(g, k) => Showing(g, k)')
      <4>1. Due(g, k) => Patcher(g) /\ run[g].stage = "answered"
        BY <3>1 DEF Due, Unharmed, HoldsTrue
      <4>. QED
        BY <3>2, <3>5, <4>1 DEF Due, Showing, Stays, UnderWay
    <3>6. /\ run[f].ok = run[f].did
          /\ run[f].ok => server[Key(f)] = run[f].next
          /\ ~run[f].ok => server[Key(f)] = run[f].held
      BY <1>12, <3>1 DEF Unharmed, HoldsTrue
    <3>7. run[f].ok => /\ cache.fetch = "read" => cache.read[Key(f)] = run[f].next
                       /\ run[f].op.patch = "guess" => cache.shown[Key(f)] = run[f].next
      BY <1>12, <3>1 DEF PatchRisks, Patcher, Hand, Writes
    <3>8. ReadTrue'
      <4>. SUFFICES ASSUME cache'.fetch = "read", NEW k \in Keys
                    PROVE  \/ cache'.read[k] = server'[k]
                           \/ Earlier \in cache'.late
                           \/ \E g \in Runs : Due(g, k)'
        BY DEF ReadTrue, Keys
      <4>1. Due(f, k) => cache.read[k] = server[k]
        BY <1>7, <1>9, <3>6, <3>7 DEF Due
      <4>. QED
        BY <1>5, <1>7, <1>9, <3>1, <3>5, <4>1 DEF Unharmed, ReadTrue
    <3>9. ShownTrue'
      <4>. SUFFICES ASSUME cache'.loaded, NEW k \in Keys
                    PROVE  \/ cache'.shown[k] = server'[k]
                           \/ Earlier \in cache'.missing
                           \/ \E g \in Runs : Showing(g, k)'
        BY DEF ShownTrue, Keys
      <4>1. \/ cache.shown[k] = server[k] \/ Earlier \in cache.missing
            \/ \E g \in Runs : Showing(g, k)
        BY <1>7, <1>9, <3>1 DEF Unharmed, ShownTrue
      <4>2. CASE k # Key(f)
        <5>1. ~Showing(f, k)
          BY <4>2 DEF Showing
        <5>. QED
          BY <1>5, <1>7, <1>9, <3>5, <4>1, <4>2, <5>1
      <4>3. CASE k = Key(f)
        <5>1. CASE run[f].ok
          BY <1>5, <1>7, <1>9, <1>10, <1>12, <3>6, <3>7, <4>3, <5>1
        <5>2. CASE ~run[f].ok /\ run[f].op.patch # "answer"
          BY <1>5, <1>7, <1>9, <1>10, <1>12, <3>6, <4>3, <5>2
        <5>3. CASE ~run[f].ok /\ run[f].op.patch = "answer"
          <6>1. \A g \in Runs : ~Showing(g, k)
            <7>1. ~Showing(f, k)
              BY <3>6, <5>3 DEF Showing
            <7>2. \A g \in Runs : g # f => ~Showing(g, k)
              BY <3>2, <4>3 DEF Showing
            <7>. QED
              BY <7>1, <7>2
          <6>. QED
            BY <1>5, <1>7, <1>9, <1>10, <1>12, <4>1, <5>3, <6>1
        <5>. QED
          BY <5>1, <5>2, <5>3
      <4>. QED
        BY <4>2, <4>3
    <3>. QED
      BY <3>3, <3>4, <3>8, <3>9 DEF Unharmed
  <2>. QED
    BY <2>1, <2>2, <2>3 DEF GuessOK
<1>. QED
  BY <1>11, <1>12

LEMMA GuessStep ==
    ASSUME PagesOK, [Next]_vars PROVE GuessOK'
<1>1. CASE \E f \in scene.runs, o \in scene.ops, r \in Rows : Press(f, o, r)
  BY <1>1, SceneOps, PressGuess DEF PagesOK
<1>2. CASE \E f \in Runs : Proceed(f) \/ AnswerLost(f) \/ ProfileFails(f)
  <2>1. PICK f \in Runs : Proceed(f) \/ AnswerLost(f) \/ ProfileFails(f)
    BY <1>2
  <2>. QED
    BY <2>1, ActsGuess, AnswerGuess, TellGuess, ResumeGuess, ProfileGuess, EndGuess DEF Proceed
<1>3. CASE UNCHANGED vars
  <2>1. CacheStays /\ UNCHANGED <<scene, server, cause>> /\ \A g \in Runs : Unmoved(g)
    BY <1>3, SameCache DEF vars, Unmoved
  <2>. QED
    BY <2>1, OneMoves, PagesAssumption
<1>4. CASE \E yes \in BOOLEAN : FinishConfirm(yes)
  BY <1>4, ConfirmGuess
<1>5. CASE CloseAlert
  BY <1>5, CloseGuess
<1>6. CASE (\E o \in scene.ops, r \in Rows : Unacceptable(o, r)) \/ QueryErrorAlert
  BY <1>6, NobodyGuess
<1>7. CASE \/ Reload \/ Refocus \/ FetchRead \/ FetchArrives \/ FetchFails
           \/ \E k \in Kinds \cup {"open"} : HintArrives(k)
  BY <1>7, ListGuess
<1>8. CASE (\E p \in Screens : Navigate(p)) \/ (\E s \in Slots : Fold(s))
  BY <1>8, LeaveGuess
<1>. QED
  BY <1>1, <1>2, <1>3, <1>4, <1>5, <1>6, <1>7, <1>8 DEF Next

-----------------------------------------------------------------------------
(* The theorems *)

LEMMA PagesInvariant == Spec => []PagesOK
<1>1. Init => PagesOK
  <2>. SUFFICES ASSUME Init PROVE PagesOK
    OBVIOUS
  <2>1. TypeOK
    BY InitType
  <2>2. \A f \in Runs : run[f] = Idle
    BY DEF Init
  <2>3. HandlersOK
    BY <2>2, IdleFields DEF HandlersOK, IdleColumns
  <2>4. DialogOK
    BY <2>2, IdleFields, PagesAssumption
    DEF Init, NoPanel, None, DialogOK, DialogMatches, StuckOnlyByReplacement, IdleColumns
  <2>5. FlagsOK
    BY <2>2, IdleFields
    DEF Init, FlagsOK, FlagsHeld, FlagsSet, QuestionAlone, OneAtATime, UnderWay, IdleColumns
  <2>6. GuessOK
    <3>1. \A f \in Runs : run[f].stage = "idle" /\ ~Hand(f) /\ ~Patcher(f)
      BY <2>2, IdleFields DEF IdleColumns, Hand, InHand, Patcher
    <3>2. cache.shown = server /\ cache.fetch # "read"
      BY DEF Init
    <3>. QED
      BY <3>1, <3>2
      DEF GuessOK, AttachOK, ProfileOK, Unharmed, RowsApart, HoldsTrue, ReadTrue, ShownTrue
  <2>. QED
    BY <2>1, <2>3, <2>4, <2>5, <2>6 DEF PagesOK
<1>2. PagesOK /\ [Next]_vars => PagesOK'
  <2>. SUFFICES ASSUME PagesOK, [Next]_vars PROVE PagesOK'
    OBVIOUS
  <2>1. Shape
    BY StepShape
  <2>2. TypeOK'
    BY TypeStep DEF PagesOK, DialogOK
  <2>3. HandlersOK'
    BY <2>1, HandlersStep, SceneKept
  <2>4. DialogOK'
    <3>1. PanelOK' /\ \A g \in Runs : RefOK(g)'
      BY <2>1, PanelStep, RefStep
    <3>2. (DialogOK <=> PanelOK /\ \A g \in Runs : RefOK(g))'
      BY <2>2, PagesAssumption
      DEF DialogOK, DialogMatches, StuckOnlyByReplacement, PanelOK, RefOK, TypeOK
    <3>. QED
      BY <3>1, <3>2
  <2>5. FlagsOK'
    BY <2>1, FlagsStep
  <2>6. GuessOK'
    BY GuessStep
  <2>. QED
    BY <2>2, <2>3, <2>4, <2>5, <2>6 DEF PagesOK
<1>. QED
  BY <1>1, <1>2, PTL DEF Spec

(* Every variable of the pages has its type. *)
THEOREM PagesTyped == Spec => []TypeOK
<1>1. PagesOK => TypeOK
  BY DEF PagesOK
<1>. QED
  BY <1>1, PagesInvariant, PTL

(* A panel answers for the handler that put it there (AlertDialogProvider):  *)
(* of all handlers that cross, and whichever panels replace which, a button *)
(* settles the promise of the handler whose text it shows, and no other.    *)
THEOREM PanelAnswersItsHandler == Spec => []DialogMatches
<1>1. PagesOK => DialogMatches
  BY DEF PagesOK, DialogOK
<1>. QED
  BY <1>1, PagesInvariant, PTL

(* An alert that is awaited leaves its handler waiting for good only when    *)
(* another panel took its place (the resolver that alert() overwrites).      *)
THEOREM StuckByReplacement == Spec => []StuckOnlyByReplacement
<1>1. PagesOK => StuckOnlyByReplacement
  BY DEF PagesOK, DialogOK
<1>. QED
  BY <1>1, PagesInvariant, PTL

(* A busy flag is set for a handler of this page and row that is under way:  *)
(* no way out of a handler forgets it (the finally blocks).                  *)
THEOREM FlagsAreHeld == Spec => []FlagsHeld
<1>1. PagesOK => FlagsHeld
  BY DEF PagesOK, FlagsOK
<1>. QED
  BY <1>1, PagesInvariant, PTL

(* Two handlers with one exclusive flag are never under way together, not    *)
(* by the keyboard under a question either.                                  *)
THEOREM ExclusiveFlags == Spec => []OneAtATime
<1>1. PagesOK => OneAtATime
  BY DEF PagesOK, FlagsOK
<1>. QED
  BY <1>1, PagesInvariant, PTL

(* A row shows what the server has, unless its handler is under way: what    *)
(* setQueryData put there goes when it was refused and stays when it was     *)
(* done. The code writes back what a handler took along when it was started; *)
(* a row in two hands at once, or not current when it was taken in hand, is  *)
(* excepted (shared, stale).                                                 *)
THEOREM GuessesAreTakenBack == Spec => []GuessesEnd
<1>1. PagesOK => GuessesEnd
  <2>. SUFFICES ASSUME PagesOK, NEW k \in Keys, cache.loaded, cause = None,
                       cache.shown[k] # server[k], Earlier \notin cache.missing
                PROVE  \E f \in Patchers : Key(f) = k /\ UnderWay(f)
    BY DEF GuessesEnd
  <2>1. PICK f \in Runs : Showing(f, k)
    BY DEF PagesOK, GuessOK, Unharmed, ShownTrue
  <2>. QED
    BY <2>1, PatchersAre DEF Showing
<1>. QED
  BY <1>1, PagesInvariant, PTL

-----------------------------------------------------------------------------
(* The list of the scene: the inductive invariant. A change that the data    *)
(* lack is one that an answer under way will have, or it is promised         *)

(* A handler whose operation was done and which has lists to fetch yet: it   *)
(* does not wait for an alert that has been displaced                        *)
Going(r) ==
    /\ r.ok
    /\ \/ r.stage \in {"attaching", "answered"}
       \/ r.stage = "telling" /\ r.op.success = "await first" /\ ~r.displaced

AsksProfile(r) ==
    /\ r.ok /\ r.stage = "waiting" /\ r.op.profile # "no"
    /\ r.profile \in {"asked", "read"} \/ (r.profile = "none" /\ r.op.profile = "after")

Fetches(o, l) == l \in o.refetches \/ (l = Me /\ o.profile # "no")

(* It changed list l and will have it fetched again *)
Owes(r, l) ==
    /\ l \in r.op.changes
    /\ (Going(r) /\ Fetches(r.op, l)) \/ (AsksProfile(r) /\ l = Me)

(* It will patch its change into l, as a new entry: of a column that it       *)
(* patches the values tell                                                  *)
WillPatch(r, l) ==
    Going(r) /\ r.op.patch # "no" /\ r.op.column = None /\ l = r.op.from

Owing == \E f \in Runs : Owes(run[f], Watched)
Heard == \E k \in hints : Watched \in Hears(page, k)
Marked == Watched \notin Active /\ cache.invalid /\ cache.fetch = "none"
Promised == Owing \/ Heard \/ Marked
Patching(x) == x \in Runs /\ WillPatch(run[x], Watched)
Comes(x) == cache.fetch = "asked" \/ (cache.fetch = "read" /\ x \notin cache.late)

(* The profile is the exception to the second part: nothing gives up an      *)
(* older request for it, and what that lacks is told by cause                *)
Settling ==
    /\ \A x \in cache.missing : Comes(x) \/ Promised \/ Patching(x)
    /\ Watched # Me => \A x \in cache.late : Promised \/ Patching(x)

NoGap == \A o \in scene.ops : <<o.name, Watched>> \notin Gaps

Covered == (cause = None /\ NoGap) => Settling

CacheOK ==
    /\ cache.fetch # "read" => cache.late = {}
    /\ ~cache.loaded => cache.missing = {}
    /\ Watched = Me => cache.loaded /\ cache.missing \cup cache.late \subseteq {Earlier}

Requesting == {"idle", "asking", "sending", "attaching"}

WorkOK ==
    /\ page \in scene.pages
    /\ \A f \in Runs :
          /\ run[f].stage # "idle" => run[f].op \in scene.ops
          /\ run[f].stage = "attaching" => run[f].ok /\ run[f].op.attaches
          /\ run[f].stage \in Requesting => run[f].profile = "none"

ListOK == CacheOK /\ WorkOK /\ Covered

(* What a step may do to a handler *)
Tame(r, q) ==
    /\ q.stage # "idle" => r.stage # "idle" /\ q.op = r.op
    /\ q.stage = "attaching" => \/ q.ok /\ q.op.attaches
                                \/ r.stage = "attaching" /\ q.ok = r.ok
    /\ q.stage \in Requesting =>
          \/ q.profile = "none"
          \/ r.stage \in Requesting /\ (r.profile = "none" => q.profile = "none")

Keeps(r, q, l) == (Owes(r, l) => Owes(q, l)) /\ (WillPatch(r, l) => WillPatch(q, l))
Alike(r, q) ==
    /\ q.op = r.op /\ q.ok = r.ok /\ q.stage = r.stage
    /\ q.displaced = r.displaced /\ q.profile = r.profile

AllTame == \A g \in Runs : Tame(run[g], run'[g])
Loyal == \A g \in Runs : Keeps(run[g], run'[g], Watched)

LEMMA AlikeKeeps ==
    ASSUME NEW r, NEW q, NEW l, Alike(r, q) PROVE Keeps(r, q, l) /\ Tame(r, q)
  BY DEF Alike, Keeps, Tame, Owes, WillPatch, Going, AsksProfile

(* Who has sent nothing yet or has only an outcome to tell owes nothing *)
LEMMA OwesNothing ==
    ASSUME NEW r, NEW l,
           \/ r.stage \in {"idle", "asking", "sending"}
           \/ ~r.ok
           \/ r.stage = "telling" /\ (r.displaced \/ r.op.success # "await first")
    PROVE  ~Owes(r, l) /\ ~WillPatch(r, l)
  BY DEF Owes, WillPatch, Going, AsksProfile

LEMMA CarryWork ==
    ASSUME WorkOK, scene' = scene, page' \in scene.pages, AllTame
    PROVE  WorkOK'
<1>. SUFFICES ASSUME NEW g \in Runs
              PROVE  /\ run'[g].stage # "idle" => run'[g].op \in scene.ops
                     /\ run'[g].stage = "attaching" => run'[g].ok /\ run'[g].op.attaches
                     /\ run'[g].stage \in Requesting => run'[g].profile = "none"
  BY DEF WorkOK
<1>1. Tame(run[g], run'[g])
  BY DEF AllTame
<1>2. /\ run[g].stage # "idle" => run[g].op \in scene.ops
      /\ run[g].stage = "attaching" => run[g].ok /\ run[g].op.attaches
      /\ run[g].stage \in Requesting => run[g].profile = "none"
  BY DEF WorkOK
<1>. QED
  BY <1>1, <1>2 DEF Tame

LEMMA OwingKept ==
    ASSUME scene' = scene, Loyal
    PROVE  (Owing => Owing') /\ \A x : Patching(x) => Patching(x)'
  BY DEF Loyal, Keeps, Owing, Patching, Watched

SameData ==
    /\ cache'.missing = cache.missing /\ cache'.late = cache.late
    /\ cache'.fetch = cache.fetch /\ cache'.loaded = cache.loaded
    /\ scene' = scene /\ page' = page /\ hints \subseteq hints'

SameList == SameData /\ cache'.invalid = cache.invalid

LEMMA CarryCache == ASSUME CacheOK, SameData PROVE CacheOK'
  BY DEF CacheOK, SameData, Watched

(* A patch may take the mark of the list away, if it lacks nothing *)
LEMMA CarryData ==
    ASSUME ListOK, SameData, AllTame,
           cause' = None => cause = None /\ Loyal /\ Unmarked(cache') = {}
    PROVE  ListOK'
<1>1. WorkOK'
  BY CarryWork DEF ListOK, SameData, WorkOK
<1>2. CacheOK'
  BY CarryCache DEF ListOK
<1>3. Covered'
  <2>. SUFFICES ASSUME cause' = None, NoGap' PROVE Settling'
    BY DEF Covered
  <2>1. Settling /\ Loyal
    BY DEF ListOK, Covered, NoGap, Watched, SameData
  <2>2. CASE cache.fetch = "none" /\ cache'.missing = {}
    <3>1. cache'.late = {}
      BY <2>2 DEF ListOK, CacheOK, SameData
    <3>. QED
      BY <2>2, <3>1 DEF Settling
  <2>3. CASE ~(cache.fetch = "none" /\ cache'.missing = {})
    <3>1. Marked => Marked'
      BY <2>3 DEF SameData, Marked, Unmarked, Watched, Active
    <3>2. (Promised => Promised') /\ \A x : Patching(x) => Patching(x)'
      BY <2>1, <3>1, OwingKept DEF SameData, Promised, Heard, Watched
    <3>3. \A x : Comes(x) => Comes(x)'
      BY DEF SameData, Comes
    <3>. QED
      BY <2>1, <3>2, <3>3 DEF Settling, SameData, Watched
  <2>. QED
    BY <2>2, <2>3
<1>. QED
  BY <1>1, <1>2, <1>3 DEF ListOK

LEMMA CarryList ==
    ASSUME ListOK, SameList, AllTame, cause' = None => cause = None /\ Loyal
    PROVE  ListOK'
  BY CarryData DEF SameList, Unmarked

-----------------------------------------------------------------------------
(* Panels and questions *)

(* Whose alert is displaced has nothing left to fetch, or cause says so *)
LEMMA PanelLoyal ==
    ASSUME PagesOK, NEW runs \in [Runs -> Run], run' = Displaced(runs),
           NEW S, None \notin S, cause' = Because(S \cup Unheard), cause' = None
    PROVE  /\ cause = None /\ S = {}
           /\ \A g \in Runs : \A l : Keeps(run[g], runs[g], l) => Keeps(run[g], run'[g], l)
<1>1. None \notin Unheard
  BY DEF Unheard, None
<1>2. cause = None /\ S = {} /\ Unheard = {}
  BY <1>1, BecauseNone
<1>3. ASSUME NEW g \in Runs, NEW l, Keeps(run[g], runs[g], l)
      PROVE  Keeps(run[g], run'[g], l)
  <2>1. CASE g = dialog.alertRef
    <3>1. run[g].stage = "telling"
      BY <2>1 DEF PagesOK, DialogOK, DialogMatches
    <3>2. Outcome(g) # "await first"
      BY <1>2, <2>1, PagesAssumption DEF Unheard
    <3>3. ~run[g].ok \/ run[g].op.success # "await first"
      BY <3>2 DEF Outcome
    <3>. QED
      BY <3>1, <3>3, OwesNothing DEF Keeps
  <2>2. CASE g # dialog.alertRef
    <3>1. run'[g] = runs[g]
      BY <2>2 DEF Displaced
    <3>. QED
      BY <1>3, <3>1
  <2>. QED
    BY <2>1, <2>2
<1>. QED
  BY <1>2, <1>3

LEMMA AlertLoyal ==
    ASSUME PagesOK, NEW w, NEW runs \in [Runs -> Run], NEW S, None \notin S,
           Alert(w, runs, S), cause' = None
    PROVE  /\ cause = None /\ S = {}
           /\ \A g \in Runs : \A l : Keeps(run[g], runs[g], l) => Keeps(run[g], run'[g], l)
  BY PanelLoyal DEF Alert

LEMMA AlertTame ==
    ASSUME PagesOK, NEW w, NEW runs \in [Runs -> Run], NEW S, Alert(w, runs, S),
           \A g \in Runs : Tame(run[g], runs[g])
    PROVE  AllTame
<1>1. Become(runs)
  BY AlertShape DEF PagesOK
<1>. QED
  BY <1>1 DEF Become, AllTame, Tame

LEMMA SelfTame == ASSUME NEW r, NEW l PROVE Tame(r, r) /\ Keeps(r, r, l)
  BY DEF Tame, Keeps

LEMMA IdleTame ==
    ASSUME NEW r PROVE Tame(r, Idle)
  BY DEF Tame, Idle

LEMMA NobodyList ==
    ASSUME PagesOK, ListOK, (\E o, r : Unacceptable(o, r)) \/ QueryErrorAlert
    PROVE  ListOK'
<1>1. Alert(Nobody, run, {}) /\ SameList
  BY CacheFields DEF Unacceptable, QueryErrorAlert, SameList, SameData, PagesOK, Cache
<1>2. run \in [Runs -> Run]
  BY DEF PagesOK, TypeOK
<1>3. AllTame
  BY <1>1, <1>2, AlertTame, SelfTame
<1>4. cause' = None => cause = None /\ Loyal
  BY <1>1, <1>2, AlertLoyal, SelfTame DEF Loyal
<1>. QED
  BY <1>1, <1>3, <1>4, CarryList

(* A handler that tells its outcome first has its lists yet to fetch *)
LEMMA TellList ==
    ASSUME PagesOK, ListOK, NEW f \in Runs, TellFirst(f) \/ Tell(f)
    PROVE  ListOK'
<1>. PICK runs : runs = [run EXCEPT ![f].stage = "telling"]
  OBVIOUS
<1>0. run \in [Runs -> Run]
  BY DEF PagesOK, TypeOK
<1>1. runs \in [Runs -> Run]
  BY <1>0 DEF Run
<1>2. \A g \in Runs : g # f => runs[g] = run[g]
  OBVIOUS
<1>3. /\ runs[f].stage = "telling" /\ runs[f].op = run[f].op /\ runs[f].ok = run[f].ok
      /\ runs[f].displaced = run[f].displaced /\ runs[f].profile = run[f].profile
  BY <1>0 DEF Run
<1>4. Alert(f, runs, {}) /\ SameList
  BY DEF TellFirst, Tell, SameList, SameData
<1>5. run[f].stage \in {"answered", "waiting"} /\ ~run[f].displaced
  BY DEF TellFirst, Tell, Settled, PagesOK, HandlersOK
<1>6. \A g \in Runs : Tame(run[g], runs[g])
  BY <1>2, <1>3, <1>5, SelfTame DEF Tame, Requesting
<1>7. ASSUME NEW l PROVE Keeps(run[f], runs[f], l)
  <2>1. CASE TellFirst(f)
    BY <1>3, <1>5, <2>1 DEF TellFirst, Outcome, Keeps, Owes, WillPatch, Going, AsksProfile
  <2>2. CASE Tell(f)
    <3>1. ~AsksProfile(run[f]) /\ ~Going(run[f])
      BY <2>2 DEF Tell, Settled, AsksProfile, Going
    <3>. QED
      BY <3>1 DEF Keeps, Owes, WillPatch
  <2>. QED
    BY <2>1, <2>2
<1>8. \A g \in Runs : \A l : Keeps(run[g], runs[g], l)
  BY <1>2, <1>7, SelfTame
<1>9. AllTame
  BY <1>1, <1>4, <1>6, AlertTame
<1>10. cause' = None => cause = None /\ Loyal
  BY <1>1, <1>4, <1>8, AlertLoyal DEF Loyal
<1>. QED
  BY <1>4, <1>9, <1>10, CarryList

LEMMA EndList ==
    ASSUME PagesOK, ListOK, NEW f \in Runs, End(f)
    PROVE  ListOK'
<1>. PICK runs : runs = [run EXCEPT ![f] = Idle]
  OBVIOUS
<1>1. runs \in [Runs -> Run] /\ runs[f] = Idle /\ \A g \in Runs : g # f => runs[g] = run[g]
  BY IdleType DEF PagesOK, TypeOK
<1>2. SameList /\ (Alert(Nobody, runs, {}) \/ (run' = runs /\ cause' = cause))
  BY DEF End, SameList, SameData
<1>3. ~AsksProfile(run[f]) /\ ~Going(run[f])
  BY DEF End, Settled, AsksProfile, Going
<1>4. \A g \in Runs : Tame(run[g], runs[g])
  BY <1>1, SelfTame, IdleTame
<1>5. \A g \in Runs : \A l : Keeps(run[g], runs[g], l)
  BY <1>1, <1>3, SelfTame DEF Keeps, Owes, WillPatch
<1>6. AllTame
  BY <1>1, <1>2, <1>4, AlertTame DEF AllTame
<1>7. cause' = None => cause = None /\ Loyal
  BY <1>1, <1>2, <1>5, AlertLoyal DEF Loyal
<1>. QED
  BY <1>2, <1>6, <1>7, CarryList

LEMMA CloseList ==
    ASSUME PagesOK, ListOK, CloseAlert
    PROVE  ListOK'
<1>. PICK f \in Runs \cup {Nobody} : f = dialog.alertRef
  BY DEF PagesOK, TypeOK
<1>1. SameList /\ cause' = cause
  BY DEF CloseAlert, SameList, SameData
<1>2. CASE f = Nobody
  <2>1. run' = run
    BY <1>2 DEF CloseAlert
  <2>2. AllTame /\ Loyal
    BY <2>1, SelfTame DEF AllTame, Loyal
  <2>. QED
    BY <1>1, <2>2, CarryList
<1>3. CASE f \in Runs
  <2>1. run[f].stage = "telling" /\ run \in [Runs -> Run] /\ f # Nobody
    BY <1>3, PagesAssumption DEF PagesOK, DialogOK, DialogMatches, TypeOK
  <2>2. CASE Outcome(f) = "await first"
    <3>1. run' = [run EXCEPT ![f].stage = "answered", ![f].told = TRUE]
      BY <2>1, <2>2 DEF CloseAlert
    <3>2. /\ run'[f].stage = "answered" /\ run'[f].op = run[f].op /\ run'[f].ok = run[f].ok
          /\ \A g \in Runs : g # f => run'[g] = run[g]
      BY <2>1, <3>1 DEF Run
    <3>4. Tame(run[f], run'[f]) /\ Keeps(run[f], run'[f], Watched)
      BY <2>1, <3>2 DEF Tame, Requesting, Keeps, Owes, WillPatch, Going, AsksProfile
    <3>3. AllTame /\ Loyal
      BY <3>2, <3>4, SelfTame DEF AllTame, Loyal
    <3>. QED
      BY <1>1, <3>3, CarryList
  <2>3. CASE Outcome(f) # "await first"
    <3>1. run' = [run EXCEPT ![f] = Idle]
      BY <2>1, <2>3 DEF CloseAlert
    <3>2. run'[f] = Idle /\ \A g \in Runs : g # f => run'[g] = run[g]
      BY <2>1, <3>1
    <3>3. ~run[f].ok \/ run[f].op.success # "await first"
      BY <2>3 DEF Outcome
    <3>4. AllTame
      BY <3>2, SelfTame, IdleTame DEF AllTame
    <3>5. Loyal
      BY <2>1, <3>2, <3>3, SelfTame, OwesNothing DEF Loyal, Keeps
    <3>. QED
      BY <1>1, <3>4, <3>5, CarryList
  <2>. QED
    BY <2>2, <2>3
<1>. QED
  BY <1>2, <1>3

(* A change that loses its name had no patch to wait for any more *)
LEMMA PressSettles ==
    ASSUME PagesOK, CacheOK, Settling, NEW f \in Runs, Free(f),
           Loyal, scene' = scene, page' = page, hints' = hints,
           cache'.missing = Renamed(f, cache.missing), cache'.late = Renamed(f, cache.late),
           cache'.fetch = cache.fetch, Unmarked(cache') = {},
           cache.fetch # "none" \/ cache'.missing # {}
    PROVE  Settling'
<1>0. Marked => Marked'
  BY DEF Marked, Unmarked, Watched, Active
<1>1. (Promised => Promised') /\ \A x : Patching(x) => Patching(x)'
  BY <1>0, OwingKept DEF Promised, Heard, Watched
<1>2. ~Patching(f) /\ ~Patching(Earlier)
  BY FreeRun, OwesNothing, PagesAssumption DEF Patching
<1>3. cache.missing \cup cache.late \subseteq Runs \cup {Earlier}
  BY DEF PagesOK, TypeOK, Cache
<1>4. ASSUME Watched # Me, NEW x \in cache'.late PROVE Promised' \/ Patching(x)'
  <2>1. CASE x \in cache.late /\ x # f
    BY <1>1, <1>4, <2>1 DEF Settling
  <2>2. CASE x = Earlier /\ (f \in cache.late \/ Earlier \in cache.late)
    BY <1>1, <1>2, <1>4, <2>2 DEF Settling
  <2>. QED
    BY <1>4, <2>1, <2>2, RenamedIn
<1>5. ASSUME NEW x \in cache'.missing PROVE Comes(x)' \/ Promised' \/ Patching(x)'
  <2>1. CASE cache.fetch = "asked"
    BY <2>1 DEF Comes
  <2>2. CASE Promised
    BY <1>1, <2>2
  <2>3. CASE ~Promised /\ cache.fetch # "asked"
    <3>1. PICK y \in cache.missing : /\ (x = y /\ y # f) \/ (x = Earlier /\ y \in {f, Earlier})
      BY <1>5, RenamedIn
    <3>2. Comes(y) \/ Patching(y)
      BY <2>3 DEF Settling
    <3>3. CASE Patching(y)
      BY <1>1, <1>2, <3>1, <3>3
    <3>4. CASE Comes(y)
      <4>1. cache.fetch = "read" /\ y \notin cache.late
        BY <2>3, <3>4 DEF Comes
      <4>2. CASE x \notin cache'.late
        BY <4>1, <4>2 DEF Comes
      <4>3. CASE x \in cache'.late /\ Watched # Me
        <5>1. Patching(x)'
          BY <1>4, <2>3, <4>3, <1>2, <4>1, <3>1, RenamedIn DEF Settling
        <5>. QED
          BY <5>1
      <4>4. CASE x \in cache'.late /\ Watched = Me
        <5>1. cache.missing \cup cache.late \subseteq {Earlier} /\ f # Earlier
          BY <4>4, PagesAssumption DEF CacheOK
        <5>2. x = Earlier /\ y = Earlier /\ Earlier \in cache.late
          BY <3>1, <4>4, <5>1, RenamedIn
        <5>. QED
          BY <4>1, <5>2
      <4>. QED
        BY <4>2, <4>3, <4>4
    <3>. QED
      BY <3>2, <3>3, <3>4
  <2>. QED
    BY <2>1, <2>2, <2>3
<1>. QED
  BY <1>4, <1>5 DEF Settling, Watched

LEMMA PressList ==
    ASSUME PagesOK, ListOK, NEW f \in Runs, NEW o \in scene.ops, NEW r \in Rows, Press(f, o, r)
    PROVE  ListOK'
<1>0. /\ Free(f) /\ scene' = scene /\ page' = page /\ hints' = hints
      /\ run[f].stage \in {"idle", "asking"} /\ o \in Ops
  BY SceneOps DEF Press, Free, PagesOK
<1>1. PICK c : c = [cache EXCEPT !.missing = Renamed(f, @), !.late = Renamed(f, @)]
  OBVIOUS
<1>. DEFINE risks == Shared(f, o, r) \cup Stale(o, r)
<1>2. PICK v \in Choices(o, r) :
         IF o.asks
         THEN /\ Confirm(f, [run EXCEPT ![f] = Begun(o, r, v, "asking")], risks)
              /\ cache' = c
              /\ UNCHANGED busy
         ELSE /\ run' = [run EXCEPT ![f] = Begun(o, r, v, "sending")]
              /\ cache' = Guess(o, KeyOf(o, r), v, c)
              /\ cause' = Because(risks \cup Unmarked(cache'))
              /\ busy' = SetBusy(o, r)
              /\ UNCHANGED dialog
  BY <1>1 DEF Press
<1>3. None \notin risks
  BY DEF Shared, Stale, None
<1>. HIDE DEF risks
<1>4. /\ c.missing = Renamed(f, cache.missing) /\ c.late = Renamed(f, cache.late)
      /\ c.fetch = cache.fetch /\ c.invalid = cache.invalid /\ c.loaded = cache.loaded
      /\ c \in Cache
  BY <1>1 DEF Renamed, Cache, PagesOK, TypeOK
<1>5. /\ cache'.missing = Renamed(f, cache.missing) /\ cache'.late = Renamed(f, cache.late)
      /\ cache'.fetch = cache.fetch /\ cache'.loaded = cache.loaded
  <2>1. CASE o.asks
    BY <1>2, <1>4, <2>1
  <2>2. CASE ~o.asks
    <3>. PICK d, k : d = cache' /\ k = KeyOf(o, r)
      OBVIOUS
    <3>1. d = Guess(o, k, v, c)
      BY <1>2, <2>2
    <3>2. /\ d.loaded = c.loaded /\ d.fetch = c.fetch
          /\ d.missing = c.missing /\ d.late = c.late
      BY <1>4, <3>1, GuessFields
    <3>. QED
      BY <1>4, <3>2
  <2>. QED
    BY <2>1, <2>2
<1>6. f # Earlier
  BY PagesAssumption
<1>7. CacheOK'
  BY <1>0, <1>5, <1>6 DEF ListOK, CacheOK, Renamed, Watched
<1>. PICK stage \in {"asking", "sending"} : stage = IF o.asks THEN "asking" ELSE "sending"
  OBVIOUS
<1>. PICK b : b = Begun(o, r, v, stage)
  OBVIOUS
<1>8. b \in Run /\ b.op = o /\ b.stage = stage /\ b.profile = "none"
  BY <1>0, BegunType, ChoicesType DEF PagesOK, Begun, Idle
<1>. PICK runs : runs = [run EXCEPT ![f] = b]
  OBVIOUS
<1>9. runs \in [Runs -> Run] /\ runs[f] = b /\ \A g \in Runs : g # f => runs[g] = run[g]
  BY <1>8 DEF PagesOK, TypeOK
<1>10. \A g \in Runs : \A l : Keeps(run[g], runs[g], l)
  BY <1>0, <1>8, <1>9, SelfTame, OwesNothing DEF Keeps
<1>11. \/ run' = Displaced(runs) /\ cause' = Because(risks \cup Unheard) /\ cache' = c
       \/ run' = runs /\ cause' = Because(risks \cup Unmarked(cache'))
  BY <1>2 DEF Confirm
<1>12. cause' = None => cause = None /\ Loyal /\ Unmarked(cache') = {}
  <2>1. CASE run' = runs /\ cause' = Because(risks \cup Unmarked(cache'))
    <3>1. None \notin Unmarked(cache')
      BY DEF Unmarked, None
    <3>2. cause' = None => cause = None /\ Unmarked(cache') = {}
      <4>. PICK S : S = risks \cup Unmarked(cache')
        OBVIOUS
      <4>1. None \notin S /\ cause' = Because(S)
        BY <1>3, <2>1, <3>1
      <4>2. cause' = None => cause = None /\ S = {}
        BY <4>1, BecauseNone
      <4>. QED
        BY <4>2
    <3>. QED
      BY <1>10, <2>1, <3>2 DEF Loyal
  <2>2. CASE run' = Displaced(runs) /\ cause' = Because(risks \cup Unheard) /\ cache' = c
    <3>1. Unmarked(cache') = {}
      BY <1>4, <2>2 DEF Unmarked
    <3>2. cause' = None => cause = None /\ Loyal
      BY <1>3, <1>9, <1>10, <2>2, PanelLoyal DEF Loyal
    <3>. QED
      BY <3>1, <3>2
  <2>. QED
    BY <1>11, <2>1, <2>2
<1>13. \A g \in Runs : /\ run'[g].stage = runs[g].stage /\ run'[g].op = runs[g].op
                       /\ run'[g].ok = runs[g].ok /\ run'[g].profile = runs[g].profile
  BY <1>9, <1>11, DisplacedShape DEF PagesOK, Become
<1>14. WorkOK'
  <2>1. WorkOK
    BY DEF ListOK
  <2>. QED
    BY <1>0, <1>8, <1>9, <1>13, <2>1 DEF WorkOK
<1>15. Covered'
  <2>. SUFFICES ASSUME cause' = None, NoGap' PROVE Settling'
    BY DEF Covered
  <2>1. Settling /\ Loyal /\ Unmarked(cache') = {}
    BY <1>0, <1>12 DEF ListOK, Covered, NoGap, Watched
  <2>2. CASE cache.fetch = "none" /\ cache'.missing = {}
    <3>1. cache'.late = {}
      BY <1>5, <2>2, <1>7 DEF CacheOK
    <3>. QED
      BY <2>2, <3>1 DEF Settling
  <2>3. CASE ~(cache.fetch = "none" /\ cache'.missing = {})
    BY <1>0, <1>5, <2>1, <2>3, PressSettles DEF ListOK
  <2>. QED
    BY <2>2, <2>3
<1>. QED
  BY <1>7, <1>14, <1>15 DEF ListOK

LEMMA ConfirmList ==
    ASSUME PagesOK, ListOK, NEW yes \in BOOLEAN, FinishConfirm(yes)
    PROVE  ListOK'
<1>1. dialog.kind = "confirm" /\ scene' = scene /\ page' = page /\ hints' = hints
  BY DEF FinishConfirm, Answers
<1>. PICK f \in Runs : f = dialog.confirmRef
  BY <1>1 DEF PagesOK, DialogOK, DialogMatches
<1>2. run[f].stage = "asking" /\ run \in [Runs -> Run] /\ cache \in Cache
  BY <1>1 DEF PagesOK, DialogOK, DialogMatches, TypeOK
<1>3. \/ cache' = cache /\ cause' = cause
      \/ /\ cache' = Guess(run[f].op, Key(f), run[f].next, cache)
         /\ cause' = Because(Unmarked(cache'))
  BY DEF FinishConfirm
<1>4. /\ cache'.missing = cache.missing /\ cache'.late = cache.late
      /\ cache'.fetch = cache.fetch /\ cache'.loaded = cache.loaded
  <2>1. CASE cache' = cache
    BY <2>1
  <2>2. CASE cache' = Guess(run[f].op, Key(f), run[f].next, cache)
    <3>. PICK d, o, k, v : d = cache' /\ o = run[f].op /\ k = Key(f) /\ v = run[f].next
      OBVIOUS
    <3>1. d = Guess(o, k, v, cache)
      BY <2>2
    <3>2. /\ d.missing = cache.missing /\ d.late = cache.late
          /\ d.fetch = cache.fetch /\ d.loaded = cache.loaded
      BY <1>2, <3>1, GuessFields
    <3>. QED
      BY <3>2
  <2>. QED
    BY <1>3, <2>1, <2>2
<1>5. /\ \/ run'[f].stage = "sending" /\ run'[f].op = run[f].op
            /\ run'[f].profile = run[f].profile
         \/ run'[f] = Idle
      /\ \A g \in Runs : g # f => run'[g] = run[g]
  BY <1>2 DEF FinishConfirm, Run
<1>6. AllTame
  <2>1. Tame(run[f], run'[f])
    BY <1>2, <1>5, IdleTame DEF Tame, Requesting
  <2>. QED
    BY <1>5, <2>1, SelfTame DEF AllTame
<1>7. Loyal
  BY <1>2, <1>5, SelfTame, OwesNothing DEF Loyal, Keeps
<1>8. cause' = None => cause = None /\ Unmarked(cache') = {}
  <2>1. CASE cache' = cache /\ cause' = cause
    BY <2>1 DEF Unmarked
  <2>2. CASE cause' = Because(Unmarked(cache'))
    <3>. PICK S : S = Unmarked(cache')
      OBVIOUS
    <3>1. None \notin S /\ cause' = Because(S)
      BY <2>2 DEF Unmarked, None
    <3>. QED
      BY <3>1, BecauseNone
  <2>. QED
    BY <1>3, <2>1, <2>2
<1>. QED
  BY <1>1, <1>4, <1>6, <1>7, <1>8, CarryData DEF SameData

-----------------------------------------------------------------------------
(* The server and its answers *)

LEMMA ListFields ==
    ASSUME NEW c \in Cache
    PROVE  /\ c.loaded \in BOOLEAN /\ c.invalid \in BOOLEAN
           /\ c.missing \subseteq Runs \cup {Earlier} /\ c.late \subseteq Runs \cup {Earlier}
           /\ c.fetch \in {"none", "asked", "read"}
  BY DEF Cache

LEMMA ChangedList ==
    ASSUME TypeOK, NEW f \in Runs, cache' = Changed(f)
    PROVE  /\ cache'.fetch = cache.fetch /\ cache'.invalid = cache.invalid
           /\ cache'.loaded = cache.loaded
           /\ cache'.missing \in {cache.missing, cache.missing \cup ChangeBy(f)}
           /\ cache'.late \in {cache.late, cache.late \cup ChangeBy(f)}
           /\ ~cache.loaded => cache'.missing = cache.missing
           /\ cache.fetch # "read" => cache'.late = cache.late
  BY DEF Changed, TypeOK, Cache

LEMMA ChangedCache ==
    ASSUME PagesOK, CacheOK, scene' = scene, NEW f \in Runs, run[f].op \in Ops,
           cache' = Changed(f)
    PROVE  CacheOK'
<1>1. Watched = Me => ChangeBy(f) = {Earlier}
  BY RefetchAssumption DEF ChangeBy, Patches, PatchesColumn
<1>. QED
  BY <1>1, ChangedList DEF CacheOK, Watched, PagesOK

(* A change is promised by its own handler or by a hint *)
LEMMA ChangeSettles ==
    ASSUME PagesOK, Settling, NEW f \in Runs, run[f].op \in Ops, cache' = Changed(f),
           scene' = scene, page' = page, hints \subseteq hints',
           Watched # Me => Loyal,
           \/ Owes(run'[f], Watched) \/ Heard'
           \/ /\ Patches(run[f].op)
              /\ WillPatch(run'[f], Watched) \/ PatchesColumn(run[f].op)
    PROVE  Settling'
<1>1. CASE Promised'
  BY <1>1 DEF Settling
<1>2. CASE ~Promised'
  <2>1. /\ Patches(run[f].op)
        /\ WillPatch(run'[f], Watched) \/ PatchesColumn(run[f].op)
    BY <1>2 DEF Promised, Owing, Watched
  <2>2. Watched # Me
    BY <2>1, RefetchAssumption DEF Patches
  <2>3. ChangeBy(f) = {} \/ (ChangeBy(f) = {f} /\ Patching(f)')
    BY <2>1 DEF ChangeBy, Patching, Watched
  <2>4. (Promised => Promised') /\ \A x : Patching(x) => Patching(x)'
    BY <2>2, OwingKept, ChangedList
    DEF Promised, Heard, Marked, Watched, Active, PagesOK
  <2>5. \A x \in cache'.missing : (x = f /\ Patching(x)') \/ x \in cache.missing
    BY <2>3, ChangedList DEF PagesOK
  <2>6. \A x \in cache'.late : (x = f /\ Patching(x)') \/ x \in cache.late
    BY <2>3, ChangedList DEF PagesOK
  <2>7. \A x : Comes(x) => Comes(x)' \/ Patching(x)'
    BY <2>6, ChangedList DEF Comes, PagesOK
  <2>. QED
    BY <1>2, <2>2, <2>3, <2>4, <2>5, <2>6, <2>7 DEF Settling, Watched
<1>. QED
  BY <1>1, <1>2

(* What the assumption on the handlers says of the operation of f *)
LEMMA ChangePromised ==
    ASSUME PagesOK, NEW o \in scene.ops, o \in Ops, NoGap, Watched \in o.changes, Cached(o) = {}
    PROVE  \/ Fetches(o, Watched)
           \/ o.patch # "no" /\ Watched = o.from
           \/ ~o.attaches /\ \E k \in o.hints : Watched \in Hears(page, k)
<1>1. CASE Watched \in o.refetches
  BY <1>1 DEF Fetches
<1>2. CASE Watched \notin o.refetches
  <2>1. Watched \in Shows(o.page) /\ page = o.page
    BY <1>2 DEF Cached, Active
  <2>2. <<o.name, Watched>> \notin Gaps
    BY DEF NoGap
  <2>. QED
    BY <1>2, <2>1, <2>2, RefetchAssumption DEF Fetches
<1>. QED
  BY <1>1, <1>2

(* An answer that has become old is no other handler's, nor is its profile *)
LEMMA OutdatedAlike ==
    ASSUME TypeOK, NEW f, NEW g \in Runs, NEW o, NEW before, before \in {Profiles(o), run},
           NEW runs, runs = Outdated(f, before)
    PROVE  /\ before = run \/ Me \notin o.changes => Alike(run[g], runs[g])
           /\ run[g].profile = "none" => runs[g].profile = "none"
<1>1. ASSUME NEW r \in Run
      PROVE  /\ [r EXCEPT !.older = TRUE].profile = r.profile
             /\ [r EXCEPT !.profile = "old"].profile = "old"
  BY DEF Run
<1>2. before \in [Runs -> Run]
  BY ProfilesType DEF TypeOK
<1>3. runs[g].profile = before[g].profile
  <2>1. runs[g] = before[g] \/ runs[g] = [before[g] EXCEPT !.older = TRUE]
    BY DEF Outdated
  <2>. QED
    BY <1>1, <1>2, <2>1
<1>4. /\ before = run \/ Me \notin o.changes => before[g] = run[g]
      /\ run[g].profile = "none" => before[g].profile = "none"
  BY DEF Profiles
<1>5. /\ runs[g].op = run[g].op /\ runs[g].stage = run[g].stage
      /\ runs[g].displaced = run[g].displaced /\ runs[g].ok = run[g].ok
  BY OutdatedFields
<1>. QED
  BY <1>3, <1>4, <1>5 DEF Alike

LEMMA ActsRuns ==
    ASSUME PagesOK, NEW f \in Runs, ServerActs(f)
    PROVE  /\ run'[f].op = run[f].op /\ run'[f].ok = TRUE
           /\ run'[f].stage = (IF run[f].op.attaches THEN "attaching" ELSE "answered")
           /\ \A g \in Runs : g # f =>
                 /\ run'[g].op = run[g].op /\ run'[g].ok = run[g].ok
                 /\ run'[g].stage = run[g].stage /\ run'[g].displaced = run[g].displaced
                 /\ Me \notin run[f].op.changes => Alike(run[g], run'[g])
           /\ \A g \in Runs : run[g].profile = "none" => run'[g].profile = "none"
<1>. PICK o : o = run[f].op
  OBVIOUS
<1>. PICK before : before = Profiles(o)
  OBVIOUS
<1>. PICK runs : runs = Outdated(f, before)
  OBVIOUS
<1>. PICK stage \in {"attaching", "answered"} :
              stage = IF o.attaches THEN "attaching" ELSE "answered"
  OBVIOUS
<1>1. TypeOK
  BY DEF PagesOK
<1>2. \A g \in Runs : /\ runs[g].op = run[g].op /\ runs[g].ok = run[g].ok
                      /\ runs[g].stage = run[g].stage /\ runs[g].displaced = run[g].displaced
                      /\ runs \in [Runs -> Run]
  BY <1>1, OutdatedFields
<1>3. \A g \in Runs : /\ Me \notin o.changes => Alike(run[g], runs[g])
                      /\ run[g].profile = "none" => runs[g].profile = "none"
  BY <1>1, OutdatedAlike
<1>4. run' = [runs EXCEPT ![f].stage = stage, ![f].did = TRUE, ![f].ok = TRUE]
  BY DEF ServerActs
<1>5. /\ run'[f].op = runs[f].op /\ run'[f].ok = TRUE /\ run'[f].stage = stage
      /\ run'[f].profile = runs[f].profile
      /\ \A g \in Runs : g # f => run'[g] = runs[g]
  <2>. PICK r \in Run : r = runs[f]
    BY <1>2
  <2>1. run' = [runs EXCEPT ![f] = [r EXCEPT !.stage = stage, !.did = TRUE, !.ok = TRUE]]
    BY <1>2, <1>4
  <2>. QED
    BY <1>2, <2>1 DEF Run
<1>. QED
  BY <1>2, <1>3, <1>5

LEMMA ActsList ==
    ASSUME PagesOK, ListOK, NEW f \in Runs, ServerActs(f)
    PROVE  ListOK'
<1>. PICK o : o = run[f].op
  OBVIOUS
<1>1. /\ o \in Ops /\ o \in scene.ops /\ run[f].stage = "sending" /\ page \in scene.pages
      /\ scene' = scene /\ page' = page /\ cache' = Changed(f)
      /\ hints' = hints \cup {k \in o.hints : Concerns(k)}
      /\ cause' = Because(Cached(o))
  BY DEF ServerActs, PagesOK, HandlersOK, ListOK, WorkOK
<1>2. CacheOK'
  BY <1>1, ChangedCache DEF ListOK
<1>3. WorkOK'
  <2>1. AllTame
    BY <1>1, ActsRuns DEF AllTame, Tame, Requesting
  <2>. QED
    BY <1>1, <2>1, CarryWork DEF ListOK
<1>4. ASSUME Watched # Me \/ Me \notin o.changes PROVE Loyal
  <2>1. ASSUME NEW g \in Runs, g # f PROVE Keeps(run[g], run'[g], Watched)
    <3>1. CASE Me \notin o.changes
      BY <2>1, <3>1, ActsRuns, AlikeKeeps
    <3>2. CASE Watched # Me
      BY <2>1, <3>2, ActsRuns DEF Keeps, Owes, WillPatch, Going
    <3>. QED
      BY <1>4, <3>1, <3>2
  <2>2. Keeps(run[f], run'[f], Watched)
    BY <1>1, OwesNothing DEF Keeps
  <2>. QED
    BY <2>1, <2>2 DEF Loyal
<1>5. Covered'
  <2>. SUFFICES ASSUME cause' = None, NoGap' PROVE Settling'
    BY DEF Covered
  <2>1. cause = None /\ Cached(o) = {}
    BY <1>1, BecauseNone DEF Cached, None
  <2>2. Settling /\ NoGap
    BY <1>1, <2>1 DEF ListOK, Covered, NoGap, Watched
  <2>3. CASE Watched \notin o.changes
    <3>1. Loyal /\ cache' = cache
      BY <1>1, <1>4, <2>3 DEF Changed
    <3>2. (Promised => Promised') /\ \A x : Patching(x) => Patching(x)'
      BY <1>1, <3>1, OwingKept DEF Promised, Heard, Marked, Watched, Active
    <3>. QED
      BY <1>1, <2>2, <3>1, <3>2 DEF Settling, Comes, Watched
  <2>4. CASE Watched \in o.changes
    <3>1. Going(run'[f])
      BY ActsRuns DEF Going
    <3>2. \/ Fetches(o, Watched)
          \/ o.patch # "no" /\ Watched = o.from
          \/ \E k \in o.hints : Watched \in Hears(page, k)
      BY <1>1, <2>1, <2>2, <2>4, ChangePromised
    <3>3. (\E k \in o.hints : Watched \in Hears(page, k)) => Heard'
      BY <1>1 DEF Heard, Concerns, Watched
    <3>4. \/ Owes(run'[f], Watched) \/ Heard'
          \/ /\ Patches(run[f].op)
             /\ WillPatch(run'[f], Watched) \/ PatchesColumn(run[f].op)
      BY <2>4, <3>1, <3>2, <3>3, ActsRuns
      DEF Owes, WillPatch, Patches, PatchesColumn, Writes
    <3>. QED
      BY <1>1, <1>4, <2>2, <3>4, ChangeSettles
  <2>. QED
    BY <2>3, <2>4
<1>. QED
  BY <1>2, <1>3, <1>5 DEF ListOK

LEMMA AttachList ==
    ASSUME PagesOK, ListOK, NEW f \in Runs, Attach(f)
    PROVE  ListOK'
<1>. PICK o : o = run[f].op
  OBVIOUS
<1>1. /\ o \in Ops /\ o \in scene.ops /\ run[f].stage = "attaching" /\ run[f].ok /\ o.attaches
      /\ scene' = scene /\ page' = page /\ cache' = Changed(f) /\ hints' = hints
      /\ cause' = Because(Cached(o)) /\ page \in scene.pages
  BY DEF Attach, PagesOK, HandlersOK, ListOK, WorkOK
<1>2. /\ run'[f].op = o /\ run'[f].ok = run[f].ok /\ run'[f].stage = "answered"
      /\ \A g \in Runs : g # f => Alike(run[g], run'[g])
  <2>. PICK before : before = run
    OBVIOUS
  <2>. PICK runs : runs = Outdated(f, before)
    OBVIOUS
  <2>1. TypeOK /\ before \in {Profiles(o), run}
    BY DEF PagesOK
  <2>2. \A g \in Runs : /\ runs[g].op = run[g].op /\ runs[g].ok = run[g].ok
                        /\ runs \in [Runs -> Run] /\ Alike(run[g], runs[g])
    BY <2>1, OutdatedFields, OutdatedAlike
  <2>3. run' = [runs EXCEPT ![f].stage = "answered"]
    BY DEF Attach
  <2>. PICK r \in Run : r = runs[f]
    BY <2>2
  <2>4. run' = [runs EXCEPT ![f] = [r EXCEPT !.stage = "answered"]]
    BY <2>2, <2>3
  <2>. QED
    BY <2>2, <2>4 DEF Run
<1>3. CacheOK'
  BY <1>1, ChangedCache DEF ListOK
<1>4. AllTame
  <2>1. Tame(run[f], run'[f])
    BY <1>1, <1>2 DEF Tame, Requesting
  <2>. QED
    BY <1>2, <2>1, AlikeKeeps DEF AllTame
<1>5. WorkOK'
  BY <1>1, <1>4, CarryWork DEF ListOK
<1>6. Going(run'[f])
  BY <1>1, <1>2 DEF Going
<1>7. Loyal
  <2>1. Keeps(run[f], run'[f], Watched)
    BY <1>1, <1>2, <1>6 DEF Keeps, Owes, WillPatch, AsksProfile
  <2>. QED
    BY <1>2, <2>1, AlikeKeeps DEF Loyal
<1>8. Covered'
  <2>. SUFFICES ASSUME cause' = None, NoGap' PROVE Settling'
    BY DEF Covered
  <2>1. cause = None /\ Cached(o) = {}
    BY <1>1, BecauseNone DEF Cached, None
  <2>2. Settling /\ NoGap
    BY <1>1, <2>1 DEF ListOK, Covered, NoGap, Watched
  <2>3. CASE Watched \notin o.changes
    <3>1. cache' = cache
      BY <1>1, <2>3 DEF Changed
    <3>2. (Promised => Promised') /\ \A x : Patching(x) => Patching(x)'
      BY <1>1, <1>7, <3>1, OwingKept DEF Promised, Heard, Marked, Watched, Active
    <3>. QED
      BY <1>1, <2>2, <3>1, <3>2 DEF Settling, Comes, Watched
  <2>4. CASE Watched \in o.changes
    <3>1. Fetches(o, Watched) \/ (o.patch # "no" /\ Watched = o.from)
      BY <1>1, <2>1, <2>2, <2>4, ChangePromised
    <3>2. \/ Owes(run'[f], Watched)
          \/ /\ Patches(run[f].op)
             /\ WillPatch(run'[f], Watched) \/ PatchesColumn(run[f].op)
      BY <1>2, <1>6, <2>4, <3>1 DEF Owes, WillPatch, Patches, PatchesColumn, Writes
    <3>. QED
      BY <1>1, <1>7, <2>2, <3>2, ChangeSettles
  <2>. QED
    BY <2>3, <2>4
<1>. QED
  BY <1>3, <1>5, <1>8 DEF ListOK

LEMMA AnswerList ==
    ASSUME PagesOK, ListOK, NEW f \in Runs, ServerRefuses(f) \/ AnswerLost(f)
    PROVE  ListOK'
<1>1. run \in [Runs -> Run] /\ SameList
  BY DEF ServerRefuses, AnswerLost, SameList, SameData, PagesOK, TypeOK
<1>2. /\ run'[f].stage = "answered" /\ run'[f].op = run[f].op /\ run[f].stage # "idle"
      /\ \A g \in Runs : g # f => run'[g] = run[g]
  BY <1>1 DEF ServerRefuses, AnswerLost, Run
<1>3. AllTame
  BY <1>2, SelfTame DEF AllTame, Tame, Requesting
<1>4. ASSUME cause' = None PROVE cause = None /\ Keeps(run[f], run'[f], Watched)
  <2>1. CASE ServerRefuses(f)
    BY <1>4, <2>1, OwesNothing DEF ServerRefuses, Keeps
  <2>2. CASE AnswerLost(f)
    <3>1. cause' = IF Watched \in run[f].op.changes THEN Because({"lost"}) ELSE cause
      BY <2>2 DEF AnswerLost
    <3>2. cause = None /\ Watched \notin run[f].op.changes
      BY <1>4, <3>1, BecauseNone DEF None
    <3>3. run[f].op \in Ops
      BY <1>2 DEF PagesOK, HandlersOK
    <3>. QED
      BY <3>2, <3>3, HandlersAssumption DEF Keeps, Owes, WillPatch
  <2>. QED
    BY <2>1, <2>2
<1>5. cause' = None => cause = None /\ Loyal
  BY <1>2, <1>4, SelfTame DEF Loyal
<1>. QED
  BY <1>1, <1>3, <1>5, CarryList

-----------------------------------------------------------------------------
(* The profile *)

LEMMA ProfileRuns ==
    ASSUME PagesOK, NEW f \in Runs,
           ProfileAsked(f) \/ ProfileRead(f) \/ ProfileArrives(f) \/ ProfileFails(f)
    PROVE  /\ run'[f].op = run[f].op /\ run'[f].stage = run[f].stage
           /\ run'[f].displaced = run[f].displaced
           /\ ~ProfileFails(f) => run'[f].ok = run[f].ok
           /\ ProfileAsked(f) => run'[f].profile = "asked"
           /\ ProfileRead(f) => run'[f].profile = "read"
           /\ \A g \in Runs : g # f => run'[g] = run[g]
  BY DEF ProfileAsked, ProfileRead, ProfileArrives, ProfileFails, PagesOK, TypeOK, Run

LEMMA ProfileWorks ==
    ASSUME PagesOK, NEW f \in Runs, cause' = None,
           ProfileAsked(f) \/ ProfileRead(f) \/ ProfileFails(f)
             \/ (ProfileArrives(f) /\ (Watched # Me \/ run[f].profile = "old"))
    PROVE  cause = None /\ Loyal
<1>1. CASE ProfileFails(f)
  BY <1>1, BecauseNone DEF ProfileFails, None
<1>2. CASE ~ProfileFails(f)
  <2>1. cause = None
    <3>1. CASE ProfileArrives(f) /\ run[f].profile = "old" /\ Watched = Me
      <4>1. cause' = Because(IF cache.missing = {} THEN {"crossed"} ELSE {})
        BY <3>1 DEF ProfileArrives
      <4>. QED
        BY <4>1, BecauseNone DEF None
    <3>. QED
      BY <1>2, <3>1 DEF ProfileAsked, ProfileRead, ProfileArrives
  <2>2. Keeps(run[f], run'[f], Watched)
    <3>1. CASE ProfileAsked(f) \/ ProfileRead(f)
      BY <1>2, <3>1, ProfileRuns
      DEF ProfileAsked, ProfileRead, Keeps, Owes, WillPatch, Going, AsksProfile
    <3>2. CASE Watched # Me
      BY <1>2, <3>2, ProfileRuns DEF Keeps, Owes, WillPatch, Going
    <3>3. CASE run[f].profile = "old"
      BY <1>2, <3>3, ProfileRuns DEF Keeps, Owes, WillPatch, Going, AsksProfile
    <3>. QED
      BY <1>2, <3>1, <3>2, <3>3
  <2>. QED
    BY <2>1, <2>2, ProfileRuns, SelfTame DEF Loyal
<1>. QED
  BY <1>1, <1>2

LEMMA ProfileList ==
    ASSUME PagesOK, ListOK, NEW f \in Runs,
           ProfileAsked(f) \/ ProfileRead(f) \/ ProfileArrives(f) \/ ProfileFails(f)
    PROVE  ListOK'
<1>1. AllTame
  <2>1. run[f].stage \notin Requesting
    BY DEF ProfileAsked, ProfileRead, ProfileArrives, ProfileFails, ListOK, WorkOK, Requesting
  <2>2. run[f].stage # "idle"
    BY <2>1 DEF Requesting
  <2>. QED
    BY <2>1, <2>2, ProfileRuns, SelfTame DEF AllTame, Tame, Requesting
<1>2. scene' = scene /\ page' = page /\ hints' = hints
  BY DEF ProfileAsked, ProfileRead, ProfileArrives, ProfileFails
<1>3. CASE cache' = cache /\ ~(ProfileArrives(f) /\ Watched = Me)
  <2>1. SameList
    BY <1>2, <1>3 DEF SameList, SameData
  <2>2. cause' = None => cause = None /\ Loyal
    BY <1>3, ProfileWorks
  <2>. QED
    BY <1>1, <2>1, <2>2, CarryList
<1>4. CASE ProfileArrives(f) /\ Watched = Me
  <2>0. cache \in Cache /\ CacheOK
    BY DEF PagesOK, TypeOK, ListOK
  <2>1. /\ cache'.fetch = cache.fetch /\ cache'.late = cache.late
        /\ cache'.invalid = cache.invalid /\ cache'.loaded = cache.loaded
        /\ cache'.missing = IF run[f].profile = "read" THEN {} ELSE cache.missing \cup {Earlier}
    BY <1>4, <2>0 DEF ProfileArrives, Cache
  <2>2. CacheOK'
    BY <1>2, <1>4, <2>0, <2>1 DEF CacheOK, Watched
  <2>3. WorkOK'
    BY <1>1, <1>2, CarryWork DEF ListOK, WorkOK
  <2>4. Covered'
    <3>. SUFFICES ASSUME cause' = None, NoGap' PROVE Settling'
      BY DEF Covered
    <3>1. CASE run[f].profile = "read"
      BY <1>2, <1>4, <2>1, <3>1 DEF Settling, Watched
    <3>2. CASE run[f].profile # "read"
      <4>1. run[f].profile = "old" /\ cause = None /\ Loyal
        BY <1>4, <3>2, ProfileWorks DEF ProfileArrives
      <4>2. cache.missing # {}
        <5>1. cause' = Because(IF cache.missing = {} THEN {"crossed"} ELSE {})
          BY <1>4, <4>1 DEF ProfileArrives
        <5>. QED
          BY <5>1, BecauseNone DEF None
      <4>3. cache'.missing = cache.missing
        BY <1>4, <2>0, <2>1, <3>2, <4>2 DEF CacheOK
      <4>4. SameList
        BY <1>2, <2>1, <4>3 DEF SameList, SameData
      <4>. QED
        BY <1>1, <4>1, <4>4, CarryList DEF ListOK, Covered
    <3>. QED
      BY <3>1, <3>2
  <2>. QED
    BY <2>2, <2>3, <2>4 DEF ListOK
<1>. QED
  BY <1>3, <1>4 DEF ProfileAsked, ProfileRead, ProfileArrives, ProfileFails

-----------------------------------------------------------------------------
(* Fetches and invalidations *)

LEMMA ReleasedLoyal ==
    ASSUME PagesOK, scene' = scene,
           (\E S : run' = Released(run, S)) \/ run' = NoLongerAwaited \/ run' = run
    PROVE  AllTame /\ Loyal
<1>1. \A g \in Runs : Alike(run[g], run'[g])
  BY DEF Released, NoLongerAwaited, Alike, PagesOK, TypeOK, Run
<1>. QED
  BY <1>1, AlikeKeeps DEF AllTame, Loyal

LEMMA InvalidatedList ==
    ASSUME NEW c \in Cache, NEW S
    PROVE  /\ Invalidated(c, S).missing = c.missing /\ Invalidated(c, S).loaded = c.loaded
           /\ Restarts(S) => /\ Invalidated(c, S).fetch = "asked"
                             /\ Invalidated(c, S).late = {}
           /\ ~Restarts(S) => /\ Invalidated(c, S).fetch = c.fetch
                              /\ Invalidated(c, S).late = c.late
                              /\ Invalidated(c, S).invalid = (c.invalid \/ Watched \in S)
  BY DEF Invalidated, Cache

(* A list that is invalidated gets all it lacks: from a new request, from    *)
(* one under way that nothing has overtaken, or when it is displayed again  *)
LEMMA InvalidatedSettles ==
    ASSUME PagesOK, CacheOK, NEW S, Watched \in S, Overtaken(S) = {},
           NEW c \in Cache, c.fetch = cache.fetch, c.late = cache.late,
           cache' = Invalidated(c, S), scene' = scene, page' = page
    PROVE  Settling'
<1>1. CASE Restarts(S)
  BY <1>1, InvalidatedList DEF Settling, Comes
<1>2. CASE ~Restarts(S)
  <2>1. cache.late = {}
    BY <1>2 DEF Overtaken
  <2>2. cache'.late = {} /\ cache'.fetch = cache.fetch /\ cache'.invalid = TRUE
    BY <1>2, <2>1, InvalidatedList, ListFields
  <2>3. CASE cache.fetch = "none"
    <3>1. Watched \notin Active
      BY <1>2, <2>3 DEF Restarts
    <3>2. Marked'
      BY <2>2, <2>3, <3>1 DEF Marked, Active, Watched
    <3>. QED
      BY <2>2, <3>2 DEF Settling, Promised
  <2>4. CASE cache.fetch \in {"asked", "read"}
    BY <2>2, <2>4 DEF Settling, Comes
  <2>. QED
    BY <2>3, <2>4, ListFields DEF PagesOK, TypeOK
<1>. QED
  BY <1>1, <1>2

LEMMA InvalidatedCache ==
    ASSUME CacheOK, NEW c \in Cache, NEW S, c.fetch = cache.fetch, c.late = cache.late,
           c.loaded = cache.loaded, ~c.loaded => c.missing = {},
           Watched = Me => c.missing \subseteq {Earlier},
           cache' = Invalidated(c, S), scene' = scene
    PROVE  CacheOK'
  BY InvalidatedList DEF CacheOK, Watched

(* Hints and buttons that fetch again *)
LEMMA AskedAgain ==
    ASSUME PagesOK, ListOK, NEW S, cache' = Invalidated(cache, S), scene' = scene, page' = page,
           cause' = Because(Overtaken(S)), run' = Released(run, S),
           \A k \in hints : k \in hints' \/ Watched \in S \/ Watched \notin Hears(page, k)
    PROVE  ListOK'
<1>1. cache \in Cache /\ CacheOK
  BY DEF PagesOK, TypeOK, ListOK
<1>2. CacheOK'
  BY <1>1, InvalidatedCache DEF CacheOK
<1>3. AllTame /\ Loyal
  BY ReleasedLoyal
<1>4. WorkOK'
  BY <1>3, CarryWork DEF ListOK, WorkOK
<1>5. Covered'
  <2>. SUFFICES ASSUME cause' = None, NoGap' PROVE Settling'
    BY DEF Covered
  <2>1. cause = None /\ Overtaken(S) = {}
    BY BecauseNone DEF Overtaken, None
  <2>2. Settling
    BY <2>1 DEF ListOK, Covered, NoGap, Watched
  <2>3. CASE Watched \in S
    BY <1>1, <2>1, <2>3, InvalidatedSettles
  <2>4. CASE Watched \notin S
    <3>1. ~Restarts(S)
      BY <2>4 DEF Restarts
    <3>2. /\ cache'.missing = cache.missing /\ cache'.late = cache.late
          /\ cache'.fetch = cache.fetch /\ cache'.invalid = cache.invalid
      BY <1>1, <2>4, <3>1, InvalidatedList, ListFields
    <3>3. (Promised => Promised') /\ \A x : Patching(x) => Patching(x)'
      BY <1>3, <2>4, <3>2, OwingKept DEF Promised, Heard, Marked, Watched, Active
    <3>. QED
      BY <2>2, <3>2, <3>3 DEF Settling, Comes, Watched
  <2>. QED
    BY <2>3, <2>4
<1>. QED
  BY <1>2, <1>4, <1>5 DEF ListOK

LEMMA ArrivesList ==
    ASSUME PagesOK, ListOK, FetchArrives
    PROVE  ListOK'
<1>1. /\ scene' = scene /\ page' = page /\ hints' = hints /\ cache.fetch = "read"
      /\ cache'.missing = cache.late /\ cache'.late = {} /\ cache'.loaded = TRUE
      /\ cache'.fetch = "none"
  BY DEF FetchArrives
<1>2. AllTame /\ Loyal
  BY <1>1, ReleasedLoyal DEF FetchArrives
<1>3. CacheOK'
  BY <1>1 DEF ListOK, CacheOK, Watched
<1>4. WorkOK'
  BY <1>1, <1>2, CarryWork DEF ListOK, WorkOK
<1>5. Covered'
  <2>. SUFFICES ASSUME cause' = None, NoGap' PROVE Settling'
    BY DEF Covered
  <2>1. CASE cache.late = {}
    BY <1>1, <2>1 DEF Settling
  <2>2. CASE cache.late # {}
    <3>1. cause' = Because(IF Watched = Me /\ cache.missing = {} /\ cache.late # {}
                           THEN {"crossed"} ELSE {})
      BY <2>2 DEF FetchArrives
    <3>2. cause = None /\ (Watched = Me => cache.missing # {})
      BY <2>2, <3>1, BecauseNone DEF None
    <3>3. Settling
      BY <1>1, <3>2 DEF ListOK, Covered, NoGap, Watched
    <3>4. \A x \in cache.late : Promised \/ Patching(x)
      <4>1. CASE Watched # Me
        BY <3>3, <4>1 DEF Settling
      <4>2. CASE Watched = Me
        <5>1. cache.missing = {Earlier} /\ cache.late = {Earlier}
          BY <2>2, <3>2, <4>2 DEF ListOK, CacheOK
        <5>. QED
          BY <1>1, <3>3, <5>1 DEF Settling, Comes
      <4>. QED
        BY <4>1, <4>2
    <3>5. (Promised => Promised') /\ \A x : Patching(x) => Patching(x)'
      BY <1>1, <1>2, OwingKept DEF Promised, Heard, Marked, Watched, Active
    <3>. QED
      BY <1>1, <3>4, <3>5 DEF Settling
  <2>. QED
    BY <2>1, <2>2
<1>. QED
  BY <1>3, <1>4, <1>5 DEF ListOK

LEMMA FetchList ==
    ASSUME PagesOK, ListOK,
           Reload \/ Refocus \/ FetchRead \/ FetchArrives \/ FetchFails
             \/ \E k \in Kinds \cup {"open"} : HintArrives(k)
    PROVE  ListOK'
<1>0. cache \in Cache /\ CacheOK
  BY DEF PagesOK, TypeOK, ListOK
<1>1. CASE Reload
  <2>. PICK S : S = {Watched}
    OBVIOUS
  <2>1. /\ cache' = Invalidated(cache, S) /\ scene' = scene /\ page' = page
        /\ cause' = Because(Overtaken(S)) /\ run' = Released(run, S) /\ hints' = hints
    BY <1>1 DEF Reload
  <2>. QED
    BY <2>1, AskedAgain
<1>2. ASSUME NEW k \in Kinds \cup {"open"}, HintArrives(k) PROVE ListOK'
  <2>. PICK S : S = Hears(page, k)
    OBVIOUS
  <2>1. /\ cache' = Invalidated(cache, S) /\ scene' = scene /\ page' = page
        /\ cause' = Because(Overtaken(S)) /\ run' = Released(run, S) /\ hints' = hints \ {k}
    BY <1>2 DEF HintArrives
  <2>2. \A j \in hints : j \in hints' \/ Watched \in S \/ Watched \notin Hears(page, j)
    BY <2>1
  <2>. QED
    BY <2>1, <2>2, AskedAgain
<1>3. CASE Refocus \/ FetchRead
  <2>1. /\ scene' = scene /\ page' = page /\ run' = run
        /\ cache'.missing = cache.missing /\ cache'.loaded = cache.loaded
        /\ cache'.late = {} /\ cache'.fetch \in {"asked", "read"}
    BY <1>0, <1>3 DEF Refocus, FetchRead, Cache, CacheOK
  <2>2. CacheOK'
    BY <1>0, <2>1 DEF CacheOK, Watched
  <2>3. WorkOK'
    BY <2>1, ReleasedLoyal, CarryWork DEF ListOK, WorkOK
  <2>4. Settling'
    BY <2>1 DEF Settling, Comes
  <2>. QED
    BY <2>2, <2>3, <2>4 DEF ListOK, Covered
<1>4. CASE FetchFails
  <2>1. /\ scene' = scene /\ page' = page /\ run' = NoLongerAwaited
        /\ cache'.missing = cache.missing /\ cache'.loaded = cache.loaded
        /\ cache'.late = {} /\ cause' = Because({"failed"})
    BY <1>0, <1>4 DEF FetchFails, Cache
  <2>2. CacheOK'
    BY <1>0, <2>1 DEF CacheOK, Watched
  <2>3. WorkOK'
    BY <2>1, ReleasedLoyal, CarryWork DEF ListOK, WorkOK
  <2>4. cause' # None
    BY <2>1, BecauseNone DEF None
  <2>. QED
    BY <2>2, <2>3, <2>4 DEF ListOK, Covered
<1>. QED
  BY <1>1, <1>2, <1>3, <1>4, ArrivesList

-----------------------------------------------------------------------------
(* A handler goes on *)

LEMMA PatchedList ==
    ASSUME PagesOK, NEW f \in Runs, run[f].stage = "answered", NEW c, c = Patched(f, cache)
    PROVE  /\ c \in Cache /\ c.fetch = cache.fetch /\ c.late = cache.late
           /\ c.loaded = cache.loaded
           /\ ~Patches(run[f].op) \/ ~cache.loaded => c = cache
           /\ c.missing \in {cache.missing, cache.missing \ {f}, cache.missing \cup {Earlier}}
           /\ PatchRisks(f) = {} =>
                c.missing = IF /\ Patches(run[f].op) /\ run[f].op.column = None
                               /\ cache.loaded /\ run[f].ok
                            THEN cache.missing \ {f} ELSE cache.missing
<1>. PICK o, k : o = run[f].op /\ k = Key(f)
  OBVIOUS
<1>0. /\ TypeOK /\ cache \in Cache /\ o \in Ops /\ run[f].row \in Rows /\ k \in Keys
      /\ Writes(o) => run[f].held \in Values /\ run[f].next \in Values
  BY CacheFields, KeyType DEF PagesOK, HandlersOK, Key
<1>1. c \in Cache
  BY <1>0, PatchedType
<1>2. ASSUME NEW v, NEW p, p = Put(cache, k, v)
      PROVE  /\ p.loaded = cache.loaded /\ p.fetch = cache.fetch
             /\ p.late = cache.late /\ p.missing = cache.missing
  BY <1>0, <1>2 DEF Put, Touched, Cache
<1>3. CASE \/ ~Patches(o) \/ ~cache.loaded \/ (run[f].ok /\ o.patch = "guess")
           \/ ~run[f].ok /\ (o.patch = "answer" \/ o.column = None)
  <2>1. c = cache
    BY <1>3 DEF Patched
  <2>2. o.patch = "guess" => o.column # None
    BY <1>0, HandlersAssumption
  <2>. QED
    BY <1>1, <1>3, <2>1, <2>2
<1>4. CASE ~run[f].ok /\ Patches(o) /\ cache.loaded /\ o.patch # "answer" /\ o.column # None
  <2>1. c = Put(cache, k, run[f].held)
    BY <1>4 DEF Patched
  <2>. QED
    BY <1>1, <1>2, <1>4, <2>1
<1>5. CASE run[f].ok /\ Patches(o) /\ cache.loaded /\ o.patch # "guess" /\ o.column = None
  <2>1. c = [Touched(cache) EXCEPT !.missing = @ \ {f}]
    BY <1>5 DEF Patched
  <2>2. /\ c.loaded = cache.loaded /\ c.fetch = cache.fetch /\ c.late = cache.late
        /\ c.missing = cache.missing \ {f}
    BY <1>0, <2>1 DEF Touched, Cache
  <2>. QED
    BY <1>1, <1>5, <2>2
<1>6. CASE run[f].ok /\ Patches(o) /\ cache.loaded /\ o.patch # "guess" /\ o.column # None
  <2>. PICK p : p = Put(cache, k, run[f].next)
    OBVIOUS
  <2>1. p = Put(cache, k, run[f].next)
    OBVIOUS
  <2>2. c = [p EXCEPT !.missing = IF run[f].older THEN @ \cup {Earlier} ELSE @]
    BY <1>6 DEF Patched
  <2>3. /\ p.loaded = cache.loaded /\ p.fetch = cache.fetch
        /\ p.late = cache.late /\ p.missing = cache.missing
    BY <1>2, <2>1
  <2>4. /\ c.loaded = p.loaded /\ c.fetch = p.fetch /\ c.late = p.late
        /\ c.missing = IF run[f].older THEN p.missing \cup {Earlier} ELSE p.missing
    BY <1>0, <2>1, <2>2 DEF Put, Touched, Cache
  <2>5. PatchRisks(f) = {} => ~run[f].older
    BY <1>6 DEF PatchRisks
  <2>. QED
    BY <1>1, <1>6, <2>3, <2>4, <2>5
<1>. QED
  BY <1>3, <1>4, <1>5, <1>6

(* What PatchRisks leaves of a patch that has its change *)
LEMMA PatchSafe ==
    ASSUME PagesOK, CacheOK, NEW f \in Runs, run[f].stage = "answered",
           PatchRisks(f) = {}, Patching(f)
    PROVE  f \notin Patched(f, cache).missing /\ f \notin cache.late
<1>1. Patches(run[f].op) /\ run[f].ok /\ run[f].op.column = None
  BY DEF Patching, WillPatch, Going, Patches
<1>2. f \notin cache.late
  BY <1>1 DEF PatchRisks
<1>. PICK c : c = Patched(f, cache)
  OBVIOUS
<1>3. c.missing = IF cache.loaded THEN cache.missing \ {f} ELSE cache.missing
  BY <1>1, PatchedList
<1>. QED
  BY <1>2, <1>3 DEF CacheOK

LEMMA ResumeKeeps ==
    ASSUME NEW r, NEW q, NEW l, r.stage = "answered", q.stage = "waiting",
           q.op = r.op, q.ok = r.ok,
           r.op.profile \in {"no", "with", "after"},
           q.profile = IF r.ok /\ r.op.profile = "with" THEN "asked" ELSE "none",
           Owes(r, l), l \notin r.op.refetches
    PROVE  Owes(q, l)
  BY DEF Owes, Going, Fetches, AsksProfile

LEMMA ResumeSettles ==
    ASSUME PagesOK, CacheOK, Settling, NEW f \in Runs, NEW S \in ToRefetch(f),
           run[f].stage = "answered", run[f].op \in Ops,
           PatchRisks(f) = {}, Unmarked(Patched(f, cache)) = {}, Overtaken(S) = {},
           cache' = Invalidated(Patched(f, cache), S),
           scene' = scene, page' = page, hints' = hints,
           \A g \in Runs : g # f => Keeps(run[g], run'[g], Watched),
           Watched \notin run[f].op.refetches =>
               (Owes(run[f], Watched) => Owes(run'[f], Watched))
    PROVE  Settling'
<1>. PICK c : c = Patched(f, cache)
  OBVIOUS
<1>0. TypeOK /\ c \in Cache
  BY PatchedList DEF PagesOK
<1>1. CASE Watched \in S
  BY <1>0, <1>1, PatchedList, InvalidatedSettles
<1>2. CASE Watched \notin S
  <2>1. ~Restarts(S)
    BY <1>2 DEF Restarts
  <2>2. /\ cache'.missing = c.missing /\ cache'.late = cache.late
        /\ cache'.fetch = cache.fetch /\ cache'.invalid = c.invalid
    <3>1. cache' = Invalidated(c, S)
      OBVIOUS
    <3>2. /\ c.fetch = cache.fetch /\ c.late = cache.late /\ c.invalid \in BOOLEAN
      BY <1>0, PatchedList, ListFields
    <3>3. /\ cache'.missing = c.missing /\ cache'.late = c.late
          /\ cache'.fetch = c.fetch /\ cache'.invalid = (c.invalid \/ Watched \in S)
      <4>1. c \in Cache
        BY <1>0
      <4>. HIDE DEF Watched
      <4>. QED
        BY <2>1, <3>1, <4>1, InvalidatedList
    <3>4. cache'.invalid = c.invalid
      BY <1>2, <3>2, <3>3
    <3>. QED
      BY <3>2, <3>3, <3>4
  <2>3. Owing => Owing'
    <3>1. run[f].ok => Watched \notin run[f].op.refetches
      BY <1>2 DEF ToRefetch
    <3>2. Owes(run[f], Watched) => run[f].ok
      BY OwesNothing
    <3>3. \A g \in Runs : Owes(run[g], Watched) => Owes(run'[g], Watched)
      BY <3>1, <3>2 DEF Keeps
    <3>. QED
      BY <3>3 DEF Owing, Watched
  <2>4. Heard => Heard'
    BY DEF Heard, Watched
  <2>5. Marked => Marked' \/ c.missing = {}
    BY <1>0, <2>2, PatchedList, ListFields DEF Unmarked, Marked, Active, Watched, TypeOK
  <2>6. \A x : x # f => (Patching(x) => Patching(x)')
    BY DEF Patching, Keeps, Watched
  <2>8. ASSUME NEW x \in c.missing PROVE Comes(x)' \/ Promised' \/ Patching(x)'
    <3>1. x \in cache.missing /\ ~(x = f /\ Patching(f))
      <4>0. c.missing = IF /\ Patches(run[f].op) /\ run[f].op.column = None
                           /\ cache.loaded /\ run[f].ok
                        THEN cache.missing \ {f} ELSE cache.missing
        BY PatchedList
      <4>1. c.missing \subseteq cache.missing
        BY <4>0
      <4>2. Patching(f) => f \notin c.missing
        BY PatchSafe
      <4>. QED
        BY <2>8, <4>1, <4>2
    <3>2. Comes(x) \/ Promised \/ Patching(x)
      BY <3>1 DEF Settling
    <3>3. Comes(x) => Comes(x)'
      BY <2>2 DEF Comes
    <3>4. Promised => Promised'
      BY <2>3, <2>4, <2>5, <2>8 DEF Promised
    <3>. QED
      BY <2>6, <3>1, <3>2, <3>3, <3>4
  <2>9. ASSUME Watched # Me, NEW x \in cache.late PROVE Promised' \/ Patching(x)'
    <3>1. Promised \/ Patching(x)
      BY <2>9 DEF Settling
    <3>2. Promised => Promised'
      <4>1. ~Marked
        BY <2>9 DEF Marked, CacheOK
      <4>. QED
        BY <2>3, <2>4, <4>1 DEF Promised
    <3>3. ~(x = f /\ Patching(f))
      BY <1>0, <2>9, PatchSafe
    <3>. QED
      BY <2>6, <3>1, <3>2, <3>3
  <2>. QED
    BY <2>2, <2>8, <2>9 DEF Settling, Watched
<1>. QED
  BY <1>1, <1>2

LEMMA ResumeList ==
    ASSUME PagesOK, ListOK, NEW f \in Runs, Resume(f)
    PROVE  ListOK'
<1>1. PICK S \in ToRefetch(f) :
         LET o == run[f].op
             runs == [Released(run, S) EXCEPT
                        ![f].stage = "waiting",
                        ![f].awaits = Watched \in (S \cap Active) \ (o.loose \cup {Me}),
                        ![f].profile = IF run[f].ok /\ o.profile = "with" THEN "asked"
                                       ELSE "none"]
             risks == Overtaken(S) \cup PatchRisks(f) \cup Unmarked(Patched(f, cache))
         IN  /\ cache' = Invalidated(Patched(f, cache), S)
             /\ IF Outcome(f) = "void first" THEN Alert(Nobody, runs, risks)
                ELSE run' = runs /\ cause' = Because(risks) /\ UNCHANGED dialog
  BY DEF Resume
<1>. DEFINE old == Released(run, S)
            runs == [old EXCEPT
                        ![f].stage = "waiting",
                        ![f].awaits = Watched \in (S \cap Active) \ (run[f].op.loose \cup {Me}),
                        ![f].profile = IF run[f].ok /\ run[f].op.profile = "with" THEN "asked"
                                       ELSE "none"]
            risks == Overtaken(S) \cup PatchRisks(f) \cup Unmarked(Patched(f, cache))
<1>2. runs \in [Runs -> Run]
  BY ResumedType DEF PagesOK
<1>3. /\ runs[f].op = run[f].op /\ runs[f].ok = run[f].ok /\ runs[f].stage = "waiting"
      /\ runs[f].displaced = run[f].displaced
      /\ runs[f].profile = IF run[f].ok /\ run[f].op.profile = "with" THEN "asked" ELSE "none"
      /\ \A g \in Runs : g # f => Alike(run[g], runs[g])
  <2>1. \A g \in Runs : Alike(run[g], old[g])
    BY DEF Released, Alike, PagesOK, TypeOK, Run
  <2>2. old \in [Runs -> Run]
    BY ReleasedType DEF PagesOK, TypeOK
  <2>. HIDE DEF old
  <2>. QED
    BY <2>1, <2>2 DEF Run, Alike
<1>4. /\ \/ Alert(Nobody, runs, risks)
         \/ run' = runs /\ cause' = Because(risks)
      /\ scene' = scene /\ page' = page /\ hints' = hints /\ run[f].stage = "answered"
      /\ cache' = Invalidated(Patched(f, cache), S)
  BY <1>1 DEF Resume
<1>5. None \notin risks
  BY DEF Overtaken, PatchRisks, Unmarked, None
<1>6. risks = {} => /\ Overtaken(S) = {} /\ PatchRisks(f) = {}
                    /\ Unmarked(Patched(f, cache)) = {}
  OBVIOUS
<1>. HIDE DEF runs, risks, old
<1>7. /\ run[f].op \in Ops /\ run[f].op \in scene.ops /\ page \in scene.pages
      /\ run[f].op.profile \in {"no", "with", "after"} /\ TypeOK /\ CacheOK
  BY <1>4, PagesAssumption DEF PagesOK, HandlersOK, ListOK, WorkOK, Op
<1>8. CacheOK'
  <2>. PICK c : c = Patched(f, cache)
    OBVIOUS
  <2>1. Watched = Me => c = cache
    BY <1>4, <1>7, PatchedList, RefetchAssumption DEF Patches
  <2>2. ~c.loaded => c.missing = {}
    BY <1>4, <1>7, PatchedList DEF CacheOK
  <2>. QED
    BY <1>4, <1>7, <2>1, <2>2, PatchedList, InvalidatedCache DEF CacheOK
<1>9. \A g \in Runs : Tame(run[g], runs[g])
  BY <1>3, <1>4, AlikeKeeps DEF Tame, Requesting
<1>10. AllTame
  BY <1>2, <1>4, <1>9, AlertTame DEF AllTame
<1>11. WorkOK'
  BY <1>4, <1>7, <1>10, CarryWork DEF ListOK
<1>12. Covered'
  <2>. SUFFICES ASSUME cause' = None, NoGap' PROVE Settling'
    BY DEF Covered
  <2>1. /\ cause = None /\ risks = {}
        /\ \A g \in Runs : \A l : Keeps(run[g], runs[g], l) => Keeps(run[g], run'[g], l)
    BY <1>2, <1>4, <1>5, AlertLoyal, BecauseNone
  <2>2. Settling
    BY <1>4, <2>1 DEF ListOK, Covered, NoGap, Watched
  <2>3. \A g \in Runs : g # f => Keeps(run[g], run'[g], Watched)
    BY <1>3, <2>1, AlikeKeeps
  <2>4. run'[f].op = runs[f].op /\ run'[f].ok = runs[f].ok /\ run'[f].stage = runs[f].stage
        /\ run'[f].profile = runs[f].profile
    BY <1>2, <1>4, AlertShape DEF PagesOK, Become
  <2>5. Watched \notin run[f].op.refetches =>
               (Owes(run[f], Watched) => Owes(run'[f], Watched))
    BY <1>3, <1>4, <1>7, <2>4, ResumeKeeps
  <2>. QED
    BY <1>4, <1>6, <1>7, <2>1, <2>2, <2>3, <2>5, ResumeSettles
<1>. QED
  BY <1>8, <1>11, <1>12 DEF ListOK

-----------------------------------------------------------------------------
(* Pages and parts that go *)

LEMMA LeftLoyal ==
    ASSUME PagesOK, NEW g \in Runs, run'[g] = Left(g)
    PROVE  Tame(run[g], run'[g]) /\ \A l : Keeps(run[g], run'[g], l)
<1>1. CASE Free(g) \/ (run[g].stage = "telling" /\ dialog.alertRef # g)
  <2>1. run'[g] = Idle
    BY <1>1 DEF Left
  <2>2. \/ run[g].stage \in {"idle", "asking"}
        \/ run[g].stage = "telling" /\ run[g].displaced
    BY <1>1 DEF Free, PagesOK, DialogOK, StuckOnlyByReplacement
  <2>. QED
    BY <2>1, <2>2, IdleTame, OwesNothing DEF Keeps
<1>2. CASE ~(Free(g) \/ (run[g].stage = "telling" /\ dialog.alertRef # g))
  <2>. PICK r \in Run : r = run[g]
    BY RunTypes DEF PagesOK
  <2>1. run'[g] = [r EXCEPT !.here = FALSE]
    BY <1>2 DEF Left
  <2>2. Alike(run[g], run'[g])
    BY <2>1 DEF Run, Alike
  <2>. QED
    BY <2>2, AlikeKeeps
<1>. QED
  BY <1>1, <1>2

LEMMA FoldList ==
    ASSUME PagesOK, ListOK, NEW s \in Slots, Fold(s)
    PROVE  ListOK'
<1>1. SameList /\ cause' = cause
  BY DEF Fold, SameList, SameData
<1>2. \A g \in Runs : run'[g] = Left(g) \/ run'[g] = run[g]
  BY DEF Fold
<1>3. AllTame /\ Loyal
  BY <1>2, LeftLoyal, SelfTame DEF AllTame, Loyal
<1>. QED
  BY <1>1, <1>3, CarryList

(* A list that is displayed again is fetched when it is marked, and a hint   *)
(* on its way still finds a page that hears it, or cause says so            *)
LEMMA NavigateList ==
    ASSUME PagesOK, ListOK, NEW p \in Screens, Navigate(p)
    PROVE  ListOK'
<1>0. cache \in Cache /\ CacheOK
  BY DEF PagesOK, TypeOK, ListOK
<1>1. /\ scene' = scene /\ page' = p /\ p \in scene.pages /\ hints \subseteq hints'
      /\ cause' = Because(LeftUnheard(p))
      /\ cache'.missing = cache.missing /\ cache'.late = cache.late
      /\ cache'.invalid = cache.invalid /\ cache'.loaded = cache.loaded
      /\ cache'.fetch = IF Mounts(p) THEN "asked" ELSE cache.fetch
  BY <1>0 DEF Navigate, Cache
<1>2. AllTame /\ Loyal
  BY LeftLoyal DEF Navigate, AllTame, Loyal
<1>3. Mounts(p) => cache.late = {}
  BY <1>0 DEF Mounts, CacheOK
<1>4. CacheOK'
  BY <1>0, <1>1, <1>3 DEF CacheOK, Watched
<1>5. WorkOK'
  BY <1>1, <1>2, CarryWork DEF ListOK
<1>6. Covered'
  <2>. SUFFICES ASSUME cause' = None, NoGap' PROVE Settling'
    BY DEF Covered
  <2>1. cause = None /\ LeftUnheard(p) = {}
    BY <1>1, BecauseNone DEF LeftUnheard, None
  <2>2. Settling
    BY <1>1, <2>1 DEF ListOK, Covered, NoGap, Watched
  <2>3. CASE Mounts(p)
    BY <1>1, <1>3, <2>3 DEF Settling, Comes
  <2>4. CASE cache.missing \cup cache.late = {}
    BY <1>1, <2>4 DEF Settling
  <2>5. CASE ~Mounts(p) /\ cache.missing \cup cache.late # {}
    <3>1. Heard => Heard'
      BY <1>1, <2>1, <2>5 DEF LeftUnheard, Heard, Watched
    <3>2. Marked => Marked'
      <4>1. Watched \notin Active => Watched # Me
        BY RefetchAssumption DEF Active, PagesOK, TypeOK
      <4>. QED
        BY <1>1, <2>5, <4>1 DEF Mounts, Marked, Active, Watched
    <3>3. (Promised => Promised') /\ \A x : Patching(x) => Patching(x)'
      BY <1>1, <1>2, <3>1, <3>2, OwingKept DEF Promised
    <3>4. \A x : Comes(x) => Comes(x)'
      BY <1>1, <2>5 DEF Comes
    <3>. QED
      BY <1>1, <2>2, <3>3, <3>4 DEF Settling, Watched
  <2>. QED
    BY <2>3, <2>4, <2>5
<1>. QED
  BY <1>4, <1>5, <1>6 DEF ListOK

LEMMA ListStep ==
    ASSUME PagesOK, ListOK, [Next]_vars PROVE ListOK'
<1>1. CASE \E f \in scene.runs, o \in scene.ops, r \in Rows : Press(f, o, r)
  BY <1>1, SceneOps, PressList DEF PagesOK
<1>2. CASE \E f \in Runs : Proceed(f) \/ AnswerLost(f) \/ ProfileFails(f)
  BY <1>2, ActsList, AttachList, AnswerList, TellList, ResumeList, ProfileList, EndList
  DEF Proceed
<1>3. CASE UNCHANGED vars
  <2>1. SameList /\ AllTame /\ Loyal /\ cause' = cause
    BY <1>3, SelfTame DEF vars, SameList, SameData, AllTame, Loyal
  <2>. QED
    BY <2>1, CarryList
<1>. QED
  BY <1>1, <1>2, <1>3, NobodyList, ConfirmList, CloseList, FetchList, NavigateList, FoldList
  DEF Next

LEMMA InitList == Init => ListOK
<1>. SUFFICES ASSUME Init PROVE ListOK
  OBVIOUS
<1>1. \A f \in Runs : run[f].stage = "idle" /\ run[f].profile = "none"
  BY DEF Init, Idle
<1>2. WorkOK
  BY <1>1, RefetchAssumption DEF Init, WorkOK
<1>3. CacheOK
  BY DEF Init, CacheOK, Watched
<1>4. Settling
  BY DEF Init, Settling
<1>. QED
  BY <1>2, <1>3, <1>4 DEF ListOK, Covered

(* When all has settled, the list on display has every change that this      *)
(* browser made, and of the column that handlers write it shows what the     *)
(* server has, whatever handlers, hints, fetches and patches it crossed and  *)
(* whatever pages were left meanwhile, but for the causes that are named    *)
(* (among them that two handlers had one row in hand, or took along what     *)
(* was not current, and wrote that back) and the lists that no handler       *)
(* fetches again (the invalidations of the pages, onRealtime, AuthProvider). *)
THEOREM ShownInTheEnd == Spec => []ShownCurrent
<1>1. PagesOK /\ ListOK /\ [Next]_vars => ListOK'
  BY ListStep
<1>2. PagesOK /\ ListOK => ShownCurrent
  <2>. SUFFICES ASSUME PagesOK, ListOK, AtRest, Watched \in Active,
                       cache.missing # {} \/ (cache.loaded /\ cache.shown # server),
                       cause = None, NoGap
                PROVE  FALSE
    BY DEF ShownCurrent, NoGap
  <2>1. Settling
    BY DEF ListOK, Covered
  <2>2. ASSUME NEW f \in Runs PROVE ~Owes(run[f], Watched) /\ ~WillPatch(run[f], Watched)
    <3>1. \/ run[f].stage \in {"idle", "asking"}
          \/ run[f].stage = "telling" /\ (run[f].displaced \/ Outcome(f) = "await")
      BY DEF AtRest
    <3>2. Outcome(f) = "await" => ~run[f].ok \/ run[f].op.success # "await first"
      BY DEF Outcome
    <3>. QED
      BY <3>1, <3>2, OwesNothing
  <2>3. \A x : ~Comes(x) /\ ~Patching(x)
    BY <2>2 DEF AtRest, Comes, Patching
  <2>4. ~Promised
    BY <2>2 DEF AtRest, Promised, Owing, Heard, Marked
  <2>5. cache.missing = {}
    BY <2>1, <2>3, <2>4 DEF Settling
  <2>6. \A f \in Runs, k \in Keys : ~Showing(f, k)
    BY DEF AtRest, Showing, Patcher, Hand, InHand, UnderWay
  <2>7. cache.loaded => \A k \in Keys : cache.shown[k] = server[k]
    BY <2>5, <2>6 DEF PagesOK, GuessOK, Unharmed, ShownTrue
  <2>8. cache.shown \in [Keys -> Values] /\ server \in [Keys -> Values]
    BY CacheFields DEF PagesOK
  <2>9. cache.loaded => cache.shown = server
    BY <2>7, <2>8
  <2>. QED
    BY <2>5, <2>9
<1>. QED
  BY <1>1, <1>2, InitList, PagesInvariant, PTL DEF Spec
=============================================================================
