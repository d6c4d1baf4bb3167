------------------------------ MODULE Desktop ------------------------------
(***************************************************************************)
(* The desktop application's input: the overlays and modals of its window, *)
(* who gets a key or a click, the commands, and the engine's mutex that    *)
(* its thread shares with the threads of the control socket.  A handler    *)
(* that ends in `persist` is two steps: what it does under the lock, and   *)
(* the save, which takes the lock again.                                   *)
(* The engine is what the other modules say it is; here it is the tasks in *)
(* their order of insertion and what waits for a decision.                 *)
(***************************************************************************)
EXTENDS Integers, Sequences, SequencesExt, FiniteSets

CONSTANTS Tasks, Replans, Agents   \* what a decision may be about

VARIABLES
    view,     \* the fields of App that say what is open
    engine,   \* [order, status, replans, permits, paused, tab]
    saving,   \* the handler has come to persist
    held,     \* ... and holds the guard it took itself
    demo      \* demo_mode: nothing is saved, tabs own overlays

vars == <<view, engine, saving, held, demo>>

None == "none"
Statuses == {"Ready", "Blocked", "NeedsReview", "Done"}
Titles == <<"Workflow", "Timeline", "Agent">>   \* the tabs of the demo

Overlays == {None, "EmptyState", "ProviderSetup", "Tasks"}
ListFilters == {"All", "Blocked", "NeedsReview"}

Listing == {"RunTasks", "ToggleTasks", "CreateTask", "ShowBlockedTasks",
            "ShowTasksNeedingReview", "OpenTask"}
OnSelected == {"CancelSelectedTask", "RetrySelectedTask", "ApproveSelectedTask",
               "RejectSelectedTask", "OpenSelectedTaskAgent"}
Controls == {"StopAll", "PauseAll", "ResumeAll", "ToggleApprovalCenter",
             "Timeline", "WorkflowSummary"}
(* "Other" stands for the commands on panes, workspaces and agents, which  *)
(* leave the view alone.                                                   *)
Commands == Listing \cup OnSelected \cup Controls
              \cup {"ToggleCommandPalette", "NextTab", "Other"}
default_bindings == Commands \ {"CreateTask", "ShowBlockedTasks", "OpenTask",
    "ShowTasksNeedingReview", "ApproveSelectedTask", "RejectSelectedTask"}
palette == Commands

Init ==
    /\ demo \in BOOLEAN
    /\ \E o \in IF demo THEN {None} ELSE {None, "EmptyState"} :
         view = [overlay |-> o, palette |-> FALSE, create |-> FALSE,
                 detail |-> FALSE, approval |-> None, edit |-> FALSE,
                 timeline |-> FALSE, summary |-> FALSE, needs |-> FALSE,
                 armed |-> FALSE, filter |-> "All", selection |-> 1,
                 lastTab |-> 0]
    /\ engine = [order |-> <<>>, status |-> [t \in Tasks |-> "Ready"],
                 replans |-> {}, permits |-> {}, paused |-> FALSE, tab |-> 1]
    /\ saving = FALSE /\ held = FALSE

-----------------------------------------------------------------------------
(* What the engine shows the window.                                       *)

(* The tasks the filter lets through, in their order.                      *)
visible_tasks(v, e) ==
    LET shown == {i \in DOMAIN e.order : v.filter \in {"All", e.status[e.order[i]]}}
        Place(i) == Cardinality({j \in shown : j <= i})
    IN  [n \in 1..Cardinality(shown) |-> e.order[CHOOSE i \in shown : Place(i) = n]]

(* The selection is a place in the list as it is now.                      *)
selected_task_id(v, e) ==
    LET visible == visible_tasks(v, e)
    IN  IF v.selection <= Len(visible) THEN visible[v.selection] ELSE None

attention_items(e) ==
    {t \in ToSet(e.order) : e.status[t] = "NeedsReview"} \cup e.replans \cup e.permits

(* The detail of an item: a task and an agent have one as long as they     *)
(* exist, whatever became of the decision.                                 *)
build_approval_detail(e, item) ==
    item \in ToSet(e.order) \cup e.replans \cup Agents

-----------------------------------------------------------------------------
(* What the engine does for the window: NeedsReview is all there is to     *)
(* resolve, and a pending permission all there is to answer.               *)

Resolved(e, item) ==
    [e EXCEPT !.status = [t \in Tasks |-> IF t = item THEN "Done" ELSE e.status[t]],
              !.replans = e.replans \ {item}, !.permits = e.permits \ {item}]

Cancelled(e, ts) ==
    [e EXCEPT !.status = [t \in Tasks |-> IF t \in ts THEN "Done" ELSE e.status[t]]]

(* What a person has to decide is not stopped.                             *)
stop_all(e) ==
    [Cancelled(e, {t \in ToSet(e.order) : e.status[t] \in {"Ready", "Blocked"}})
       EXCEPT !.permits = {}]

EngineAfter(c, v, e) ==
    LET t == selected_task_id(v, e)
        pick(S) == t # None /\ e.status[t] \in S
    IN  CASE c = "CancelSelectedTask" /\ pick(Statuses \ {"Done"}) -> Cancelled(e, {t})
          [] c = "RetrySelectedTask" /\ pick({"Done"}) ->
               [e EXCEPT !.status = [e.status EXCEPT ![t] = "Ready"]]
          [] c \in {"ApproveSelectedTask", "RejectSelectedTask"}
               /\ pick({"NeedsReview"}) -> Resolved(e, t)
          [] c = "StopAll" /\ v.armed -> stop_all(e)
          [] c = "PauseAll" -> [e EXCEPT !.paused = TRUE]
          [] c = "ResumeAll" -> [e EXCEPT !.paused = FALSE]
          [] c = "NextTab" /\ demo -> [e EXCEPT !.tab = (e.tab % Len(Titles)) + 1]
          [] OTHER -> e

-----------------------------------------------------------------------------
(* What a command does to the window.                                      *)

Dashboard(v) == [v EXCEPT !.overlay = "Tasks", !.create = FALSE,
                          !.detail = FALSE, !.selection = 1]

dispatch_task_command(c, v, e) ==
    CASE c = "RunTasks" -> Dashboard(v)
      [] c = "ToggleTasks" ->
           IF v.overlay = "Tasks" THEN [v EXCEPT !.overlay = None]
           ELSE [Dashboard(v) EXCEPT !.filter = "All"]
      [] c = "CreateTask" ->
           [v EXCEPT !.overlay = "Tasks", !.detail = FALSE, !.create = TRUE]
      [] c = "ShowBlockedTasks" -> [Dashboard(v) EXCEPT !.filter = "Blocked"]
      [] c = "ShowTasksNeedingReview" -> [Dashboard(v) EXCEPT !.filter = "NeedsReview"]
      [] c = "OpenTask" -> [Dashboard(v) EXCEPT !.detail = visible_tasks(v, e) # <<>>]
      [] OTHER -> v

ToggleNeedsYou(v) ==
    [v EXCEPT !.needs = ~v.needs, !.approval = IF v.needs THEN None ELSE v.approval]

(* STOP ALL takes two: the first arms, and nothing but the second disarms. *)
dispatch_control_command(c, v) ==
    CASE c = "StopAll" ->
           IF v.armed THEN [v EXCEPT !.armed = FALSE, !.needs = FALSE, !.approval = None]
           ELSE [v EXCEPT !.armed = TRUE]
      [] c = "ToggleApprovalCenter" -> ToggleNeedsYou(v)
      [] c = "Timeline" ->
           [v EXCEPT !.timeline = ~v.timeline, !.summary = v.summary /\ v.timeline]
      [] c = "WorkflowSummary" ->
           [v EXCEPT !.summary = ~v.summary, !.timeline = v.timeline /\ v.summary]
      [] OTHER -> v

ViewAfter(c, v, e) ==
    CASE c \in Listing -> dispatch_task_command(c, v, e)
      [] c \in Controls -> dispatch_control_command(c, v)
      [] c = "ToggleCommandPalette" -> [v EXCEPT !.palette = ~v.palette]
      [] OTHER -> v

(* Fault: the palette is left out of what is closed.                       *)
FaultCloseKeepsPalette(v) ==
    [v EXCEPT !.overlay = None, !.detail = FALSE, !.create = FALSE, !.filter = "All",
              !.approval = None, !.edit = FALSE, !.timeline = FALSE, !.summary = FALSE]

close_overlays(v) ==
    [v EXCEPT !.overlay = None, !.palette = FALSE, !.detail = FALSE,
              !.create = FALSE, !.filter = "All", !.approval = None,
              !.edit = FALSE, !.timeline = FALSE, !.summary = FALSE]

Save == saving' = ~demo /\ held' = FALSE
NoSave == UNCHANGED <<saving, held>>

(* PAUSE ALL and RESUME ALL keep their guard until the arm of the match    *)
(* ends, which is after persist.                                           *)
run_command(c, closing) ==
    /\ c \in Commands
    /\ LET shown == ViewAfter(c, view, engine)
       IN  view' = IF closing THEN close_overlays(shown) ELSE shown
    /\ engine' = EngineAfter(c, view, engine)
    /\ IF c \in {"ToggleApprovalCenter", "Timeline", "WorkflowSummary"} THEN NoSave
       ELSE /\ saving' = ~demo
            /\ held' = (~demo /\ c \in {"PauseAll", "ResumeAll"})
    /\ UNCHANGED demo

Run(c) == run_command(c, FALSE)
Show(v) == view' = v /\ NoSave /\ UNCHANGED <<engine, demo>>

-----------------------------------------------------------------------------
(* The approval center.                                                    *)

(* Either way a task and a permission are resolved, and a rejected replan  *)
(* is gone.  What was decided before, elsewhere, fails, and the center     *)
(* stays open; the engine may also refuse a replan that is there.          *)
Decide ==
    \/ /\ view.approval \in attention_items(engine)
       /\ engine' = Resolved(engine, view.approval)
       /\ view' = [view EXCEPT !.approval = None]
       /\ Save /\ UNCHANGED demo
    \/ /\ view.approval \notin attention_items(engine) \ Replans
       /\ UNCHANGED vars

(* An approved replan stays in the list of proposals.                      *)
ApproveReplan ==
    /\ view.approval \in engine.replans
    /\ view' = [view EXCEPT !.approval = None]
    /\ Save /\ UNCHANGED <<engine, demo>>

StartEdit == view.approval \in Replans /\ Show([view EXCEPT !.edit = TRUE])

ApprovalKey ==
    /\ view.approval # None /\ ~view.edit
    /\ Decide \/ ApproveReplan \/ StartEdit

(* Enter under the edit: no title ends it; else the engine takes the edit, *)
(* or refuses it and the edit goes on.                                     *)
apply_approval_edit ==
    /\ view.edit
    /\ \/ Show([view EXCEPT !.edit = FALSE])
       \/ /\ view' = [view EXCEPT !.edit = view.edit /\ view.approval \notin engine.replans]
          /\ Save /\ UNCHANGED <<engine, demo>>
       \/ view.approval \in engine.replans /\ Save /\ UNCHANGED <<view, engine, demo>>

-----------------------------------------------------------------------------
(* on_key: the first of these that has the window takes the key.           *)

Modal == view.edit \/ view.approval # None
InList == ~Modal /\ view.overlay = "Tasks"

Unwound ==
    IF view.edit THEN [view EXCEPT !.edit = FALSE]
    ELSE IF view.approval # None THEN [view EXCEPT !.approval = None]
    ELSE IF view.timeline THEN [view EXCEPT !.timeline = FALSE]
    ELSE IF view.summary THEN [view EXCEPT !.summary = FALSE]
    ELSE IF view.needs THEN [view EXCEPT !.needs = FALSE]
    ELSE IF view.create THEN [view EXCEPT !.create = FALSE]
    ELSE IF view.detail THEN [view EXCEPT !.detail = FALSE]
    ELSE close_overlays(view)

Escape == Show(Unwound)

EmptyStateKey ==
    /\ ~Modal /\ view.overlay = "EmptyState"
    /\ Show([view EXCEPT !.overlay = "ProviderSetup", !.palette = FALSE])

(* Enter in the form: an empty title, or a task the engine makes.          *)
CreateKey ==
    /\ InList /\ view.create
    /\ \/ view' = [view EXCEPT !.create = FALSE] /\ UNCHANGED engine
       \/ \E t \in Tasks \ ToSet(engine.order) :
            /\ engine' = [engine EXCEPT !.order = Append(engine.order, t)]
            /\ view' = [view EXCEPT !.create = FALSE, !.selection = 1, !.filter = "All"]
    /\ Save /\ UNCHANGED demo

Moved == {IF view.selection > 1 THEN view.selection - 1 ELSE 1}
           \cup (LET n == Len(visible_tasks(view, engine))
                 IN  IF n = 0 THEN {}
                     ELSE {IF view.selection < n THEN view.selection + 1 ELSE n})

(* v, in the detail, attaches the agent's pane and saves nothing.          *)
ListKey ==
    /\ InList /\ ~view.create
    /\ \/ \E s \in Moved : Show([view EXCEPT !.selection = s])
       \/ view.detail /\ Show([view EXCEPT !.detail = FALSE])
       \/ /\ ~view.detail
          /\ Show([view EXCEPT !.detail = selected_task_id(view, engine) # None])
       \/ \E c \in OnSelected : Run(c)
       \/ ~view.detail /\ Run("RunTasks")

Unlisted == ~Modal /\ view.overlay \notin {"EmptyState", "Tasks"}

(* Enter: whatever the command opened is closed with the palette.          *)
PaletteEnter ==
    /\ Unlisted /\ view.palette
    /\ \/ \E c \in palette : run_command(c, TRUE)
       \/ Show(close_overlays(view))

(* A chord reaches its command also under the palette: it has no text.     *)
Chord == Unlisted /\ \E c \in default_bindings : Run(c)

-----------------------------------------------------------------------------
(* chrome_click: the modals first, then the status bar, then the panel's   *)
(* rows, which take a click whether the panel is drawn or not.             *)

ModalClick == view.approval # None /\ ~view.edit /\ (Decide \/ ApproveReplan \/ StartEdit)

Uncovered == ~Modal /\ ~view.timeline /\ ~view.summary

StatusBarClick ==
    /\ Uncovered
    /\ \/ Show(ToggleNeedsYou(view))
       \/ Run(IF engine.paused THEN "ResumeAll" ELSE "PauseAll")
       \/ Run("StopAll")

open_approval(item) == Show([view EXCEPT !.approval = item, !.edit = FALSE])

NeedsYouClick ==
    /\ Uncovered /\ view.needs
    /\ \E item \in attention_items(engine) : open_approval(item)

-----------------------------------------------------------------------------
(* A frame: the demo's tabs own the overlays, and a center whose item is   *)
(* gone is closed, once it would be drawn.                                 *)

Synced ==
    IF ~demo \/ engine.tab = view.lastTab THEN view
    ELSE LET seen == [view EXCEPT !.lastTab = engine.tab, !.summary = FALSE]
         IN  CASE Titles[engine.tab] = "Workflow" ->
                    [seen EXCEPT !.overlay = "Tasks", !.filter = "All", !.create = FALSE,
                                 !.detail = FALSE, !.timeline = FALSE]
               [] Titles[engine.tab] = "Timeline" ->
                    [seen EXCEPT !.overlay = None, !.timeline = TRUE]
               [] OTHER -> [seen EXCEPT !.overlay = None, !.timeline = FALSE]

(* Fault: what closes the center leaves the edit.                          *)
FaultDraw ==
    Show(IF /\ Synced.overlay = None /\ ~Synced.palette /\ Synced.approval # None
            /\ ~build_approval_detail(engine, Synced.approval)
         THEN [Synced EXCEPT !.approval = None] ELSE Synced)

drain_and_render ==
    Show(IF /\ Synced.overlay = None /\ ~Synced.palette /\ Synced.approval # None
            /\ ~build_approval_detail(engine, Synced.approval)
         THEN [Synced EXCEPT !.approval = None, !.edit = FALSE] ELSE Synced)

(* persist: the lock, the snapshot, the file.                              *)
persist ==
    /\ saving /\ ~held
    /\ saving' = FALSE /\ UNCHANGED <<view, engine, held, demo>>

(* A request on the socket, or the scheduler in a frame, under the lock.   *)
Elsewhere ==
    /\ ~held
    /\ \/ \E t \in Tasks \ ToSet(engine.order) :
            engine' = [engine EXCEPT !.order = Append(engine.order, t)]
       \/ \E t \in ToSet(engine.order), s \in Statuses :
            engine' = [engine EXCEPT !.status = [engine.status EXCEPT ![t] = s]]
       \/ \E r \in Replans : engine' = [engine EXCEPT !.replans =
            IF r \in engine.replans THEN engine.replans \ {r} ELSE engine.replans \cup {r}]
       \/ \E a \in Agents : engine' = [engine EXCEPT !.permits =
            IF a \in engine.permits THEN engine.permits \ {a} ELSE engine.permits \cup {a}]
    /\ UNCHANGED <<view, saving, held, demo>>

Input ==
    \/ Escape \/ apply_approval_edit \/ ApprovalKey \/ EmptyStateKey
    \/ CreateKey \/ ListKey \/ PaletteEnter \/ Chord
    \/ ModalClick \/ StatusBarClick \/ NeedsYouClick

Next ==
    \/ ~saving /\ Input
    \/ ~saving /\ drain_and_render
    \/ persist
    \/ Elsewhere

Spec == Init /\ [][Next]_vars
FairSpec == Spec /\ WF_vars(persist)

-----------------------------------------------------------------------------
TypeOK ==
    /\ view.overlay \in Overlays /\ view.filter \in ListFilters
    /\ view.approval \in Tasks \cup Replans \cup Agents \cup {None}
    /\ view.selection \in 1..(Cardinality(Tasks) + 1)
    /\ ToSet(engine.order) \subseteq Tasks /\ IsInjective(engine.order)
    /\ engine.status \in [Tasks -> Statuses]
    /\ engine.replans \subseteq Replans /\ engine.permits \subseteq Agents
    /\ held => saving

(* While a plan edit is typed there is a replan for it in the center:      *)
(* on_key and chrome_click give everything to the edit, so an edit without *)
(* its replan would take every key for nothing.                            *)
EditingHasAReplan == view.edit => view.approval \in Replans

(* Esc closes what is open, layer by layer, and opens nothing: whatever    *)
(* was opened in whatever order, enough of it gives the terminal its keys  *)
(* back.                                                                   *)
Open(v) ==
    {l \in {"palette", "create", "detail", "edit", "timeline", "summary", "needs"} : v[l]}
      \cup {l \in {"overlay", "approval"} : v[l] # None}
EscapeUnwinds ==
    Open(view) # {} => /\ Open(Unwound) \subseteq Open(view)
                       /\ Open(Unwound) # Open(view)

(* main.rs: "UI state only; engine locks are short-lived inside each       *)
(* helper": a command whose effect is to be saved is saved, and the window *)
(* takes input again.                                                      *)
CommandsFinish == saving ~> ~saving
=============================================================================
