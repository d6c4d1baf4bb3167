-------------------------------- MODULE Panes --------------------------------
(***************************************************************************)
(* Workspaces, tabs and split panes with the sessions behind them: the     *)
(* operations of crates/terminal-workspace/src/engine.rs on model.rs and   *)
(* pane_tree.rs, the layout of layout.rs, and the saving and restoring of  *)
(* the structure.                                                          *)
(*                                                                         *)
(* A pane tree is given by its paths: a sequence of 0s and 1s leads from   *)
(* the root to a leaf or to a split.  Ids are UUIDs in the code: never     *)
(* used twice, counted here.  Titles, directories and launch configs are   *)
(* left out.  Every call holds the engine's mutex: an action.              *)
(***************************************************************************)
EXTENDS Integers, FiniteSets, Sequences, SequencesExt

CONSTANTS
    MinPane,       \* layout.rs MIN_PANE_PX
    PaneWindows,   \* the rectangles the layout is looked at in
    MaxIds,        \* panes, tabs and workspaces made: a bound
    MaxWorkspaces, MaxTabs, MaxSplits, MaxActs, MaxRestarts   \* bounds

None == 0
TaskAgent == -1   \* the agent of a task, without a pane of its own
Directions == {"Horizontal", "Vertical"}

VARIABLES
    workspaces,   \* [id, tabs, active_tab]; a tab is [id, root, active_pane, zoom]
    active,       \* active_workspace: an index
    sessions,     \* the execution ids in terminal_sessions
    headless,     \* those of them spawned without a pane
    made,         \* ids given out
    acts, restarts

vars == <<workspaces, active, sessions, headless, made, acts, restarts>>

Act == acts < MaxActs /\ acts' = acts + 1

(* The session of a pane is named after the pane it is spawned for, and    *)
(* the process that spawned it.                                            *)
Eid(id) == [of |-> id, gen |-> restarts]

-----------------------------------------------------------------------------
(* Pane trees.                                                             *)

PaneOf(id, eid) == [id |-> id, execution_id |-> eid]
leaf(pane) == [leaves |-> [q \in {<<>>} |-> pane], splits |-> [q \in {} |-> 0]]

panes(root) == {root.leaves[q] : q \in DOMAIN root.leaves}
pane_ids(root) == {p.id : p \in panes(root)}
pane_count(root) == Cardinality(DOMAIN root.leaves)
PathOf(root, id) == CHOOSE q \in DOMAIN root.leaves : root.leaves[q].id = id

(* Depth first: the position of a leaf from left to right.                 *)
Left(a, b) ==
    \E i \in DOMAIN a \cap DOMAIN b :
        a[i] < b[i] /\ \A j \in 1..(i - 1) : a[j] = b[j]
Rank(root, q) == Cardinality({r \in DOMAIN root.leaves : Left(r, q)})

split_by_id(root, id, direction, pane) ==
    LET q == PathOf(root, id)
        first == Append(q, 0)
        second == Append(q, 1)
    IN [leaves |-> [x \in (DOMAIN root.leaves \ {q}) \cup {first, second} |->
                      IF x = first THEN root.leaves[q]
                      ELSE IF x = second THEN pane ELSE root.leaves[x]],
        splits |-> [x \in DOMAIN root.splits \cup {q} |->
                      IF x = q THEN [direction |-> direction, ratio |-> 50]
                      ELSE root.splits[x]]]

(* Fault: the sibling's own splits are left behind.                        *)
FaultCollapseLeaf(root, id) ==
    LET q == PathOf(root, id)
        parent == Front(q)
        keep == DOMAIN root.leaves \ {q}
    IN [leaves |-> [x \in keep |-> root.leaves[x]],
        splits |-> [x \in DOMAIN root.splits \ {parent} |-> root.splits[x]]]

(* The pane goes, and its sibling takes the place of the parent split.     *)
remove_pane(root, id) ==
    LET q == PathOf(root, id)
        parent == Front(q)
        sibling == Append(parent, 1 - Last(q))
        Under(x) == IsPrefix(sibling, x)
        Up(x) == IF Under(x) THEN parent \o SubSeq(x, Len(sibling) + 1, Len(x)) ELSE x
        Lifted(f) == LET keep == DOMAIN f \ {q, parent}
                     IN [y \in {Up(x) : x \in keep} |->
                            f[CHOOSE x \in keep : Up(x) = y]]
    IN [leaves |-> Lifted(root.leaves), splits |-> Lifted(root.splits)]

(* What the panes show changes places; ids stay where they are.            *)
swap_contents(root, a, b) ==
    LET shown(id) == root.leaves[PathOf(root, id)].execution_id
    IN [root EXCEPT !.leaves = [q \in DOMAIN @ |->
           CASE @[q].id = a -> PaneOf(a, shown(b))
             [] @[q].id = b -> PaneOf(b, shown(a))
             [] OTHER -> @[q]]]

(* Only a leaf directly under the split changes places with its sibling.   *)
movable(root, id, forward) ==
    LET q == PathOf(root, id)
    IN q # <<>> /\ Last(q) = (IF forward THEN 0 ELSE 1)
move_in_parent(root, id) ==
    LET parent == Front(PathOf(root, id))
        n == Len(parent) + 1
        Flip(x) == IF Len(x) >= n /\ IsPrefix(parent, x) THEN [x EXCEPT ![n] = 1 - @] ELSE x
        Flipped(f) == [x \in {Flip(y) : y \in DOMAIN f} |-> f[Flip(x)]]
    IN [leaves |-> Flipped(root.leaves), splits |-> Flipped(root.splits)]

-----------------------------------------------------------------------------
(* LayoutEngine: the part of a window each pane gets.                      *)

Larger(a, b) == IF a > b THEN a ELSE b
Smaller(a, b) == IF a < b THEN a ELSE b

(* Fault: the minimum is given to a pane that has less to share.           *)
FaultFirstPart(size, ratio) == Larger((size * ratio) \div 100, MinPane)

FirstPart(size, ratio) ==
    LET min == Larger(1, Smaller(MinPane, size \div 2))
        avail == Larger(0, size - min)
    IN Smaller(Larger((size * ratio) \div 100, min), Larger(avail, min))

split_rect(rect, split, side) ==
    LET w == FirstPart(rect.width, split.ratio)
        h == FirstPart(rect.height, split.ratio)
    IN IF split.direction = "Horizontal"
       THEN IF side = 0 THEN [rect EXCEPT !.width = w]
            ELSE [rect EXCEPT !.x = @ + w, !.width = Larger(0, @ - w)]
       ELSE IF side = 0 THEN [rect EXCEPT !.height = h]
            ELSE [rect EXCEPT !.y = @ + h, !.height = Larger(0, @ - h)]

walk(root, outer, q) ==
    LET at[i \in 0..Len(q)] ==
          IF i = 0 THEN outer
          ELSE split_rect(at[i - 1], root.splits[SubSeq(q, 1, i - 1)], q[i])
    IN at[Len(q)]

(* A zoomed pane that is not in the tree any more zooms nothing.           *)
layout(tab, outer) ==
    IF tab.zoom \in pane_ids(tab.root)
    THEN [id \in {tab.zoom} |-> outer]
    ELSE [id \in pane_ids(tab.root) |-> walk(tab.root, outer, PathOf(tab.root, id))]

-----------------------------------------------------------------------------
(* The tab and the workspace a call is about.                              *)

Workspace == workspaces[active]
TabIndex(ws, id) == CHOOSE i \in DOMAIN ws.tabs : ws.tabs[i].id = id
TabIds(ws) == {ws.tabs[i].id : i \in DOMAIN ws.tabs}
PanesIn(ws) == UNION {panes(ws.tabs[i].root) : i \in DOMAIN ws.tabs}
EidsOf(ps) == {p.execution_id : p \in ps}
AllEids == UNION {EidsOf(PanesIn(workspaces[i])) : i \in DOMAIN workspaces}

NewTab(id) == [id |-> id, root |-> leaf(PaneOf(id, Eid(id))), active_pane |-> id, zoom |-> None]

Put(ws) == workspaces' = [workspaces EXCEPT ![active] = ws]
PutTab(tab) ==
    Put([Workspace EXCEPT !.tabs[TabIndex(Workspace, tab.id)] = tab])

(* active_tab_mut without a tab makes one first; such calls then find a    *)
(* tab with one fresh pane, which they cannot name.                        *)
HasTab == Workspace.active_tab \in TabIds(Workspace)
Tab == Workspace.tabs[TabIndex(Workspace, Workspace.active_tab)]

Same == UNCHANGED <<active, sessions, headless, made, acts, restarts>>

(* Sessions go with their panes.                                           *)
Terminate(eids) ==
    /\ sessions' = sessions \ eids
    /\ headless' = headless \ eids

FreshId == made < MaxIds /\ made' = made + 1

-----------------------------------------------------------------------------
(* Workspaces and tabs.                                                    *)

create_workspace ==
    /\ FreshId /\ Len(workspaces) < MaxWorkspaces
    /\ workspaces' = Append(workspaces, [id |-> made + 1, tabs |-> <<NewTab(made + 1)>>,
                                         active_tab |-> made + 1])
    /\ active' = Len(workspaces) + 1
    /\ sessions' = sessions \cup {Eid(made + 1)}
    /\ UNCHANGED <<headless, acts, restarts>>

close_workspace(i) ==
    /\ Len(workspaces) > 1 /\ i \in DOMAIN workspaces
    /\ workspaces' = RemoveAt(workspaces, i)
    /\ active' = Smaller(active, Len(workspaces) - 1)
    /\ Terminate(EidsOf(PanesIn(workspaces[i])))
    /\ UNCHANGED <<made, acts, restarts>>

switch_workspace(i) ==
    /\ i \in DOMAIN workspaces /\ i # active
    /\ active' = i
    /\ UNCHANGED <<workspaces, sessions, headless, made, acts, restarts>>

(* new_tab, and ensure_active_tab in front of a call that needs a tab.     *)
new_tab ==
    /\ FreshId /\ Len(Workspace.tabs) < MaxTabs
    /\ Put([Workspace EXCEPT !.tabs = Append(@, NewTab(made + 1)), !.active_tab = made + 1])
    /\ sessions' = sessions \cup {Eid(made + 1)}
    /\ UNCHANGED <<active, headless, acts, restarts>>

(* The last of the tabs that remain becomes the active one.                *)
ClosedTab(id) ==
    LET kept == RemoveAt(Workspace.tabs, TabIndex(Workspace, id))
    IN /\ Put([Workspace EXCEPT
              !.tabs = kept,
              !.active_tab = IF @ # id THEN @
                             ELSE IF kept = <<>> THEN None ELSE kept[Len(kept)].id])
       /\ Terminate(EidsOf(panes(Workspace.tabs[TabIndex(Workspace, id)].root)))
       /\ UNCHANGED <<active, made, acts, restarts>>

(* Fault: the sessions of the panes that are not focused stay.             *)
FaultCloseFocusedOnly(id) ==
    /\ id \in TabIds(Workspace)
    /\ LET i == TabIndex(Workspace, id)
           kept == RemoveAt(Workspace.tabs, i)
       IN /\ Put([Workspace EXCEPT
                 !.tabs = kept,
                 !.active_tab = IF @ # id THEN @
                                ELSE IF kept = <<>> THEN None ELSE kept[Len(kept)].id])
          /\ Terminate({p.execution_id : p \in {r \in panes(Workspace.tabs[i].root) :
                                                   r.id = Workspace.tabs[i].active_pane}})
          /\ UNCHANGED <<active, made, acts, restarts>>

close_tab(id) == id \in TabIds(Workspace) /\ ClosedTab(id)

switch_tab(id) ==
    /\ id \in TabIds(Workspace)
    /\ Put([Workspace EXCEPT !.active_tab = id]) /\ Same

(* next_tab and previous_tab, from the end or the start without a tab.     *)
step_tab(step) ==
    LET n == Len(Workspace.tabs)
        cur == IF HasTab THEN TabIndex(Workspace, Workspace.active_tab) - 1
               ELSE IF step = 1 THEN n - 1 ELSE 0
    IN /\ n > 0
       /\ Put([Workspace EXCEPT
              !.active_tab = Workspace.tabs[((cur + n + step) % n) + 1].id])
       /\ Same

reorder_tab(id, to) ==
    /\ id \in TabIds(Workspace)
    /\ LET i == TabIndex(Workspace, id)
           rest == RemoveAt(Workspace.tabs, i)
       IN Put([Workspace EXCEPT !.tabs =
                  InsertAt(rest, Smaller(to, Len(rest) + 1), Workspace.tabs[i])])
    /\ Same

-----------------------------------------------------------------------------
(* Panes.                                                                  *)

(* split_pane, split_pane_agent and attach_task_agent_pane put the new     *)
(* pane next to the focused one, and need one.                             *)
Split(direction, eid) ==
    /\ HasTab /\ Tab.active_pane # None
    /\ FreshId /\ pane_count(Tab.root) <= MaxSplits
    /\ PutTab([Tab EXCEPT
              !.root = split_by_id(@, Tab.active_pane, direction, PaneOf(made + 1, eid)),
              !.active_pane = made + 1])
    /\ sessions' = sessions \cup {eid}
    /\ UNCHANGED <<active, headless, acts, restarts>>

split_pane(direction) == Split(direction, Eid(made + 1))

attach_task_agent_pane ==
    /\ Act
    /\ \E eid \in headless :
         /\ HasTab /\ Tab.active_pane # None
         /\ FreshId /\ pane_count(Tab.root) <= MaxSplits
         /\ PutTab([Tab EXCEPT
                   !.root = split_by_id(@, Tab.active_pane, "Vertical", PaneOf(made + 1, eid)),
                   !.active_pane = made + 1])
    /\ UNCHANGED <<active, sessions, headless, restarts>>

(* An agent of a task, or one spawned over IPC without a pane.             *)
spawn_agent_session ==
    /\ Act
    /\ Eid(TaskAgent) \notin sessions
    /\ sessions' = sessions \cup {Eid(TaskAgent)}
    /\ headless' = headless \cup {Eid(TaskAgent)}
    /\ UNCHANGED <<workspaces, active, made, restarts>>

(* Fault: the focus stays on the pane that is gone.                        *)
FaultKeepFocus(id) ==
    /\ HasTab
    /\ \/ pane_count(Tab.root) <= 1 /\ ClosedTab(Tab.id)
       \/ /\ pane_count(Tab.root) > 1 /\ id \in pane_ids(Tab.root)
          /\ PutTab([Tab EXCEPT !.root = remove_pane(Tab.root, id)])
          /\ Terminate({Tab.root.leaves[PathOf(Tab.root, id)].execution_id})
          /\ UNCHANGED <<active, made, acts, restarts>>

(* With one pane in the tab the name is not looked at.  After a focused    *)
(* pane the focus goes to the root if that is a leaf, else nowhere.        *)
close_pane(id) ==
    /\ HasTab
    /\ \/ pane_count(Tab.root) <= 1 /\ ClosedTab(Tab.id)
       \/ /\ pane_count(Tab.root) > 1 /\ id \in pane_ids(Tab.root)
          /\ LET root == remove_pane(Tab.root, id)
                 focus == IF pane_count(root) = 1 THEN root.leaves[<<>>].id ELSE None
             IN PutTab([Tab EXCEPT !.root = root,
                                   !.active_pane = IF @ = id THEN focus ELSE @])
          /\ Terminate({Tab.root.leaves[PathOf(Tab.root, id)].execution_id})
          /\ UNCHANGED <<active, made, acts, restarts>>

focus_pane(id) ==
    /\ HasTab /\ id \in pane_ids(Tab.root)
    /\ PutTab([Tab EXCEPT !.active_pane = id]) /\ Same

focus_step(step) ==
    /\ HasTab /\ pane_count(Tab.root) > 1
    /\ LET n == pane_count(Tab.root)
           cur == IF Tab.active_pane \in pane_ids(Tab.root)
                  THEN Rank(Tab.root, PathOf(Tab.root, Tab.active_pane)) ELSE 0
       IN \E q \in DOMAIN Tab.root.leaves :
            /\ Rank(Tab.root, q) = (cur + n + step) % n
            /\ PutTab([Tab EXCEPT !.active_pane = Tab.root.leaves[q].id])
    /\ Same

zoom_pane(id) ==
    /\ Act
    /\ HasTab /\ id \in pane_ids(Tab.root)
    /\ PutTab([Tab EXCEPT !.zoom = IF @ = id THEN None ELSE id])
    /\ UNCHANGED <<active, sessions, headless, made, restarts>>

swap_panes(a, b) ==
    /\ Act
    /\ HasTab /\ {a, b} \subseteq pane_ids(Tab.root) /\ a # b
    /\ PutTab([Tab EXCEPT !.root = swap_contents(@, a, b)])
    /\ UNCHANGED <<active, sessions, headless, made, restarts>>

move_pane(id, forward) ==
    /\ Act
    /\ HasTab /\ id \in pane_ids(Tab.root) /\ movable(Tab.root, id, forward)
    /\ PutTab([Tab EXCEPT !.root = move_in_parent(@, id)])
    /\ UNCHANGED <<active, sessions, headless, made, restarts>>

(* The split at the root always is the first that has the pane on one side *)
(* only: it is the one that moves.  As far as it goes here.                *)
resize_pane(id, grow) ==
    /\ Act
    /\ HasTab /\ id \in pane_ids(Tab.root) /\ pane_count(Tab.root) > 1
    /\ LET ratio == IF grow = (Head(PathOf(Tab.root, id)) = 0) THEN 95 ELSE 5
       IN PutTab([Tab EXCEPT !.root.splits[<<>>].ratio = ratio])
    /\ UNCHANGED <<active, sessions, headless, made, restarts>>

-----------------------------------------------------------------------------
(* Another process.                                                        *)

(* restore spawns a session for every pane; one that cannot be (failed)    *)
(* keeps the id of the old process.                                        *)
Respawned(root, gen, failed) ==
    LET respawned(pane) ==
            IF pane.id \in failed THEN pane ELSE PaneOf(pane.id, [of |-> pane.id, gen |-> gen])
    IN [leaves |-> [q \in DOMAIN root.leaves |-> respawned(root.leaves[q])],
        splits |-> root.splits]

(* restore, which makes the first workspace the active one.  The file has  *)
(* the state after some call: if that is not the last, the calls since did *)
(* not happen as far as a behaviour here is concerned.                     *)
Restart(failed) ==
    /\ Act
    /\ restarts < MaxRestarts /\ restarts' = restarts + 1
    /\ active' = 1 /\ headless' = {}
    /\ LET restored(tab) == [tab EXCEPT !.root = Respawned(tab.root, restarts + 1, failed)]
           tabs(ws) == [j \in DOMAIN ws.tabs |-> restored(ws.tabs[j])]
       IN workspaces' = [i \in DOMAIN workspaces |-> [workspaces[i] EXCEPT !.tabs = tabs(workspaces[i])]]
    /\ sessions' = {[of |-> p.id, gen |-> restarts + 1] :
                      p \in {q \in UNION {PanesIn(workspaces[i]) : i \in DOMAIN workspaces} :
                                q.id \notin failed}}
    /\ UNCHANGED made

Init ==
    /\ restarts = 0 /\ acts = 0 /\ made = 1 /\ headless = {}
    /\ workspaces = <<[id |-> 1, tabs |-> <<NewTab(1)>>, active_tab |-> 1]>>
    /\ active = 1 /\ sessions = {Eid(1)}

Ids == 1..MaxIds

Next ==
    \/ create_workspace \/ new_tab \/ spawn_agent_session \/ attach_task_agent_pane
    \/ \E i \in 1..MaxWorkspaces : close_workspace(i)
    \/ \E i \in 1..MaxWorkspaces : switch_workspace(i)
    \/ \E id \in Ids : close_tab(id)
    \/ \E id \in Ids : switch_tab(id)
    \/ \E step \in {1, -1} : step_tab(step)
    \/ \E id \in Ids, to \in 1..MaxTabs : reorder_tab(id, to)
    \/ \E direction \in Directions : split_pane(direction)
    \/ \E id \in Ids : close_pane(id)
    \/ \E id \in Ids : focus_pane(id)
    \/ \E step \in {1, -1} : focus_step(step)
    \/ \E id \in Ids : zoom_pane(id)
    \/ \E a, b \in Ids : swap_panes(a, b)
    \/ \E id \in Ids, forward \in BOOLEAN : move_pane(id, forward)
    \/ \E id \in Ids, grow \in BOOLEAN : resize_pane(id, grow)
    \/ \E failed \in {{}} \cup {{id} : id \in Ids} : Restart(failed)

Spec == Init /\ [][Next]_vars

-----------------------------------------------------------------------------
(* Properties.                                                             *)

EveryTab(P(_)) == \A i \in DOMAIN workspaces : \A j \in DOMAIN workspaces[i].tabs :
                      P(workspaces[i].tabs[j])

(* Every field holds a value of its kind, and every tree is one: each      *)
(* split has two sides and nothing hangs anywhere else.                    *)
TypeOK ==
    /\ active \in DOMAIN workspaces /\ Len(workspaces) <= MaxWorkspaces
    /\ headless \subseteq sessions
    /\ EveryTab(LAMBDA tab :
           LET leaves == DOMAIN tab.root.leaves  splits == DOMAIN tab.root.splits
           IN /\ leaves \cap splits = {} /\ <<>> \in leaves \cup splits
              /\ leaves \cup splits
                   = {<<>>} \cup {Append(q, side) : q \in splits, side \in {0, 1}})

(* No session outlives its panes: after any mix of splits, swaps, moves,   *)
(* closings and restarts every PTY the engine holds is shown by a pane or  *)
(* belongs to an agent that was spawned without one.                       *)
NoSessionLeaks == sessions \subseteq AllEids \cup headless

(* The active tab of a workspace is one of its tabs, and none only if it   *)
(* has no tabs; no two panes share an id; the focus is in the tab or       *)
(* nowhere.                                                                *)
FocusIsInside ==
    /\ \A i \in DOMAIN workspaces :
         workspaces[i].active_tab \in TabIds(workspaces[i])
         \/ (workspaces[i].active_tab = None /\ workspaces[i].tabs = <<>>)
    /\ EveryTab(LAMBDA tab : /\ Cardinality(pane_ids(tab.root)) = pane_count(tab.root)
                             /\ tab.active_pane \in pane_ids(tab.root) \cup {None})

(* What the rectangles of a layout, by the id of their pane, have to do    *)
(* with each other and with the window.                                    *)
Inside(r, window) ==
    /\ r.x >= window.x /\ r.x + r.width <= window.x + window.width
    /\ r.y >= window.y /\ r.y + r.height <= window.y + window.height
Apart(r, s) ==
    \/ r.x + r.width <= s.x \/ s.x + s.width <= r.x
    \/ r.y + r.height <= s.y \/ s.y + s.height <= r.y
Area(r) == r.width * r.height
Covered(rects) ==
    LET upto[n \in 0..MaxIds] ==
          IF n = 0 THEN 0
          ELSE upto[n - 1] + (IF n \in DOMAIN rects THEN Area(rects[n]) ELSE 0)
    IN upto[MaxIds]
Tiles(tab, window) ==
    LET rects == layout(tab, window)
    IN /\ \A id \in DOMAIN rects : Inside(rects[id], window)
       /\ \A id, other \in DOMAIN rects : id = other \/ Apart(rects[id], rects[other])
       /\ Covered(rects) = Area(window)

(* The panes of a tab tile the window, whatever was split, moved, resized  *)
(* or zoomed before: they lie inside of it, none covers a part of another, *)
(* and together they leave nothing out.                                    *)
LayoutTiles == EveryTab(LAMBDA tab : \A window \in PaneWindows : Tiles(tab, window))

(* architecture-current.md:58 routes input "window -> active workspace ->  *)
(* active tab -> focused pane": a tab with panes has a focused one.        *)
InputHasATarget == EveryTab(LAMBDA tab : tab.active_pane # None)

=============================================================================
