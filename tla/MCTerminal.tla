----------------------------- MODULE MCTerminal -----------------------------
(***************************************************************************)
(* The components a user sees the workflow through, side by side: the      *)
(* event bus, the panes, the screen of one of them, the state file and the *)
(* windows of the desktop.  They share no state in these modules, so a run *)
(* looks at one of them at a time: focus names it, the others stay as they *)
(* were, and the state spaces add up and do not multiply.  terminal.cfg    *)
(* makes each of them small.                                               *)
(***************************************************************************)
EXTENDS EventBus

CONSTANTS
    s1,                                                \* a subscriber
    MinPane, PaneWindows, MaxIds, MaxWorkspaces,       \* Panes
    MaxTabs, MaxSplits, MaxActs, MaxRestarts,
    Instances, MaxWork, MaxStarts, MaxForeign,         \* StateFile
    Tasks, Replans, Agents,                            \* Desktop
    Sizes, BLOCK_ROWS, HotCap, MAX_RUN, Limit,         \* Screen
    Counts, MaxScreenActs

VARIABLES
    focus,
    pa_workspaces, pa_active, pa_sessions, pa_headless, pa_made, pa_acts,
    pa_restarts,
    sf_file, sf_tmp, sf_corrupt, sf_process, sf_work, sf_written, sf_starts,
    sf_foreign,
    de_view, de_engine, de_saving, de_held, de_demo,
    sc_terminal, sc_acts

paVars == <<pa_workspaces, pa_active, pa_sessions, pa_headless, pa_made, pa_acts,
            pa_restarts>>
sfVars == <<sf_file, sf_tmp, sf_corrupt, sf_process, sf_work, sf_written,
            sf_starts, sf_foreign>>
deVars == <<de_view, de_engine, de_saving, de_held, de_demo>>
scVars == <<sc_terminal, sc_acts>>

-----------------------------------------------------------------------------
MCFilters == {{"task", "activity"}, {"task"}}

(* The window has room for two panes side by side, and for two stacked.    *)
MCPaneWindows == {[x |-> 0, y |-> 0, width |-> 100, height |-> 90]}
Splits == INSTANCE Panes WITH
    workspaces <- pa_workspaces, active <- pa_active, sessions <- pa_sessions,
    headless <- pa_headless, made <- pa_made, acts <- pa_acts,
    restarts <- pa_restarts

(* Processes that are killed and started again over their file.            *)
Disk == INSTANCE StateFile WITH
    file <- sf_file, tmp <- sf_tmp, corrupt <- sf_corrupt, process <- sf_process,
    work <- sf_work, written <- sf_written, starts <- sf_starts,
    foreign <- sf_foreign

(* Tasks, replans and agents' questions to decide on.                      *)
Windows == INSTANCE Desktop WITH
    view <- de_view, engine <- de_engine, saving <- de_saving, held <- de_held,
    demo <- de_demo

(* A screen that is resized, and its history.                              *)
MCSizes == {[cols |-> 2, rows |-> 2], [cols |-> 3, rows |-> 1]}
Terminal == INSTANCE Screen WITH
    MaxActs <- MaxScreenActs,
    t <- sc_terminal, acts <- sc_acts

-----------------------------------------------------------------------------
TerminalInit ==
    /\ focus \in {"bus", "panes", "file", "windows", "screen"}
    /\ Init /\ Splits!Init /\ Disk!Init /\ Windows!Init /\ Terminal!Init
    /\ sf_file = Disk!NoFile \/ focus = "file"   \* one initial state of those at rest
    /\ (~de_demo /\ de_view.overlay = "none") \/ focus = "windows"
    /\ Terminal!Size(sc_terminal).rows = 2 \/ focus = "screen"

TerminalNext ==
    \/ focus = "bus" /\ Next /\ UNCHANGED <<focus, paVars, sfVars, deVars, scVars>>
    \/ focus = "panes" /\ Splits!Next /\ UNCHANGED <<focus, vars, sfVars, deVars, scVars>>
    \/ focus = "file" /\ Disk!Next /\ UNCHANGED <<focus, vars, paVars, deVars, scVars>>
    \/ focus = "windows" /\ Windows!Next /\ UNCHANGED <<focus, vars, paVars, sfVars, scVars>>
    \/ focus = "screen" /\ Terminal!Next /\ UNCHANGED <<focus, vars, paVars, sfVars, deVars>>

allVars == <<focus, vars, paVars, sfVars, deVars, scVars>>

(* EventBus.LiveSpec, in a suite: the engine flushes for ever, which only  *)
(* shows while the bus is in focus.                                        *)
FlushInFocus == focus = "bus" /\ Flush /\ UNCHANGED <<focus, paVars, sfVars, deVars, scVars>>

TerminalSpec == TerminalInit /\ [][TerminalNext]_allVars /\ WF_allVars(FlushInFocus)

-----------------------------------------------------------------------------
(* Properties: those of the components.                                    *)

(* The state of the component in focus has its type; a pane tree is one.   *)
TypesOK ==
    /\ focus = "bus" => TypeOK
    /\ focus = "panes" => Splits!TypeOK
    /\ focus = "file" => Disk!TypeOK
    /\ focus = "windows" => Windows!TypeOK
    /\ focus = "screen" => Terminal!TypeOK

(* Whatever is split, swapped, moved, closed and restored: no session      *)
(* outlives its panes, the focus is in the tab and the tab in its          *)
(* workspace, and the panes tile the window (close_tab, close_pane,        *)
(* layout).                                                                *)
PanesHold ==
    focus = "panes" => Splits!NoSessionLeaks /\ Splits!FocusIsInside /\ Splits!LayoutTiles

(* Whenever the process is killed, and whatever write or rename fails, the *)
(* state file is what was last put in place, as a whole, or was found      *)
(* corrupt and is kept aside (save, load, quarantine).                     *)
FileIsWhole == Disk!FileIsWhole

(* An edit never outlives the replan it edits, which would swallow every   *)
(* key, and Esc closes what is open, layer by layer, whatever was opened   *)
(* in whatever order (drain_and_render, close_overlays, on_key).           *)
DesktopUnwinds == focus = "windows" => Windows!EditingHasAReplan /\ Windows!EscapeUnwinds

(* Whatever a program prints and however its pane is resized, cursor and   *)
(* selection are on the screen, the grid holds it, and the tiers of its    *)
(* history together keep to their limit (cursor_advance, resize,           *)
(* scroll_up_one).                                                         *)
ScreenHolds == focus = "screen" => Terminal!ScreenHolds /\ Terminal!HistoryIsBounded

(* Nothing rewrites the history, which stays the same through every tier   *)
(* it moves to, and nothing the user sees changes without a mark for the   *)
(* next frame (flush_cold_block, decode_block, mark_row).                  *)
ScreenIsTrue ==
    [][focus = "screen" => Terminal!HistoryGrows /\ Terminal!ChangesAreMarked]_scVars
=============================================================================
