------------------------------ MODULE StateFile ------------------------------
(***************************************************************************)
(* The state file of the desktop application:                              *)
(* crates/terminal-workspace/src/persist.rs and its use in                 *)
(* apps/desktop/src/main.rs.  A process loads the file when it starts and  *)
(* saves what it has after commands, by a temporary file and a rename; it  *)
(* may be killed between any two steps, and nothing keeps a second one     *)
(* from running.                                                           *)
(*                                                                         *)
(* What is in a file is a record: which format it is of, and which of the  *)
(* states the processes have had it holds.  A file outlives a process, not *)
(* more: nothing is synced, and a loss of power is not modelled.           *)
(***************************************************************************)
EXTENDS Integers, FiniteSets

CONSTANTS
    Instances,                     \* the processes that share the directory
    MaxWork, MaxStarts, MaxForeign   \* bounds

NoFile == [format |-> "none", state |-> 0]
File(format, n) == [format |-> format, state |-> n]
(* "v2" is CURRENT_VERSION; "v1" has no audit trail and no policy, "v0" no *)
(* version.  "schema" is JSON that does not decode, "unreadable" a file    *)
(* the process may not read, "torn" one that is not JSON.                  *)
Formats == {"none", "v0", "v1", "v2", "newer", "schema", "unreadable", "torn"}
Loadable == {"v0", "v1", "v2"}

VARIABLES
    file,        \* state.json
    tmp,         \* state.json.tmp
    corrupt,     \* the contents of the state.json.corrupt-<unix>
    process,     \* by instance: step, state it has, demo_mode
    work,        \* states there were; each command makes a new one
    written,     \* history: what was last meant to be put in place
    starts, foreign

vars == <<file, tmp, corrupt, process, work, written, starts, foreign>>

Off == [step |-> "off", has |-> 0, demo |-> FALSE]

Init ==
    /\ file \in {NoFile, File("v1", 0), File("v0", 0)} /\ tmp = NoFile
    /\ corrupt = {} /\ process = [p \in Instances |-> Off]
    /\ work = 0 /\ written = file /\ starts = 0 /\ foreign = 0

(* init_engine reads the file.  What is not JSON is moved aside: load      *)
(* looks at what it read, and renames what is there by then.               *)
Read(p) ==
    /\ process[p].step = "off" /\ starts < MaxStarts
    /\ starts' = starts + 1
    /\ \E demo \in BOOLEAN :
         process' = [process EXCEPT ![p] =
            [step |-> IF file.format = "torn" THEN "quarantine" ELSE "running",
             has |-> IF file.format \in Loadable THEN file.state ELSE 0,
             demo |-> demo]]
    /\ UNCHANGED <<file, tmp, corrupt, work, written, foreign>>

(* The rename may fail, which is logged.                                   *)
Quarantine(p) ==
    /\ process[p].step = "quarantine"
    /\ \/ /\ file # NoFile
          /\ corrupt' = corrupt \cup {file} /\ file' = NoFile
       \/ UNCHANGED <<file, corrupt>>
    /\ process' = [process EXCEPT ![p].step = "running"]
    /\ UNCHANGED <<tmp, work, written, starts, foreign>>

(* Fault: the file itself is written, without a rename.                    *)
FaultInPlace(p) ==
    /\ process[p].step = "running" /\ work < MaxWork
    /\ work' = work + 1
    /\ process' = [process EXCEPT ![p].has = work + 1, ![p].step = "writing"]
    /\ file' = File("torn", 0) /\ tmp' = File("torn", 0)
    /\ UNCHANGED <<corrupt, written, starts, foreign>>

(* A command that changes the state; persist follows in the same handler,  *)
(* and does nothing in demo mode.  fs::write truncates the file first.     *)
Command(p) ==
    /\ process[p].step = "running" /\ work < MaxWork
    /\ work' = work + 1
    /\ IF process[p].demo
       THEN process' = [process EXCEPT ![p].has = work + 1] /\ UNCHANGED tmp
       ELSE /\ process' = [process EXCEPT ![p].has = work + 1, ![p].step = "writing"]
            /\ tmp' = File("torn", 0)
    /\ UNCHANGED <<file, corrupt, written, starts, foreign>>

(* What is written is what the process has; a full disk cuts it short, and *)
(* the save ends there.                                                    *)
WriteTmp(p) ==
    /\ process[p].step = "writing"
    /\ \/ /\ tmp # NoFile /\ tmp' = File("v2", process[p].has)
          /\ process' = [process EXCEPT ![p].step = "renaming"]
       \/ UNCHANGED tmp /\ process' = [process EXCEPT ![p].step = "running"]
       \/ /\ tmp = NoFile /\ UNCHANGED tmp
          /\ process' = [process EXCEPT ![p].step = "renaming"]
    /\ UNCHANGED <<file, corrupt, work, written, starts, foreign>>

(* It fails when another process has renamed the temporary file already.   *)
Rename(p) ==
    /\ process[p].step = "renaming"
    /\ IF tmp = NoFile THEN UNCHANGED <<file, tmp, written>>
       ELSE file' = tmp /\ tmp' = NoFile /\ written' = File("v2", process[p].has)
    /\ process' = [process EXCEPT ![p].step = "running"]
    /\ UNCHANGED <<corrupt, work, starts, foreign>>

(* The process is killed, or quits.                                        *)
Exit(p) ==
    /\ process[p].step # "off"
    /\ process' = [process EXCEPT ![p] = Off]
    /\ UNCHANGED <<file, tmp, corrupt, work, written, starts, foreign>>

(* A newer application, a disk or a user leaves another file.              *)
Foreign(format) ==
    /\ foreign < MaxForeign /\ foreign' = foreign + 1
    /\ \A p \in Instances : process[p].step = "off"
    /\ file' = File(format, 0) /\ written' = file'
    /\ UNCHANGED <<tmp, corrupt, process, work, starts>>

Next ==
    \/ \E p \in Instances : Read(p)
    \/ \E p \in Instances : Quarantine(p)
    \/ \E p \in Instances : Command(p)
    \/ \E p \in Instances : WriteTmp(p)
    \/ \E p \in Instances : Rename(p)
    \/ \E p \in Instances : Exit(p)
    \/ \E format \in {"newer", "schema", "unreadable", "torn"} : Foreign(format)

Spec == Init /\ [][Next]_vars

-----------------------------------------------------------------------------
(* Properties.                                                             *)

(* Every field holds a value of its kind.                                  *)
TypeOK ==
    /\ {file, tmp, written} \cup corrupt \subseteq [format : Formats, state : 0..MaxWork]
    /\ process \in [Instances -> [step : {"off", "quarantine", "running", "writing", "renaming"},
                                  has : 0..MaxWork, demo : BOOLEAN]]
    /\ work \in 0..MaxWork

(* Whenever the one process is killed, and whatever write or rename fails, *)
(* the file is what it last put in place, as a whole, or that was found    *)
(* corrupt and is kept aside.  Another process over the same directory     *)
(* breaks this: both write the same temporary file.                        *)
FileIsWhole ==
    \/ file = written
    \/ file = NoFile /\ written \in corrupt

(* persist.rs 50: for a newer version load returns an error "so the caller *)
(* can back up and start fresh"; recovery.md: "no silent data loss".  What *)
(* cannot be loaded is not written over without a copy.                    *)
NothingLostSilently ==
    [][file.format \in {"newer", "schema", "unreadable"} /\ foreign' = foreign =>
          file' = file \/ file \in corrupt']_file

=============================================================================
