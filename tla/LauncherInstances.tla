------------------------- MODULE LauncherInstances -------------------------
(***************************************************************************)
(* Copies of the launcher service on one machine: what they share is the   *)
(* port, launcher_state.json and the files of the rows.  A copy asks the   *)
(* port whether another one serves it, and if nobody answers within 250 ms *)
(* loads the state, saves it, writes and cleans the files, and only then   *)
(* binds the port.  Any copy may die at any step; the state file is        *)
(* written in place.                                                       *)
(*                                                                         *)
(* A configuration is the set of its rows, each with its own name; what    *)
(* Launcher says of one copy's requests is one action, Edit, here, and the *)
(* steps that follow it on disk.                                           *)
(***************************************************************************)
EXTENDS Integers, FiniteSets

CONSTANTS
  Copies,
  Rows,
  DefaultRows,  \* default_row_specs
  Torn,         \* what a state file holds that is no JSON
  SharedPort,   \* SO_REUSEADDR of Windows: a port in use may be bound again
  MaxCrashes    \* bound on the copies that die

ASSUME InstancesAssumption ==
  /\ DefaultRows \in (SUBSET Rows) \ {{}}
  /\ \A S \in SUBSET Rows : S # Torn
  /\ SharedPort \in BOOLEAN /\ MaxCrashes \in Nat

VARIABLES
  pc,         \* copy -> the step it is at, "off" when it does not run
  job,        \* copy -> what its steps on disk belong to: "start", "edit", "quit"
  rows,       \* copy -> self.rows
  todo,       \* copy -> rows whose files it has still to write
  stateFile,  \* launcher_state.json: its rows, {} also without a file, or Torn
  files,      \* rows that have runtime files
  mixed,      \* copies in the middle of a save that another one got into
  saved,      \* ghost: the rows of the last save that was completed
  crashes,    \* copies that died
  brokenOff,  \* ghost: the last save broke off, or was mixed up with another one
  rivals      \* ghost: copies that were at work when another one was

disk == <<stateFile, files>>
ghosts == <<saved, crashes, brokenOff, rivals>>
vars == <<pc, job, rows, todo, disk, mixed, ghosts>>

Live(c) == pc[c] \notin {"off", "probe"}
HasPort(c) == pc[c] \in {"announce", "serve"} \/ job[c] = "edit"
Answers(c) == pc[c] = "serve" \/ job[c] = "edit"

Init ==
  /\ pc = [c \in Copies |-> "off"] /\ job = [c \in Copies |-> "none"]
  /\ rows = [c \in Copies |-> {}] /\ todo = [c \in Copies |-> {}]
  /\ stateFile = {} /\ files = {}
  /\ mixed = {}
  /\ saved = DefaultRows /\ crashes = 0 /\ brokenOff = FALSE /\ rivals = {}

Goto(c, step) == pc' = [pc EXCEPT ![c] = step]
Off(c) ==
  /\ Goto(c, "off") /\ job' = [job EXCEPT ![c] = "none"]
  /\ rows' = [rows EXCEPT ![c] = {}] /\ todo' = [todo EXCEPT ![c] = {}]

-----------------------------------------------------------------------------
(* Starting.                                                               *)

Start(c) ==
  /\ pc[c] = "off"
  /\ Goto(c, "probe")
  /\ UNCHANGED <<job, rows, todo, disk, mixed, ghosts>>

\* launcher_is_running: the page of the other copy is opened and this one ends.
Reuse(c) ==
  /\ pc[c] = "probe"
  /\ \E d \in Copies : Answers(d)
  /\ Goto(c, "off")
  /\ UNCHANGED <<job, rows, todo, disk, mixed, ghosts>>

\* Nobody serves, or the answer does not come in time.
NoAnswer(c) ==
  /\ pc[c] = "probe"
  /\ Goto(c, "load")
  /\ job' = [job EXCEPT ![c] = "start"]
  /\ LET live == {d \in Copies \ {c} : Live(d)}
     IN  rivals' = IF live = {} THEN rivals \ {c} ELSE rivals \cup live \cup {c}
  /\ UNCHANGED <<rows, todo, disk, mixed, saved, crashes, brokenOff>>

\* Mutant: the default rows are added to those that were saved.
LoadWithDefaults(c) ==
  /\ pc[c] = "load"
  /\ rows' = [rows EXCEPT ![c] = IF stateFile = Torn THEN DefaultRows ELSE stateFile \cup DefaultRows]
  /\ Goto(c, "save")
  /\ UNCHANGED <<job, todo, disk, mixed, ghosts>>

\* _load_state: no file, a file that is no JSON and an empty list of rows all
\* give the defaults.
LoadState(c) ==
  /\ pc[c] = "load"
  /\ rows' = [rows EXCEPT ![c] = IF stateFile \in {{}, Torn} THEN DefaultRows ELSE stateFile]
  /\ Goto(c, "save")
  /\ UNCHANGED <<job, todo, disk, mixed, ghosts>>

-----------------------------------------------------------------------------
(* Steps on disk.                                                          *)

\* write_text opens the file, which truncates it.
BeginSave(c) ==
  /\ pc[c] = "save"
  /\ stateFile' = Torn
  /\ mixed' = mixed \cup {d \in Copies \ {c} : pc[d] = "saving"}
  /\ Goto(c, "saving")
  /\ UNCHANGED <<job, rows, todo, files, ghosts>>

\* What comes after a save.
AfterSave(c) ==
  \/ /\ job[c] = "start"
     /\ Goto(c, "write") /\ todo' = [todo EXCEPT ![c] = rows[c]]
     /\ UNCHANGED <<job, rows>>
  \/ /\ job[c] = "edit"
     /\ Goto(c, "serve") /\ job' = [job EXCEPT ![c] = "none"]
     /\ UNCHANGED <<rows, todo>>
  \/ job[c] = "quit" /\ Off(c)

\* Two copies that wrote at once may leave the end of the longer text.
EndSave(c) ==
  /\ pc[c] = "saving"
  /\ stateFile' \in IF c \in mixed THEN {rows[c], Torn} ELSE {rows[c]}
  /\ mixed' = (mixed \ {c}) \cup {d \in Copies \ {c} : pc[d] = "saving"}
  /\ saved' = rows[c] /\ brokenOff' = (stateFile' = Torn)
  /\ AfterSave(c)
  /\ UNCHANGED <<files, crashes, rivals>>

WriteFiles(c) ==
  /\ pc[c] = "write" /\ todo[c] # {}
  /\ \E r \in todo[c] : /\ files' = files \cup {r}
                        /\ todo' = [todo EXCEPT ![c] = @ \ {r}]
  /\ UNCHANGED <<pc, job, rows, stateFile, mixed, ghosts>>

\* Mutant: a copy that starts leaves the files of rows it does not have.
CleanAfterEdits(c) ==
  /\ pc[c] = "write" /\ todo[c] = {}
  /\ files' = IF job[c] = "start" THEN files ELSE files \cap rows[c]
  /\ Goto(c, IF job[c] = "start" THEN "bind" ELSE "save")
  /\ UNCHANGED <<job, rows, todo, stateFile, mixed, ghosts>>

\* _cleanup_stale_runtime_files_unlocked, and the script, which is written anew.
CleanFiles(c) ==
  /\ pc[c] = "write" /\ todo[c] = {}
  /\ files' = files \cap rows[c]
  /\ Goto(c, IF job[c] = "start" THEN "bind" ELSE "save")
  /\ UNCHANGED <<job, rows, todo, stateFile, mixed, ghosts>>

-----------------------------------------------------------------------------
(* The service.                                                            *)

\* The port is free, or shared.
Bind(c) ==
  /\ pc[c] = "bind"
  /\ SharedPort \/ \A d \in Copies : ~HasPort(d)
  /\ Goto(c, "announce")
  /\ job' = [job EXCEPT ![c] = "none"]
  /\ UNCHANGED <<rows, todo, disk, mixed, ghosts>>

\* Mutant: a copy steps back for one that has only started.
StepBackForAny(c) ==
  /\ pc[c] = "bind"
  /\ \E d \in Copies \ {c} : Live(d)
  /\ Off(c)
  /\ UNCHANGED <<disk, mixed, ghosts>>

\* OSError: "already running", but the state was saved and the files written.
BindFails(c) ==
  /\ pc[c] = "bind"
  /\ \E d \in Copies : HasPort(d)
  /\ Off(c)
  /\ UNCHANGED <<disk, mixed, ghosts>>

\* The browser is opened before anyone is served.
Serve(c) ==
  /\ pc[c] = "announce"
  /\ Goto(c, "serve")
  /\ UNCHANGED <<job, rows, todo, disk, mixed, ghosts>>

\* Mutant: the files are written for the rows as they were.
EditOldFiles(c) ==
  /\ pc[c] = "serve"
  /\ \E new \in (SUBSET Rows) \ {rows[c]} : rows' = [rows EXCEPT ![c] = new]
  /\ todo' = [todo EXCEPT ![c] = rows[c]]
  /\ Goto(c, "write")
  /\ job' = [job EXCEPT ![c] = "edit"]
  /\ UNCHANGED <<disk, mixed, ghosts>>

\* A request that changes the rows: it writes the file of the row it is about,
\* or all of them, cleans, saves, and is answered.
Edit(c) ==
  /\ pc[c] = "serve"
  /\ \E new \in (SUBSET Rows) \ {rows[c]} :
       /\ rows' = [rows EXCEPT ![c] = new]
       /\ \E some \in {new, new \ rows[c]} : todo' = [todo EXCEPT ![c] = some]
  /\ Goto(c, "write")
  /\ job' = [job EXCEPT ![c] = "edit"]
  /\ UNCHANGED <<disk, mixed, ghosts>>

\* server_close, then shutdown(): the port is free while the relays are stopped
\* and the state is saved a last time.
Quit(c) ==
  /\ pc[c] = "serve"
  /\ Goto(c, "save")
  /\ job' = [job EXCEPT ![c] = "quit"]
  /\ UNCHANGED <<rows, todo, disk, mixed, ghosts>>

Crash(c) ==
  /\ pc[c] # "off" /\ crashes < MaxCrashes
  /\ Off(c)
  /\ crashes' = crashes + 1
  /\ brokenOff' = (brokenOff \/ pc[c] = "saving")
  /\ mixed' = mixed \ {c}
  /\ UNCHANGED <<disk, saved, rivals>>

-----------------------------------------------------------------------------

Advance(c) ==
  \/ Reuse(c) \/ NoAnswer(c) \/ LoadState(c)
  \/ BeginSave(c) \/ EndSave(c) \/ WriteFiles(c) \/ CleanFiles(c)
  \/ Bind(c) \/ BindFails(c) \/ Serve(c)

Next == \E c \in Copies : Start(c) \/ Advance(c) \/ Edit(c) \/ Quit(c) \/ Crash(c)

Spec == Init /\ [][Next]_vars

\* A copy that was started goes on; nobody has to start, edit, quit or die.
FairSpec == Spec /\ \A c \in Copies : WF_vars(Advance(c))

-----------------------------------------------------------------------------
(* Properties.                                                             *)

TypeOK ==
  /\ pc \in [Copies -> {"off", "probe", "load", "save", "saving", "write",
                        "bind", "announce", "serve"}]
  /\ job \in [Copies -> {"none", "start", "edit", "quit"}]
  /\ rows \in [Copies -> SUBSET Rows]
  /\ \A c \in Copies : todo[c] \subseteq rows[c]
  /\ stateFile = Torn \/ stateFile \subseteq Rows
  /\ files \subseteq Rows
  /\ mixed \subseteq {c \in Copies : pc[c] = "saving"}
  /\ saved \in SUBSET Rows /\ crashes \in 0..MaxCrashes
  /\ brokenOff \in BOOLEAN /\ rivals \subseteq Copies

\* Between requests the rows a copy serves are saved, have their files and
\* are the only ones that have, whatever crashed before it, unless it was at
\* work together with another copy.
AtRestConsistent ==
  \A c \in Copies :
    pc[c] \in {"announce", "serve"} /\ c \notin rivals =>
      stateFile = rows[c] /\ files = rows[c]

\* A copy alone loads what was saved last, unless the last save was broken off or
\* left no rows.
RestartRestores ==
  [][\A c \in Copies :
       LoadState(c) /\ rivals = {} /\ ~brokenOff /\ saved # {} =>
         rows'[c] = saved]_vars

\* Copies that start at the same time do not all step back for each other: who
\* starts one gets a service, unless copies die.
StartServes ==
  \A c \in Copies :
    pc[c] = "probe" ~> (crashes > 0 \/ \E d \in Copies : pc[d] = "serve")

=============================================================================
