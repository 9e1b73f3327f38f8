------------------------------ MODULE Launcher ------------------------------
(***************************************************************************)
(* The launcher service: class LauncherState of launcher_service.py, the   *)
(* HTTP handler threads that call it, its maintenance thread, the relay    *)
(* processes it spawns and the files it keeps for them.                    *)
(*                                                                         *)
(* One action is one `with self.lock:` section, since the lock makes each  *)
(* of them a single step for every other thread; a handler that takes the  *)
(* lock twice (the operation, then the snapshot for its reply) is two      *)
(* actions.  Processes die between any two steps.                          *)
(*                                                                         *)
(* A row object is a slot: a number that orders the rows as self.rows does *)
(* (a new row gets a slot above all others).  The id the browser uses is a *)
(* field, and an imported file may give two rows the same id.  A name is a *)
(* number: the names 1..SuggestCount are REF615_SIM_01, REF615_SIM_02, ... *)
(* and the others are names a user typed.  An address is its last octet.   *)
(* All the values of a row are one token of Vals, all its random ranges    *)
(* one token of RangeSets, and the *_config.json and *_values.json files   *)
(* of a stem, always written together, are one file.                       *)
(***************************************************************************)
EXTENDS Integers, Sequences

CONSTANTS
  Threads,        \* HTTP handler threads
  Pids,           \* processes the system can run (a bound)
  NoProc,         \* row.process is None
  Names,          \* names a row can have, 1..n
  SuggestCount,   \* how many of them follow the suggested pattern
  Stems,          \* what safe_name makes of names
  StemOf,         \* safe_name itself
  Vals,           \* value assignments of a row
  DefaultVals,    \* the one a new row gets
  NoFile,         \* no file of that stem
  RangeSets,      \* random ranges of a row
  DefaultRanges,  \* the ones a new row gets
  Adapters,       \* network adapters
  Ips,            \* last octets in use (a bound)
  FirstOctet,     \* the octet suggested when there are no rows
  MaxRows,        \* bound on the number of slots
  MaxId,          \* bound on row ids
  Stored,         \* configurations __init__ may load
  Forms,          \* what users submit for a row
  ImportFiles,    \* files a user may import
  BadPayloads,    \* whether a request may fail to convert half-way
  StopMayFail,    \* whether terminate() may raise on a live process
  UnlinkMayFail,  \* whether cleanup may fail to remove a file
  DistinctNames   \* whether users keep the names of rows distinct

Slots == 1..MaxRows
Ids == 1..MaxId

Row == [id : Ids, enabled : BOOLEAN, name : Names, ip : Ips,
        vals : Vals, ranges : RangeSets]

\* What the page sends for a row: a name or an ip of 0 is an empty field.
Form == [enabled : BOOLEAN, name : Names \cup {0}, ip : Ips \cup {0},
         vals : Vals, ranges : RangeSets]

\* A row of a file: an id, name or ip of 0 is one the file does not give.
RowSpec == [id : Ids \cup {0}, enabled : BOOLEAN, name : Names \cup {0},
            ip : Ips \cup {0}, vals : Vals, ranges : RangeSets]

\* The first `good` rows of a file convert; if there are more, the next raises.
FileType == {f \in [adapter : Adapters, auto : BOOLEAN, rows : Seq(RowSpec),
                    good : Nat] :
               f.rows # <<>> /\ f.good <= Len(f.rows)}

Tones == {"idle", "running", "stopped", "warning", "error"}
ThreadStates == {"idle", "accepted", "preparing", "replying", "farewell",
                 "stopping"}

ASSUME LauncherAssumption ==
  /\ MaxRows \in Nat /\ MaxId \in Nat /\ SuggestCount \in Nat
  /\ Names \subseteq Nat \ {0} /\ Ips \subseteq Nat \ {0}
  /\ FirstOctet \in Nat
  /\ StemOf \in [Names -> Stems]
  /\ NoProc \notin Pids /\ NoFile \notin Vals
  /\ DefaultVals \in Vals /\ DefaultRanges \in RangeSets
  /\ BadPayloads \in BOOLEAN /\ StopMayFail \in BOOLEAN
  /\ UnlinkMayFail \in BOOLEAN /\ DistinctNames \in BOOLEAN
  /\ Forms \subseteq Form
  /\ \A f \in Stored : f \in FileType /\ f.good = Len(f.rows)
  /\ \A f \in ImportFiles : f \in FileType
  /\ \A f \in Stored \cup ImportFiles : f.good <= MaxRows

VARIABLES
  rows,        \* self.rows: slot -> Row
  proc,        \* row.process: slot -> pid or NoProc
  tone,        \* row.status_tone: slot -> Tones
  nextId,      \* self.next_row_id
  autoRandom,  \* self.auto_random_enabled
  adapter,     \* self.network_adapter
  alive,       \* processes that run
  doomed,      \* of these, the ones killed and not waited for
  leaked,      \* ghost: processes whose handle was dropped while they ran
  valuesFile,  \* stem -> values in <stem>_values.json
  script,      \* what add_ip_aliases.ps1 was generated for
  persisted,   \* launcher_state.json
  pc,          \* where each handler thread is
  maint,       \* the maintenance thread: "waiting", "woken" or "ended"
  phase        \* main(): "serving", "closing", "stopped" or "exited"

config == <<rows, nextId, autoRandom, adapter>>
relays == <<proc, tone, alive, doomed, leaked>>
disk == <<valuesFile, script, persisted>>
control == <<pc, maint, phase>>
vars == <<config, relays, disk, control>>

-----------------------------------------------------------------------------
(* Reading the state.                                                      *)

Used == DOMAIN rows
IdsOf(rs) == {rs[s].id : s \in DOMAIN rs}
StemsOf(rs) == {StemOf[rs[s].name] : s \in DOMAIN rs}
Stem(s) == StemOf[rows[s].name]
Held == {proc[s] : s \in Used} \ {NoProc}
Live(s) == proc[s] \in alive

\* n is one more than the largest of S, or `first` when S is empty.
IsNext(n, first, S) ==
  IF S = {} THEN n = first
            ELSE n - 1 \in S /\ \A m \in S : m < n

\* The row a request for an id reaches: the first with that id.
Addressable ==
  {s \in Used : \A r \in Used : r < s => rows[r].id # rows[s].id}

\* The first name of the suggested pattern that no row in `taken` has.
IsSuggestedName(n, taken) ==
  /\ n \in 1..SuggestCount
  /\ n \notin taken
  /\ \A m \in 1..(n - 1) : m \in taken

IsSuggestedIp(ip, taken) == IsNext(ip, FirstOctet, taken)

\* Mutant: an empty address field is stored as it is.
LabelledBlank(row, form) ==
  [row EXCEPT !.enabled = form.enabled, !.ip = form.ip]

\* A form's enabled flag, name and address in a row; an empty field keeps the old.
Labelled(row, form) ==
  [row EXCEPT !.enabled = form.enabled,
              !.name = IF form.name = 0 THEN @ ELSE form.name,
              !.ip = IF form.ip = 0 THEN @ ELSE form.ip]

\* A name a user gives to slot s.
Nameable(n, s) == DistinctNames => \A r \in Used \ {s} : rows[r].name # n

-----------------------------------------------------------------------------
(* Files.                                                                  *)

\* Writing the rows S in order: of two rows with a stem the last one wins.
Written(files, rs, S) ==
  [f \in Stems |->
     IF \E s \in S : StemOf[rs[s].name] = f
     THEN rs[CHOOSE s \in S : /\ StemOf[rs[s].name] = f
                              /\ \A r \in S : StemOf[rs[r].name] = f => r <= s].vals
     ELSE files[f]]

\* Cleanup: a file of no row's stem is removed, unless unlink raises.
Cleaned(files, rs, stuck) ==
  [f \in Stems |-> IF f \in StemsOf(rs) \cup stuck THEN files[f] ELSE NoFile]

Stuck == IF UnlinkMayFail THEN SUBSET Stems ELSE {{}}

ScriptFor(rs, a) == [adapter |-> a, ips |-> {rs[s].ip : s \in DOMAIN rs}]
StateDict(rs, a, auto) == [adapter |-> a, auto |-> auto, rows |-> rs]

PersistState == persisted' = StateDict(rows', adapter', autoRandom')
GenerateScript == script' = ScriptFor(rows', adapter')
WriteRows(S) == valuesFile' = Written(valuesFile, rows', S)
\* Mutant: the files of the old name are left.
WriteOnly(S) == WriteRows(S)

WriteAndClean(S) ==
  \E stuck \in Stuck :
    valuesFile' = Cleaned(Written(valuesFile, rows', S), rows', stuck)

\* Mutant: the script is not generated again.
SaveWithoutScript(S) == WriteAndClean(S) /\ UNCHANGED script /\ PersistState

\* The tail of the operations that change what a row is.
SaveRuntime(S) == WriteAndClean(S) /\ GenerateScript /\ PersistState

-----------------------------------------------------------------------------
(* Relay processes.                                                        *)

\* Mutant: a process that outlives the wait is not killed.
StopWithoutKill(S, timedOut, failed, lost) ==
  LET target == {proc[s] : s \in S} \cap alive IN
  /\ timedOut \subseteq target
  /\ failed \subseteq target \ timedOut
  /\ failed # {} => StopMayFail
  /\ alive' = alive \ (target \ (timedOut \cup failed))
  /\ leaked' = leaked \cup failed \cup lost
  /\ UNCHANGED doomed

\* Stopping the rows of S: each live process dies, or outlives the wait and
\* is killed (timedOut), or stopping it raises (failed).  Whatever happens the
\* handle is dropped.  `lost` are handles dropped without stopping anything.
StopRelays(S, timedOut, failed, lost) ==
  LET target == {proc[s] : s \in S} \cap alive IN
  /\ timedOut \subseteq target
  /\ failed \subseteq target \ timedOut
  /\ failed # {} => StopMayFail
  /\ alive' = alive \ (target \ (timedOut \cup failed))
  /\ doomed' = doomed \cup timedOut
  /\ leaked' = leaked \cup failed \cup lost

\* Mutant: the handle is kept when stopping raises.
ReleaseStopped(S, failed, keep) ==
  /\ proc' = [s \in keep |-> IF s \in S /\ proc[s] \notin failed THEN NoProc
                                                                 ELSE proc[s]]
  /\ tone' = [s \in keep |-> IF s \notin S \/ proc[s] \in failed THEN tone[s]
                                                                 ELSE "stopped"]

\* The rows of `keep` after the rows of S were stopped.
ReleaseHandles(S, failed, keep) ==
  /\ proc' = [s \in keep |-> IF s \in S THEN NoProc ELSE proc[s]]
  /\ tone' = [s \in keep |-> IF s \notin S THEN tone[s]
                             ELSE IF proc[s] \in failed THEN "error" ELSE "stopped"]

StopRows(S) ==
  \E timedOut \in SUBSET alive, failed \in SUBSET alive :
    /\ StopRelays(S, timedOut, failed, {})
    /\ ReleaseHandles(S, failed, Used)

\* Starting the rows of S: a row whose process lives is only shown running, any
\* other has its files written and a process spawned, which may fail.
StartRows(S) ==
  LET fresh == {s \in S : ~Live(s)}
      Toned(failed, t) == [s \in Used |-> IF s \notin S THEN tone[s]
                                          ELSE IF s \in failed THEN t ELSE "running"]
  IN
  /\ WriteRows(fresh)
  /\ \/ fresh # {} /\ tone' = Toned(fresh, "warning") /\ UNCHANGED <<proc, alive>>
     \/ \E failed \in SUBSET fresh :
        \E child \in [fresh \ failed -> Pids \ (alive \cup Held)] :
          /\ \A r, s \in fresh \ failed : child[r] = child[s] => r = s
          /\ proc' = [s \in Used |-> IF s \in failed THEN NoProc
                                     ELSE IF s \in fresh THEN child[s] ELSE proc[s]]
          /\ tone' = Toned(failed, "error")
          /\ alive' = alive \cup {child[s] : s \in fresh \ failed}
  /\ UNCHANGED <<doomed, leaked>>

\* Mutant: the handle is dropped and the status kept.
PollSilently ==
  /\ proc' = [s \in Used |-> IF Live(s) THEN proc[s] ELSE NoProc]
  /\ UNCHANGED <<tone, alive, doomed, leaked>>

\* Every row whose process has died drops its handle and shows the exit code.
PollProcesses ==
  LET dead == {s \in Used : proc[s] # NoProc /\ ~Live(s)} IN
  /\ proc' = [s \in Used |-> IF s \in dead THEN NoProc ELSE proc[s]]
  /\ \E code \in [dead -> {"stopped", "warning"}] :
       tone' = [s \in Used |-> IF s \in dead THEN code[s] ELSE tone[s]]
  /\ UNCHANGED <<alive, doomed, leaked>>

\* Mutant: the new values stay in memory.
RandomizeInMemory(S) ==
  /\ \E drawn \in [S -> Vals] :
       rows' = [s \in Used |-> IF s \in S THEN [rows[s] EXCEPT !.vals = drawn[s]]
                                          ELSE rows[s]]
  /\ UNCHANGED <<nextId, autoRandom, adapter, valuesFile>>

RandomizeRows(S) ==
  /\ \E drawn \in [S -> Vals] :
       rows' = [s \in Used |-> IF s \in S THEN [rows[s] EXCEPT !.vals = drawn[s]]
                                          ELSE rows[s]]
  /\ WriteRows(S)
  /\ UNCHANGED <<nextId, autoRandom, adapter>>

-----------------------------------------------------------------------------
(* Loading rows from a file, in order: a row without an id gets the next   *)
(* one, a row without a name or an ip the one suggested after the rows     *)
(* before it.  Nothing checks that what a file gives is unique.            *)

IdsLoaded(f) ==
  {i \in [1..f.good -> Ids] : \A k \in 1..f.good :
     IF f.rows[k].id # 0 THEN i[k] = f.rows[k].id
                         ELSE IsNext(i[k], 1, {i[j] : j \in 1..(k - 1)})}

NamesLoaded(f) ==
  {n \in [1..f.good -> Names] : \A k \in 1..f.good :
     IF f.rows[k].name # 0 THEN n[k] = f.rows[k].name
                           ELSE IsSuggestedName(n[k], {n[j] : j \in 1..(k - 1)})}

IpsLoaded(f) ==
  {a \in [1..f.good -> Ips] : \A k \in 1..f.good :
     IF f.rows[k].ip # 0 THEN a[k] = f.rows[k].ip
                         ELSE IsSuggestedIp(a[k], {a[j] : j \in 1..(k - 1)})}

RowsLoaded(f) ==
  {[k \in 1..f.good |->
      [id |-> i[k], enabled |-> f.rows[k].enabled, name |-> n[k], ip |-> a[k],
       vals |-> f.rows[k].vals, ranges |-> f.rows[k].ranges]] :
   i \in IdsLoaded(f), n \in NamesLoaded(f), a \in IpsLoaded(f)}

\* Mutant: the next id counts the rows instead of their ids.
LoadCounting(f) ==
  /\ rows' \in RowsLoaded(f)
  /\ nextId' = f.good + 1
  /\ adapter' = f.adapter
  /\ autoRandom' = f.auto

\* The id the row that raises has taken by then, if the id itself converts.
IdTaken(f, taken) ==
  IF f.good = Len(f.rows) THEN {}
  ELSE LET id == f.rows[f.good + 1].id IN
       {i \in Ids : IF id # 0 THEN i = id ELSE IsNext(i, 1, taken)}

LoadRows(f) ==
  /\ rows' \in RowsLoaded(f)
  /\ nextId' \in 1..(MaxId + 1)
  /\ \E more \in {{}, IdTaken(f, IdsOf(rows'))} :
       IsNext(nextId', 1, IdsOf(rows') \cup more)
  /\ adapter' = f.adapter
  /\ autoRandom' = f.auto

-----------------------------------------------------------------------------
(* LauncherState.__init__ and start(): a stored configuration is loaded and *)
(* its files written, no process runs, the server listens.                 *)

Init ==
  /\ \E f \in Stored :
       /\ rows \in RowsLoaded(f)
       /\ adapter = f.adapter
       /\ autoRandom = f.auto
  /\ nextId \in 1..(MaxId + 1)
  /\ IsNext(nextId, 1, IdsOf(rows))
  /\ proc = [s \in Used |-> NoProc]
  /\ tone = [s \in Used |-> "idle"]
  /\ alive = {} /\ doomed = {} /\ leaked = {}
  /\ valuesFile = Written([f \in Stems |-> NoFile], rows, Used)
  /\ script = ScriptFor(rows, adapter)
  /\ persisted = StateDict(rows, adapter, autoRandom)
  /\ pc = [t \in Threads |-> "idle"]
  /\ maint = "waiting"
  /\ phase = "serving"

-----------------------------------------------------------------------------
(* Handler threads.                                                        *)

Goto(t, from, to) ==
  /\ phase # "exited"
  /\ pc[t] = from
  /\ pc' = [pc EXCEPT ![t] = to]
  /\ UNCHANGED <<maint, phase>>

\* The operation of a request succeeds; its reply will take a snapshot.
Handle(t) == Goto(t, "accepted", "replying")

\* serve_forever hands a connection to a thread of its own.
Accept(t) ==
  /\ phase = "serving"
  /\ Goto(t, "idle", "accepted")
  /\ UNCHANGED <<config, relays, disk>>

\* A request that changes nothing: a page, a ping, an export, an unknown route,
\* an id no row has, an unknown adapter, a file that holds no rows.
ReadOnly(t) ==
  /\ Goto(t, "accepted", "idle")
  /\ UNCHANGED <<config, relays, disk>>

UpdateSettings(t) ==
  /\ Handle(t)
  /\ adapter' \in Adapters
  /\ UNCHANGED <<rows, nextId, autoRandom, relays>>
  /\ SaveRuntime(Used)

\* Mutant: a new row takes the id of one that was removed.
NewRowReusing(n, ip) ==
  [id |-> CHOOSE i \in Ids : i \notin IdsOf(rows), enabled |-> TRUE, name |-> n,
   ip |-> ip, vals |-> DefaultVals, ranges |-> DefaultRanges]

NewRow(n, ip) ==
  [id |-> nextId, enabled |-> TRUE, name |-> n, ip |-> ip,
   vals |-> DefaultVals, ranges |-> DefaultRanges]

AddRow(t) ==
  /\ Handle(t)
  /\ \E s \in Slots, n \in Names, ip \in Ips :
       /\ IsNext(s, 1, Used)
       /\ IsSuggestedName(n, {rows[r].name : r \in Used})
       /\ IsSuggestedIp(ip, {rows[r].ip : r \in Used})
       /\ nextId <= MaxId
       /\ rows' = [r \in Used \cup {s} |-> IF r = s THEN NewRow(n, ip) ELSE rows[r]]
       /\ proc' = [r \in Used \cup {s} |-> IF r = s THEN NoProc ELSE proc[r]]
       /\ tone' = [r \in Used \cup {s} |-> IF r = s THEN "idle" ELSE tone[r]]
       /\ nextId' = nextId + 1
       /\ UNCHANGED <<autoRandom, adapter, alive, doomed, leaked>>
       /\ SaveRuntime({s})

\* PUT /api/rows/<id> with the whole form of the row.
UpdateRow(t) ==
  /\ Handle(t)
  /\ \E s \in Addressable, form \in Forms :
       /\ Nameable(form.name, s)
       /\ rows' = [rows EXCEPT ![s] = [Labelled(@, form) EXCEPT
                                         !.vals = form.vals, !.ranges = form.ranges]]
       /\ UNCHANGED <<nextId, autoRandom, adapter, relays>>
       /\ SaveRuntime({s})

\* The same when an entry raises: the name, the address and the enabled flag are
\* already assigned, the values and ranges are some mix of the old and the new
\* ones, nothing is written and the reply is an error.
UpdateRowFails(t) ==
  /\ BadPayloads
  /\ Goto(t, "accepted", "idle")
  /\ \E s \in Addressable, form \in Forms, mixed \in Vals, g \in RangeSets :
       /\ Nameable(form.name, s)
       /\ rows' = [rows EXCEPT ![s] = [Labelled(@, form) EXCEPT
                                         !.vals = mixed, !.ranges = g]]
  /\ UNCHANGED <<nextId, autoRandom, adapter, relays, disk>>

\* The row is stopped, then every row with its id is dropped.
RemoveRow(t) ==
  /\ Handle(t)
  /\ \E s \in Addressable :
       LET gone == {r \in Used : rows[r].id = rows[s].id} IN
       /\ rows' = [r \in Used \ gone |-> rows[r]]
       /\ \E timedOut \in SUBSET alive, failed \in SUBSET alive :
            /\ StopRelays({s}, timedOut, failed,
                          {proc[r] : r \in gone \ {s}} \cap alive)
            /\ ReleaseHandles({s}, failed, Used \ gone)
  /\ UNCHANGED <<nextId, autoRandom, adapter>>
  /\ SaveRuntime({})

\* POST /api/rows/<id>/write and /api/actions/write-all.
WriteRuntimeFiles(t) ==
  /\ Handle(t)
  /\ UNCHANGED <<config, relays, script>>
  /\ \/ \E s \in Addressable : WriteAndClean({s})
     \/ WriteAndClean(Used)
  /\ PersistState

\* Everything is stopped and dropped before the first row is converted, so a row
\* that raises leaves the rows before it, and the files of the old ones.
ImportConfiguration(t) ==
  \E f \in ImportFiles :
    /\ \E timedOut \in SUBSET alive, failed \in SUBSET alive :
         StopRelays(Used, timedOut, failed, {})
    /\ LoadRows(f)
    /\ proc' = [s \in 1..f.good |-> NoProc]
    /\ tone' = [s \in 1..f.good |-> "idle"]
    /\ \/ f.good = Len(f.rows) /\ Handle(t) /\ SaveRuntime(1..f.good)
       \/ f.good < Len(f.rows) /\ Goto(t, "accepted", "idle") /\ UNCHANGED disk

StartRow(t) ==
  /\ Handle(t)
  /\ UNCHANGED <<config, script>>
  /\ \E s \in Addressable : StartRows({s})
  /\ PersistState

StartAll(t) ==
  /\ Handle(t)
  /\ UNCHANGED <<config, script>>
  /\ StartRows({s \in Used : rows[s].enabled})
  /\ PersistState

StopRow(t) ==
  /\ Handle(t)
  /\ \E s \in Addressable : StopRows({s})
  /\ UNCHANGED <<config, valuesFile, script>>
  /\ PersistState

StopAll(t) ==
  /\ Handle(t)
  /\ StopRows(Used)
  /\ UNCHANGED <<config, valuesFile, script>>
  /\ PersistState

RandomizeRow(t) ==
  /\ Handle(t)
  /\ \E s \in Addressable : RandomizeRows({s})
  /\ UNCHANGED <<relays, script>>
  /\ PersistState

UpdateRandomSettings(t) ==
  /\ Handle(t)
  /\ \E s \in Addressable, g \in RangeSets : rows' = [rows EXCEPT ![s].ranges = g]
  /\ UNCHANGED <<nextId, autoRandom, adapter, relays, valuesFile, script>>
  /\ PersistState

\* Mutant: the flag is not saved.
ToggleUnsaved(t) ==
  /\ Handle(t)
  /\ autoRandom' = ~autoRandom
  /\ UNCHANGED <<rows, nextId, adapter, relays, disk>>

ToggleAutoRandom(t) ==
  /\ Handle(t)
  /\ autoRandom' = ~autoRandom
  /\ UNCHANGED <<rows, nextId, adapter, relays, valuesFile, script>>
  /\ PersistState

GenerateIpAliasScript(t) ==
  /\ Handle(t)
  /\ UNCHANGED <<config, relays, valuesFile>>
  /\ GenerateScript
  /\ PersistState

\* The script is written, then the lock is free while PowerShell starts.
PrepareNetwork(t) ==
  /\ Goto(t, "accepted", "preparing")
  /\ UNCHANGED <<config, relays, valuesFile, persisted>>
  /\ GenerateScript

\* PowerShell started, or could not be: then the reply is an error.
PrepareNetworkDone(t) ==
  /\ UNCHANGED <<config, relays, valuesFile, script>>
  /\ \/ Goto(t, "preparing", "replying") /\ PersistState
     \/ Goto(t, "preparing", "idle") /\ UNCHANGED persisted

\* GET /api/state, and the state every reply carries.
Snapshot(t) ==
  /\ \/ Goto(t, "accepted", "idle")
     \/ Goto(t, "replying", "idle")
     \/ Goto(t, "farewell", "stopping")
  /\ PollProcesses
  /\ UNCHANGED <<config, disk>>

-----------------------------------------------------------------------------
(* The maintenance thread.                                                 *)

\* stop_event.wait timed out; the thread is about to take the lock.
MaintWake ==
  /\ maint = "waiting" /\ phase = "serving"
  /\ maint' = "woken"
  /\ UNCHANGED <<config, relays, disk, pc, phase>>

\* Mutant: the maintenance thread leaves polling to the pages.
MaintTurnBlind ==
  /\ phase # "exited" /\ maint = "woken"
  /\ maint' = "waiting"
  /\ UNCHANGED <<relays, pc, phase>>

MaintTurn ==
  /\ phase # "exited" /\ maint = "woken"
  /\ maint' = "waiting"
  /\ PollProcesses
  /\ UNCHANGED <<pc, phase>>

\* Auto random is off, or its interval has not passed.
MaintPoll ==
  /\ MaintTurn
  /\ UNCHANGED <<config, disk>>

MaintRandomize ==
  /\ autoRandom
  /\ MaintTurn
  /\ LET enabled == {s \in Used : rows[s].enabled} IN
     RandomizeRows(IF enabled # {} THEN enabled ELSE Used)
  /\ UNCHANGED script
  /\ PersistState

MaintEnd ==
  /\ maint = "waiting" /\ phase \in {"closing", "stopped"}
  /\ maint' = "ended"
  /\ UNCHANGED <<config, relays, disk, pc, phase>>

-----------------------------------------------------------------------------
(* main(): serving until a shutdown request or Ctrl-C, then shutdown().    *)

ShutdownRequest(t) ==
  /\ Goto(t, "accepted", "farewell")
  /\ UNCHANGED <<config, relays, disk>>

\* After its reply the handler has server.shutdown called; serve_forever returns
\* and shutdown() sets stop_event.
StopServing(t) ==
  /\ phase # "exited" /\ pc[t] = "stopping"
  /\ pc' = [pc EXCEPT ![t] = "idle"]
  /\ phase' = IF phase = "serving" THEN "closing" ELSE phase
  /\ UNCHANGED <<config, relays, disk, maint>>

Interrupt ==
  /\ phase = "serving"
  /\ phase' = "closing"
  /\ UNCHANGED <<config, relays, disk, pc, maint>>

\* The section of shutdown().  The maintenance thread is joined for two seconds
\* only, the handler threads not at all.
Shutdown ==
  /\ phase = "closing"
  /\ phase' = "stopped"
  /\ StopRows(Used)
  /\ UNCHANGED <<config, valuesFile, script, pc, maint>>
  /\ PersistState

\* main returns: the interpreter exits and its daemon threads vanish.
Exit ==
  /\ phase = "stopped"
  /\ phase' = "exited"
  /\ UNCHANGED <<config, relays, disk, pc, maint>>

\* A relay process ends: by itself, or because it was killed.
ChildExits(p) ==
  /\ p \in alive
  /\ alive' = alive \ {p}
  /\ doomed' = doomed \ {p}
  /\ leaked' = leaked \ {p}
  /\ UNCHANGED <<config, proc, tone, disk, control>>

-----------------------------------------------------------------------------

ThreadStep(t) ==
  \/ Accept(t) \/ ReadOnly(t) \/ UpdateSettings(t) \/ AddRow(t)
  \/ UpdateRow(t) \/ UpdateRowFails(t) \/ RemoveRow(t) \/ WriteRuntimeFiles(t)
  \/ ImportConfiguration(t) \/ StartRow(t) \/ StartAll(t) \/ StopRow(t)
  \/ StopAll(t) \/ RandomizeRow(t) \/ UpdateRandomSettings(t)
  \/ ToggleAutoRandom(t) \/ GenerateIpAliasScript(t) \/ PrepareNetwork(t)
  \/ PrepareNetworkDone(t) \/ Snapshot(t) \/ ShutdownRequest(t) \/ StopServing(t)

MaintStep == MaintWake \/ MaintPoll \/ MaintRandomize \/ MaintEnd

MainStep == Interrupt \/ Shutdown \/ Exit

Next ==
  \/ \E t \in Threads : ThreadStep(t)
  \/ MaintStep
  \/ MainStep
  \/ \E p \in Pids : ChildExits(p)

Spec == Init /\ [][Next]_vars

\* The maintenance thread wakes every half second and the lock, held only for
\* short sections, lets it in.
FairSpec ==
  /\ Spec
  /\ WF_vars(MaintWake)
  /\ WF_vars(MaintPoll \/ MaintRandomize)

-----------------------------------------------------------------------------
(* Properties.                                                             *)

TypeOK ==
  /\ rows \in UNION {[S -> Row] : S \in SUBSET Slots}
  /\ proc \in [Used -> Pids \cup {NoProc}]
  /\ tone \in [Used -> Tones]
  /\ nextId \in 1..(MaxId + 1)
  /\ autoRandom \in BOOLEAN
  /\ adapter \in Adapters
  /\ alive \subseteq Pids /\ doomed \subseteq alive /\ leaked \subseteq alive
  /\ valuesFile \in [Stems -> Vals \cup {NoFile}]
  /\ script.adapter \in Adapters /\ script.ips \subseteq Ips
  /\ persisted.adapter \in Adapters /\ persisted.auto \in BOOLEAN
  /\ persisted.rows \in UNION {[S -> Row] : S \in SUBSET Slots}
  /\ pc \in [Threads -> ThreadStates]
  /\ maint \in {"waiting", "woken", "ended"}
  /\ phase \in {"serving", "closing", "stopped", "exited"}

\* Every relay that runs is in some row's hands, so that it can be stopped; the
\* only others are those killed when a stop timed out (row.process is dropped
\* without waiting) and those whose stop raised or whose row went with another
\* of the same id.
NoStrayRelay == alive \subseteq Held \cup doomed \cup leaked

\* No two rows hold one process, and no row holds a process that some stop has
\* let go of: stopping or polling a row never acts on another row's relay.
OneOwner ==
  /\ \A r, s \in Used : proc[r] = proc[s] /\ proc[r] # NoProc => r = s
  /\ Held \cap (doomed \cup leaked) = {}

\* What the page shows: a row whose relay runs is shown running, and a row shown
\* running has a relay, dead at most since the last poll.
ShownAsRunning ==
  \A s \in Used : /\ Live(s) => tone[s] = "running"
                  /\ tone[s] = "running" => proc[s] # NoProc

\* A relay that dies is noticed by the maintenance thread, whatever the handler
\* threads do, unless the launcher is stopped first.
HeldDead(s) == s \in Used /\ proc[s] # NoProc /\ proc[s] \notin alive
DeathNoticed ==
  \A s \in Slots : HeldDead(s) ~> (~HeldDead(s) \/ phase # "serving")

\* The values file a relay serves from holds the values of its row: no other
\* row's write, cleanup or removal gets into it.
FilesMatchRows == \A s \in Used : valuesFile[Stem(s)] = rows[s].vals

\* "Removes stale runtime files that no longer belong to any configured relay
\* row": after every section there is a file for no other stem.
NoStaleFiles == \A f \in Stems : valuesFile[f] # NoFile => f \in StemsOf(rows)

\* launcher_state.json is the configuration in memory after every section, so
\* that a crash at any moment loses nothing.
PersistedCurrent == persisted = StateDict(rows, adapter, autoRandom)

\* The generated script adds the addresses of the rows there are, on the
\* adapter selected, whichever operation changed them last.
ScriptCurrent == script = ScriptFor(rows, adapter)

\* An id reaches one row, and the next one handed out is above all of them.
RowIdsDistinct ==
  /\ \A r, s \in Used : rows[r].id = rows[s].id => r = s
  /\ \A s \in Used : rows[s].id < nextId

\* An id that was handed out and has no row any more never gets one again, so
\* that a request from a page that still shows the old row cannot reach another
\* row; only an import starts the ids afresh.
RemovedIdsStayGone ==
  [][\/ \E t \in Threads : ImportConfiguration(t)
     \/ \A i \in 1..(nextId - 1) : i \notin IdsOf(rows) => i \notin IdsOf(rows')]_vars

\* Stopping the service stops "all running relay processes": none is left when
\* the launcher has exited.
ExitLeavesNoRelay == phase = "exited" => alive \subseteq doomed

\* An import replaces the current configuration with the imported one, or
\* leaves it.
ImportReplaces ==
  [][(\E t \in Threads : ImportConfiguration(t)) =>
       rows' = rows \/ \E f \in ImportFiles : DOMAIN rows' = DOMAIN f.rows]_vars

=============================================================================
