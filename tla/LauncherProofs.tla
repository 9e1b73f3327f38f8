--------------------------- MODULE LauncherProofs ---------------------------
(***************************************************************************)
(* Theorems about Launcher, for any number of rows, handler threads,       *)
(* processes, stored and imported files.                                   *)
(***************************************************************************)
EXTENDS Launcher, WellFoundedInduction, TLAPS

-----------------------------------------------------------------------------
(* Relay processes: what the handles, the statuses and the processes that  *)
(* run have to do with each other.                                         *)

RelayTypes ==
  /\ proc \in [Used -> Pids \cup {NoProc}]
  /\ tone \in [Used -> Tones]
  /\ alive \subseteq Pids /\ doomed \subseteq alive /\ leaked \subseteq alive

\* Inductive as it stands, whatever the rows are: a stop drops the handle of
\* every process it lets run on, and only such processes are doomed or leaked.
RelayInv == RelayTypes /\ NoStrayRelay /\ OneOwner /\ ShownAsRunning

LEMMA NoProcIsNoPid == NoProc \notin Pids
  BY LauncherAssumption

LEMMA RelayInit == Init => RelayInv
<1> SUFFICES ASSUME Init PROVE RelayInv
  OBVIOUS
<1>1. /\ alive = {} /\ doomed = {} /\ leaked = {}
      /\ proc = [s \in Used |-> NoProc] /\ tone = [s \in Used |-> "idle"]
  BY DEF Init
<1>2. Held = {}
  BY <1>1 DEF Held
<1> QED
  BY <1>1, <1>2 DEF RelayInv, RelayTypes, NoStrayRelay, OneOwner, ShownAsRunning, Tones, Live

LEMMA RelaysUntouched ==
  ASSUME RelayInv, UNCHANGED relays, Used' = Used
  PROVE  RelayInv'
<1>1. proc' = proc /\ tone' = tone /\ alive' = alive /\ doomed' = doomed /\ leaked' = leaked
  BY DEF relays
<1>2. Held' = Held
  BY <1>1 DEF Held
<1> QED
  BY <1>1, <1>2 DEF RelayInv, RelayTypes, NoStrayRelay, OneOwner, ShownAsRunning, Live

\* What stopping the rows of S leaves.
LEMMA Stopped ==
  ASSUME RelayInv, NEW S \in SUBSET Used, NEW timedOut, NEW failed, NEW lost,
         lost \subseteq alive, \A s \in S : proc[s] \notin lost,
         StopRelays(S, timedOut, failed, lost)
  PROVE  /\ alive' \subseteq alive /\ doomed' \subseteq alive' /\ leaked' \subseteq alive'
         /\ doomed \cup leaked \cup lost \subseteq doomed' \cup leaked'
         /\ doomed' \cup leaked' \subseteq doomed \cup leaked \cup lost \cup {proc[s] : s \in S}
         /\ \A s \in S : proc[s] \in alive' => proc[s] \in doomed' \cup leaked'
         /\ \A s \in S : proc[s] \in failed => proc[s] \in alive
<1> DEFINE target == {proc[s] : s \in S} \cap alive
<1>1. /\ timedOut \subseteq target /\ failed \subseteq target \ timedOut
      /\ alive' = alive \ (target \ (timedOut \cup failed))
      /\ doomed' = doomed \cup timedOut /\ leaked' = leaked \cup failed \cup lost
  BY DEF StopRelays
<1>2. target \cap (doomed \cup leaked \cup lost) = {}
  <2>1. \A s \in S : proc[s] \in alive => proc[s] \in Held
    BY NoProcIsNoPid DEF RelayInv, RelayTypes, Held
  <2> QED
    BY <2>1 DEF RelayInv, OneOwner
<1>3. doomed \subseteq alive /\ leaked \subseteq alive
  BY DEF RelayInv, RelayTypes
<1> QED
  BY <1>1, <1>2, <1>3

LEMMA StopStep ==
  ASSUME RelayInv, NEW S \in SUBSET Used, NEW keep \in SUBSET Used,
         NEW timedOut, NEW failed,
         StopRelays(S, timedOut, failed, {proc[r] : r \in (Used \ keep) \ S} \cap alive),
         ReleaseHandles(S, failed, keep), Used' = keep
  PROVE  RelayInv'
<1> DEFINE lost == {proc[r] : r \in (Used \ keep) \ S} \cap alive
<1>0. StopRelays(S, timedOut, failed, lost) /\ lost \subseteq alive
  OBVIOUS
<1>1. ASSUME NEW s \in S PROVE proc[s] \notin lost
  <2> SUFFICES ASSUME NEW r \in (Used \ keep) \ S, proc[s] = proc[r], proc[r] \in alive
               PROVE  FALSE
    OBVIOUS
  <2>1. proc[r] # NoProc
    BY NoProcIsNoPid DEF RelayInv, RelayTypes
  <2> QED
    BY <2>1 DEF RelayInv, OneOwner
<1>2. /\ alive' \subseteq alive /\ doomed' \subseteq alive' /\ leaked' \subseteq alive'
      /\ doomed \cup leaked \cup lost \subseteq doomed' \cup leaked'
      /\ doomed' \cup leaked' \subseteq doomed \cup leaked \cup lost \cup {proc[s] : s \in S}
      /\ \A s \in S : proc[s] \in alive' => proc[s] \in doomed' \cup leaked'
  <2> HIDE DEF lost
  <2> QED
    BY <1>1, <1>0, Stopped
<1>3. /\ \A s \in keep : proc'[s] = IF s \in S THEN NoProc ELSE proc[s]
      /\ \A s \in keep : s \notin S => tone'[s] = tone[s]
      /\ \A s \in keep : s \in S => tone'[s] \in {"error", "stopped"}
      /\ proc' \in [keep -> Pids \cup {NoProc}] /\ tone' \in [keep -> Tones]
  BY DEF ReleaseHandles, RelayInv, RelayTypes, Tones
<1>4. RelayTypes'
  BY <1>2, <1>3 DEF RelayInv, RelayTypes
<1>5. NoStrayRelay'
  <2> SUFFICES ASSUME NEW p \in alive' PROVE p \in Held' \cup doomed' \cup leaked'
    BY DEF NoStrayRelay
  <2>1. CASE p \in Held
    <3>1. PICK s \in Used : p = proc[s]
      BY <2>1 DEF Held
    <3>2. CASE s \in S
      BY <1>2, <3>1, <3>2
    <3>3. CASE s \notin S /\ s \notin keep
      BY <1>2, <3>1, <3>3
    <3>4. CASE s \notin S /\ s \in keep
      BY <1>2, <1>3, <2>1, <3>1, <3>4 DEF Held
    <3> QED
      BY <3>2, <3>3, <3>4
  <2>2. CASE p \notin Held
    BY <1>2, <2>2 DEF RelayInv, NoStrayRelay
  <2> QED
    BY <2>1, <2>2
<1>6. OneOwner'
  <2>1. \A r, s \in keep : proc'[r] = proc'[s] /\ proc'[r] # NoProc => r = s
    BY <1>3 DEF RelayInv, OneOwner
  <2>2. ASSUME NEW p \in Held' PROVE p \notin doomed' \cup leaked'
    <3>1. PICK s \in keep : p = proc[s] /\ s \notin S /\ p \in Held /\ p # NoProc
      BY <1>3, <2>2 DEF Held
    <3>2. p \notin lost /\ \A r \in S : p # proc[r]
      BY <3>1 DEF RelayInv, OneOwner
    <3> QED
      BY <1>2, <3>1, <3>2 DEF RelayInv, OneOwner
  <2> QED
    BY <2>1, <2>2 DEF OneOwner
<1>7. ShownAsRunning'
  BY <1>2, <1>3, NoProcIsNoPid DEF RelayInv, RelayTypes, ShownAsRunning, Live
<1> QED
  BY <1>4, <1>5, <1>6, <1>7 DEF RelayInv

LEMMA StopRowsStep ==
  ASSUME RelayInv, NEW S \in SUBSET Used, StopRows(S), Used' = Used
  PROVE  RelayInv'
<1>1. PICK timedOut \in SUBSET alive, failed \in SUBSET alive :
        StopRelays(S, timedOut, failed, {}) /\ ReleaseHandles(S, failed, Used)
  BY DEF StopRows
<1>2. {proc[r] : r \in (Used \ Used) \ S} \cap alive = {}
  OBVIOUS
<1> QED
  BY <1>1, <1>2, StopStep

\* Importing stops every row and drops them all.
LEMMA ReplaceStep ==
  ASSUME RelayInv, NEW timedOut, NEW failed, StopRelays(Used, timedOut, failed, {}),
         proc' = [s \in Used' |-> NoProc], tone' = [s \in Used' |-> "idle"]
  PROVE  RelayInv'
<1>1. /\ alive' \subseteq alive /\ doomed' \subseteq alive' /\ leaked' \subseteq alive'
      /\ doomed \cup leaked \subseteq doomed' \cup leaked'
      /\ \A s \in Used : proc[s] \in alive' => proc[s] \in doomed' \cup leaked'
  <2>1. PICK lost : lost = {}
    OBVIOUS
  <2>2. StopRelays(Used, timedOut, failed, lost) /\ lost \subseteq alive
          /\ Used \in SUBSET Used /\ \A s \in Used : proc[s] \notin lost
    BY <2>1
  <2> QED
    BY <2>2, Stopped
<1>2. Held' = {}
  BY DEF Held
<1>3. NoStrayRelay'
  BY <1>1 DEF RelayInv, NoStrayRelay, Held
<1>4. RelayTypes'
  BY <1>1 DEF RelayInv, RelayTypes, Tones
<1>5. OneOwner'
  BY <1>2 DEF OneOwner
<1>6. ShownAsRunning'
  BY <1>4, NoProcIsNoPid DEF RelayTypes, ShownAsRunning, Live
<1> QED
  BY <1>3, <1>4, <1>5, <1>6 DEF RelayInv

LEMMA StartStep ==
  ASSUME RelayInv, NEW S \in SUBSET Used, StartRows(S), Used' = Used
  PROVE  RelayInv'
<1> DEFINE fresh == {s \in S : ~Live(s)}
           Toned(failed, t) == [s \in Used |-> IF s \notin S THEN tone[s]
                                               ELSE IF s \in failed THEN t ELSE "running"]
<1>1. doomed' = doomed /\ leaked' = leaked
  BY DEF StartRows
<1>2. CASE fresh # {} /\ tone' = Toned(fresh, "warning") /\ UNCHANGED <<proc, alive>>
  <2>1. Held' = Held
    BY <1>2 DEF Held
  <2>2. ShownAsRunning'
    BY <1>2 DEF RelayInv, RelayTypes, ShownAsRunning, Live
  <2>3. RelayTypes'
    BY <1>1, <1>2 DEF RelayInv, RelayTypes, Tones
  <2> QED
    BY <1>1, <1>2, <2>1, <2>2, <2>3 DEF RelayInv, NoStrayRelay, OneOwner
<1>3. ASSUME NEW failed \in SUBSET fresh,
             NEW child \in [fresh \ failed -> Pids \ (alive \cup Held)],
             \A r, s \in fresh \ failed : child[r] = child[s] => r = s,
             proc' = [s \in Used |-> IF s \in failed THEN NoProc
                                     ELSE IF s \in fresh THEN child[s] ELSE proc[s]],
             tone' = Toned(failed, "error"),
             alive' = alive \cup {child[s] : s \in fresh \ failed}
      PROVE  RelayInv'
  <2>1. /\ \A s \in failed : proc'[s] = NoProc
        /\ \A s \in fresh \ failed : proc'[s] = child[s]
        /\ \A s \in Used \ fresh : proc'[s] = proc[s]
    BY <1>3
  <2>2. \A s \in fresh \ failed : child[s] \in Pids /\ child[s] \notin alive \cup Held
    BY <1>3
  <2>3. RelayTypes'
    BY <1>1, <1>3, <2>2 DEF RelayInv, RelayTypes, Tones
  <2>4. ShownAsRunning'
    <3> SUFFICES ASSUME NEW s \in Used
                 PROVE  /\ proc'[s] \in alive' => tone'[s] = "running"
                        /\ tone'[s] = "running" => proc'[s] # NoProc
      BY DEF ShownAsRunning, Live
    <3>1. CASE s \in failed
      BY <1>3, <2>1, <2>3, <3>1, NoProcIsNoPid DEF RelayTypes
    <3>2. CASE s \in fresh \ failed
      BY <1>3, <2>1, <2>2, <3>2, NoProcIsNoPid
    <3>3. CASE s \in S \ fresh
      BY <1>3, <2>1, <3>3, NoProcIsNoPid DEF Live, RelayInv, RelayTypes
    <3>4. CASE s \notin S
      <4>1. proc'[s] = proc[s] /\ tone'[s] = tone[s]
        BY <1>3, <2>1, <3>4
      <4>2. proc[s] = NoProc \/ proc[s] \in Held
        BY DEF Held
      <4>3. proc[s] \in alive' => proc[s] \in alive
        BY <1>3, <2>2, <4>2, NoProcIsNoPid
      <4> QED
        BY <4>1, <4>3 DEF RelayInv, ShownAsRunning, Live
    <3> QED
      BY <3>1, <3>2, <3>3, <3>4
  <2>5. NoStrayRelay'
    <3> SUFFICES ASSUME NEW p \in alive' PROVE p \in Held' \cup doomed' \cup leaked'
      BY DEF NoStrayRelay
    <3>1. CASE p \notin alive
      <4>1. PICK s \in fresh \ failed : p = child[s]
        BY <1>3, <3>1
      <4> QED
        BY <2>1, <2>2, <4>1, NoProcIsNoPid DEF Held
    <3>2. CASE p \in alive /\ p \in Held
      <4>1. PICK s \in Used : p = proc[s]
        BY <3>2 DEF Held
      <4>2. s \notin fresh
        BY <3>2, <4>1 DEF Live
      <4> QED
        BY <2>1, <3>2, <4>1, <4>2 DEF Held
    <3>3. CASE p \in alive /\ p \notin Held
      BY <1>1, <3>3 DEF RelayInv, NoStrayRelay
    <3> QED
      BY <3>1, <3>2, <3>3
  <2>6. OneOwner'
    <3>1. ASSUME NEW r \in Used, NEW s \in Used, proc'[r] = proc'[s], proc'[r] # NoProc
          PROVE  r = s
      <4>1. r \notin failed /\ s \notin failed
        BY <2>1, <3>1
      <4>2. \A q \in Used \ fresh : proc'[q] # NoProc => proc'[q] \in Held
        BY <2>1 DEF Held
      <4> QED
        BY <1>3, <2>1, <2>2, <3>1, <4>1, <4>2 DEF RelayInv, OneOwner
    <3>2. ASSUME NEW s \in Used, proc'[s] # NoProc PROVE proc'[s] \notin doomed \cup leaked
      <4>1. CASE s \in fresh
        BY <2>1, <2>2, <3>2, <4>1 DEF RelayInv, RelayTypes
      <4>2. CASE s \notin fresh
        BY <2>1, <3>2, <4>2 DEF RelayInv, OneOwner, Held
      <4> QED
        BY <4>1, <4>2
    <3> QED
      BY <1>1, <3>1, <3>2 DEF OneOwner, Held
  <2> QED
    BY <2>3, <2>4, <2>5, <2>6 DEF RelayInv
<1> QED
  BY <1>2, <1>3 DEF StartRows

LEMMA PollStep ==
  ASSUME RelayInv, PollProcesses, Used' = Used
  PROVE  RelayInv'
<1> DEFINE dead == {s \in Used : proc[s] # NoProc /\ ~Live(s)}
<1>1. /\ proc' = [s \in Used |-> IF s \in dead THEN NoProc ELSE proc[s]]
      /\ alive' = alive /\ doomed' = doomed /\ leaked' = leaked
  BY DEF PollProcesses
<1>2. PICK code \in [dead -> {"stopped", "warning"}] :
        tone' = [s \in Used |-> IF s \in dead THEN code[s] ELSE tone[s]]
  BY DEF PollProcesses
<1>3. RelayTypes'
  <2>1. \A s \in dead : code[s] \in Tones
    BY DEF Tones
  <2> QED
    BY <1>1, <1>2, <2>1 DEF RelayInv, RelayTypes
<1>4. Held' \subseteq Held /\ Held \cap alive \subseteq Held'
  BY <1>1 DEF Held, Live
<1>5. ShownAsRunning'
  <2> SUFFICES ASSUME NEW s \in Used
               PROVE  /\ proc'[s] \in alive => tone'[s] = "running"
                      /\ tone'[s] = "running" => proc'[s] # NoProc
    BY <1>1 DEF ShownAsRunning, Live
  <2>1. CASE s \in dead
    BY <1>1, <1>2, <2>1, NoProcIsNoPid DEF RelayInv, RelayTypes
  <2>2. CASE s \notin dead
    BY <1>1, <1>2, <2>2 DEF RelayInv, ShownAsRunning, Live
  <2> QED
    BY <2>1, <2>2
<1>6. NoStrayRelay'
  BY <1>1, <1>4 DEF RelayInv, NoStrayRelay
<1>7. OneOwner'
  BY <1>1, <1>4 DEF RelayInv, OneOwner
<1> QED
  BY <1>3, <1>5, <1>6, <1>7 DEF RelayInv

LEMMA AddStep ==
  ASSUME RelayInv, NEW n, n \notin Used, Used' = Used \cup {n},
         proc' = [s \in Used \cup {n} |-> IF s = n THEN NoProc ELSE proc[s]],
         tone' = [s \in Used \cup {n} |-> IF s = n THEN "idle" ELSE tone[s]],
         UNCHANGED <<alive, doomed, leaked>>
  PROVE  RelayInv'
<1>1. RelayTypes'
  BY DEF RelayInv, RelayTypes, Tones
<1>2. \A s \in Used : proc'[s] = proc[s] /\ tone'[s] = tone[s]
  OBVIOUS
<1>3. proc'[n] = NoProc /\ tone'[n] = "idle"
  OBVIOUS
<1>4. Held' = Held
  BY <1>2, <1>3 DEF Held
<1>5. ShownAsRunning'
  BY <1>2, <1>3, NoProcIsNoPid DEF RelayInv, RelayTypes, ShownAsRunning, Live
<1>6. OneOwner'
  BY <1>2, <1>3, <1>4 DEF RelayInv, OneOwner
<1> QED
  BY <1>1, <1>4, <1>5, <1>6 DEF RelayInv, NoStrayRelay

LEMMA DeathStep ==
  ASSUME RelayInv, NEW p, ChildExits(p)
  PROVE  RelayInv'
<1>1. /\ alive' = alive \ {p} /\ doomed' = doomed \ {p} /\ leaked' = leaked \ {p}
      /\ proc' = proc /\ tone' = tone /\ Used' = Used
  BY DEF ChildExits, config, Used
<1>2. Held' = Held
  BY <1>1 DEF Held
<1> QED
  BY <1>1, <1>2 DEF RelayInv, RelayTypes, NoStrayRelay, OneOwner, ShownAsRunning, Live

LEMMA LoadedDomain ==
  ASSUME NEW f, NEW rs \in RowsLoaded(f) PROVE DOMAIN rs = 1..f.good
  BY DEF RowsLoaded

\* The steps that leave the processes alone and keep the rows there are.
Aside(t) ==
  \/ Accept(t) \/ ReadOnly(t) \/ UpdateSettings(t) \/ UpdateRow(t)
  \/ UpdateRowFails(t) \/ WriteRuntimeFiles(t) \/ RandomizeRow(t)
  \/ UpdateRandomSettings(t) \/ ToggleAutoRandom(t) \/ GenerateIpAliasScript(t)
  \/ PrepareNetwork(t) \/ PrepareNetworkDone(t) \/ ShutdownRequest(t)
  \/ StopServing(t)

LEMMA AsideStep ==
  ASSUME NEW t \in Threads, Aside(t)
  PROVE  UNCHANGED relays /\ Used' = Used
<1>1. CASE Accept(t) \/ ReadOnly(t) \/ UpdateSettings(t) \/ WriteRuntimeFiles(t)
           \/ ToggleAutoRandom(t) \/ GenerateIpAliasScript(t)
  BY <1>1 DEF Accept, ReadOnly, UpdateSettings, WriteRuntimeFiles, ToggleAutoRandom,
              GenerateIpAliasScript, config, Used
<1>2. CASE PrepareNetwork(t) \/ PrepareNetworkDone(t) \/ ShutdownRequest(t) \/ StopServing(t)
  BY <1>2 DEF PrepareNetwork, PrepareNetworkDone, ShutdownRequest, StopServing, config, Used
<1>3. CASE UpdateRow(t) \/ UpdateRowFails(t) \/ UpdateRandomSettings(t)
  BY <1>3 DEF UpdateRow, UpdateRowFails, UpdateRandomSettings, Used
<1>4. CASE RandomizeRow(t)
  BY <1>4 DEF RandomizeRow, RandomizeRows, Used
<1> QED
  BY <1>1, <1>2, <1>3, <1>4 DEF Aside

LEMMA AddRowStep == ASSUME RelayInv, NEW t \in Threads, AddRow(t) PROVE RelayInv'
<1>1. PICK s \in Slots :
        /\ IsNext(s, 1, Used)
        /\ Used' = Used \cup {s}
        /\ proc' = [r \in Used \cup {s} |-> IF r = s THEN NoProc ELSE proc[r]]
        /\ tone' = [r \in Used \cup {s} |-> IF r = s THEN "idle" ELSE tone[r]]
        /\ UNCHANGED <<alive, doomed, leaked>>
  BY DEF AddRow, Used
<1>2. s \notin Used
  BY <1>1 DEF IsNext, Slots
<1> QED
  BY <1>1, <1>2, AddStep

LEMMA RemoveRowStep == ASSUME RelayInv, NEW t \in Threads, RemoveRow(t) PROVE RelayInv'
<1>1. PICK s \in Addressable :
        \E timedOut \in SUBSET alive, failed \in SUBSET alive :
          LET gone == {r \in Used : rows[r].id = rows[s].id} IN
          /\ rows' = [r \in Used \ gone |-> rows[r]]
          /\ StopRelays({s}, timedOut, failed, {proc[r] : r \in gone \ {s}} \cap alive)
          /\ ReleaseHandles({s}, failed, Used \ gone)
  BY DEF RemoveRow
<1> DEFINE gone == {r \in Used : rows[r].id = rows[s].id}
           keep == Used \ gone
<1>2. PICK timedOut \in SUBSET alive, failed \in SUBSET alive :
        /\ rows' = [r \in keep |-> rows[r]]
        /\ StopRelays({s}, timedOut, failed, {proc[r] : r \in gone \ {s}} \cap alive)
        /\ ReleaseHandles({s}, failed, keep)
  BY <1>1
<1>3. Used' = keep /\ {s} \in SUBSET Used /\ keep \in SUBSET Used
  BY <1>2 DEF Used, Addressable
<1>4. gone = Used \ keep
  OBVIOUS
<1>5. StopRelays({s}, timedOut, failed, {proc[r] : r \in (Used \ keep) \ {s}} \cap alive)
  BY <1>2, <1>4
<1> QED
  <2> HIDE DEF keep
  <2> QED
    BY <1>2, <1>3, <1>5, StopStep

LEMMA ImportStep ==
  ASSUME RelayInv, NEW t \in Threads, ImportConfiguration(t) PROVE RelayInv'
<1>1. PICK f \in ImportFiles :
        /\ \E timedOut \in SUBSET alive, failed \in SUBSET alive : StopRelays(Used, timedOut, failed, {})
        /\ rows' \in RowsLoaded(f)
        /\ proc' = [s \in 1..f.good |-> NoProc]
        /\ tone' = [s \in 1..f.good |-> "idle"]
  BY DEF ImportConfiguration, LoadRows
<1>2. Used' = 1..f.good
  BY <1>1, LoadedDomain DEF Used
<1>3. proc' = [s \in Used' |-> NoProc] /\ tone' = [s \in Used' |-> "idle"]
  BY <1>1, <1>2
<1> QED
  BY <1>1, <1>3, ReplaceStep

LEMMA RelayStep == RelayInv /\ [Next]_vars => RelayInv'
<1> SUFFICES ASSUME RelayInv, [Next]_vars PROVE RelayInv'
  OBVIOUS
<1>1. ASSUME NEW t \in Threads, Aside(t) PROVE RelayInv'
  BY <1>1, AsideStep, RelaysUntouched
<1>2. ASSUME NEW t \in Threads, StartRow(t) \/ StartAll(t) PROVE RelayInv'
  <2>1. \E S \in SUBSET Used : StartRows(S)
    BY <1>2 DEF StartRow, StartAll, Addressable
  <2>2. Used' = Used
    BY <1>2 DEF StartRow, StartAll, config, Used
  <2> QED
    BY <2>1, <2>2, StartStep
<1>3. ASSUME NEW t \in Threads, StopRow(t) \/ StopAll(t) PROVE RelayInv'
  <2>1. \E S \in SUBSET Used : StopRows(S)
    BY <1>3 DEF StopRow, StopAll, Addressable
  <2>2. Used' = Used
    BY <1>3 DEF StopRow, StopAll, config, Used
  <2> QED
    BY <2>1, <2>2, StopRowsStep
<1>4. ASSUME NEW t \in Threads, Snapshot(t) PROVE RelayInv'
  BY <1>4, PollStep DEF Snapshot, config, Used
<1>5. CASE MaintStep
  <2>1. CASE MaintWake \/ MaintEnd
    BY <2>1, RelaysUntouched DEF MaintWake, MaintEnd, config, Used
  <2>2. CASE MaintPoll \/ MaintRandomize
    <3>1. PollProcesses /\ Used' = Used
      BY <2>2 DEF MaintPoll, MaintRandomize, MaintTurn, RandomizeRows, config, Used
    <3> QED
      BY <3>1, PollStep
  <2> QED
    BY <1>5, <2>1, <2>2 DEF MaintStep
<1>6. CASE MainStep
  <2>1. CASE Interrupt \/ Exit
    BY <2>1, RelaysUntouched DEF Interrupt, Exit, config, Used
  <2>2. CASE Shutdown
    <3>1. StopRows(Used) /\ Used' = Used /\ Used \in SUBSET Used
      BY <2>2 DEF Shutdown, config, Used
    <3> QED
      BY <3>1, StopRowsStep
  <2> QED
    BY <1>6, <2>1, <2>2 DEF MainStep
<1>7. CASE UNCHANGED vars
  BY <1>7, RelaysUntouched DEF vars, config, Used
<1> QED
  BY <1>1, <1>2, <1>3, <1>4, <1>5, <1>6, <1>7, AddRowStep, RemoveRowStep, ImportStep,
     DeathStep DEF Next, ThreadStep, Aside

LEMMA RelayInvariant == Spec => []RelayInv
  BY RelayInit, RelayStep, PTL DEF Spec

\* Every relay that runs can be stopped, but for those killed when a stop timed
\* out, those whose stop raised and those whose row went with another of its id.
THEOREM NoStrayRelayHolds == Spec => []NoStrayRelay
<1>1. RelayInv => NoStrayRelay
  BY DEF RelayInv
<1> QED
  BY <1>1, RelayInvariant, PTL

\* No two rows hold one process, and none holds one that a stop has let go of.
THEOREM OneOwnerHolds == Spec => []OneOwner
<1>1. RelayInv => OneOwner
  BY DEF RelayInv
<1> QED
  BY <1>1, RelayInvariant, PTL

\* A row whose relay runs is shown running, and a row shown running has a relay,
\* dead at most since the last poll.
THEOREM ShownAsRunningHolds == Spec => []ShownAsRunning
<1>1. RelayInv => ShownAsRunning
  BY DEF RelayInv
<1> QED
  BY <1>1, RelayInvariant, PTL

-----------------------------------------------------------------------------
(* Types.                                                                  *)

\* Functions from a set of slots to rows.
IsRows(rs) == DOMAIN rs \subseteq Slots /\ rs \in [DOMAIN rs -> Row]

LEMMA RowsType ==
  ASSUME NEW rs PROVE IsRows(rs) <=> rs \in UNION {[S -> Row] : S \in SUBSET Slots}
  BY DEF IsRows

LEMMA Largest ==
  ASSUME NEW S \in SUBSET Slots, S # {} PROVE \E s \in S : \A r \in S : r <= s
<1> DEFINE T == {MaxRows - s : s \in S}
<1>0. MaxRows \in Nat /\ \A s \in S : s \in Nat /\ s <= MaxRows
  BY LauncherAssumption DEF Slots
<1>1. T \subseteq Nat /\ T # {}
  BY <1>0
<1>2. PICK m \in T : \A k \in T : ~(<<k, m>> \in OpToRel(<, Nat))
  BY <1>1, NatLessThanWellFounded, WFMin
<1>3. \A k \in T : ~(k < m)
  BY <1>1, <1>2 DEF OpToRel
<1>4. PICK s \in S : m = MaxRows - s
  OBVIOUS
<1>5. ASSUME NEW r \in S PROVE r <= s
  <2>1. ~(MaxRows - r < m)
    BY <1>3
  <2> QED
    BY <1>0, <1>4, <2>1
<1> QED
  BY <1>4, <1>5

FileMap == [Stems -> Vals \cup {NoFile}]

LEMMA WrittenType ==
  ASSUME NEW files \in FileMap, NEW rs, IsRows(rs), NEW S \in SUBSET DOMAIN rs
  PROVE  Written(files, rs, S) \in FileMap
<1> SUFFICES ASSUME NEW f \in Stems, NEW q \in S, StemOf[rs[q].name] = f
             PROVE  rs[CHOOSE s \in S : /\ StemOf[rs[s].name] = f
                                        /\ \A r \in S : StemOf[rs[r].name] = f => r <= s].vals
                      \in Vals
  BY DEF Written, FileMap
<1> DEFINE T == {s \in S : StemOf[rs[s].name] = f}
<1>1. T # {} /\ T \in SUBSET Slots
  BY DEF IsRows
<1>2. \E s \in T : \A r \in T : r <= s
  BY <1>1, Largest
<1>3. \E s \in S : StemOf[rs[s].name] = f /\ \A r \in S : StemOf[rs[r].name] = f => r <= s
  BY <1>2
<1>4. \A s \in S : rs[s].vals \in Vals
  BY DEF IsRows, Row
<1> QED
  BY <1>3, <1>4

LEMMA CleanedType ==
  ASSUME NEW files \in FileMap, NEW rs, NEW stuck
  PROVE  Cleaned(files, rs, stuck) \in FileMap
  BY DEF Cleaned, FileMap

ConfigTypes ==
  /\ IsRows(rows) /\ nextId \in 1..(MaxId + 1)
  /\ autoRandom \in BOOLEAN /\ adapter \in Adapters

ScriptType == script.adapter \in Adapters /\ script.ips \subseteq Ips
PersistedType ==
  persisted.adapter \in Adapters /\ persisted.auto \in BOOLEAN /\ IsRows(persisted.rows)
DiskTypes == valuesFile \in FileMap /\ ScriptType /\ PersistedType

ControlTypes ==
  /\ pc \in [Threads -> ThreadStates]
  /\ maint \in {"waiting", "woken", "ended"}
  /\ phase \in {"serving", "closing", "stopped", "exited"}

TypeInv == ConfigTypes /\ DiskTypes /\ ControlTypes

LEMMA LoadedType ==
  ASSUME NEW f \in Stored \cup ImportFiles, NEW rs \in RowsLoaded(f) PROVE IsRows(rs)
<1>1. /\ f.rows \in Seq(RowSpec) /\ f.good \in Nat /\ f.good <= Len(f.rows)
      /\ f.good <= MaxRows /\ MaxRows \in Nat
  BY LauncherAssumption DEF FileType
<1>2. PICK i \in [1..f.good -> Ids], n \in [1..f.good -> Names], a \in [1..f.good -> Ips] :
        rs = [k \in 1..f.good |->
                [id |-> i[k], enabled |-> f.rows[k].enabled, name |-> n[k], ip |-> a[k],
                 vals |-> f.rows[k].vals, ranges |-> f.rows[k].ranges]]
  BY DEF RowsLoaded, IdsLoaded, NamesLoaded, IpsLoaded
<1>3. \A k \in 1..f.good : f.rows[k] \in RowSpec
  BY <1>1
<1>4. 1..f.good \subseteq Slots
  BY <1>1 DEF Slots
<1>5. rs \in [1..f.good -> Row] /\ DOMAIN rs = 1..f.good
  BY <1>2, <1>3 DEF Row, RowSpec
<1> QED
  BY <1>4, <1>5 DEF IsRows

LEMMA LoadedFile ==
  ASSUME NEW f \in Stored \cup ImportFiles
  PROVE  f.adapter \in Adapters /\ f.auto \in BOOLEAN
  BY LauncherAssumption DEF FileType

LEMMA TypeInit == Init => TypeInv
<1> SUFFICES ASSUME Init PROVE TypeInv
  OBVIOUS
<1>1. PICK f \in Stored : rows \in RowsLoaded(f) /\ adapter = f.adapter /\ autoRandom = f.auto
  BY DEF Init
<1>2. ConfigTypes
  BY <1>1, LoadedType, LoadedFile DEF ConfigTypes, Init
<1>3. valuesFile \in FileMap
  <2>1. [f0 \in Stems |-> NoFile] \in FileMap
    BY DEF FileMap
  <2> QED
    BY <1>2, <2>1, WrittenType DEF Init, ConfigTypes, Used
<1>4. ScriptType
  BY <1>2 DEF Init, ScriptType, ScriptFor, ConfigTypes, IsRows, Row
<1>5. PersistedType
  BY <1>2 DEF Init, PersistedType, StateDict, ConfigTypes
<1>6. ControlTypes
  BY DEF Init, ControlTypes, ThreadStates
<1> QED
  BY <1>2, <1>3, <1>4, <1>5, <1>6 DEF TypeInv, DiskTypes

LEMMA ConfigSame ==
  ASSUME ConfigTypes, UNCHANGED config PROVE ConfigTypes'
  BY DEF ConfigTypes, config

LEMMA LabelledType ==
  ASSUME NEW row \in Row, NEW form \in Form PROVE Labelled(row, form) \in Row
  BY DEF Row, Form, Labelled

LEMMA ConfigStep == ConfigTypes /\ [Next]_vars => ConfigTypes'
<1> SUFFICES ASSUME ConfigTypes, [Next]_vars PROVE ConfigTypes'
  OBVIOUS
<1>0. /\ Used \subseteq Slots /\ rows \in [Used -> Row]
      /\ \A s \in Used : rows[s] \in Row
  BY DEF ConfigTypes, IsRows, Used
<1>1. ASSUME NEW t \in Threads, UpdateSettings(t) \/ ToggleAutoRandom(t) PROVE ConfigTypes'
  BY <1>1 DEF UpdateSettings, ToggleAutoRandom, ConfigTypes
<1>2. ASSUME NEW t \in Threads, AddRow(t) PROVE ConfigTypes'
  <2>1. PICK s \in Slots, n \in Names, ip \in Ips :
          /\ nextId <= MaxId
          /\ rows' = [r \in Used \cup {s} |-> IF r = s THEN NewRow(n, ip) ELSE rows[r]]
          /\ nextId' = nextId + 1
          /\ UNCHANGED <<autoRandom, adapter>>
    BY <1>2 DEF AddRow
  <2>2. nextId' \in 1..(MaxId + 1) /\ nextId \in Ids
    BY <2>1, LauncherAssumption DEF ConfigTypes, Ids
  <2>3. NewRow(n, ip) \in Row
    BY <2>2, LauncherAssumption DEF NewRow, Row
  <2>4. rows' \in [Used \cup {s} -> Row] /\ DOMAIN rows' = Used \cup {s}
    BY <1>0, <2>1, <2>3
  <2> QED
    BY <1>0, <2>1, <2>2, <2>4 DEF ConfigTypes, IsRows
<1>3. ASSUME NEW t \in Threads, UpdateRow(t) \/ UpdateRowFails(t) \/ UpdateRandomSettings(t)
      PROVE  ConfigTypes'
  <2>1. UNCHANGED <<nextId, autoRandom, adapter>>
    BY <1>3 DEF UpdateRow, UpdateRowFails, UpdateRandomSettings
  <2>2. \E s \in Used, row \in Row : rows' = [rows EXCEPT ![s] = row]
    <3>1. CASE UpdateRow(t)
      <4>1. PICK s \in Used, form \in Forms :
              rows' = [rows EXCEPT ![s] = [Labelled(rows[s], form) EXCEPT
                                             !.vals = form.vals, !.ranges = form.ranges]]
        BY <3>1 DEF UpdateRow, Addressable
      <4>2. form \in Form /\ Labelled(rows[s], form) \in Row
        BY <1>0, LabelledType, LauncherAssumption
      <4>3. [Labelled(rows[s], form) EXCEPT !.vals = form.vals, !.ranges = form.ranges] \in Row
        BY <4>2 DEF Row, Form
      <4> QED
        BY <4>1, <4>3
    <3>2. CASE UpdateRowFails(t)
      <4>1. PICK s \in Used, form \in Forms, mixed \in Vals, g \in RangeSets :
              rows' = [rows EXCEPT ![s] = [Labelled(rows[s], form) EXCEPT
                                             !.vals = mixed, !.ranges = g]]
        BY <3>2 DEF UpdateRowFails, Addressable
      <4>2. Labelled(rows[s], form) \in Row
        BY <1>0, LabelledType, LauncherAssumption
      <4>3. [Labelled(rows[s], form) EXCEPT !.vals = mixed, !.ranges = g] \in Row
        BY <4>2 DEF Row
      <4> QED
        BY <4>1, <4>3
    <3>3. CASE UpdateRandomSettings(t)
      <4>1. PICK s \in Used, g \in RangeSets : rows' = [rows EXCEPT ![s].ranges = g]
        BY <3>3 DEF UpdateRandomSettings, Addressable
      <4>2. [rows[s] EXCEPT !.ranges = g] \in Row
        BY <1>0 DEF Row
      <4> QED
        BY <4>1, <4>2
    <3> QED
      BY <1>3, <3>1, <3>2, <3>3
  <2>3. rows' \in [Used -> Row] /\ DOMAIN rows' = Used
    BY <1>0, <2>2
  <2> QED
    BY <1>0, <2>1, <2>3 DEF ConfigTypes, IsRows
<1>4. ASSUME NEW t \in Threads, RemoveRow(t) PROVE ConfigTypes'
  <2>1. PICK keep \in SUBSET Used : rows' = [r \in keep |-> rows[r]]
    BY <1>4 DEF RemoveRow
  <2>2. rows' \in [keep -> Row] /\ DOMAIN rows' = keep
    BY <1>0, <2>1
  <2>3. UNCHANGED <<nextId, autoRandom, adapter>>
    BY <1>4 DEF RemoveRow
  <2> QED
    BY <1>0, <2>2, <2>3 DEF ConfigTypes, IsRows
<1>5. ASSUME NEW t \in Threads, ImportConfiguration(t) PROVE ConfigTypes'
  <2>1. PICK f \in ImportFiles : LoadRows(f)
    BY <1>5 DEF ImportConfiguration
  <2> QED
    BY <2>1, LoadedType, LoadedFile DEF LoadRows, ConfigTypes
<1>6. ASSUME NEW S \in SUBSET Used, RandomizeRows(S) PROVE ConfigTypes'
  <2>1. PICK drawn \in [S -> Vals] :
          rows' = [s \in Used |-> IF s \in S THEN [rows[s] EXCEPT !.vals = drawn[s]]
                                            ELSE rows[s]]
    BY <1>6 DEF RandomizeRows
  <2>2. \A s \in S : [rows[s] EXCEPT !.vals = drawn[s]] \in Row
    BY <1>0 DEF Row
  <2>3. rows' \in [Used -> Row] /\ DOMAIN rows' = Used
    BY <1>0, <2>1, <2>2
  <2> QED
    BY <1>0, <1>6, <2>3 DEF ConfigTypes, IsRows, RandomizeRows
<1>7. ASSUME NEW t \in Threads, RandomizeRow(t) PROVE ConfigTypes'
  BY <1>6, <1>7 DEF RandomizeRow, Addressable
<1>8. CASE MaintRandomize
  <2>1. \E S \in SUBSET Used : RandomizeRows(S)
    BY <1>8 DEF MaintRandomize
  <2> QED
    BY <1>6, <2>1
<1>9. CASE UNCHANGED config
  BY <1>9, ConfigSame
<1>10. ASSUME NEW t \in Threads,
              \/ Accept(t) \/ ReadOnly(t) \/ WriteRuntimeFiles(t) \/ StartRow(t)
              \/ StartAll(t) \/ StopRow(t) \/ StopAll(t) \/ GenerateIpAliasScript(t)
              \/ PrepareNetwork(t) \/ PrepareNetworkDone(t) \/ Snapshot(t)
              \/ ShutdownRequest(t) \/ StopServing(t)
       PROVE  UNCHANGED config
  BY <1>10 DEF Accept, ReadOnly, WriteRuntimeFiles, StartRow, StartAll, StopRow, StopAll,
               GenerateIpAliasScript, PrepareNetwork, PrepareNetworkDone, Snapshot,
               ShutdownRequest, StopServing
<1>11. CASE MaintWake \/ MaintPoll \/ MaintEnd \/ MainStep \/ UNCHANGED vars
             \/ \E p \in Pids : ChildExits(p)
  <2>1. UNCHANGED config
    BY <1>11 DEF MaintWake, MaintPoll, MaintEnd, MainStep, Interrupt, Shutdown, Exit,
                 ChildExits, vars
  <2> QED
    BY <2>1, ConfigSame
<1> QED
  BY <1>1, <1>2, <1>3, <1>4, <1>5, <1>7, <1>8, <1>9, <1>10, <1>11
     DEF Next, ThreadStep, MaintStep

\* What a step may do to the files: each is left, or written for the new rows.
DiskForm ==
  /\ \/ valuesFile' = valuesFile
     \/ \E S \in SUBSET Used' : WriteRows(S) \/ WriteAndClean(S)
  /\ script' = script \/ GenerateScript
  /\ persisted' = persisted \/ PersistState

LEMMA DiskForms == [Next]_vars => DiskForm
<1> SUFFICES ASSUME [Next]_vars PROVE DiskForm
  OBVIOUS
<1> USE DEF DiskForm
<1>1. ASSUME NEW t \in Threads,
             \/ Accept(t) \/ ReadOnly(t) \/ UpdateRowFails(t) \/ StopRow(t) \/ StopAll(t)
             \/ UpdateRandomSettings(t) \/ ToggleAutoRandom(t) \/ GenerateIpAliasScript(t)
             \/ PrepareNetwork(t) \/ PrepareNetworkDone(t) \/ Snapshot(t)
             \/ ShutdownRequest(t) \/ StopServing(t)
      PROVE  DiskForm
  BY <1>1 DEF Accept, ReadOnly, UpdateRowFails, StopRow, StopAll, UpdateRandomSettings,
              ToggleAutoRandom, GenerateIpAliasScript, PrepareNetwork, PrepareNetworkDone,
              Snapshot, ShutdownRequest, StopServing, disk
<1>2. ASSUME NEW S \in SUBSET Used', SaveRuntime(S) PROVE DiskForm
  BY <1>2 DEF SaveRuntime
<1>3. ASSUME NEW t \in Threads, UpdateSettings(t) PROVE DiskForm
  BY <1>2, <1>3 DEF UpdateSettings, Used
<1>4. ASSUME NEW t \in Threads, AddRow(t) PROVE DiskForm
  <2>1. PICK s \in Slots : DOMAIN rows' = Used \cup {s} /\ SaveRuntime({s})
    BY <1>4 DEF AddRow
  <2> QED
    BY <1>2, <2>1 DEF Used
<1>5. ASSUME NEW t \in Threads, UpdateRow(t) PROVE DiskForm
  <2>1. PICK s \in Used : DOMAIN rows' = Used /\ SaveRuntime({s})
    BY <1>5 DEF UpdateRow, Addressable, Used
  <2> QED
    BY <1>2, <2>1 DEF Used
<1>6. ASSUME NEW t \in Threads, RemoveRow(t) PROVE DiskForm
  BY <1>2, <1>6 DEF RemoveRow
<1>7. ASSUME NEW t \in Threads, WriteRuntimeFiles(t) PROVE DiskForm
  BY <1>7 DEF WriteRuntimeFiles, Addressable, config, Used
<1>8. ASSUME NEW t \in Threads, ImportConfiguration(t) PROVE DiskForm
  <2>1. PICK f \in ImportFiles :
          rows' \in RowsLoaded(f) /\ (SaveRuntime(1..f.good) \/ UNCHANGED disk)
    BY <1>8 DEF ImportConfiguration, LoadRows
  <2>2. Used' = 1..f.good
    BY <2>1, LoadedDomain DEF Used
  <2> QED
    BY <1>2, <2>1, <2>2 DEF disk
<1>9. ASSUME NEW t \in Threads, StartRow(t) \/ StartAll(t) PROVE DiskForm
  <2>1. \E S \in SUBSET Used : WriteRows(S)
    BY <1>9 DEF StartRow, StartAll, StartRows, Addressable
  <2> QED
    BY <1>9, <2>1 DEF StartRow, StartAll, config, Used
<1>10. ASSUME NEW S \in SUBSET Used, RandomizeRows(S), script' = script, PersistState
       PROVE  DiskForm
  BY <1>10 DEF RandomizeRows, Used
<1>11. ASSUME NEW t \in Threads, RandomizeRow(t) PROVE DiskForm
  BY <1>10, <1>11 DEF RandomizeRow, Addressable
<1>12. CASE MaintRandomize
  <2>1. \E S \in SUBSET Used : RandomizeRows(S)
    BY <1>12 DEF MaintRandomize
  <2> QED
    BY <1>10, <1>12, <2>1 DEF MaintRandomize
<1>13. CASE MaintWake \/ MaintPoll \/ MaintEnd \/ MainStep \/ UNCHANGED vars
             \/ \E p \in Pids : ChildExits(p)
  BY <1>13 DEF MaintWake, MaintPoll, MaintEnd, MainStep, Interrupt, Shutdown, Exit,
               ChildExits, disk, vars
<1> QED
  BY <1>1, <1>3, <1>4, <1>5, <1>6, <1>7, <1>8, <1>9, <1>11, <1>12, <1>13
     DEF Next, ThreadStep, MaintStep

LEMMA DiskStep ==
  ASSUME DiskTypes, ConfigTypes', DiskForm PROVE DiskTypes'
<1>1. IsRows(rows') /\ adapter' \in Adapters /\ autoRandom' \in BOOLEAN
  BY DEF ConfigTypes
<1>2. valuesFile' \in FileMap
  <2>1. ASSUME NEW S \in SUBSET Used' PROVE Written(valuesFile, rows', S) \in FileMap
    BY <1>1, WrittenType DEF DiskTypes, Used
  <2>2. ASSUME NEW S \in SUBSET Used', WriteAndClean(S) PROVE valuesFile' \in FileMap
    BY <2>1, <2>2, CleanedType DEF WriteAndClean
  <2> QED
    BY <2>1, <2>2 DEF DiskForm, DiskTypes, WriteRows
<1>3. ScriptType'
  <2>1. ASSUME GenerateScript PROVE ScriptType'
    <3>1. \A s \in DOMAIN rows' : rows'[s].ip \in Ips
      BY <1>1 DEF IsRows, Row
    <3> QED
      BY <1>1, <2>1, <3>1 DEF GenerateScript, ScriptFor, ScriptType
  <2> QED
    BY <2>1 DEF DiskForm, DiskTypes, ScriptType
<1>4. PersistedType'
  BY <1>1 DEF DiskForm, DiskTypes, PersistState, StateDict, PersistedType
<1> QED
  BY <1>2, <1>3, <1>4 DEF DiskTypes

LEMMA ControlStep == ControlTypes /\ [Next]_vars => ControlTypes'
<1> SUFFICES ASSUME ControlTypes, [Next]_vars PROVE ControlTypes'
  OBVIOUS
<1> USE DEF ControlTypes, ThreadStates
<1>1. ASSUME NEW t \in Threads, NEW from, NEW to \in ThreadStates, Goto(t, from, to)
      PROVE  ControlTypes'
  BY <1>1 DEF Goto
<1>2. ASSUME NEW t \in Threads, Handle(t) PROVE ControlTypes'
  BY <1>1, <1>2 DEF Handle
<1>3. ASSUME NEW t \in Threads,
             \/ UpdateSettings(t) \/ AddRow(t) \/ UpdateRow(t) \/ RemoveRow(t)
             \/ WriteRuntimeFiles(t) \/ StartRow(t) \/ StartAll(t) \/ StopRow(t)
             \/ StopAll(t) \/ RandomizeRow(t) \/ UpdateRandomSettings(t)
             \/ ToggleAutoRandom(t) \/ GenerateIpAliasScript(t)
      PROVE  Handle(t)
  BY <1>3 DEF UpdateSettings, AddRow, UpdateRow, RemoveRow, WriteRuntimeFiles, StartRow,
              StartAll, StopRow, StopAll, RandomizeRow, UpdateRandomSettings,
              ToggleAutoRandom, GenerateIpAliasScript
<1>4. ASSUME NEW t \in Threads,
             \/ Accept(t) \/ ReadOnly(t) \/ UpdateRowFails(t) \/ PrepareNetwork(t)
             \/ PrepareNetworkDone(t) \/ Snapshot(t) \/ ShutdownRequest(t)
      PROVE  ControlTypes'
  <2>1. \E from, to \in ThreadStates : Goto(t, from, to)
    BY <1>4 DEF Accept, ReadOnly, UpdateRowFails, PrepareNetwork, PrepareNetworkDone,
                Snapshot, ShutdownRequest
  <2> QED
    BY <1>1, <2>1
<1>5. ASSUME NEW t \in Threads, ImportConfiguration(t) PROVE ControlTypes'
  <2>1. Handle(t) \/ Goto(t, "accepted", "idle")
    BY <1>5 DEF ImportConfiguration
  <2> QED
    BY <1>1, <1>2, <2>1
<1>6. ASSUME NEW t \in Threads, StopServing(t) PROVE ControlTypes'
  BY <1>6 DEF StopServing
<1>7. CASE MaintStep
  BY <1>7 DEF MaintStep, MaintWake, MaintPoll, MaintRandomize, MaintEnd, MaintTurn
<1>8. CASE MainStep
  BY <1>8 DEF MainStep, Interrupt, Shutdown, Exit
<1>9. CASE UNCHANGED vars \/ \E p \in Pids : ChildExits(p)
  BY <1>9 DEF ChildExits, vars, control
<1> QED
  BY <1>2, <1>3, <1>4, <1>5, <1>6, <1>7, <1>8, <1>9 DEF Next, ThreadStep

LEMMA TypeInvariant == Spec => []TypeInv
<1>1. TypeInv /\ [Next]_vars => TypeInv'
  BY ConfigStep, DiskForms, DiskStep, ControlStep DEF TypeInv
<1> QED
  BY <1>1, TypeInit, PTL DEF Spec

\* The state always has the shape the program gives it.
THEOREM TypeCorrect == Spec => []TypeOK
<1>1. TypeInv /\ RelayInv => TypeOK
  <2>1. ConfigTypes /\ ControlTypes /\ RelayTypes /\ DiskTypes => TypeOK
    BY RowsType DEF ConfigTypes, ControlTypes, RelayTypes, DiskTypes, ScriptType,
                    PersistedType, FileMap, TypeOK
  <2> QED
    BY <2>1 DEF TypeInv, RelayInv
<1> QED
  BY <1>1, TypeInvariant, RelayInvariant, PTL

-----------------------------------------------------------------------------
(* The saved configuration.                                                *)

GoodImports == \A f \in ImportFiles : f.good = Len(f.rows)

LEMMA PersistStep ==
  ASSUME ~BadPayloads, GoodImports, [Next]_vars
  PROVE  PersistState \/ UNCHANGED <<rows, adapter, autoRandom, persisted>>
<1>1. ASSUME NEW t \in Threads,
             \/ UpdateSettings(t) \/ UpdateRow(t) \/ RemoveRow(t) \/ WriteRuntimeFiles(t)
             \/ StartRow(t) \/ StartAll(t) \/ StopRow(t) \/ StopAll(t) \/ RandomizeRow(t)
             \/ UpdateRandomSettings(t) \/ ToggleAutoRandom(t) \/ GenerateIpAliasScript(t)
      PROVE  PersistState
  BY <1>1 DEF UpdateSettings, UpdateRow, RemoveRow, WriteRuntimeFiles, StartRow, StartAll,
              StopRow, StopAll, RandomizeRow, UpdateRandomSettings, ToggleAutoRandom,
              GenerateIpAliasScript, SaveRuntime
<1>2. ASSUME NEW t \in Threads, AddRow(t) PROVE PersistState
  BY <1>2 DEF AddRow, SaveRuntime
<1>3. ASSUME NEW t \in Threads, ImportConfiguration(t) PROVE PersistState
  BY <1>3 DEF ImportConfiguration, GoodImports, SaveRuntime
<1>4. ASSUME NEW t \in Threads,
             \/ Accept(t) \/ ReadOnly(t) \/ PrepareNetwork(t) \/ Snapshot(t)
             \/ ShutdownRequest(t) \/ StopServing(t)
      PROVE  UNCHANGED <<rows, adapter, autoRandom, persisted>>
  BY <1>4 DEF Accept, ReadOnly, PrepareNetwork, Snapshot, ShutdownRequest, StopServing,
              config, disk
<1>5. ASSUME NEW t \in Threads, PrepareNetworkDone(t)
      PROVE  PersistState \/ UNCHANGED <<rows, adapter, autoRandom, persisted>>
  BY <1>5 DEF PrepareNetworkDone, config
<1>6. ASSUME NEW t \in Threads PROVE ~UpdateRowFails(t)
  BY DEF UpdateRowFails
<1>7. CASE MaintRandomize \/ Shutdown
  BY <1>7 DEF MaintRandomize, Shutdown
<1>8. CASE MaintWake \/ MaintPoll \/ MaintEnd \/ Interrupt \/ Exit \/ UNCHANGED vars
             \/ \E p \in Pids : ChildExits(p)
  BY <1>8 DEF MaintWake, MaintPoll, MaintEnd, Interrupt, Exit, ChildExits, config, disk, vars
<1> QED
  BY <1>1, <1>2, <1>3, <1>4, <1>5, <1>6, <1>7, <1>8
     DEF Next, ThreadStep, MaintStep, MainStep

\* launcher_state.json is the configuration in memory after every section, as
\* long as no request and no imported file fails to convert half-way.
THEOREM PersistedCurrentHolds ==
  ASSUME ~BadPayloads, GoodImports PROVE Spec => []PersistedCurrent
<1>1. Init => PersistedCurrent
  BY DEF Init, PersistedCurrent
<1>2. PersistedCurrent /\ [Next]_vars => PersistedCurrent'
  BY PersistStep DEF PersistedCurrent, PersistState, StateDict
<1> QED
  BY <1>1, <1>2, PTL DEF Spec

=============================================================================
