------------------------ MODULE LauncherConfigProofs ------------------------
(***************************************************************************)
(* Theorems about what Launcher keeps in step with its rows: their ids,    *)
(* the values files, the script.  For any number of rows, threads, names,  *)
(* stored and imported files, under the assumptions each theorem names.    *)
(***************************************************************************)
EXTENDS LauncherProofs

-----------------------------------------------------------------------------
(* Ids.                                                                    *)

\* No row of the file gives an id that a row before it gives, or might have
\* been handed.  So it is of files the launcher wrote.
IdsClear(f) ==
  \A j, k \in 1..f.good : j < k =>
    f.rows[k].id = 0 \/ (f.rows[j].id # 0 /\ f.rows[j].id # f.rows[k].id)

LEMMA LoadedIds ==
  ASSUME NEW f \in Stored \cup ImportFiles, IdsClear(f), NEW rs \in RowsLoaded(f),
         NEW j \in DOMAIN rs, NEW k \in DOMAIN rs, rs[j].id = rs[k].id
  PROVE  j = k
<1>1. f.good \in Nat
  BY LauncherAssumption DEF FileType
<1>2. PICK i \in IdsLoaded(f) : DOMAIN rs = 1..f.good /\ \A m \in 1..f.good : rs[m].id = i[m]
  <2>1. PICK i \in IdsLoaded(f), n \in NamesLoaded(f), a \in IpsLoaded(f) :
          rs = [m \in 1..f.good |->
                  [id |-> i[m], enabled |-> f.rows[m].enabled, name |-> n[m], ip |-> a[m],
                   vals |-> f.rows[m].vals, ranges |-> f.rows[m].ranges]]
    BY DEF RowsLoaded
  <2> QED
    BY <2>1
<1>3. ASSUME NEW m \in 1..f.good, NEW n \in 1..f.good, m < n PROVE i[m] # i[n]
  <2>1. CASE f.rows[n].id = 0
    <3>1. IsNext(i[n], 1, {i[l] : l \in 1..(n - 1)})
      BY <1>2, <2>1 DEF IdsLoaded
    <3>2. m \in 1..(n - 1) /\ i[m] \in Ids
      BY <1>1, <1>2, <1>3 DEF IdsLoaded
    <3>3. i[m] < i[n]
      BY <3>1, <3>2 DEF IsNext
    <3> QED
      BY <3>2, <3>3 DEF Ids
  <2>2. CASE f.rows[n].id # 0
    BY <1>2, <1>3, <2>2 DEF IdsClear, IdsLoaded
  <2> QED
    BY <2>1, <2>2
<1> QED
  BY <1>1, <1>2, <1>3

\* What a step that is no import does to the ids: they stay, but that a row may
\* go, and one may come with the next id.
IdsForm ==
  /\ nextId' \in {nextId, nextId + 1}
  /\ \A s \in Used' : \/ s \in Used /\ rows'[s].id = rows[s].id
                      \/ s \notin Used /\ nextId' = nextId + 1 /\ rows'[s].id = nextId
  /\ \A r, s \in Used' : r \notin Used /\ s \notin Used => r = s

LEMMA IdsForms ==
  ASSUME ConfigTypes, [Next]_vars, \A t \in Threads : ~ImportConfiguration(t)
  PROVE  IdsForm
<1>0. nextId \in Int /\ rows \in [Used -> Row]
  BY DEF ConfigTypes, IsRows, Used
<1>1. CASE UNCHANGED <<rows, nextId>>
  BY <1>1 DEF IdsForm, Used
<1>2. ASSUME NEW t \in Threads, AddRow(t) PROVE IdsForm
  <2>1. PICK s \in Slots, n \in Names, ip \in Ips :
          /\ IsNext(s, 1, Used)
          /\ rows' = [r \in Used \cup {s} |-> IF r = s THEN NewRow(n, ip) ELSE rows[r]]
          /\ nextId' = nextId + 1
    BY <1>2 DEF AddRow
  <2>2. Used' = Used \cup {s} /\ rows'[s].id = nextId
          /\ \A r \in Used \ {s} : rows'[r] = rows[r]
    BY <2>1 DEF Used, NewRow
  <2>3. s \notin Used
    BY <2>1 DEF IsNext, Slots
  <2> QED
    BY <2>1, <2>2, <2>3 DEF IdsForm
<1>3. ASSUME NEW t \in Threads, UpdateRow(t) \/ UpdateRowFails(t) \/ UpdateRandomSettings(t)
      PROVE  IdsForm
  <2>1. nextId' = nextId
    BY <1>3 DEF UpdateRow, UpdateRowFails, UpdateRandomSettings
  <2>2. ASSUME NEW s \in Used, NEW row, rows' = [rows EXCEPT ![s] = row], row.id = rows[s].id
        PROVE  IdsForm
    BY <1>0, <2>1, <2>2 DEF IdsForm, Used
  <2>3. ASSUME NEW s \in Used, NEW form, NEW v, NEW g
        PROVE  [Labelled(rows[s], form) EXCEPT !.vals = v, !.ranges = g].id = rows[s].id
    BY <1>0 DEF Labelled, Row
  <2>4. CASE UpdateRow(t)
    <3>1. PICK s \in Used, form \in Forms :
            rows' = [rows EXCEPT ![s] = [Labelled(rows[s], form) EXCEPT
                                           !.vals = form.vals, !.ranges = form.ranges]]
      BY <2>4 DEF UpdateRow, Addressable
    <3>2. PICK row : row = [Labelled(rows[s], form) EXCEPT !.vals = form.vals, !.ranges = form.ranges]
      OBVIOUS
    <3>3. row.id = rows[s].id
      BY <2>3, <3>2
    <3> QED
      BY <2>2, <3>1, <3>2, <3>3
  <2>5. CASE UpdateRowFails(t)
    <3>1. PICK s \in Used, form \in Forms, mixed \in Vals, g \in RangeSets :
            rows' = [rows EXCEPT ![s] = [Labelled(rows[s], form) EXCEPT
                                           !.vals = mixed, !.ranges = g]]
      BY <2>5 DEF UpdateRowFails, Addressable
    <3>2. PICK row : row = [Labelled(rows[s], form) EXCEPT !.vals = mixed, !.ranges = g]
      OBVIOUS
    <3>3. row.id = rows[s].id
      BY <2>3, <3>2
    <3> QED
      BY <2>2, <3>1, <3>2, <3>3
  <2>6. CASE UpdateRandomSettings(t)
    <3>1. PICK s \in Used, g \in RangeSets :
            rows' = [rows EXCEPT ![s] = [rows[s] EXCEPT !.ranges = g]]
      BY <2>6 DEF UpdateRandomSettings, Addressable
    <3>2. [rows[s] EXCEPT !.ranges = g].id = rows[s].id
      BY <1>0 DEF Row
    <3> QED
      BY <2>2, <3>1, <3>2
  <2> QED
    BY <1>3, <2>4, <2>5, <2>6
<1>4. ASSUME NEW t \in Threads, RemoveRow(t) PROVE IdsForm
  <2>1. PICK keep \in SUBSET Used : rows' = [r \in keep |-> rows[r]]
    BY <1>4 DEF RemoveRow
  <2>2. nextId' = nextId
    BY <1>4 DEF RemoveRow
  <2> QED
    BY <2>1, <2>2 DEF IdsForm, Used
<1>5. ASSUME NEW S \in SUBSET Used, RandomizeRows(S) PROVE IdsForm
  <2>1. PICK drawn \in [S -> Vals] :
          rows' = [s \in Used |-> IF s \in S THEN [rows[s] EXCEPT !.vals = drawn[s]]
                                            ELSE rows[s]]
    BY <1>5 DEF RandomizeRows
  <2>2. \A s \in S : [rows[s] EXCEPT !.vals = drawn[s]].id = rows[s].id
    BY <1>0 DEF Row
  <2>3. Used' = Used /\ nextId' = nextId
    BY <1>5, <2>1 DEF Used, RandomizeRows
  <2> QED
    BY <2>1, <2>2, <2>3 DEF IdsForm
<1>6. ASSUME NEW t \in Threads, RandomizeRow(t) PROVE IdsForm
  BY <1>5, <1>6 DEF RandomizeRow, Addressable
<1>7. CASE MaintRandomize
  <2>1. \E S \in SUBSET Used : RandomizeRows(S)
    BY <1>7 DEF MaintRandomize
  <2> QED
    BY <1>5, <2>1
<1>8. ASSUME NEW t \in Threads,
             \/ Accept(t) \/ ReadOnly(t) \/ UpdateSettings(t) \/ WriteRuntimeFiles(t)
             \/ StartRow(t) \/ StartAll(t) \/ StopRow(t) \/ StopAll(t)
             \/ ToggleAutoRandom(t) \/ GenerateIpAliasScript(t) \/ PrepareNetwork(t)
             \/ PrepareNetworkDone(t) \/ Snapshot(t) \/ ShutdownRequest(t) \/ StopServing(t)
      PROVE  UNCHANGED <<rows, nextId>>
  BY <1>8 DEF Accept, ReadOnly, UpdateSettings, WriteRuntimeFiles, StartRow, StartAll,
              StopRow, StopAll, ToggleAutoRandom, GenerateIpAliasScript, PrepareNetwork,
              PrepareNetworkDone, Snapshot, ShutdownRequest, StopServing, config
<1>9. CASE MaintWake \/ MaintPoll \/ MaintEnd \/ MainStep \/ UNCHANGED vars
             \/ \E p \in Pids : ChildExits(p)
  <2>1. UNCHANGED <<rows, nextId>>
    BY <1>9 DEF MaintWake, MaintPoll, MaintEnd, MainStep, Interrupt, Shutdown, Exit,
                ChildExits, vars, config
  <2> QED
    BY <1>1, <2>1
<1> QED
  BY <1>1, <1>2, <1>3, <1>4, <1>6, <1>7, <1>8, <1>9 DEF Next, ThreadStep, MaintStep

LEMMA IdsStep ==
  ASSUME \A f \in ImportFiles : IdsClear(f), ConfigTypes, RowIdsDistinct, [Next]_vars
  PROVE  RowIdsDistinct'
<1>0. nextId \in Int /\ \A s \in Used : rows[s].id \in Int
  BY DEF ConfigTypes, IsRows, Used, Row, Ids
<1>1. ASSUME NEW t \in Threads, ImportConfiguration(t) PROVE RowIdsDistinct'
  <2>1. PICK f \in ImportFiles :
          /\ rows' \in RowsLoaded(f)
          /\ \E more \in {{}, IdTaken(f, IdsOf(rows'))} : IsNext(nextId', 1, IdsOf(rows') \cup more)
    BY <1>1 DEF ImportConfiguration, LoadRows
  <2>2. \A s \in Used' : rows'[s].id \in IdsOf(rows')
    BY DEF IdsOf, Used
  <2>3. \A s \in Used' : rows'[s].id < nextId'
    BY <2>1, <2>2 DEF IsNext
  <2>4. \A r, s \in Used' : rows'[r].id = rows'[s].id => r = s
    BY <2>1, LoadedIds DEF Used
  <2> QED
    BY <2>3, <2>4 DEF RowIdsDistinct
<1>2. CASE \A t \in Threads : ~ImportConfiguration(t)
  <2>1. IdsForm
    BY <1>2, IdsForms
  <2>2. nextId' = nextId \/ nextId' = nextId + 1
    BY <2>1 DEF IdsForm
  <2>3. \A s \in Used : rows[s].id < nextId /\ rows[s].id # nextId
    BY <1>0 DEF RowIdsDistinct
  <2>4. ASSUME NEW s \in Used' PROVE rows'[s].id < nextId'
    BY <1>0, <2>1, <2>2, <2>3 DEF IdsForm
  <2>5. ASSUME NEW r \in Used', NEW s \in Used', rows'[r].id = rows'[s].id PROVE r = s
    <3>1. CASE r \in Used /\ s \in Used
      <4>1. rows'[r].id = rows[r].id /\ rows'[s].id = rows[s].id
        BY <2>1, <2>3, <2>5, <3>1 DEF IdsForm
      <4> QED
        BY <2>5, <3>1, <4>1 DEF RowIdsDistinct
    <3>2. CASE r \notin Used /\ s \notin Used
      BY <2>1, <2>5, <3>2 DEF IdsForm
    <3>3. CASE (r \in Used) # (s \in Used)
      BY <2>1, <2>3, <2>5, <3>3 DEF IdsForm
    <3> QED
      BY <3>1, <3>2, <3>3
  <2> QED
    BY <2>4, <2>5 DEF RowIdsDistinct
<1> QED
  BY <1>1, <1>2

\* An id reaches one row and the next one is above all of them, as long as the
\* files loaded are clear about ids, in whatever state imports leave the rows.
THEOREM RowIdsDistinctHolds ==
  ASSUME \A f \in Stored \cup ImportFiles : IdsClear(f)
  PROVE  Spec => []RowIdsDistinct
<1>1. Init => RowIdsDistinct
  <2> SUFFICES ASSUME Init PROVE RowIdsDistinct
    OBVIOUS
  <2>1. PICK f \in Stored : rows \in RowsLoaded(f)
    BY DEF Init
  <2>2. IsNext(nextId, 1, IdsOf(rows)) /\ \A s \in Used : rows[s].id \in IdsOf(rows)
    BY DEF Init, IdsOf, Used
  <2>3. \A s \in Used : rows[s].id < nextId
    BY <2>2 DEF IsNext
  <2> QED
    BY <2>1, <2>3, LoadedIds DEF RowIdsDistinct, Used
<1>2. RowIdsDistinct /\ TypeInv /\ [Next]_vars => RowIdsDistinct'
  BY IdsStep DEF TypeInv
<1> QED
  BY <1>1, <1>2, TypeInvariant, PTL DEF Spec

\* An id that was handed out and has no row any more never gets one again, but
\* after an import.
THEOREM RemovedIdsStayGoneHolds == Spec => RemovedIdsStayGone
<1>1. ASSUME TypeInv, [Next]_vars, \A t \in Threads : ~ImportConfiguration(t),
             NEW i \in 1..(nextId - 1), i \notin IdsOf(rows)
      PROVE  i \notin IdsOf(rows')
  <2>1. nextId \in Int /\ IdsForm
    BY <1>1, IdsForms DEF TypeInv, ConfigTypes
  <2>2. \A s \in Used : rows[s].id # i
    BY <1>1 DEF IdsOf, Used
  <2> QED
    BY <2>1, <2>2 DEF IdsForm, IdsOf, Used
<1>2. TypeInv /\ [Next]_vars =>
        [\/ \E t \in Threads : ImportConfiguration(t)
         \/ \A i \in 1..(nextId - 1) : i \notin IdsOf(rows) => i \notin IdsOf(rows')]_vars
  BY <1>1
<1> QED
  BY <1>2, TypeInvariant, PTL DEF Spec, RemovedIdsStayGone

-----------------------------------------------------------------------------
(* Names and addresses.                                                    *)

\* The rows stay and keep what files and script are about, the values apart.
LabelsKept ==
  /\ Used' = Used /\ adapter' = adapter
  /\ \A s \in Used : rows'[s].name = rows[s].name /\ rows'[s].ip = rows[s].ip

\* The operations that do not, unless one fails half-way.
Relabels(t) ==
  \/ UpdateSettings(t) \/ AddRow(t) \/ UpdateRow(t) \/ RemoveRow(t)
  \/ ImportConfiguration(t)

LEMMA RandomizedLabels ==
  ASSUME ConfigTypes, NEW S \in SUBSET Used, RandomizeRows(S)
  PROVE  /\ LabelsKept
         /\ \A s \in Used \ S : rows'[s] = rows[s]
<1>1. PICK drawn \in [S -> Vals] :
        rows' = [s \in Used |-> IF s \in S THEN [rows[s] EXCEPT !.vals = drawn[s]]
                                          ELSE rows[s]]
  BY DEF RandomizeRows
<1>2. \A s \in S : LET row == [rows[s] EXCEPT !.vals = drawn[s]]
                   IN  row.name = rows[s].name /\ row.ip = rows[s].ip
  BY DEF ConfigTypes, IsRows, Used, Row
<1>3. Used' = Used /\ adapter' = adapter
  BY <1>1 DEF Used, RandomizeRows
<1> QED
  BY <1>1, <1>2, <1>3 DEF LabelsKept

LEMMA RandomRangesLabels ==
  ASSUME ConfigTypes, NEW t \in Threads, UpdateRandomSettings(t)
  PROVE  LabelsKept /\ \A s \in Used : rows'[s].vals = rows[s].vals
<1>1. PICK s \in Used, g \in RangeSets : rows' = [rows EXCEPT ![s] = [rows[s] EXCEPT !.ranges = g]]
  BY DEF UpdateRandomSettings, Addressable
<1>2. LET row == [rows[s] EXCEPT !.ranges = g]
      IN  row.name = rows[s].name /\ row.ip = rows[s].ip /\ row.vals = rows[s].vals
  BY DEF ConfigTypes, IsRows, Used, Row
<1>3. rows \in [Used -> Row] /\ adapter' = adapter
  BY DEF ConfigTypes, IsRows, Used, UpdateRandomSettings
<1> QED
  BY <1>1, <1>2, <1>3 DEF LabelsKept, Used

LEMMA LabelForms ==
  ASSUME ConfigTypes, ~BadPayloads, [Next]_vars, \A t \in Threads : ~Relabels(t)
  PROVE  LabelsKept
<1>1. ASSUME UNCHANGED <<rows, adapter>> PROVE LabelsKept
  BY <1>1 DEF LabelsKept, Used
<1>2. ASSUME NEW t \in Threads,
             \/ Accept(t) \/ ReadOnly(t) \/ WriteRuntimeFiles(t) \/ StartRow(t)
             \/ StartAll(t) \/ StopRow(t) \/ StopAll(t) \/ ToggleAutoRandom(t)
             \/ GenerateIpAliasScript(t) \/ PrepareNetwork(t) \/ PrepareNetworkDone(t)
             \/ Snapshot(t) \/ ShutdownRequest(t) \/ StopServing(t)
      PROVE  UNCHANGED <<rows, adapter>>
  BY <1>2 DEF Accept, ReadOnly, WriteRuntimeFiles, StartRow, StartAll, StopRow, StopAll,
              ToggleAutoRandom, GenerateIpAliasScript, PrepareNetwork, PrepareNetworkDone,
              Snapshot, ShutdownRequest, StopServing, config
<1>3. ASSUME NEW t \in Threads PROVE ~UpdateRowFails(t)
  BY DEF UpdateRowFails
<1>4. ASSUME NEW t \in Threads, RandomizeRow(t) PROVE LabelsKept
  BY <1>4, RandomizedLabels DEF RandomizeRow, Addressable
<1>5. ASSUME NEW t \in Threads, UpdateRandomSettings(t) PROVE LabelsKept
  BY <1>5, RandomRangesLabels
<1>6. CASE MaintRandomize
  <2>1. \E S \in SUBSET Used : RandomizeRows(S)
    BY <1>6 DEF MaintRandomize
  <2> QED
    BY <2>1, RandomizedLabels
<1>7. CASE MaintWake \/ MaintPoll \/ MaintEnd \/ MainStep \/ UNCHANGED vars
             \/ \E p \in Pids : ChildExits(p)
  <2>1. UNCHANGED <<rows, adapter>>
    BY <1>7 DEF MaintWake, MaintPoll, MaintEnd, MainStep, Interrupt, Shutdown, Exit,
                ChildExits, vars, config
  <2> QED
    BY <1>1, <2>1
<1> QED
  BY <1>1, <1>2, <1>3, <1>4, <1>5, <1>6, <1>7
     DEF Next, ThreadStep, MaintStep, Relabels

\* What relabels writes and cleans the files and generates the script.
LEMMA RelabelsSaves ==
  ASSUME GoodImports, NEW t \in Threads, Relabels(t)
  PROVE  \E S : SaveRuntime(S)
<1>1. CASE UpdateSettings(t)
  BY <1>1 DEF UpdateSettings
<1>2. CASE AddRow(t)
  BY <1>2 DEF AddRow
<1>3. CASE UpdateRow(t)
  BY <1>3 DEF UpdateRow
<1>4. CASE RemoveRow(t)
  BY <1>4 DEF RemoveRow
<1>5. CASE ImportConfiguration(t)
  BY <1>5 DEF ImportConfiguration, GoodImports
<1> QED
  BY <1>1, <1>2, <1>3, <1>4, <1>5 DEF Relabels

-----------------------------------------------------------------------------
(* The script.                                                             *)

LEMMA ScriptStep ==
  ASSUME ~BadPayloads, GoodImports, ConfigTypes, ScriptCurrent, [Next]_vars
  PROVE  ScriptCurrent'
<1>1. ASSUME GenerateScript PROVE ScriptCurrent'
  BY <1>1 DEF GenerateScript, ScriptCurrent
<1>2. ASSUME NEW t \in Threads, Relabels(t) PROVE ScriptCurrent'
  BY <1>1, <1>2, RelabelsSaves DEF SaveRuntime
<1>3. CASE \A t \in Threads : ~Relabels(t)
  <2>1. LabelsKept
    BY <1>3, LabelForms
  <2>2. ScriptFor(rows', adapter') = ScriptFor(rows, adapter)
    BY <2>1 DEF LabelsKept, ScriptFor, Used
  <2>3. script' = script \/ GenerateScript
    BY DiskForms DEF DiskForm
  <2> QED
    BY <1>1, <2>2, <2>3 DEF ScriptCurrent
<1> QED
  BY <1>2, <1>3

\* The generated script adds the addresses of the rows there are, on the adapter
\* selected, though prepare_network gives up the lock between its sections, as
\* long as no request and no imported file fails to convert half-way.
THEOREM ScriptCurrentHolds ==
  ASSUME ~BadPayloads, GoodImports PROVE Spec => []ScriptCurrent
<1>1. Init => ScriptCurrent
  BY DEF Init, ScriptCurrent
<1>2. ScriptCurrent /\ TypeInv /\ [Next]_vars => ScriptCurrent'
  BY ScriptStep DEF TypeInv
<1> QED
  BY <1>1, <1>2, TypeInvariant, PTL DEF Spec

-----------------------------------------------------------------------------
(* Stale files.                                                            *)

LEMMA StaleStep ==
  ASSUME ~BadPayloads, GoodImports, ~UnlinkMayFail, ConfigTypes, NoStaleFiles, [Next]_vars
  PROVE  NoStaleFiles'
<1>1. ASSUME NEW S, WriteAndClean(S) PROVE NoStaleFiles'
  BY <1>1 DEF WriteAndClean, Stuck, Cleaned, NoStaleFiles
<1>2. ASSUME NEW t \in Threads, Relabels(t) PROVE NoStaleFiles'
  BY <1>1, <1>2, RelabelsSaves DEF SaveRuntime
<1>3. CASE \A t \in Threads : ~Relabels(t)
  <2>1. LabelsKept
    BY <1>3, LabelForms
  <2>2. StemsOf(rows') = StemsOf(rows)
    BY <2>1 DEF LabelsKept, StemsOf, Used
  <2>3. CASE valuesFile' = valuesFile
    BY <2>2, <2>3 DEF NoStaleFiles
  <2>4. ASSUME NEW S \in SUBSET Used', WriteRows(S) PROVE NoStaleFiles'
    <3> SUFFICES ASSUME NEW f \in Stems, valuesFile'[f] # NoFile, f \notin StemsOf(rows')
                 PROVE  FALSE
      BY DEF NoStaleFiles
    <3>1. \A s \in S : StemOf[rows'[s].name] # f
      BY DEF StemsOf, Used
    <3>2. valuesFile'[f] = valuesFile[f]
      BY <2>4, <3>1 DEF WriteRows, Written
    <3> QED
      BY <2>2, <3>2 DEF NoStaleFiles
  <2> QED
    BY <1>1, <2>3, <2>4, DiskForms DEF DiskForm
<1> QED
  BY <1>2, <1>3

\* After every section there are files of the rows' stems only, as long as no
\* request and no imported file fails half-way and cleanup succeeds.
THEOREM NoStaleFilesHolds ==
  ASSUME ~BadPayloads, GoodImports, ~UnlinkMayFail PROVE Spec => []NoStaleFiles
<1>1. Init => NoStaleFiles
  <2> SUFFICES ASSUME Init, NEW f \in Stems, f \notin StemsOf(rows)
               PROVE  valuesFile[f] = NoFile
    BY DEF NoStaleFiles
  <2>1. valuesFile = Written([g \in Stems |-> NoFile], rows, Used)
    BY DEF Init
  <2>2. \A s \in Used : StemOf[rows[s].name] # f
    BY DEF StemsOf, Used
  <2> QED
    BY <2>1, <2>2 DEF Written
<1>2. NoStaleFiles /\ TypeInv /\ [Next]_vars => NoStaleFiles'
  BY StaleStep DEF TypeInv
<1> QED
  BY <1>1, <1>2, TypeInvariant, PTL DEF Spec

-----------------------------------------------------------------------------
(* The values files.                                                       *)

\* No row of the file gives a name that a row before it gives, or might have
\* been handed.
NamesClear(f) ==
  \A j, k \in 1..f.good : j < k =>
    f.rows[k].name = 0 \/ (f.rows[j].name # 0 /\ f.rows[j].name # f.rows[k].name)

\* safe_name keeps the names in use apart.
StemsApart == \A m, n \in Names : StemOf[m] = StemOf[n] => m = n

NamesDistinct == \A r, s \in Used : rows[r].name = rows[s].name => r = s

\* What keeps FilesMatchRows inductive: two rows of one name would share a file.
FilesInv == NamesDistinct /\ FilesMatchRows

LEMMA LoadedNames ==
  ASSUME NEW f \in Stored \cup ImportFiles, NamesClear(f), NEW rs \in RowsLoaded(f),
         NEW j \in DOMAIN rs, NEW k \in DOMAIN rs, rs[j].name = rs[k].name
  PROVE  j = k
<1>1. f.good \in Nat
  BY LauncherAssumption DEF FileType
<1>2. PICK n \in NamesLoaded(f) :
        DOMAIN rs = 1..f.good /\ \A m \in 1..f.good : rs[m].name = n[m]
  <2>1. PICK i \in IdsLoaded(f), n \in NamesLoaded(f), a \in IpsLoaded(f) :
          rs = [m \in 1..f.good |->
                  [id |-> i[m], enabled |-> f.rows[m].enabled, name |-> n[m], ip |-> a[m],
                   vals |-> f.rows[m].vals, ranges |-> f.rows[m].ranges]]
    BY DEF RowsLoaded
  <2> QED
    BY <2>1
<1>3. ASSUME NEW l \in 1..f.good, NEW m \in 1..f.good, l < m PROVE n[l] # n[m]
  <2>1. CASE f.rows[m].name = 0
    <3>1. n[m] \notin {n[q] : q \in 1..(m - 1)}
      BY <1>2, <2>1 DEF NamesLoaded, IsSuggestedName
    <3> QED
      BY <1>1, <1>3, <3>1
  <2>2. CASE f.rows[m].name # 0
    BY <1>2, <1>3, <2>2 DEF NamesClear, NamesLoaded
  <2> QED
    BY <2>1, <2>2
<1> QED
  BY <1>1, <1>2, <1>3

LEMMA NamesStep ==
  ASSUME ~BadPayloads, DistinctNames, \A f \in ImportFiles : NamesClear(f),
         ConfigTypes, NamesDistinct, [Next]_vars
  PROVE  NamesDistinct'
<1>0. rows \in [Used -> Row] /\ \A s \in Used : rows[s].name \in Nat \ {0}
  BY LauncherAssumption DEF ConfigTypes, IsRows, Used, Row
<1>1. ASSUME NEW t \in Threads, UpdateSettings(t) PROVE NamesDistinct'
  BY <1>1 DEF UpdateSettings, NamesDistinct, Used
<1>2. ASSUME NEW t \in Threads, AddRow(t) PROVE NamesDistinct'
  <2>1. PICK s \in Slots, n \in Names, ip \in Ips :
          /\ IsSuggestedName(n, {rows[r].name : r \in Used})
          /\ rows' = [r \in Used \cup {s} |-> IF r = s THEN NewRow(n, ip) ELSE rows[r]]
    BY <1>2 DEF AddRow
  <2>2. Used' = Used \cup {s} /\ rows'[s].name = n
          /\ \A r \in Used \ {s} : rows'[r] = rows[r] /\ rows[r].name # n
    BY <2>1 DEF Used, NewRow, IsSuggestedName
  <2> QED
    BY <2>2 DEF NamesDistinct
<1>3. ASSUME NEW t \in Threads, UpdateRow(t) PROVE NamesDistinct'
  <2>1. PICK s \in Used, form \in Forms :
          /\ Nameable(form.name, s)
          /\ rows' = [rows EXCEPT ![s] = [Labelled(rows[s], form) EXCEPT
                                            !.vals = form.vals, !.ranges = form.ranges]]
    BY <1>3 DEF UpdateRow, Addressable
  <2>2. [Labelled(rows[s], form) EXCEPT !.vals = form.vals, !.ranges = form.ranges].name
          \in {rows[s].name, form.name}
    BY <1>0 DEF Labelled, Row
  <2>3. Used' = Used /\ rows'[s].name \in {rows[s].name, form.name}
          /\ \A r \in Used \ {s} : rows'[r] = rows[r] /\ rows[r].name # form.name
    BY <1>0, <2>1, <2>2 DEF Used, Nameable
  <2> QED
    BY <2>3 DEF NamesDistinct
<1>4. ASSUME NEW t \in Threads, RemoveRow(t) PROVE NamesDistinct'
  <2>1. PICK keep \in SUBSET Used : rows' = [r \in keep |-> rows[r]]
    BY <1>4 DEF RemoveRow
  <2> QED
    BY <2>1 DEF NamesDistinct, Used
<1>5. ASSUME NEW t \in Threads, ImportConfiguration(t) PROVE NamesDistinct'
  <2>1. PICK f \in ImportFiles : rows' \in RowsLoaded(f)
    BY <1>5 DEF ImportConfiguration, LoadRows
  <2> QED
    BY <2>1, LoadedNames DEF NamesDistinct, Used
<1>6. CASE \A t \in Threads : ~Relabels(t)
  BY <1>6, LabelForms DEF LabelsKept, NamesDistinct
<1> QED
  BY <1>1, <1>2, <1>3, <1>4, <1>5, <1>6 DEF Relabels

\* Every step writes at least the files of the rows that are new or have a new
\* name or new values.
FilesForm ==
  \E S \in SUBSET Used' :
    /\ \/ valuesFile' = valuesFile /\ S = {}
       \/ WriteRows(S)
       \/ WriteAndClean(S)
    /\ \A s \in Used' \ S :
         s \in Used /\ rows'[s].name = rows[s].name /\ rows'[s].vals = rows[s].vals

LEMMA FilesForms ==
  ASSUME ~BadPayloads, GoodImports, ConfigTypes, [Next]_vars
  PROVE  FilesForm
<1>0. rows \in [Used -> Row]
  BY DEF ConfigTypes, IsRows, Used
<1>1. ASSUME valuesFile' = valuesFile,
             \A s \in Used' :
               s \in Used /\ rows'[s].name = rows[s].name /\ rows'[s].vals = rows[s].vals
      PROVE  FilesForm
  <2> USE DEF FilesForm
  <2> WITNESS {} \in SUBSET Used'
  <2> QED
    BY <1>1
<1>2. ASSUME rows' = rows PROVE FilesForm
  <2>1. CASE valuesFile' = valuesFile
    BY <1>2, <1>1, <2>1 DEF Used
  <2>2. CASE \E S \in SUBSET Used' : WriteRows(S) \/ WriteAndClean(S)
    BY <1>2, <2>2 DEF FilesForm, Used
  <2> QED
    BY <2>1, <2>2, DiskForms DEF DiskForm
<1>3. ASSUME NEW t \in Threads, AddRow(t) PROVE FilesForm
  <2>1. PICK s \in Slots :
          /\ \E n \in Names, ip \in Ips :
               rows' = [r \in Used \cup {s} |-> IF r = s THEN NewRow(n, ip) ELSE rows[r]]
          /\ WriteAndClean({s})
    BY <1>3 DEF AddRow, SaveRuntime
  <2>2. Used' = Used \cup {s} /\ \A r \in Used' \ {s} : r \in Used /\ rows'[r] = rows[r]
    BY <2>1 DEF Used
  <2> QED
    BY <2>1, <2>2 DEF FilesForm
<1>4. ASSUME NEW t \in Threads, UpdateRow(t) PROVE FilesForm
  <2>0. PICK s \in Used :
          \E row : rows' = [rows EXCEPT ![s] = row] /\ WriteAndClean({s})
    BY <1>4 DEF UpdateRow, Addressable, SaveRuntime
  <2>1. PICK row : rows' = [rows EXCEPT ![s] = row] /\ WriteAndClean({s})
    BY <2>0
  <2>2. Used' = Used /\ \A r \in Used \ {s} : rows'[r] = rows[r]
    BY <1>0, <2>1 DEF Used
  <2> QED
    BY <2>1, <2>2 DEF FilesForm
<1>5. ASSUME NEW t \in Threads, RemoveRow(t) PROVE FilesForm
  <2>1. PICK keep \in SUBSET Used : rows' = [r \in keep |-> rows[r]]
    BY <1>5 DEF RemoveRow
  <2>2. WriteAndClean({})
    BY <1>5 DEF RemoveRow, SaveRuntime
  <2>3. Used' = keep /\ \A r \in keep : rows'[r] = rows[r]
    BY <2>1 DEF Used
  <2> QED
    BY <2>2, <2>3 DEF FilesForm
<1>6. ASSUME NEW t \in Threads, ImportConfiguration(t) PROVE FilesForm
  <2>1. PICK f \in ImportFiles : rows' \in RowsLoaded(f) /\ SaveRuntime(1..f.good)
    BY <1>6 DEF ImportConfiguration, LoadRows, GoodImports
  <2>2. Used' = 1..f.good
    BY <2>1, LoadedDomain DEF Used
  <2> QED
    BY <2>1, <2>2 DEF FilesForm, SaveRuntime
<1>7. ASSUME NEW t \in Threads, UpdateRandomSettings(t) PROVE FilesForm
  <2>1. valuesFile' = valuesFile
    BY <1>7 DEF UpdateRandomSettings
  <2> QED
    BY <1>7, <1>1, <2>1, RandomRangesLabels DEF LabelsKept
<1>8. ASSUME NEW S \in SUBSET Used, RandomizeRows(S) PROVE FilesForm
  <2>1. WriteRows(S)
    BY <1>8 DEF RandomizeRows
  <2> QED
    BY <1>8, <2>1, RandomizedLabels DEF FilesForm, LabelsKept
<1>9. ASSUME NEW t \in Threads, RandomizeRow(t) PROVE FilesForm
  BY <1>8, <1>9 DEF RandomizeRow, Addressable
<1>10. CASE MaintRandomize
  <2>1. \E S \in SUBSET Used : RandomizeRows(S)
    BY <1>10 DEF MaintRandomize
  <2> QED
    BY <1>8, <2>1
<1>11. ASSUME NEW t \in Threads,
              \/ Accept(t) \/ ReadOnly(t) \/ UpdateSettings(t) \/ WriteRuntimeFiles(t)
              \/ StartRow(t) \/ StartAll(t) \/ StopRow(t) \/ StopAll(t)
              \/ ToggleAutoRandom(t) \/ GenerateIpAliasScript(t) \/ PrepareNetwork(t)
              \/ PrepareNetworkDone(t) \/ Snapshot(t) \/ ShutdownRequest(t) \/ StopServing(t)
       PROVE  rows' = rows
  BY <1>11 DEF Accept, ReadOnly, UpdateSettings, WriteRuntimeFiles, StartRow, StartAll,
               StopRow, StopAll, ToggleAutoRandom, GenerateIpAliasScript, PrepareNetwork,
               PrepareNetworkDone, Snapshot, ShutdownRequest, StopServing, config
<1>12. CASE MaintWake \/ MaintPoll \/ MaintEnd \/ MainStep \/ UNCHANGED vars
              \/ \E p \in Pids : ChildExits(p)
  <2>1. rows' = rows
    BY <1>12 DEF MaintWake, MaintPoll, MaintEnd, MainStep, Interrupt, Shutdown, Exit,
                 ChildExits, vars, config
  <2> QED
    BY <1>2, <2>1
<1>13. ASSUME NEW t \in Threads PROVE ~UpdateRowFails(t)
  BY DEF UpdateRowFails
<1> QED
  BY <1>2, <1>3, <1>4, <1>5, <1>6, <1>7, <1>9, <1>10, <1>11, <1>12, <1>13
     DEF Next, ThreadStep, MaintStep

\* Writing rows of distinct names: each file is its row's.
LEMMA WrittenAt ==
  ASSUME NEW files, NEW rs, NEW S, NEW s, StemsApart, IsRows(rs),
         \A q, r \in DOMAIN rs : rs[q].name = rs[r].name => q = r,
         S \in SUBSET DOMAIN rs, s \in DOMAIN rs
  PROVE  Written(files, rs, S)[StemOf[rs[s].name]]
           = IF s \in S THEN rs[s].vals ELSE files[StemOf[rs[s].name]]
<1> DEFINE f == StemOf[rs[s].name]
<1>1. \A r \in DOMAIN rs : rs[r].name \in Names /\ r \in Slots
  BY DEF IsRows, Row
<1>2. f \in Stems
  BY <1>1, LauncherAssumption
<1>3. \A r \in DOMAIN rs : StemOf[rs[r].name] = f => r = s
  BY <1>1 DEF StemsApart
<1>4. CASE s \in S
  <2>1. s \in S /\ \A r \in S : StemOf[rs[r].name] = f => r <= s
    BY <1>1, <1>3, <1>4 DEF Slots
  <2>2. s = CHOOSE q \in S : /\ StemOf[rs[q].name] = f
                             /\ \A r \in S : StemOf[rs[r].name] = f => r <= q
    BY <1>3, <2>1
  <2>3. Written(files, rs, S)[f]
          = rs[CHOOSE q \in S : /\ StemOf[rs[q].name] = f
                                /\ \A r \in S : StemOf[rs[r].name] = f => r <= q].vals
    BY <1>2, <1>4 DEF Written
  <2> QED
    BY <1>4, <2>2, <2>3
<1>5. CASE s \notin S
  BY <1>2, <1>3, <1>5 DEF Written
<1> QED
  BY <1>4, <1>5

LEMMA FilesStep ==
  ASSUME ~BadPayloads, GoodImports, DistinctNames, StemsApart,
         \A f \in ImportFiles : NamesClear(f),
         ConfigTypes, FilesInv, [Next]_vars
  PROVE  FilesInv'
<1>1. NamesDistinct'
  BY NamesStep DEF FilesInv
<1>2. IsRows(rows')
  BY ConfigStep DEF ConfigTypes
<1>3. PICK S \in SUBSET Used' :
        /\ (valuesFile' = valuesFile /\ S = {}) \/ WriteRows(S) \/ WriteAndClean(S)
        /\ \A s \in Used' \ S :
             s \in Used /\ rows'[s].name = rows[s].name /\ rows'[s].vals = rows[s].vals
  BY FilesForms DEF FilesForm
<1>4. ASSUME NEW s \in Used' PROVE valuesFile'[StemOf[rows'[s].name]] = rows'[s].vals
  <2> DEFINE f == StemOf[rows'[s].name]
  <2>1. s \notin S => valuesFile[f] = rows'[s].vals
    BY <1>3, <1>4 DEF FilesInv, FilesMatchRows, Stem
  <2>2. Written(valuesFile, rows', S)[f] = rows'[s].vals
    <3>1. \A q, r \in DOMAIN rows' : rows'[q].name = rows'[r].name => q = r
      BY <1>1 DEF NamesDistinct, Used
    <3>2. S \in SUBSET DOMAIN rows' /\ s \in DOMAIN rows'
      BY <1>3, <1>4 DEF Used
    <3>3. Written(valuesFile, rows', S)[StemOf[rows'[s].name]]
            = IF s \in S THEN rows'[s].vals ELSE valuesFile[StemOf[rows'[s].name]]
      BY <1>2, <3>1, <3>2, WrittenAt
    <3> QED
      BY <2>1, <3>3
  <2>3. f \in StemsOf(rows') /\ f \in Stems
    BY <1>2, <1>4, LauncherAssumption DEF StemsOf, Used, IsRows, Row
  <2>4. CASE valuesFile' = valuesFile /\ S = {}
    BY <2>1, <2>4
  <2>5. CASE WriteRows(S)
    BY <2>2, <2>5 DEF WriteRows
  <2>6. CASE WriteAndClean(S)
    BY <2>2, <2>3, <2>6 DEF WriteAndClean, Cleaned
  <2> QED
    BY <1>3, <2>4, <2>5, <2>6
<1>5. FilesMatchRows'
  BY <1>4 DEF FilesMatchRows, Stem
<1> QED
  BY <1>1, <1>5 DEF FilesInv

\* The file each relay serves from holds the values of its row, whatever other
\* rows are written, renamed or removed, as long as names and their stems are
\* distinct and no request and no imported file fails half-way.
THEOREM FilesMatchRowsHolds ==
  ASSUME ~BadPayloads, GoodImports, DistinctNames, StemsApart,
         \A f \in Stored \cup ImportFiles : NamesClear(f)
  PROVE  Spec => []FilesMatchRows
<1>1. Init => FilesInv
  <2> SUFFICES ASSUME Init PROVE FilesInv
    OBVIOUS
  <2>1. PICK f \in Stored : rows \in RowsLoaded(f)
    BY DEF Init
  <2>2. NamesDistinct
    BY <2>1, LoadedNames DEF NamesDistinct, Used
  <2>3. valuesFile = Written([g \in Stems |-> NoFile], rows, Used) /\ IsRows(rows)
    BY <2>1, LoadedType DEF Init
  <2>4. ASSUME NEW s \in Used PROVE valuesFile[Stem(s)] = rows[s].vals
    <3> DEFINE none == [g \in Stems |-> NoFile]
    <3>1. \A q, r \in DOMAIN rows : rows[q].name = rows[r].name => q = r
      BY <2>2 DEF NamesDistinct, Used
    <3>2. valuesFile = Written(none, rows, Used)
      BY <2>3
    <3> HIDE DEF none
    <3>3. Written(none, rows, Used)[StemOf[rows[s].name]]
            = IF s \in Used THEN rows[s].vals ELSE none[StemOf[rows[s].name]]
      BY <2>3, <3>1, WrittenAt DEF Used
    <3> QED
      BY <2>4, <3>2, <3>3 DEF Stem
  <2> QED
    BY <2>2, <2>4 DEF FilesInv, FilesMatchRows
<1>2. FilesInv /\ TypeInv /\ [Next]_vars => FilesInv'
  BY FilesStep DEF TypeInv
<1>3. FilesInv => FilesMatchRows
  BY DEF FilesInv
<1> QED
  BY <1>1, <1>2, <1>3, TypeInvariant, PTL DEF Spec

=============================================================================
