---------------------- MODULE LauncherInstancesProofs -----------------------
(***************************************************************************)
(* Theorems about LauncherInstances, for any number of copies, rows and    *)
(* crashes, with a port that is shared or not.                             *)
(***************************************************************************)
EXTENDS LauncherInstances, TLAPS

-----------------------------------------------------------------------------
(* The inductive invariant.                                                *)

\* What the steps of a copy belong to, and which of them have files to write.
StepsInv ==
  \A c \in Copies :
    /\ job[c] \in CASE pc[c] \in {"save", "saving"} -> {"start", "edit", "quit"}
                    [] pc[c] = "write" -> {"start", "edit"}
                    [] pc[c] \in {"load", "bind"} -> {"start"}
                    [] OTHER -> {"none"}
    /\ pc[c] # "write" => todo[c] = {}

\* Copies that are at work together are rivals, all of them.
RivalsInv ==
  \A c, d \in Copies : Live(c) /\ Live(d) /\ c # d => c \in rivals

\* How far a copy alone has come with the disk.
DiskInv ==
  \A c \in Copies : c \notin rivals =>
    /\ c \notin mixed
    /\ pc[c] = "write" =>
         /\ rows[c] \ todo[c] \subseteq files
         /\ job[c] = "start" => stateFile = rows[c]
    /\ pc[c] \in {"save", "saving"} /\ job[c] = "edit" => files = rows[c]
    /\ pc[c] \in {"bind", "announce", "serve"} => stateFile = rows[c] /\ files = rows[c]

\* The last save can be loaded, unless one is being made or it broke off.
SaveInv ==
  ~brokenOff /\ (\A c \in Copies : pc[c] # "saving") =>
    stateFile # Torn /\ (stateFile = saved \/ (stateFile = {} /\ saved = DefaultRows))

Types == TypeOK /\ todo \in [Copies -> SUBSET Rows]

IInv == Types /\ StepsInv /\ RivalsInv /\ DiskInv /\ SaveInv

-----------------------------------------------------------------------------
(* The steps keep it.                                                      *)

Step(c) ==
  \/ Start(c) \/ Reuse(c) \/ NoAnswer(c) \/ LoadState(c) \/ BeginSave(c) \/ EndSave(c)
  \/ WriteFiles(c) \/ CleanFiles(c) \/ Bind(c) \/ BindFails(c) \/ Serve(c)
  \/ Edit(c) \/ Quit(c) \/ Crash(c)

\* A step of a copy leaves where the others are.
LEMMA OthersStay ==
  ASSUME Types, NEW c \in Copies, Step(c), NEW d \in Copies, d # c
  PROVE  pc'[d] = pc[d] /\ job'[d] = job[d] /\ rows'[d] = rows[d] /\ todo'[d] = todo[d]
<1> USE DEF Types, TypeOK, Goto, Off
<1>1. CASE Start(c) \/ Reuse(c) \/ NoAnswer(c) \/ LoadState(c) \/ BeginSave(c)
  BY <1>1 DEF Start, Reuse, NoAnswer, LoadState, BeginSave
<1>2. CASE EndSave(c)
  BY <1>2 DEF EndSave, AfterSave
<1>3. CASE WriteFiles(c)
  BY <1>3 DEF WriteFiles
<1>4. CASE CleanFiles(c) \/ Bind(c) \/ BindFails(c) \/ Serve(c) \/ Quit(c) \/ Crash(c)
  BY <1>4 DEF CleanFiles, Bind, BindFails, Serve, Quit, Crash
<1>5. CASE Edit(c)
  BY <1>5 DEF Edit
<1> QED
  BY <1>1, <1>2, <1>3, <1>4, <1>5 DEF Step

LEMMA TypeStep ==
  ASSUME Types, StepsInv, NEW c \in Copies, Step(c)
  PROVE  Types'
<1>0. DefaultRows \subseteq Rows /\ MaxCrashes \in Nat
  BY InstancesAssumption
<1>1. \A d \in Copies : d # c => pc'[d] = pc[d]
  BY OthersStay
<1> USE DEF Types, TypeOK, Goto, Off
<1>2. CASE Start(c) \/ Reuse(c) \/ Bind(c) \/ BindFails(c) \/ Serve(c) \/ Quit(c)
  BY <1>2 DEF Start, Reuse, Bind, BindFails, Serve, Quit, disk, ghosts
<1>3. CASE NoAnswer(c)
  BY <1>3 DEF NoAnswer, disk
<1>4. CASE LoadState(c)
  BY <1>0, <1>4 DEF LoadState, StepsInv, disk, ghosts
<1>5. CASE BeginSave(c)
  BY <1>5 DEF BeginSave, ghosts
<1>6. CASE EndSave(c)
  <2>1. /\ pc' \in [Copies -> {"off", "probe", "load", "save", "saving", "write",
                               "bind", "announce", "serve"}]
        /\ job' \in [Copies -> {"none", "start", "edit", "quit"}]
        /\ rows' \in [Copies -> SUBSET Rows]
        /\ \A d \in Copies : todo'[d] \subseteq rows'[d]
        /\ todo' \in [Copies -> SUBSET Rows]
        /\ pc'[c] # "saving"
    BY <1>6 DEF EndSave, AfterSave
  <2>2. mixed' \subseteq {d \in Copies : pc'[d] = "saving"}
    BY <1>6, <1>1 DEF EndSave
  <2> QED
    BY <1>6, <2>1, <2>2 DEF EndSave
<1>7. CASE WriteFiles(c)
  BY <1>7 DEF WriteFiles, ghosts
<1>8. CASE CleanFiles(c)
  BY <1>8 DEF CleanFiles, ghosts
<1>9. CASE Edit(c)
  BY <1>9 DEF Edit, disk, ghosts
<1>10. CASE Crash(c)
  BY <1>0, <1>10 DEF Crash, disk
<1> QED
  BY <1>2, <1>3, <1>4, <1>5, <1>6, <1>7, <1>8, <1>9, <1>10 DEF Step

LEMMA StepsStep ==
  ASSUME Types, StepsInv, NEW c \in Copies, Step(c)
  PROVE  StepsInv'
<1>1. /\ job'[c] \in CASE pc'[c] \in {"save", "saving"} -> {"start", "edit", "quit"}
                       [] pc'[c] = "write" -> {"start", "edit"}
                       [] pc'[c] \in {"load", "bind"} -> {"start"}
                       [] OTHER -> {"none"}
      /\ pc'[c] # "write" => todo'[c] = {}
  <2> USE DEF Types, TypeOK, StepsInv, Goto, Off
  <2>1. CASE Start(c) \/ Reuse(c) \/ NoAnswer(c) \/ LoadState(c) \/ BeginSave(c)
    BY <2>1 DEF Start, Reuse, NoAnswer, LoadState, BeginSave
  <2>2. CASE EndSave(c)
    BY <2>2 DEF EndSave, AfterSave
  <2>3. CASE WriteFiles(c)
    BY <2>3 DEF WriteFiles
  <2>4. CASE CleanFiles(c) \/ Bind(c) \/ BindFails(c) \/ Serve(c) \/ Quit(c) \/ Crash(c)
    BY <2>4 DEF CleanFiles, Bind, BindFails, Serve, Quit, Crash
  <2>5. CASE Edit(c)
    BY <2>5 DEF Edit
  <2> QED
    BY <2>1, <2>2, <2>3, <2>4, <2>5 DEF Step
<1> QED
  BY <1>1, OthersStay DEF StepsInv

\* Only a copy that has asked the port becomes live, and who is a rival stays one
\* while it is.
LEMMA RivalsStep ==
  ASSUME Types, RivalsInv, NEW c \in Copies, Step(c)
  PROVE  /\ RivalsInv'
         /\ ~NoAnswer(c) => rivals' = rivals /\ (Live(c)' => Live(c))
         /\ NoAnswer(c) => rivals \subseteq rivals' \cup {c} /\ Live(c)' /\ ~Live(c)
<1> USE DEF Types, TypeOK, Goto, Off, Live
<1>1. CASE NoAnswer(c)
  <2>1. pc'[c] = "load" /\ pc[c] = "probe"
    BY <1>1 DEF NoAnswer
  <2>2. rivals' = IF {d \in Copies \ {c} : Live(d)} = {} THEN rivals \ {c}
                  ELSE rivals \cup {d \in Copies \ {c} : Live(d)} \cup {c}
    BY <1>1 DEF NoAnswer
  <2>3. \A d \in Copies : d # c => pc'[d] = pc[d]
    BY <1>1, OthersStay
  <2>4. RivalsInv'
    BY <2>1, <2>2, <2>3 DEF RivalsInv
  <2> QED
    BY <1>1, <2>1, <2>2, <2>4
<1>2. CASE ~NoAnswer(c)
  <2>1. rivals' = rivals
    BY <1>2 DEF Step, Start, Reuse, LoadState, BeginSave, EndSave, WriteFiles, CleanFiles,
                Bind, BindFails, Serve, Edit, Quit, Crash, ghosts
  <2>2. pc[c] \in {"off", "probe"} => pc'[c] \in {"off", "probe"}
    BY <1>2 DEF Step, Start, Reuse, LoadState, BeginSave, EndSave, WriteFiles, CleanFiles,
                Bind, BindFails, Serve, Edit, Quit, Crash
  <2>3. RivalsInv'
    BY <2>1, <2>2, OthersStay DEF RivalsInv
  <2> QED
    BY <1>2, <2>1, <2>2, <2>3
<1> QED
  BY <1>1, <1>2

\* A copy that is no rival after a step of c is c itself, or is not live while c
\* is: c, if it was live, was alone.
LEMMA NoRival ==
  ASSUME Types, RivalsInv, NEW c \in Copies, Step(c), NEW d \in Copies, d \notin rivals', d # c
  PROVE  d \notin rivals /\ (Live(d) => ~Live(c))
<1>1. d \notin rivals
  BY RivalsStep
<1> QED
  BY <1>1 DEF RivalsInv

LEMMA DiskStep ==
  ASSUME IInv, NEW c \in Copies, Step(c)
  PROVE  DiskInv'
<1> DEFINE AtDisk(d) ==
      /\ d \notin mixed
      /\ pc[d] = "write" =>
           /\ rows[d] \ todo[d] \subseteq files
           /\ job[d] = "start" => stateFile = rows[d]
      /\ pc[d] \in {"save", "saving"} /\ job[d] = "edit" => files = rows[d]
      /\ pc[d] \in {"bind", "announce", "serve"} => stateFile = rows[d] /\ files = rows[d]
<1>0. Types /\ TypeOK /\ StepsInv /\ RivalsInv /\ DiskInv
  BY DEF IInv, Types
<1>1. ASSUME NEW d \in Copies, d # c, d \notin rivals' PROVE AtDisk(d)'
  <2>1. d \notin rivals /\ (Live(d) => ~Live(c))
    BY <1>0, <1>1, NoRival
  <2>2. pc'[d] = pc[d] /\ job'[d] = job[d] /\ rows'[d] = rows[d] /\ todo'[d] = todo[d]
    BY <1>0, <1>1, OthersStay
  <2>3. CASE Live(c)
    <3>1. pc'[d] \in {"off", "probe"}
      BY <2>1, <2>2, <2>3 DEF Live
    <3>2. Types'
      BY <1>0, TypeStep
    <3>3. d \notin mixed'
      BY <3>1, <3>2 DEF Types, TypeOK
    <3> QED
      BY <3>1, <3>3
  <2>4. CASE ~Live(c)
    <3>1. UNCHANGED <<stateFile, files, mixed>> \/ (mixed' = mixed \ {c} /\ UNCHANGED disk)
      BY <2>4 DEF Step, Start, Reuse, NoAnswer, LoadState, BeginSave, EndSave, WriteFiles,
                  CleanFiles, Bind, BindFails, Serve, Edit, Quit, Crash, Live, disk
    <3> QED
      BY <1>0, <1>1, <2>1, <2>2, <3>1 DEF DiskInv, disk
  <2> QED
    BY <2>3, <2>4
<1>2. ASSUME c \notin rivals', c \in rivals PROVE AtDisk(c)'
  <2>1. NoAnswer(c)
    BY <1>0, <1>2, RivalsStep
  <2>2. pc'[c] = "load" /\ pc[c] = "probe" /\ mixed' = mixed
    BY <1>0, <2>1 DEF NoAnswer, Goto, Types, TypeOK
  <2> QED
    BY <1>0, <2>2 DEF TypeOK
<1>3. ASSUME c \notin rivals', c \notin rivals PROVE AtDisk(c)'
  <2>1. AtDisk(c)
    BY <1>0, <1>3 DEF DiskInv
  <2>2. \A d \in Copies : Live(c) /\ d # c => pc[d] # "saving"
    BY <1>0, <1>3 DEF RivalsInv, Live
  <2> USE DEF Types, TypeOK, Goto, Off, disk
  <2>3. CASE Start(c) \/ Reuse(c) \/ NoAnswer(c) \/ LoadState(c) \/ Crash(c) \/ BindFails(c)
    <3>1. pc'[c] \in {"off", "probe", "load", "save"} /\ (pc'[c] = "save" => job'[c] = "start")
      BY <1>0, <2>3 DEF Start, Reuse, NoAnswer, LoadState, Crash, BindFails, StepsInv
    <3>2. mixed' \subseteq mixed
      BY <2>3 DEF Start, Reuse, NoAnswer, LoadState, Crash, BindFails
    <3> QED
      BY <2>1, <3>1, <3>2
  <2>4. CASE BeginSave(c)
    BY <1>0, <2>1, <2>4 DEF BeginSave
  <2>5. CASE EndSave(c)
    <3>1. stateFile' = rows[c] /\ files' = files /\ c \notin mixed' /\ pc[c] = "saving"
      BY <1>0, <2>1, <2>5 DEF EndSave
    <3>2. CASE job[c] = "start"
      BY <1>0, <2>5, <3>1, <3>2 DEF EndSave, AfterSave
    <3>3. CASE job[c] = "edit"
      BY <1>0, <2>1, <2>5, <3>1, <3>3 DEF EndSave, AfterSave
    <3>4. CASE job[c] = "quit"
      BY <1>0, <2>5, <3>1, <3>4 DEF EndSave, AfterSave
    <3> QED
      BY <2>5, <3>2, <3>3, <3>4 DEF EndSave, AfterSave
  <2>6. CASE WriteFiles(c)
    BY <1>0, <2>1, <2>6 DEF WriteFiles
  <2>7. CASE CleanFiles(c)
    BY <1>0, <2>1, <2>7 DEF CleanFiles, StepsInv
  <2>8. CASE Bind(c) \/ Serve(c)
    BY <1>0, <2>1, <2>8 DEF Bind, Serve
  <2>9. CASE Edit(c)
    BY <1>0, <2>1, <2>9 DEF Edit
  <2>10. CASE Quit(c)
    BY <1>0, <2>1, <2>10 DEF Quit
  <2> QED
    BY <2>3, <2>4, <2>5, <2>6, <2>7, <2>8, <2>9, <2>10 DEF Step
<1> QED
  BY <1>1, <1>2, <1>3 DEF DiskInv

LEMMA SaveStep ==
  ASSUME IInv, NEW c \in Copies, Step(c)
  PROVE  SaveInv'
<1>0. Types /\ SaveInv
  BY DEF IInv
<1>1. \A d \in Copies : d # c => pc'[d] = pc[d]
  BY <1>0, OthersStay
<1> USE DEF Types, TypeOK, Goto, Off, disk, ghosts
<1>2. CASE EndSave(c)
  <2>1. \A S \in SUBSET Rows : S # Torn
    BY InstancesAssumption
  <2> QED
    BY <1>0, <1>2, <2>1 DEF EndSave, SaveInv
<1>3. CASE BeginSave(c)
  BY <1>0, <1>3 DEF BeginSave, SaveInv
<1>4. CASE Crash(c)
  <2>1. /\ UNCHANGED <<stateFile, saved>> /\ brokenOff' = (brokenOff \/ pc[c] = "saving")
    BY <1>4 DEF Crash
  <2> QED
    BY <1>0, <1>1, <2>1 DEF SaveInv
<1>5. CASE ~EndSave(c) /\ ~BeginSave(c) /\ ~Crash(c)
  <2>1. UNCHANGED <<stateFile, saved, brokenOff>> /\ pc[c] # "saving"
    BY <1>5 DEF Step, Start, Reuse, NoAnswer, LoadState, WriteFiles, CleanFiles, Bind,
                BindFails, Serve, Edit, Quit
  <2> QED
    BY <1>0, <1>1, <2>1 DEF SaveInv
<1> QED
  BY <1>2, <1>3, <1>4, <1>5

LEMMA IInvInvariant == Spec => []IInv
<1>1. Init => IInv
  <2> SUFFICES ASSUME Init PROVE IInv
    OBVIOUS
  <2>1. DefaultRows \subseteq Rows /\ MaxCrashes \in Nat /\ {} # Torn
    BY InstancesAssumption
  <2>2. Types
    <3>1. /\ pc \in [Copies -> {"off", "probe", "load", "save", "saving", "write",
                               "bind", "announce", "serve"}]
          /\ job \in [Copies -> {"none", "start", "edit", "quit"}]
          /\ rows \in [Copies -> SUBSET Rows] /\ todo \in [Copies -> SUBSET Rows]
          /\ \A c \in Copies : todo[c] \subseteq rows[c]
      BY DEF Init
    <3>2. crashes \in 0..MaxCrashes
      BY <2>1 DEF Init
    <3>3. stateFile \subseteq Rows /\ files \subseteq Rows /\ saved \in SUBSET Rows
      BY <2>1 DEF Init
    <3>4. mixed = {} /\ rivals = {} /\ brokenOff \in BOOLEAN
      BY DEF Init
    <3> QED
      BY <3>1, <3>2, <3>3, <3>4 DEF Types, TypeOK
  <2>3. StepsInv
    BY DEF Init, StepsInv
  <2>4. RivalsInv /\ DiskInv /\ SaveInv
    BY <2>1 DEF Init, RivalsInv, DiskInv, SaveInv, Live
  <2> QED
    BY <2>2, <2>3, <2>4 DEF IInv
<1>2. ASSUME IInv, NEW c \in Copies, Step(c) PROVE IInv'
  BY <1>2, TypeStep, StepsStep, RivalsStep, DiskStep, SaveStep DEF IInv, Types
<1>3. ASSUME IInv, UNCHANGED vars PROVE IInv'
  BY <1>3 DEF vars, disk, ghosts, IInv, Types, TypeOK, StepsInv, RivalsInv, DiskInv,
              SaveInv, Live
<1>4. IInv /\ [Next]_vars => IInv'
  BY <1>2, <1>3 DEF Next, Advance, Step
<1> QED
  BY <1>1, <1>4, PTL DEF Spec

-----------------------------------------------------------------------------
(* What follows.                                                           *)

\* Wherever a copy dies and however saves mix, what each copy holds are rows, and the
\* state file holds rows or is torn: it never names a row that nobody could have.
THEOREM TypeCorrect == Spec => []TypeOK
  BY IInvInvariant, PTL DEF IInv, Types

\* A copy at rest serves what is saved, and the files are those of its rows, if
\* it was never at work together with another copy, whatever died before.
THEOREM AtRestConsistentHolds == Spec => []AtRestConsistent
<1>1. IInv => AtRestConsistent
  BY DEF IInv, DiskInv, AtRestConsistent
<1> QED
  BY <1>1, IInvInvariant, PTL

\* A copy alone loads what was saved last, unless that save broke off.
THEOREM RestartRestoresHolds == Spec => RestartRestores
<1>1. ASSUME IInv, NEW c \in Copies, LoadState(c), rivals = {}, ~brokenOff, saved # {}
      PROVE  rows'[c] = saved
  <2>1. \A d \in Copies : pc[d] # "saving"
    BY <1>1 DEF IInv, RivalsInv, LoadState, Live
  <2>2. stateFile # Torn /\ (stateFile = saved \/ (stateFile = {} /\ saved = DefaultRows))
    BY <1>1, <2>1 DEF IInv, SaveInv
  <2> QED
    BY <1>1, <2>2 DEF LoadState, IInv, Types, TypeOK
<1>2. IInv /\ [Next]_vars =>
        [\A c \in Copies :
           LoadState(c) /\ rivals = {} /\ ~brokenOff /\ saved # {} => rows'[c] = saved]_vars
  BY <1>1
<1> QED
  BY <1>2, IInvInvariant, PTL DEF Spec, RestartRestores

=============================================================================
