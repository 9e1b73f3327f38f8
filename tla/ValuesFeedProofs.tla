-------------------------- MODULE ValuesFeedProofs --------------------------
(***************************************************************************)
(* Theorems about ValuesFeed, for every list of tags and every size of     *)
(* read and write calls, and about the promise it keeps.                   *)
(***************************************************************************)
EXTENDS ValuesFeed, TLAPS

-----------------------------------------------------------------------------
(* Types.                                                                  *)

LEMMA Sizes ==
  N \in Nat \ {0} /\ MaxVersion \in Nat /\ WriteCells \in Nat \ {0}
    /\ ReadCells \in Nat \ {0}
  BY FeedAssumption

\* What has been read was in the file, and what is served was read before and is
\* no newer than what has been read since the file was opened.
ReadWasWritten ==
  /\ reader # "sleeping" => latest # 0
  /\ \A c \in 1..got : buffer[c] \in 1..latest

NothingNewerServed ==
  /\ \A i \in Tags : served[i] <= latest
  /\ reader # "sleeping" => \A i \in Tags : i <= got => served[i] <= buffer[i]

FeedInv == TypeOK /\ ReadWasWritten /\ NothingNewerServed

LEMMA FeedInit == Init => FeedInv
<1> SUFFICES ASSUME Init PROVE FeedInv
  OBVIOUS
<1>1. /\ latest \in 0..MaxVersion /\ fileLen \in 0..(N + 1) /\ writing = FALSE
      /\ want \in 0..(N + 1) /\ got \in 0..want /\ opened \in 0..latest /\ last \in Nat
  BY Sizes DEF Init
<1>2. /\ stampOf \in [Versions -> Nat] /\ buffer \in [Cells -> 0..MaxVersion]
      /\ served \in [Tags -> 0..MaxVersion]
  BY Sizes DEF Init
<1>3. reader = "sleeping" /\ got = 0 /\ latest = 0 /\ \A i \in Tags : served[i] = 0
  BY DEF Init
<1>4. TypeOK
  BY <1>1, <1>2, <1>3 DEF TypeOK
<1>5. ReadWasWritten
  BY <1>3 DEF ReadWasWritten
<1>6. NothingNewerServed
  BY <1>3 DEF NothingNewerServed
<1> QED
  BY <1>4, <1>5, <1>6 DEF FeedInv

LEMMA TypeStep == FeedInv /\ [Next]_vars => TypeOK'
<1> SUFFICES ASSUME FeedInv, [Next]_vars PROVE TypeOK'
  OBVIOUS
<1> USE Sizes DEF FeedInv, TypeOK, Tags, Cells, Versions
<1>1. CASE BeginWrite
  <2>1. latest + 1 \in Versions /\ latest' = latest + 1 /\ fileLen' = 0
    BY <1>1 DEF BeginWrite
  <2>2. StampNow \in Nat
    BY DEF StampNow
  <2>3. stampOf' \in [Versions -> Nat]
    BY <1>1, <2>1, <2>2 DEF BeginWrite
  <2> QED
    BY <1>1, <2>1, <2>3 DEF BeginWrite, server
<1>2. CASE WriteChunk
  BY <1>2 DEF WriteChunk, server, Least
<1>3. CASE WriteBreaksOff
  BY <1>3 DEF WriteBreaksOff, server
<1>4. CASE OpenFile
  BY <1>4 DEF OpenFile, launcher
<1>5. CASE ReadChunk
  BY <1>5 DEF ReadChunk, launcher, Least
<1>6. CASE ShortRead
  BY <1>6 DEF ShortRead, launcher
<1>7. CASE ReadComplete
  BY <1>7 DEF ReadComplete, launcher
<1>8. CASE ApplyValues
  <2>1. \A i \in Tags : buffer[i] \in 0..MaxVersion
    OBVIOUS
  <2>2. served' \in [Tags -> 0..MaxVersion]
    BY <1>8, <2>1 DEF ApplyValues
  <2>3. got = N + 1 => buffer[N + 1] \in Versions
    BY DEF ReadWasWritten
  <2>4. last' \in Nat
    BY <1>8, <2>3 DEF ApplyValues, SeenStamp
  <2>5. /\ reader' = "sleeping"
        /\ UNCHANGED <<latest, fileLen, writing, stampOf, want, opened, got, buffer>>
    BY <1>8 DEF ApplyValues, launcher
  <2> QED
    BY <2>2, <2>4, <2>5
<1>9. CASE RestartServer
  BY <1>9 DEF RestartServer, launcher
<1>10. CASE UNCHANGED vars
  BY <1>10 DEF vars, launcher, server
<1> QED
  BY <1>1, <1>2, <1>3, <1>4, <1>5, <1>6, <1>7, <1>8, <1>9, <1>10 DEF Next

LEMMA ReadStep == FeedInv /\ [Next]_vars => ReadWasWritten'
<1> SUFFICES ASSUME FeedInv, [Next]_vars PROVE ReadWasWritten'
  OBVIOUS
<1> USE Sizes DEF FeedInv, TypeOK, Tags, Cells, Versions, ReadWasWritten
<1>1. CASE BeginWrite
  BY <1>1 DEF BeginWrite, server
<1>2. CASE WriteChunk \/ WriteBreaksOff
  BY <1>2 DEF WriteChunk, WriteBreaksOff, server
<1>3. CASE OpenFile
  BY <1>3 DEF OpenFile, launcher
<1>4. CASE ReadChunk
  <2>1. got' \in Nat /\ got' <= N + 1 /\ got < got' /\ latest' = latest
    BY <1>4 DEF ReadChunk, launcher, Least
  <2>2. ASSUME NEW c \in 1..got' PROVE buffer'[c] \in 1..latest'
    BY <1>4, <2>1, <2>2 DEF ReadChunk
  <2> QED
    BY <1>4, <2>1, <2>2 DEF ReadChunk
<1>5. CASE ShortRead \/ ReadComplete
  BY <1>5 DEF ShortRead, ReadComplete, launcher
<1>6. CASE ApplyValues
  BY <1>6 DEF ApplyValues, launcher
<1>7. CASE RestartServer
  BY <1>7 DEF RestartServer, launcher
<1>8. CASE UNCHANGED vars
  BY <1>8 DEF vars, launcher, server
<1> QED
  BY <1>1, <1>2, <1>3, <1>4, <1>5, <1>6, <1>7, <1>8 DEF Next

LEMMA ServedStep == FeedInv /\ [Next]_vars => NothingNewerServed'
<1> SUFFICES ASSUME FeedInv, [Next]_vars PROVE NothingNewerServed'
  OBVIOUS
<1> USE Sizes DEF FeedInv, TypeOK, Tags, Cells, Versions, NothingNewerServed
<1>1. CASE BeginWrite
  BY <1>1 DEF BeginWrite, server
<1>2. CASE WriteChunk \/ WriteBreaksOff
  BY <1>2 DEF WriteChunk, WriteBreaksOff, server
<1>3. CASE OpenFile
  BY <1>3 DEF OpenFile, launcher
<1>4. CASE ReadChunk
  <2>1. got' \in Nat /\ got' <= N + 1 /\ latest' = latest /\ served' = served
    BY <1>4 DEF ReadChunk, launcher, Least
  <2>2. ASSUME NEW i \in Tags, i <= got' PROVE served'[i] <= buffer'[i]
    BY <1>4, <2>1, <2>2 DEF ReadChunk
  <2> QED
    BY <2>1, <2>2
<1>5. CASE ShortRead \/ ReadComplete
  BY <1>5 DEF ShortRead, ReadComplete, launcher
<1>6. CASE ApplyValues
  <2>1. ASSUME NEW i \in Tags, Parsed(i) PROVE buffer[i] <= latest
    <3>1. i \in 1..got
      BY <2>1, FeedAssumption DEF Parsed
    <3> QED
      BY <3>1 DEF ReadWasWritten
  <2>2. \A i \in Tags : served'[i] <= latest
    BY <1>6, <2>1 DEF ApplyValues
  <2> QED
    BY <1>6, <2>2 DEF ApplyValues, launcher
<1>7. CASE RestartServer
  BY <1>7 DEF RestartServer, launcher
<1>8. CASE UNCHANGED vars
  BY <1>8 DEF vars, launcher, server
<1> QED
  BY <1>1, <1>2, <1>3, <1>4, <1>5, <1>6, <1>7, <1>8 DEF Next

LEMMA FeedInvariant == Spec => []FeedInv
<1>1. FeedInv /\ [Next]_vars => FeedInv'
  BY TypeStep, ReadStep, ServedStep DEF FeedInv
<1> QED
  BY <1>1, FeedInit, PTL DEF Spec

\* The state always has the shape the program gives it: in particular nothing is
\* read past the size taken when the file was opened.
THEOREM TypeCorrect == Spec => []TypeOK
<1>1. FeedInv => TypeOK
  BY DEF FeedInv
<1> QED
  BY <1>1, FeedInvariant, PTL

-----------------------------------------------------------------------------
(* What clients see never goes back, whatever the sizes of the calls.      *)

LEMMA ApplyForward ==
  FeedInv /\ ApplyValues => \A i \in Tags : served'[i] >= served[i]
<1> SUFFICES ASSUME FeedInv, ApplyValues
             PROVE  \A i \in Tags : served'[i] >= served[i]
  OBVIOUS
<1> USE DEF FeedInv, TypeOK, Tags
<1>1. ASSUME NEW i \in Tags, Parsed(i) PROVE served[i] <= buffer[i]
  <2>1. i <= got
    BY <1>1, FeedAssumption, Sizes DEF Parsed
  <2> QED
    BY <2>1 DEF NothingNewerServed, ApplyValues
<1>2. \A i \in Tags : buffer[i] \in Nat /\ served[i] \in Nat
  BY Sizes DEF Cells
<1>3. ASSUME NEW i \in Tags
      PROVE  \/ served'[i] = served[i]
             \/ Parsed(i) /\ served'[i] = buffer[i]
  BY DEF ApplyValues
<1> QED
  BY <1>1, <1>2, <1>3

LEMMA ForwardStep ==
  FeedInv /\ [Next]_vars =>
    [RestartServer \/ \A i \in Tags : served'[i] >= served[i]]_vars
<1> SUFFICES ASSUME FeedInv, Next, ~RestartServer, ~ApplyValues
             PROVE  \A i \in Tags : served'[i] >= served[i]
  BY ApplyForward
<1>1. \A i \in Tags : served[i] \in Nat
  BY Sizes DEF FeedInv, TypeOK
<1>2. served' = served
  BY DEF Next, BeginWrite, WriteChunk, WriteBreaksOff, OpenFile, ReadChunk,
         ShortRead, ReadComplete, server
<1> QED
  BY <1>1, <1>2

\* A client that has read a value never reads an older one of that tag
\* afterwards, however many calls a read or a write takes and however they
\* overlap, unless the relay is started again.
THEOREM NeverGoesBackHolds == Spec => NeverGoesBack
  BY FeedInvariant, ForwardStep, PTL DEF Spec, NeverGoesBack

-----------------------------------------------------------------------------
(* Reads that are not torn.                                                *)

\* All that was read since the file was opened is of one version.
OneVersion == \A c, d \in 1..got : buffer[c] = buffer[d]

\* A read that has begun and is not complete was cut short by the one write that
\* began meanwhile, and what it has is of that write.
CutShort ==
  reader = "reading" /\ 0 < got /\ got < want =>
    latest = opened + 1 /\ buffer[1] = latest /\ OneWritePerRead

\* While the file is the one that was opened it is no shorter than it was.
OpenedFile ==
  /\ reader = "reading" /\ latest = opened => want <= fileLen
  /\ reader = "reading" /\ OneWritePerRead => latest <= opened + 1

\* A file written with one call is empty or whole.
WholeFile ==
  WriteCells > N => fileLen \in {0, N + 1} /\ want \in {0, N + 1}

UntornInv == FeedInv /\ OneVersion /\ CutShort /\ OpenedFile /\ WholeFile

LEMMA UntornInit == Init => UntornInv
<1>1. Init => OneVersion /\ CutShort /\ OpenedFile /\ WholeFile
  BY DEF Init, OneVersion, CutShort, OpenedFile, WholeFile
<1> QED
  BY <1>1, FeedInit DEF UntornInv

LEMMA OpenedStep == UntornInv /\ [Next]_vars => OpenedFile' /\ WholeFile'
<1> SUFFICES ASSUME UntornInv, [Next]_vars PROVE OpenedFile' /\ WholeFile'
  OBVIOUS
<1> USE Sizes DEF UntornInv, FeedInv, TypeOK, OpenedFile, WholeFile
<1>1. CASE BeginWrite
  BY <1>1 DEF BeginWrite, server
<1>2. CASE WriteChunk
  BY <1>2 DEF WriteChunk, server, Least
<1>3. CASE WriteBreaksOff
  BY <1>3 DEF WriteBreaksOff, server
<1>4. CASE OpenFile
  BY <1>4 DEF OpenFile, launcher
<1>5. CASE ReadChunk
  BY <1>5 DEF ReadChunk, launcher
<1>6. CASE ShortRead \/ ReadComplete
  BY <1>6 DEF ShortRead, ReadComplete, launcher
<1>7. CASE ApplyValues
  BY <1>7 DEF ApplyValues, launcher
<1>8. CASE RestartServer
  BY <1>8 DEF RestartServer, launcher
<1>9. CASE UNCHANGED vars
  BY <1>9 DEF vars, launcher, server
<1> QED
  BY <1>1, <1>2, <1>3, <1>4, <1>5, <1>6, <1>7, <1>8, <1>9 DEF Next

LEMMA OneVersionStep ==
  ASSUME Untorn PROVE UntornInv /\ [Next]_vars => OneVersion' /\ CutShort'
<1> SUFFICES ASSUME UntornInv, [Next]_vars PROVE OneVersion' /\ CutShort'
  OBVIOUS
<1> USE Sizes DEF UntornInv, FeedInv, TypeOK, OneVersion, CutShort
<1>1. CASE BeginWrite
  <2>1. reader = "reading" /\ 0 < got /\ got < want => FALSE
    BY <1>1 DEF BeginWrite
  <2> QED
    BY <1>1, <2>1 DEF BeginWrite, server
<1>2. CASE WriteChunk \/ WriteBreaksOff
  BY <1>2 DEF WriteChunk, WriteBreaksOff, server
<1>3. CASE OpenFile
  BY <1>3 DEF OpenFile, launcher
<1>4. CASE ReadChunk
  <2>1. /\ reader = "reading" /\ got < want /\ got < fileLen
        /\ reader' = reader /\ want' = want /\ opened' = opened /\ latest' = latest
        /\ latest \in Nat /\ opened \in Nat /\ opened <= latest
        /\ got \in Nat /\ want \in Nat /\ want <= N + 1
    BY <1>4 DEF ReadChunk, launcher
  <2>2. got' \in Nat /\ got' <= want /\ (got' = want \/ got' = fileLen)
    BY <1>4, <2>1 DEF ReadChunk, Least, Untorn
  <2>3. ASSUME NEW c \in 1..got' PROVE buffer'[c] = IF got < c THEN latest ELSE buffer[c]
    BY <1>4, <2>1, <2>2, <2>3 DEF ReadChunk, Cells
  <2>4. \A c \in 1..got : buffer[c] = latest
    <3>1. CASE got = 0
      BY <3>1
    <3>2. CASE got # 0
      <4>1. buffer[1] = latest /\ 1 \in 1..got
        BY <2>1, <3>2
      <4> QED
        BY <4>1
    <3> QED
      BY <3>1, <3>2
  <2>5. \A c \in 1..got' : buffer'[c] = latest
    <3> SUFFICES ASSUME NEW c \in 1..got' PROVE buffer'[c] = latest
      OBVIOUS
    <3>1. c > got \/ c \in 1..got
      BY <2>1, <2>2
    <3> QED
      BY <2>3, <2>4, <3>1
  <2>6. got' < want => latest = opened + 1 /\ OneWritePerRead
    <3> SUFFICES ASSUME got' < want PROVE latest = opened + 1 /\ OneWritePerRead
      OBVIOUS
    <3>1. fileLen < want
      BY <2>2
    <3>2. ~(WriteCells > N)
      BY <2>1, <3>1 DEF WholeFile
    <3>3. OneWritePerRead
      BY <3>2 DEF Untorn
    <3> QED
      BY <2>1, <3>1, <3>3 DEF OpenedFile
  <2>7. 0 < got' => buffer'[1] = latest
    BY <2>2, <2>5
  <2> QED
    BY <2>1, <2>5, <2>6, <2>7
<1>5. CASE ShortRead \/ ReadComplete
  BY <1>5 DEF ShortRead, ReadComplete, launcher
<1>6. CASE ApplyValues
  BY <1>6 DEF ApplyValues, launcher
<1>7. CASE RestartServer
  BY <1>7 DEF RestartServer, launcher
<1>8. CASE UNCHANGED vars
  BY <1>8 DEF vars, launcher, server
<1> QED
  BY <1>1, <1>2, <1>3, <1>4, <1>5, <1>6, <1>7, <1>8 DEF Next

LEMMA UntornInvariant == ASSUME Untorn PROVE Spec => []UntornInv
<1>1. UntornInv /\ [Next]_vars => UntornInv'
  BY TypeStep, ReadStep, ServedStep, OpenedStep, OneVersionStep DEF UntornInv, FeedInv
<1> QED
  BY <1>1, UntornInit, PTL DEF Spec

-----------------------------------------------------------------------------
(* The stamp.                                                              *)

StampsGrow ==
  \A v \in Versions :
    v <= latest =>
      stampOf[v] > 0 /\ \A w \in Versions : w < v => stampOf[w] < stampOf[v]

StampServed ==
  last = 0 \/ \E v \in Versions :
    v <= latest /\ last = stampOf[v] /\ \A i \in Tags : served[i] >= v

StampInv == StampsGrow /\ StampServed

LEMMA StampsGrowStep ==
  ASSUME DistinctStamps PROVE FeedInv /\ StampsGrow /\ [Next]_vars => StampsGrow'
<1> SUFFICES ASSUME FeedInv, StampsGrow, [Next]_vars PROVE StampsGrow'
  OBVIOUS
<1> USE Sizes DEF FeedInv, TypeOK, StampsGrow, Versions
<1>1. CASE BeginWrite
  <2>1. latest' = latest + 1 /\ latest + 1 \in Versions /\ latest \in Nat
    BY <1>1 DEF BeginWrite
  <2>2. stampOf' = [stampOf EXCEPT ![latest + 1] = StampNow + 1]
    BY <1>1 DEF BeginWrite
  <2>3. StampNow \in Nat /\ \A v \in Versions : v <= latest => stampOf[v] <= StampNow
    BY <2>1 DEF StampNow
  <2>4. /\ stampOf'[latest + 1] = StampNow + 1
        /\ \A v \in Versions : v <= latest => stampOf'[v] = stampOf[v]
    BY <2>1, <2>2
  <2>5. ASSUME NEW v \in Versions, v <= latest'
        PROVE  stampOf'[v] > 0 /\ \A w \in Versions : w < v => stampOf'[w] < stampOf'[v]
    <3>1. CASE v = latest + 1
      BY <2>1, <2>3, <2>4, <3>1
    <3>2. CASE v <= latest
      BY <2>1, <2>4, <3>2
    <3> QED
      BY <2>1, <2>5, <3>1, <3>2
  <2> QED
    BY <2>5
<1>2. CASE ~BeginWrite
  <2>1. latest' = latest /\ stampOf' = stampOf
    BY <1>2 DEF Next, WriteChunk, WriteBreaksOff, OpenFile, ReadChunk, ShortRead,
                ReadComplete, ApplyValues, RestartServer, launcher, vars
  <2> QED
    BY <2>1
<1> QED
  BY <1>1, <1>2

LEMMA StampServedStep ==
  FeedInv /\ OneVersion /\ StampServed /\ [Next]_vars => StampServed'
<1> SUFFICES ASSUME FeedInv, OneVersion, StampServed, [Next]_vars PROVE StampServed'
  OBVIOUS
<1> USE Sizes DEF FeedInv, TypeOK, StampServed, Versions
<1>1. CASE BeginWrite
  <2>1. /\ latest' = latest + 1 /\ last' = last /\ served' = served
        /\ \A v \in Versions : v <= latest => stampOf'[v] = stampOf[v]
    BY <1>1 DEF BeginWrite, server
  <2> QED
    BY <2>1
<1>2. CASE ApplyValues
  <2>1. latest' = latest /\ stampOf' = stampOf
    BY <1>2 DEF ApplyValues, launcher
  <2>2. CASE last' = last
    <3>1. \A i \in Tags : served'[i] >= served[i] /\ served[i] \in Nat /\ served'[i] \in Nat
      <4>1. \A i \in Tags : served'[i] >= served[i]
        BY <1>2, ApplyForward
      <4>2. TypeOK'
        BY TypeStep
      <4> QED
        BY <4>1, <4>2
    <3>2. CASE last = 0
      BY <2>2, <3>2
    <3>3. CASE last # 0
      <4>1. PICK v \in Versions :
              v <= latest /\ last = stampOf[v] /\ \A i \in Tags : served[i] >= v
        BY <3>3
      <4>2. ASSUME NEW i \in Tags PROVE served'[i] >= v
        BY <3>1, <4>1
      <4> QED
        BY <2>1, <2>2, <4>1, <4>2
    <3> QED
      BY <3>2, <3>3
  <2>3. CASE last' # last
    <3>1. /\ SeenStamp # 0 /\ last' = SeenStamp
          /\ served' = [i \in Tags |-> IF Parsed(i) THEN buffer[i] ELSE served[i]]
      BY <1>2, <2>3 DEF ApplyValues
    <3>2. got = N + 1 /\ last' = stampOf[buffer[N + 1]]
      BY <3>1 DEF SeenStamp
    <3>3. buffer[N + 1] \in 1..latest
      BY <3>2 DEF ReadWasWritten
    <3>4. ASSUME NEW i \in Tags PROVE served'[i] = buffer[N + 1]
      <4>1. Parsed(i) /\ i \in 1..got /\ N + 1 \in 1..got
        BY <3>2, FeedAssumption DEF Parsed, Tags
      <4> QED
        BY <3>1, <4>1 DEF OneVersion
    <3>5. PICK v \in Versions : v <= latest /\ last' = stampOf[v] /\ v = buffer[N + 1]
      BY <3>2, <3>3
    <3>6. \A i \in Tags : served'[i] >= v
      BY <3>4, <3>5
    <3> QED
      BY <2>1, <3>5, <3>6
  <2> QED
    BY <2>2, <2>3
<1>3. CASE RestartServer
  BY <1>3 DEF RestartServer
<1>4. CASE ~BeginWrite /\ ~ApplyValues /\ ~RestartServer
  <2>1. latest' = latest /\ stampOf' = stampOf /\ served' = served /\ last' = last
    BY <1>4 DEF Next, WriteChunk, WriteBreaksOff, OpenFile, ReadChunk, ShortRead,
                ReadComplete, launcher, server, vars
  <2> QED
    BY <2>1
<1> QED
  BY <1>1, <1>2, <1>3, <1>4

\* The server passes over a file only when it serves all that is in it, if its
\* reads are not torn and no two versions have the same stamp.
THEOREM StampMeansServedHolds ==
  ASSUME Untorn, DistinctStamps PROVE Spec => []StampMeansServed
<1>1. Init => StampInv
  BY DEF Init, StampInv, StampsGrow, StampServed, Versions
<1>2. UntornInv /\ StampInv /\ [Next]_vars => StampInv'
  BY StampsGrowStep, StampServedStep DEF StampInv, UntornInv
<1>3. ASSUME FeedInv, StampInv PROVE StampMeansServed
  <2> SUFFICES ASSUME NEW v \in Versions, v <= latest, last = stampOf[v]
               PROVE  \A i \in Tags : served[i] >= v
    BY DEF StampMeansServed
  <2>1. last # 0
    BY <1>3 DEF StampInv, StampsGrow, FeedInv, TypeOK
  <2>2. PICK w \in Versions :
          w <= latest /\ last = stampOf[w] /\ \A i \in Tags : served[i] >= w
    BY <1>3, <2>1 DEF StampInv, StampServed
  <2>3. ~(v < w) /\ ~(w < v)
    <3>1. StampsGrow /\ stampOf[v] \in Nat /\ stampOf[w] \in Nat
      BY <1>3 DEF StampInv, FeedInv, TypeOK
    <3>2. w < v => stampOf[w] < stampOf[v]
      BY <3>1 DEF StampsGrow
    <3>3. v < w => stampOf[v] < stampOf[w]
      BY <2>2, <3>1 DEF StampsGrow
    <3> QED
      BY <2>2, <3>1, <3>2, <3>3
  <2>4. v = w
    BY <2>3, Sizes DEF Versions
  <2> QED
    BY <2>2, <2>4
<1> QED
  BY <1>1, <1>2, <1>3, UntornInvariant, PTL DEF Spec, UntornInv

-----------------------------------------------------------------------------
(* The promise.                                                            *)

LEMMA PromiseStep ==
  FeedInv /\ OneVersion /\ [Next]_vars => [Promise!Next]_(Promise!vars)
<1> SUFFICES ASSUME FeedInv, OneVersion, [Next]_vars
             PROVE  Promise!Next \/ UNCHANGED Promise!vars
  OBVIOUS
<1> USE DEF Promise!Next, Promise!vars
<1>1. CASE BeginWrite
  BY <1>1 DEF BeginWrite, server, Promise!Publish
<1>2. CASE ApplyValues
  <2> DEFINE S == {i \in Tags : Parsed(i)}
  <2>1. latest' = latest
    BY <1>2 DEF ApplyValues, launcher
  <2>2. CASE served' = served
    BY <2>1, <2>2
  <2>3. CASE served' # served
    <3>1. served' = [i \in Tags |-> IF Parsed(i) THEN buffer[i] ELSE served[i]]
      BY <1>2, <2>3 DEF ApplyValues
    <3>2. ASSUME NEW i \in S
          PROVE  i \in 1..got /\ 1 \in 1..got /\ served[i] <= buffer[i]
      <4>1. i <= got
        BY <3>2, FeedAssumption, Sizes DEF Parsed, Tags, FeedInv, TypeOK
      <4> QED
        BY <1>2, <4>1, Sizes DEF Tags, FeedInv, TypeOK, NothingNewerServed, ApplyValues
    <3>3. S # {}
      <4> SUFFICES ASSUME S = {} PROVE FALSE
        OBVIOUS
      <4>1. served' = [i \in Tags |-> served[i]]
        BY <3>1
      <4> QED
        BY <2>3, <4>1 DEF FeedInv, TypeOK
    <3>4. buffer[1] \in 1..latest
      BY <3>2, <3>3 DEF FeedInv, ReadWasWritten
    <3>5. \A i \in S : buffer[i] = buffer[1]
      BY <3>2 DEF OneVersion
    <3>6. Promise!Leading(S)
      BY FeedAssumption, Sizes DEF Promise!Leading, Promise!Tags, Tags, Parsed, FeedInv, TypeOK
    <3>7. served' = [i \in Tags |-> IF i \in S THEN buffer[1] ELSE served[i]]
      BY <3>1, <3>5
    <3>8. Promise!Deliver(buffer[1], S)
      BY <2>1, <3>2, <3>5, <3>6, <3>7 DEF Promise!Deliver, Promise!Tags, Tags
    <3>9. S \in SUBSET Promise!Tags
      BY DEF Promise!Tags, Tags
    <3> QED
      BY <3>4, <3>8, <3>9
  <2> QED
    BY <2>2, <2>3
<1>3. CASE RestartServer
  BY <1>3 DEF RestartServer, launcher, Promise!Restart, Promise!Tags, Tags
<1>4. CASE ~BeginWrite /\ ~ApplyValues /\ ~RestartServer
  BY <1>4 DEF Next, WriteChunk, WriteBreaksOff, OpenFile, ReadChunk, ShortRead,
              ReadComplete, launcher, server, vars
<1> QED
  BY <1>1, <1>2, <1>3, <1>4

\* Whatever files, stamps and polls lie between, clients see the versions section
\* by section in the order of the file, each tag from older to newer, if reads
\* are not torn.
THEOREM KeepsPromiseHolds == ASSUME Untorn PROVE Spec => KeepsPromise
<1>1. Init => Promise!Init
  BY DEF Init, Promise!Init, Promise!Tags, Tags
<1>2. UntornInv /\ [Next]_vars => [Promise!Next]_(Promise!vars)
  BY PromiseStep DEF UntornInv
<1> QED
  BY <1>1, <1>2, UntornInvariant, PTL DEF Spec, KeepsPromise, Promise!Spec

LEMMA PromiseInOrder ==
  Promise!Spec => [](Promise!TypeOK /\ Promise!SectionsInOrder)
<1> DEFINE InOrder == Promise!TypeOK /\ Promise!SectionsInOrder
<1>1. Promise!Init => InOrder
  BY Sizes DEF Promise!Init, Promise!TypeOK, Promise!SectionsInOrder, Promise!Tags
<1>2. InOrder /\ [Promise!Next]_(Promise!vars) => InOrder'
  <2> SUFFICES ASSUME InOrder, [Promise!Next]_(Promise!vars) PROVE InOrder'
    OBVIOUS
  <2> USE Sizes DEF Promise!TypeOK, Promise!SectionsInOrder
  <2>1. CASE Promise!Publish
    BY <2>1 DEF Promise!Publish
  <2>2. ASSUME NEW v \in 1..latest, NEW S \in SUBSET Promise!Tags, Promise!Deliver(v, S)
        PROVE  InOrder'
    <3>1. /\ latest' = latest /\ Promise!Leading(S)
          /\ served' = [i \in Promise!Tags |-> IF i \in S THEN v ELSE served[i]]
          /\ \A i \in S : served[i] <= v
      BY <2>2 DEF Promise!Deliver
    <3>2. \A i \in Promise!Tags : served'[i] = IF i \in S THEN v ELSE served[i]
      BY <3>1
    <3>3. \A i, j \in Promise!Tags : i <= j /\ j \in S => i \in S
      BY <3>1, FeedAssumption DEF Promise!Leading, Promise!Tags, Tags
    <3>4. ASSUME NEW i \in Promise!Tags, NEW j \in Promise!Tags,
                 SectionEnd[i] = SectionEnd[j]
          PROVE  i \in S <=> j \in S
      BY <3>1, <3>4, FeedAssumption DEF Promise!Leading, Promise!Tags, Tags
    <3>5. Promise!TypeOK'
      BY <3>1
    <3>6. ASSUME NEW i \in Promise!Tags, NEW j \in Promise!Tags, i <= j
          PROVE  served'[i] >= served'[j]
      <4>1. served[i] \in Nat /\ served[j] \in Nat /\ served[i] >= served[j]
        BY <3>6
      <4> QED
        BY <3>1, <3>2, <3>3, <3>6, <4>1
    <3>7. ASSUME NEW i \in Promise!Tags, NEW j \in Promise!Tags,
                 SectionEnd[i] = SectionEnd[j]
          PROVE  served'[i] = served'[j]
      BY <3>2, <3>4, <3>7
    <3> QED
      BY <3>5, <3>6, <3>7
  <2>3. CASE Promise!Restart
    BY <2>3 DEF Promise!Restart
  <2>4. CASE UNCHANGED Promise!vars
    BY <2>4 DEF Promise!vars
  <2> QED
    BY <2>1, <2>2, <2>3, <2>4 DEF Promise!Next
<1> QED
  BY <1>1, <1>2, PTL DEF Promise!Spec

\* At any moment a client finds every section in one version, and no section
\* ahead of one that comes before it in the file, if reads are not torn.
THEOREM SectionsInOrderHolds == ASSUME Untorn PROVE Spec => []SectionsInOrder
<1>1. SectionsInOrder <=> Promise!SectionsInOrder
  BY DEF SectionsInOrder
<1> QED
  BY <1>1, KeepsPromiseHolds, PromiseInOrder, PTL DEF KeepsPromise

=============================================================================
