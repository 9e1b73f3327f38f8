----------------------------- MODULE ValuesFeed -----------------------------
(***************************************************************************)
(* How values get from the launcher to the clients of one relay: the       *)
(* launcher writes <stem>_values.json in place, with a stamp of the        *)
(* millisecond, and the loop of ied_mms_server.c reads the file every      *)
(* 100 ms and applies what it finds to the data model.  Nothing keeps the  *)
(* two apart: a write truncates the file and then extends it, a read takes *)
(* the size first and the content after, in as many system calls as it     *)
(* needs.                                                                  *)
(*                                                                         *)
(* The text is a sequence of cells, one for each tag with what follows it  *)
(* up to the next (so that the last cell of a section holds its closing    *)
(* brace) and one, the last, for updated_unix_ms.  A write truncates, so   *)
(* the file always holds the first cells of one version.  All versions of  *)
(* a list of tags are taken to have the same length, and every tag to have *)
(* an attribute in the model.                                              *)
(***************************************************************************)
EXTENDS Integers

CONSTANTS
  N,              \* number of tags in the list
  SectionEnd,     \* tag -> the last tag of its section
  MaxVersion,     \* bound on the versions written
  WriteCells,     \* cells a write call of the launcher adds
  ReadCells,      \* cells a read call of the server returns
  DistinctStamps, \* whether the clock moves between two writes
  OneWritePerRead \* whether at most one write begins during one read

Tags == 1..N
Cells == 1..(N + 1)
Versions == 1..MaxVersion

ASSUME FeedAssumption ==
  /\ N \in Nat \ {0} /\ MaxVersion \in Nat
  /\ SectionEnd \in [Tags -> Tags]
  /\ \A i \in Tags : i <= SectionEnd[i] /\ SectionEnd[SectionEnd[i]] = SectionEnd[i]
  /\ \A i, j \in Tags : i <= j => SectionEnd[i] <= SectionEnd[j]
  /\ WriteCells \in Nat \ {0} /\ ReadCells \in Nat \ {0}
  /\ DistinctStamps \in BOOLEAN /\ OneWritePerRead \in BOOLEAN

\* The file is read with one call, as it is below the 4 KB buffer of the C
\* library, and either written with one call too, as it is below the 8 KB buffer
\* of Python, or not written twice during one read.  Even one read call is not
\* enough by itself: it returns what there is, and fread calls again.
Untorn == ReadCells > N /\ (WriteCells > N \/ OneWritePerRead)

VARIABLES
  latest,   \* the version in the file, 0 while there is no file
  fileLen,  \* how many of its cells are there
  writing,  \* whether the launcher is writing it
  stampOf,  \* version -> its updated_unix_ms, 0 for the versions to come
  reader,   \* the server: "sleeping", "reading" or "applying"
  want,     \* fileSize
  opened,   \* ghost: the version in the file when its size was taken
  got,      \* cells in the buffer
  buffer,   \* cell -> the version it was read from
  served,   \* tag -> the version in the data model, 0 for its default
  last      \* context.lastUpdatedUnixMs

launcher == <<latest, fileLen, writing, stampOf>>
server == <<reader, want, opened, got, buffer, served, last>>
vars == <<launcher, server>>

Least(a, b) == IF a <= b THEN a ELSE b

Init ==
  /\ latest = 0 /\ fileLen = 0 /\ writing = FALSE
  /\ stampOf = [v \in Versions |-> 0]
  /\ reader = "sleeping" /\ want = 0 /\ opened = 0 /\ got = 0
  /\ buffer = [c \in Cells |-> 0]
  /\ served = [i \in Tags |-> 0]
  /\ last = 0

-----------------------------------------------------------------------------
(* The launcher.                                                           *)

StampNow == IF latest = 0 THEN 0 ELSE stampOf[latest]

\* The payload is stamped and the file truncated.  Two writes can get the same
\* stamp: the clock counts milliseconds, and on Windows ticks every 15.
BeginWrite ==
  /\ ~writing
  /\ latest < MaxVersion
  /\ OneWritePerRead /\ reader = "reading" => latest = opened
  /\ \E stamp \in {StampNow, StampNow + 1} :
       /\ stamp = StampNow => ~DistinctStamps /\ latest # 0
       /\ stampOf' = [stampOf EXCEPT ![latest + 1] = stamp]
  /\ latest' = latest + 1
  /\ fileLen' = 0
  /\ writing' = TRUE
  /\ UNCHANGED server

WriteChunk ==
  /\ writing
  /\ fileLen' = Least(fileLen + WriteCells, N + 1)
  /\ writing' = (fileLen' < N + 1)
  /\ UNCHANGED <<latest, stampOf, server>>

\* The launcher dies in the middle of a write.
WriteBreaksOff ==
  /\ writing
  /\ writing' = FALSE
  /\ UNCHANGED <<latest, fileLen, stampOf, server>>

-----------------------------------------------------------------------------
(* The relay server's loop.                                                *)

\* fopen and the size of the file.
OpenFile ==
  /\ reader = "sleeping" /\ latest # 0
  /\ reader' = "reading"
  /\ want' = fileLen
  /\ opened' = latest
  /\ got' = 0
  /\ UNCHANGED <<launcher, buffer, served, last>>

\* Mutant: reading goes on past the size taken first.
ReadPastSize ==
  /\ reader = "reading" /\ got < want /\ got < fileLen
  /\ got' = Least(got + ReadCells, fileLen)
  /\ buffer' = [c \in Cells |-> IF got < c /\ c <= got' THEN latest ELSE buffer[c]]
  /\ UNCHANGED <<launcher, reader, want, opened, served, last>>

\* One read call of fread, which goes on until it has fileSize bytes.
ReadChunk ==
  /\ reader = "reading" /\ got < want /\ got < fileLen
  /\ got' = Least(got + ReadCells, Least(want, fileLen))
  /\ buffer' = [c \in Cells |-> IF got < c /\ c <= got' THEN latest ELSE buffer[c]]
  /\ UNCHANGED <<launcher, reader, want, opened, served, last>>

\* The file has become shorter: bytesRead # fileSize, the buffer is dropped.
ShortRead ==
  /\ reader = "reading" /\ got < want /\ fileLen <= got
  /\ reader' = "sleeping"
  /\ UNCHANGED <<launcher, want, opened, got, buffer, served, last>>

ReadComplete ==
  /\ reader = "reading" /\ got = want
  /\ reader' = "applying"
  /\ UNCHANGED <<launcher, want, opened, got, buffer, served, last>>

\* Mutant: the stamp is that of the file as it is now.
SeenStampOfFile == IF got = N + 1 THEN stampOf[latest] ELSE 0

\* updated_unix_ms in the buffer, 0 when the text ends before it.
SeenStamp == IF got = N + 1 THEN stampOf[buffer[N + 1]] ELSE 0

\* Mutant: every tag read counts, whether its section is closed or not.
ParsedOpen(i) == i <= got

\* The sections whose closing brace is in the buffer, up to the first that is
\* cut off, which ends the pass.
Parsed(i) == SectionEnd[i] <= got

\* Mutant: the tags of sections that are missing fall back to their defaults.
ApplyClearing ==
  /\ reader = "applying"
  /\ reader' = "sleeping"
  /\ IF SeenStamp # 0 /\ SeenStamp = last
     THEN UNCHANGED <<served, last>>
     ELSE /\ served' = [i \in Tags |-> IF Parsed(i) THEN buffer[i] ELSE 0]
          /\ last' = IF SeenStamp # 0 THEN SeenStamp ELSE last
  /\ UNCHANGED <<launcher, want, opened, got, buffer>>

\* Applied with the data model locked; a stamp already applied is passed over.
ApplyValues ==
  /\ reader = "applying"
  /\ reader' = "sleeping"
  /\ IF SeenStamp # 0 /\ SeenStamp = last
     THEN UNCHANGED <<served, last>>
     ELSE /\ served' = [i \in Tags |-> IF Parsed(i) THEN buffer[i] ELSE served[i]]
          /\ last' = IF SeenStamp # 0 THEN SeenStamp ELSE last
  /\ UNCHANGED <<launcher, want, opened, got, buffer>>

\* Mutant: the stamp survives the relay.
RestartKeepingStamp ==
  /\ reader' = "sleeping" /\ want' = 0 /\ opened' = 0 /\ got' = 0
  /\ buffer' = [c \in Cells |-> 0]
  /\ served' = [i \in Tags |-> 0]
  /\ UNCHANGED <<launcher, last>>

\* The relay is stopped, or dies, and is started again.
RestartServer ==
  /\ reader' = "sleeping" /\ want' = 0 /\ opened' = 0 /\ got' = 0
  /\ buffer' = [c \in Cells |-> 0]
  /\ served' = [i \in Tags |-> 0]
  /\ last' = 0
  /\ UNCHANGED launcher

-----------------------------------------------------------------------------

Next ==
  \/ BeginWrite \/ WriteChunk \/ WriteBreaksOff
  \/ OpenFile \/ ReadChunk \/ ShortRead \/ ReadComplete \/ ApplyValues
  \/ RestartServer

Spec == Init /\ [][Next]_vars

\* The server's loop goes on, whatever the launcher does.
FairSpec ==
  /\ Spec
  /\ WF_vars(OpenFile) /\ WF_vars(ReadChunk \/ ShortRead)
  /\ WF_vars(ReadComplete) /\ WF_vars(ApplyValues)

-----------------------------------------------------------------------------
(* Properties.                                                             *)

TypeOK ==
  /\ latest \in 0..MaxVersion /\ fileLen \in 0..(N + 1)
  /\ writing \in BOOLEAN
  /\ stampOf \in [Versions -> Nat]
  /\ reader \in {"sleeping", "reading", "applying"}
  /\ want \in 0..(N + 1) /\ got \in 0..want /\ opened \in 0..latest
  /\ buffer \in [Cells -> 0..MaxVersion]
  /\ served \in [Tags -> 0..MaxVersion]
  /\ last \in Nat

\* A client that has read a value never reads an older one of that tag
\* afterwards, however reads and writes of the file overlap, unless the relay
\* was started again.
NeverGoesBack ==
  [][RestartServer \/ \A i \in Tags : served'[i] >= served[i]]_vars

\* The server passes over a file only when it serves what is in it: a stamp it
\* remembers is that of a version all of whose tags it has served.
StampMeansServed ==
  \A v \in Versions :
    v <= latest /\ last = stampOf[v] => \A i \in Tags : served[i] >= v

\* What clients see is what ServedValues promises them.
Promise == INSTANCE ServedValues
KeepsPromise == Promise!Spec

\* At any moment a client finds every section in one version, and no section
\* ahead of one that comes before it in the file.
SectionsInOrder == Promise!SectionsInOrder

\* The values written last are the ones clients end up with.
Written == latest # 0 /\ fileLen = N + 1
FinalValuesServed ==
  <>[]Written => \/ <>[](\A i \in Tags : served[i] = latest)
                 \/ []<><<RestartServer>>_vars

=============================================================================
