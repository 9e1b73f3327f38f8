---------------------------- MODULE RelayServer -----------------------------
(***************************************************************************)
(* One relay server process, ied_mms_server.c: it starts, binds its        *)
(* address, reads the values file every 100 ms and applies it entry by     *)
(* entry with the data model locked, until a signal ends its loop.  The    *)
(* launcher rewrites the file meanwhile and starts the process again when  *)
(* it has ended.                                                           *)
(*                                                                         *)
(* A row's list of tags is fixed here and may hold anything a user can     *)
(* type.  What the server reads is the beginning of one version of the     *)
(* text: ValuesFeed is about reads that overlap writes.                    *)
(***************************************************************************)
EXTENDS ValuesParser, TagResolver

CONSTANTS
  TagLists,    \* the lists of tags a row may have
  N,           \* the length of such a list
  SectionEnd,  \* position in a list -> the last one of its section
  MaxVersion,  \* bound on the versions the launcher writes
  TagStamp,    \* the number a tag named like the stamp has
  WarnSlots,   \* sizeof(warnedTags) / sizeof(warnedTags[0])
  PrintCap     \* bound on the warnings counted for one tag

Positions == 1..N

\* The last analog, bool and word.
LastAnalog == SectionEnd[1]
LastBool == SectionEnd[LastAnalog + 1]
SectionEnds == <<LastAnalog, LastBool, N>>

ASSUME RelayAssumption ==
  /\ N \in Nat \ {0}
  /\ LastAnalog \in 1..(N - 1) /\ LastBool \in (LastAnalog + 1)..N
  /\ SectionEnd = [i \in Positions |-> IF i <= LastAnalog THEN LastAnalog
                                       ELSE IF i <= LastBool THEN LastBool ELSE N]
  /\ \A list \in TagLists : DOMAIN list = Positions
  /\ MaxVersion \in Nat /\ TagStamp \in Nat
  /\ WarnSlots \in Nat /\ PrintCap \in Nat \ {0, 1}
  /\ RelayType \in RelayTypes
  \* The names the launcher writes have no brace in them.
  /\ Braced \cap ({<<>>, StampName} \cup {<<SectionNames[s]>> : s \in 1..3}) = {}

VARIABLES
  tags,     \* the row's tags: analogs, bools, words
  text,     \* the tokens of the file for them
  known,    \* the positions of those that have an attribute
  latest,   \* the version in the file, 0 while there is no file
  whole,    \* whether all of it is there
  phase,    \* "off", "starting", "polling", "comparing" or "applying"
  running,  \* g_running
  buf,      \* jsonText: version, tokens, and whether a part of one more follows
  section,  \* the section parse_json_object_section is in, 0 for none yet
  cursor,   \* its cursor, 0 before its bounds are known
  end,      \* the end of the section
  data,     \* position -> the version in the data model, 0 for its default
  visible,  \* position -> what clients read: the data model when unlocked
  warned,   \* context.warnedTags
  printed,  \* position -> warnings printed for it, counted up to PrintCap
  last,     \* context.lastUpdatedUnixMs
  outcome   \* of the last pass: "none", "applied", "failed" or "skipped"

file == <<tags, text, known, latest, whole>>
parser == <<buf, section, cursor, end>>
model == <<data, visible>>
warnings == <<warned, printed>>
context == <<warnings, last, outcome>>
vars == <<file, phase, running, parser, model, context>>

-----------------------------------------------------------------------------
(* The buffer.                                                             *)

Empty == [version |-> 0, len |-> 0, part |-> FALSE]

\* The stamp of a version, and the digits that two of them begin with.
StampOf(v) == v + 1
CutStamp == 1

\* parse_updated_unix_ms: the number found, none when there is none.  Only
\* here does it matter that the last token may be cut: its digits may be.
StampIn ==
  {CASE text[at].kind = "entry" -> TagStamp
     [] at > buf.len -> CutStamp
     [] OTHER -> StampOf(buf.version)
     : at \in {i \in StampAt(text, IF buf.part THEN buf.len + 1 ELSE buf.len) :
                 text[i].section # "bools"}}

\* The positions whose tags resolve to an attribute.
KnownIn(list) == {i \in Positions : Resolve(list[i]) # {}}
Known(i) == i \in known

Default == [i \in Positions |-> 0]

Init ==
  /\ tags \in TagLists /\ text = TextOf(tags, SectionEnds) /\ known = KnownIn(tags)
  /\ latest = 0 /\ whole = FALSE
  /\ phase = "off" /\ running = TRUE
  /\ buf = Empty /\ section = 0 /\ cursor = 0 /\ end = 0
  /\ data = Default /\ visible = Default
  /\ warned = {} /\ printed = Default
  /\ last = 0 /\ outcome = "none"

-----------------------------------------------------------------------------
(* The launcher: it writes the file, spawns, signals and kills.            *)

BeginWrite ==
  /\ latest < MaxVersion
  /\ latest' = latest + 1 /\ whole' = FALSE
  /\ UNCHANGED <<tags, text, known, phase, running, parser, model, context>>

FinishWrite ==
  /\ latest # 0 /\ ~whole
  /\ whole' = TRUE
  /\ UNCHANGED <<tags, text, known, latest, phase, running, parser, model, context>>

Spawn ==
  /\ phase = "off"
  /\ phase' = "starting"
  /\ UNCHANGED <<file, running, parser, model, context>>

\* handle_signal.
Signal ==
  /\ phase # "off" /\ running
  /\ running' = FALSE
  /\ UNCHANGED <<file, phase, parser, model, context>>

\* The process ends; the next one starts with everything as it is at first.
Gone ==
  /\ phase' = "off" /\ running' = TRUE
  /\ buf' = Empty /\ section' = 0 /\ cursor' = 0 /\ end' = 0
  /\ data' = Default /\ visible' = Default
  /\ warned' = {} /\ printed' = Default
  /\ last' = 0 /\ outcome' = "none"
  /\ UNCHANGED file

\* TerminateProcess on Windows, kill after a timeout: no handler runs.
Kill == phase # "off" /\ Gone

-----------------------------------------------------------------------------
(* main.                                                                   *)

\* The address is not on the adapter, or a predecessor still has the port.
BindFails == phase = "starting" /\ Gone

\* Clients find the defaults of the model until the first file is applied.
Listen ==
  /\ phase = "starting"
  /\ phase' = "polling"
  /\ UNCHANGED <<file, running, parser, model, context>>

\* The file is read: all of it, or as much of it as is there.  A part of one
\* more token matters when it is the one with the stamp.  A read that fails, as
\* there is no file or it shrinks, leaves everything as it is.
Read ==
  /\ phase = "polling" /\ running /\ latest # 0
  /\ \E n \in 0..Len(text), part \in BOOLEAN :
       /\ whole => n = Len(text)
       /\ part => n < Len(text) /\ text[n + 1].name = StampName
       /\ buf' = [version |-> latest, len |-> n, part |-> part]
  /\ phase' = "comparing"
  /\ section' = 0 /\ cursor' = 0 /\ end' = 0
  /\ UNCHANGED <<file, running, model, context>>

\* Mutant: a stamp that is not there is taken for the last one.
PassOverUnstamped ==
  /\ phase = "comparing"
  /\ StampIn = {} \/ last \in StampIn
  /\ phase' = "polling" /\ outcome' = "skipped"
  /\ UNCHANGED <<file, running, parser, model, warnings, last>>

\* This stamp was applied already: the model is not even locked.
PassOver ==
  /\ phase = "comparing"
  /\ last \in StampIn
  /\ phase' = "polling" /\ outcome' = "skipped"
  /\ UNCHANGED <<file, running, parser, model, warnings, last>>

LockModel ==
  /\ phase = "comparing"
  /\ last \notin StampIn
  /\ phase' = "applying" /\ section' = 1
  /\ UNCHANGED <<file, running, buf, cursor, end, model, context>>

Bound == Bounds(text, buf.len, SectionNames[section])

\* Mutant: the end stays what it was.
EnterKeepingEnd ==
  /\ phase = "applying" /\ cursor = 0
  /\ \E b \in Bound : ~b.inString /\ cursor' = b.begin
  /\ UNCHANGED <<file, phase, running, buf, section, end, model, context>>

\* extract_section_bounds.
EnterSection ==
  /\ phase = "applying" /\ cursor = 0
  /\ \E b \in Bound : ~b.inString /\ cursor' = b.begin /\ end' = b.end
  /\ UNCHANGED <<file, phase, running, buf, section, model, context>>

Here == text[cursor]
AtEntry ==
  phase = "applying" /\ cursor # 0 /\ cursor < end /\ Here.kind = "entry"

\* Mutant: clients read the values as they come, the model is not locked.
UpdateVisibly ==
  /\ AtEntry
  /\ Known(Here.pos) /\ Accepts(SectionNames[section], Here.section)
  /\ data' = [data EXCEPT ![Here.pos] = buf.version]
  /\ visible' = data'
  /\ cursor' = cursor + 1
  /\ UNCHANGED <<file, phase, running, buf, section, end, context>>

\* handle_analog_entry and its like: the attribute gets its value.
UpdateAttribute ==
  /\ AtEntry
  /\ Known(Here.pos) /\ Accepts(SectionNames[section], Here.section)
  /\ data' = [data EXCEPT ![Here.pos] = buf.version]
  /\ cursor' = cursor + 1
  /\ UNCHANGED <<file, phase, running, buf, section, end, visible, context>>

Warn(i) == printed' = [printed EXCEPT ![i] = IF @ < PrintCap THEN @ + 1 ELSE @]

\* Mutant: a warning is printed whenever there is no attribute.
WarnAlways ==
  /\ warned' = IF Cardinality(warned) < WarnSlots THEN warned \cup {Here.name} ELSE warned
  /\ Warn(Here.pos)

\* warn_missing_tag_once.
WarnOnce ==
  IF Here.name \in warned
  THEN UNCHANGED warnings
  ELSE /\ warned' = IF Cardinality(warned) < WarnSlots THEN warned \cup {Here.name} ELSE warned
       /\ Warn(Here.pos)

\* Mutant: a tag without an attribute ends the pass.
FailUnknown ==
  /\ AtEntry
  /\ ~Known(Here.pos)
  /\ IF HasReference(Here.name) THEN WarnOnce ELSE UNCHANGED warnings
  /\ visible' = data
  /\ phase' = "polling" /\ outcome' = "failed"
  /\ UNCHANGED <<file, running, parser, data, last>>

\* A tag without an attribute is passed over, without a word if it has no dot.
SkipUnknown ==
  /\ AtEntry
  /\ ~Known(Here.pos)
  /\ IF HasReference(Here.name) THEN WarnOnce ELSE UNCHANGED warnings
  /\ cursor' = cursor + 1
  /\ UNCHANGED <<file, phase, running, buf, section, end, model, last, outcome>>

\* A section that is not there, not closed, or begins inside a string, or a
\* value that its attribute cannot have: the model is unlocked with what was
\* updated so far, and the stamp is not kept.
FailPass ==
  /\ \/ phase = "applying" /\ cursor = 0 /\ \A b \in Bound : b.inString
     \/ AtEntry /\ Known(Here.pos) /\ ~Accepts(SectionNames[section], Here.section)
  /\ visible' = data
  /\ phase' = "polling" /\ outcome' = "failed"
  /\ UNCHANGED <<file, running, parser, data, warnings, last>>

\* Mutant: only at its bound.
AtBound == phase = "applying" /\ cursor # 0 /\ cursor = end

\* A section ends at its bound or at a closing brace before it.
AtEnd ==
  phase = "applying" /\ cursor # 0 /\ (cursor = end \/ IsClose(Here))

NextSection ==
  /\ AtEnd /\ section < 3
  /\ section' = section + 1 /\ cursor' = 0 /\ end' = 0
  /\ UNCHANGED <<file, phase, running, buf, model, context>>

\* Unlocked; a stamp that was found is kept.
EndPass ==
  /\ AtEnd /\ section = 3
  /\ visible' = data
  /\ last' \in IF StampIn \ {0} = {} THEN {last} ELSE StampIn
  /\ phase' = "polling" /\ outcome' = "applied"
  /\ UNCHANGED <<file, running, parser, data, warnings>>

\* g_running is looked at between two passes only.
Leave == phase = "polling" /\ ~running /\ Gone

-----------------------------------------------------------------------------

Loop ==
  \/ Read \/ PassOver \/ LockModel \/ EnterSection \/ UpdateAttribute
  \/ SkipUnknown \/ FailPass \/ NextSection \/ EndPass \/ Leave

Next ==
  \/ BeginWrite \/ FinishWrite \/ Spawn \/ Signal \/ Kill
  \/ BindFails \/ Listen
  \/ Loop

Spec == Init /\ [][Next]_vars

\* The process goes on, and leaves its start one way or the other.
FairSpec == Spec /\ WF_vars(Loop) /\ WF_vars(BindFails \/ Listen)

-----------------------------------------------------------------------------
(* Properties.                                                             *)

TypeOK ==
  /\ tags \in TagLists /\ text = TextOf(tags, SectionEnds) /\ known = KnownIn(tags)
  /\ latest \in 0..MaxVersion /\ whole \in BOOLEAN
  /\ phase \in {"off", "starting", "polling", "comparing", "applying"}
  /\ running \in BOOLEAN
  /\ buf \in [version : 0..MaxVersion, len : 0..Len(text), part : BOOLEAN]
  /\ section \in 0..3 /\ cursor \in 0..end /\ end \in 0..buf.len
  /\ data \in [Positions -> 0..MaxVersion]
  /\ visible \in [Positions -> 0..MaxVersion]
  /\ warned \subseteq {tags[i] : i \in Positions}
  /\ printed \in [Positions -> 0..PrintCap]
  /\ last \in {0, CutStamp, TagStamp} \cup {StampOf(v) : v \in 1..latest}
  /\ outcome \in {"none", "applied", "failed", "skipped"}

\* The lists the parser copes with: its search for a section or a stamp can only
\* be led astray by an analog tag named words, an analog or word named like
\* the stamp, more than one brace, or a brace after a tag named like a section.
Braces == {i \in Positions : tags[i] \in Braced}
Named == {i \in Positions : \E s \in 1..3 : tags[i] = <<SectionNames[s]>>}
Ordinary ==
  /\ \A i \in 1..SectionEnds[1] : tags[i] # <<"words">>
  /\ \A i \in Positions :
       i \notin (LastAnalog + 1)..LastBool => tags[i] # StampName
  /\ Cardinality(Braces) <= 1
  /\ Braces = {} \/ Named = {}

\* After a pass over a whole text clients read the version in it of every tag
\* that has an attribute, whatever was read before, and however unusual the
\* tags, within Ordinary.
WholePassServes ==
  phase = "polling" /\ Ordinary /\ buf.version # 0 /\ buf.len = Len(text) =>
    /\ outcome # "failed"
    /\ \A i \in Positions : Known(i) => visible[i] = buf.version

\* One process warns about a tag twice only when the table is full and without it.
WarnedOnce ==
  \A i \in Positions : printed[i] > 1 =>
    Cardinality(warned) = WarnSlots /\ tags[i] \notin warned

\* For a tag without an attribute, which nobody can read, one of its section stands,
\* or if there is none, the one before it, or the first.
Stand(i) ==
  LET mine == {j \in known : SectionEnd[j] = SectionEnd[i]}
      before == {j \in known : j <= i}
  IN  CASE i \in known -> i
        [] i \notin known /\ mine # {} -> Min(mine)
        [] mine = {} /\ before # {} -> Max(before)
        [] mine = {} /\ before = {} -> IF known # {} THEN Min(known) ELSE i
Seen == [i \in Positions |-> visible[Stand(i)]]

\* The server keeps the promise of ServedValues, entry by entry under the lock,
\* with odd names in the list and cut texts as well.
Promise == INSTANCE ServedValues WITH
             N <- N, SectionEnd <- SectionEnd, MaxVersion <- MaxVersion,
             latest <- latest, served <- Seen
KeepsPromise == Promise!Spec

\* A signal ends the process, in whatever state of whatever file it comes.
SignalEndsIt == ~running ~> phase = "off"

\* The values written last are the ones clients end up with, if the process
\* stays.  A cut stamp may be remembered, but not for ever.
FinalValuesServed ==
  <>[](phase # "off" /\ running /\ whole /\ Ordinary) =>
    <>[](\A i \in Positions : Known(i) => visible[i] = latest)

\* The words every new row has are words its relay knows: README.md lists them in
\* the values file, and the alias is there for the relays that name them else.
COMMON_WORD_TAGS ==
  {<<"LD0", "SSCBR1", "Mod", "Oper", "ctlVal">>, <<"LD0", "SSCBR1", "Beh", "stVal">>}
DefaultWordsKnown == COMMON_WORD_TAGS \cap warned = {}

=============================================================================
