----------------------------- MODULE RowValues ------------------------------
(***************************************************************************)
(* The values of one row and the ranges its random values are drawn from,  *)
(* through everything that changes them: forms of pages however old and of *)
(* other clients, the random settings, randomizing, imports and restarts.  *)
(* A number that does not convert is replaced; one that is too big (1e999  *)
(* for a word, an integer beyond every float for an analog) raises in the  *)
(* middle of a request, and what was assigned by then stays, unsaved until *)
(* something else saves the rows.                                          *)
(*                                                                         *)
(* Numbers are thousandths, small and finite.  Bool tags have no ranges    *)
(* and convert from anything; they are left out.                           *)
(***************************************************************************)
EXTENDS Integers, Functions

CONSTANTS
  AnalogTags, WordTags,  \* the tags there may be
  RelayTypes,
  RELAY_ANALOG_TAGS,     \* relay type -> its analog tags
  COMMON_WORD_TAGS,
  Numbers,
  DefaultValue,          \* tag -> ANALOG_DEFAULTS, WORD_DEFAULTS, or 0
  DefaultRange,          \* tag -> _default_range_for
  Bad,                   \* what is no number
  Huge,                  \* a number too big to convert
  None,                  \* null, and what .get makes of a missing key
  Absent,                \* a key that is not in the payload
  Payloads,              \* what requests for the row may send
  RangeLists,            \* what dialogs may send
  ImportedRows           \* rows of files

Tags == AnalogTags \cup WordTags
RangesOf(S) == {r \in S \X S : r[1] <= r[2]}

\* Functions on some of the tags of a set.
On(S, T) == UNION {[D -> T] : D \in SUBSET S}

ASSUME ValuesAssumption ==
  /\ AnalogTags \cap WordTags = {}
  /\ RELAY_ANALOG_TAGS \in [RelayTypes -> SUBSET AnalogTags]
  /\ COMMON_WORD_TAGS \subseteq WordTags
  /\ Numbers \subseteq Int
  /\ DefaultValue \in [Tags -> Numbers]
  /\ DefaultRange \in [Tags -> RangesOf(Numbers)]
  /\ Bad \notin Numbers /\ Huge \notin Numbers /\ Huge # Bad

\* What a payload may hold.
Given == Numbers \cup {Bad, Huge}
AnalogEntries == On(AnalogTags, Given)
WordEntries == On(WordTags, Given)
RangeEntries == On(Tags, Given \X Given)

ASSUME PayloadAssumption ==
  /\ Absent # None
  /\ \A x \in {Absent, None} : x \notin AnalogEntries /\ x \notin WordEntries
  /\ Payloads \subseteq [analogs : {Absent, None} \cup AnalogEntries,
                          words : {Absent, None} \cup WordEntries, ranges : RangeEntries]
  /\ RangeLists \subseteq RangeEntries
  /\ ImportedRows \subseteq [type : RelayTypes, analogs : {None} \cup AnalogEntries,
                              words : {None} \cup WordEntries, ranges : RangeEntries]

VARIABLES
  type,    \* row.relay_type
  values,  \* row.analogs and row.words: tag -> value
  ranges,  \* row.analog_random_ranges and row.word_random_ranges: tag -> <<min, max>>
  saved,   \* what launcher_state.json has of them
  asked    \* ghost: the tags whose ranges the last request was to set

row == <<type, values, ranges>>
vars == <<row, saved, asked>>

Record(t, v, r) == [type |-> t, values |-> v, ranges |-> r]
Part(f, S) == Restrict(f, DOMAIN f \cap S)
Both(f, g) == [t \in DOMAIN f \cup DOMAIN g |-> IF t \in DOMAIN f THEN f[t] ELSE g[t]]

DefaultAnalogs(t) == Restrict(DefaultValue, RELAY_ANALOG_TAGS[t])
DefaultWords == Restrict(DefaultValue, COMMON_WORD_TAGS)

-----------------------------------------------------------------------------
(* Conversions.  A payload is a function from the tags it names, the first *)
(* entry for each.                                                         *)

Raises(raw) == raw \notin {Absent, None} /\ \E t \in DOMAIN raw : raw[t] = Huge

\* The minimum is converted first: if it is no number the maximum is not looked at.
RaisesBound(raw, tags) ==
  \E t \in DOMAIN raw \cap tags :
    raw[t][1] = Huge \/ (raw[t][1] # Bad /\ raw[t][2] = Huge)

\* _coerce_entries.
Coerced(raw) == [t \in DOMAIN raw |-> IF raw[t] = Bad THEN DefaultValue[t] ELSE raw[t]]
CoerceEntries(raw, default) == IF raw = None THEN default ELSE Coerced(raw)

\* Mutant: the bounds are taken as they come.
BoundsAsGiven(raw, t) ==
  IF Bad \in {raw[1], raw[2]} THEN DefaultRange[t] ELSE raw

\* _normalize_range_bounds.
NormalizeRangeBounds(raw, t) ==
  IF Bad \in {raw[1], raw[2]} THEN DefaultRange[t]
  ELSE IF raw[1] > raw[2] THEN <<raw[2], raw[1]>> ELSE raw

\* Mutant: what was there before is not looked at.
CoerceRangesAnew(raw, tags, existing) ==
  [t \in tags |->
     IF t \in DOMAIN raw THEN NormalizeRangeBounds(raw[t], t) ELSE DefaultRange[t]]

\* _coerce_range_entries: of the tags the row has now.
CoerceRangeEntries(raw, tags, existing) ==
  [t \in tags |->
     IF t \in DOMAIN raw THEN NormalizeRangeBounds(raw[t], t)
     ELSE IF t \in DOMAIN existing THEN NormalizeRangeBounds(existing[t], t)
     ELSE DefaultRange[t]]

Nothing == [t \in {} |-> 0]

\* Mutant: the defaults are added to the tags of the file.
LoadedWithDefaults(file) ==
  LET v == Both(file.values, Both(DefaultAnalogs(file.type), DefaultWords)) IN
  Record(file.type, v, CoerceRangeEntries(file.ranges, DOMAIN v, Nothing))

\* _coerce_row_from_payload_unlocked, of lists that are there and convert.
Loaded(file) ==
  Record(file.type, Coerced(file.values),
         CoerceRangeEntries(file.ranges, DOMAIN file.values, Nothing))

Become(r) == type' = r.type /\ values' = r.values /\ ranges' = r.ranges

\* The range that counts.
RangeIn(r, t) == IF t \in DOMAIN r THEN r[t] ELSE DefaultRange[t]

-----------------------------------------------------------------------------

NewRow(t) ==
  LET v == Both(DefaultAnalogs(t), DefaultWords) IN
  Record(t, v, CoerceRangeEntries(Nothing, DOMAIN v, Nothing))

Init ==
  \E t \in RelayTypes :
    /\ type = NewRow(t).type /\ values = NewRow(t).values /\ ranges = NewRow(t).ranges
    /\ saved = NewRow(t) /\ asked = {}

\* Every request that ends well, of whatever row, saves all rows.
PersistState == saved' = Record(type', values', ranges')

\* _apply_row_payload_unlocked.  The page sends both lists and no ranges, other
\* clients may leave out, empty or send any of them.
Analogs(t, analogs) ==
  IF analogs # Absent THEN CoerceEntries(analogs, DefaultAnalogs(t))
  ELSE IF t # type THEN DefaultAnalogs(t)
  ELSE Part(values, AnalogTags)

Words(words) ==
  IF words # Absent THEN CoerceEntries(words, DefaultWords) ELSE Part(values, WordTags)

UpdateRow(t, p) ==
  LET v == Both(Analogs(t, p.analogs), Words(p.words)) IN
  /\ ~Raises(p.analogs) /\ ~Raises(p.words) /\ ~RaisesBound(p.ranges, DOMAIN v)
  /\ Become(Record(t, v, CoerceRangeEntries(p.ranges, DOMAIN v, ranges)))
  /\ asked' = DOMAIN p.ranges
  /\ PersistState

\* The ranges of the tags S are coerced, those of the analogs first, and some bound
\* raises: either nothing is assigned yet or the ranges of the analogs are.
RangesHalfSet(raw, S) ==
  /\ RaisesBound(raw, S)
  /\ ranges' = IF RaisesBound(raw, S \cap AnalogTags) THEN ranges
               ELSE Both(CoerceRangeEntries(raw, S \cap AnalogTags, ranges),
                         Part(ranges, WordTags))

\* The same when something raises: what comes before it is assigned already.
UpdateRowFails(t, p) ==
  /\ type' = t
  /\ \/ Raises(p.analogs) /\ UNCHANGED <<values, ranges>>
     \/ /\ ~Raises(p.analogs) /\ Raises(p.words)
        /\ values' = Both(Analogs(t, p.analogs), Part(values, WordTags))
        /\ UNCHANGED ranges
     \/ /\ ~Raises(p.analogs) /\ ~Raises(p.words)
        /\ values' = Both(Analogs(t, p.analogs), Words(p.words))
        /\ RangesHalfSet(p.ranges, DOMAIN values')
  /\ asked' = DOMAIN p.ranges
  /\ UNCHANGED saved

\* update_random_settings, from a dialog that may show tags the row has no more.
UpdateRandomSettings(raw) ==
  /\ ~RaisesBound(raw, DOMAIN values)
  /\ ranges' = CoerceRangeEntries(raw, DOMAIN values, ranges)
  /\ asked' = DOMAIN raw
  /\ UNCHANGED <<type, values>>
  /\ PersistState

UpdateRandomSettingsFails(raw) ==
  /\ RangesHalfSet(raw, DOMAIN values)
  /\ asked' = DOMAIN raw
  /\ UNCHANGED <<type, values, saved>>

\* _randomize_row_unlocked: randint raises if its bounds are not in order.
RandomizeRow ==
  /\ values' \in {v \in [DOMAIN values -> Numbers] : \A t \in DOMAIN values :
                    RangeIn(ranges, t)[1] <= v[t] /\ v[t] <= RangeIn(ranges, t)[2]}
  /\ asked' = {}
  /\ UNCHANGED <<type, ranges>>
  /\ PersistState

\* A request about another row.
OtherRequest ==
  /\ saved # Record(type, values, ranges)
  /\ asked' = {}
  /\ UNCHANGED row
  /\ PersistState

\* An import of a file with this row, in which a list or ranges may be missing.
ImportRow(file) ==
  LET v == Both(CoerceEntries(file.analogs, DefaultAnalogs(file.type)),
                CoerceEntries(file.words, DefaultWords))
  IN /\ ~Raises(file.analogs) /\ ~Raises(file.words) /\ ~RaisesBound(file.ranges, DOMAIN v)
     /\ Become(Record(file.type, v, CoerceRangeEntries(file.ranges, DOMAIN v, Nothing)))
     /\ asked' = Tags
     /\ PersistState

\* The service stops without another save, or dies, and starts again; and an
\* import of what was exported in that state.
Restart ==
  /\ Become(Loaded(saved))
  /\ asked' = {}
  /\ PersistState

-----------------------------------------------------------------------------

Next ==
  \/ \E t \in RelayTypes, p \in Payloads : UpdateRow(t, p) \/ UpdateRowFails(t, p)
  \/ \E raw \in RangeLists : UpdateRandomSettings(raw) \/ UpdateRandomSettingsFails(raw)
  \/ \E file \in ImportedRows : ImportRow(file)
  \/ RandomizeRow \/ OtherRequest \/ Restart

Spec == Init /\ [][Next]_vars

-----------------------------------------------------------------------------
(* Properties.                                                             *)

\* Values are numbers, and the bounds of a range in order, so that a draw cannot
\* raise, in memory and in the file.
RowOK(r) ==
  /\ r.type \in RelayTypes
  /\ r.values \in On(Tags, Numbers) /\ r.ranges \in On(Tags, RangesOf(Numbers))

TypeOK == RowOK(Record(type, values, ranges)) /\ RowOK(saved)

\* A restart brings back what was saved: the values, and for each of them the range
\* it would have been drawn from, also when a request that failed half-way had
\* left ranges that do not go with the values.
RestartKeeps ==
  [][Restart => /\ type' = saved.type /\ values' = saved.values
                /\ \A t \in DOMAIN values' : RangeIn(ranges', t) = RangeIn(saved.ranges, t)]_vars

\* Whatever is done to a row, a tag it keeps is drawn from the range it was drawn
\* from before, unless the request was to set that range: through forms with any
\* tags, types and numbers, dialogs of other tags, failures half-way, and restarts
\* that undo nothing.
RangesKept ==
  [][\A t \in (DOMAIN values \cap DOMAIN values') \ asked' :
       saved = Record(type, values, ranges) \/ ~Restart =>
         RangeIn(ranges', t) = RangeIn(ranges, t)]_vars

=============================================================================
