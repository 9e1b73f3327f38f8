-------------------------- MODULE RowValuesProofs ---------------------------
(***************************************************************************)
(* Proofs about RowValues.  TypeOK is inductive as it stands: a value is   *)
(* never stored before it converts, and a range never before its bounds    *)
(* are in order, also in the requests that fail half-way.  Because of it   *)
(* conversions leave alone what is there already (CoercedIsIdentity,       *)
(* NormalizeIsIdentity), from which the two action properties follow.      *)
(***************************************************************************)
EXTENDS RowValues, TLAPS

Ranges == On(Tags, RangesOf(Numbers))

-----------------------------------------------------------------------------
(* Functions on some of the tags.                                          *)

LEMMA OnIntro ==
  ASSUME NEW S, NEW T, NEW D, D \subseteq S, NEW f \in [D -> T]
  PROVE  f \in On(S, T)
  BY DEF On

LEMMA OnForm ==
  ASSUME NEW S, NEW T, NEW f, f \in On(S, T)
  PROVE  DOMAIN f \subseteq S /\ f \in [DOMAIN f -> T]
  BY DEF On

LEMMA PartOn ==
  ASSUME NEW S, NEW T, NEW U, NEW f, f \in On(S, T)
  PROVE  /\ Part(f, U) \in On(S \cap U, T)
         /\ DOMAIN Part(f, U) = DOMAIN f \cap U
         /\ \A t \in DOMAIN f \cap U : Part(f, U)[t] = f[t]
<1>1. DOMAIN f \subseteq S /\ f \in [DOMAIN f -> T] BY OnForm
<1>2. Part(f, U) \in [DOMAIN f \cap U -> T] BY <1>1 DEF Part, Restrict
<1>3. DOMAIN f \cap U \subseteq S \cap U BY <1>1
<1>4. Part(f, U) \in On(S \cap U, T) BY <1>2, <1>3, OnIntro
<1> QED BY <1>2, <1>4 DEF Part, Restrict

LEMMA BothOn ==
  ASSUME NEW S, NEW T, NEW f, NEW g, f \in On(S, T), g \in On(S, T)
  PROVE  /\ Both(f, g) \in On(S, T)
         /\ DOMAIN Both(f, g) = DOMAIN f \cup DOMAIN g
<1>1. DOMAIN f \subseteq S /\ f \in [DOMAIN f -> T] BY OnForm
<1>2. DOMAIN g \subseteq S /\ g \in [DOMAIN g -> T] BY OnForm
<1>3. Both(f, g) \in [DOMAIN f \cup DOMAIN g -> T] BY <1>1, <1>2 DEF Both
<1>4. DOMAIN f \cup DOMAIN g \subseteq S BY <1>1, <1>2
<1> QED BY <1>3, <1>4, OnIntro

LEMMA OnWiden ==
  ASSUME NEW S, NEW R, NEW T, NEW f, f \in On(S, T), S \subseteq R
  PROVE  f \in On(R, T)
BY DEF On

-----------------------------------------------------------------------------
(* The conversions.                                                        *)

\* Entries without an infinite number come out as numbers, tag for tag.
LEMMA CoercedOn ==
  ASSUME NEW S, NEW raw, S \subseteq Tags, raw \in On(S, Given),
         \A t \in DOMAIN raw : raw[t] # Huge
  PROVE  Coerced(raw) \in On(S, Numbers)
<1>1. DOMAIN raw \subseteq S /\ raw \in [DOMAIN raw -> Given] BY OnForm
<1>2. ASSUME NEW t \in DOMAIN raw
      PROVE  (IF raw[t] = Bad THEN DefaultValue[t] ELSE raw[t]) \in Numbers
  BY <1>1, ValuesAssumption DEF Given
<1>3. Coerced(raw) \in [DOMAIN raw -> Numbers] BY <1>2 DEF Coerced
<1> QED BY <1>1, <1>3, OnIntro

\* What converted once is left alone when it is converted again.
LEMMA CoercedIsIdentity ==
  ASSUME NEW S, NEW f, f \in On(S, Numbers)
  PROVE  Coerced(f) = f
<1>1. f \in [DOMAIN f -> Numbers] BY OnForm
<1>2. \A t \in DOMAIN f : f[t] # Bad BY <1>1, ValuesAssumption
<1> QED BY <1>1, <1>2 DEF Coerced

\* Bounds that convert come out in order.
LEMMA NormalizeOrdered ==
  ASSUME NEW t, NEW r, t \in Tags,
         r \in Given \X Given, r[1] # Huge, r[1] = Bad \/ r[2] # Huge
  PROVE  NormalizeRangeBounds(r, t) \in RangesOf(Numbers)
<1>1. CASE Bad \in {r[1], r[2]}
  BY <1>1, ValuesAssumption DEF NormalizeRangeBounds
<1>2. CASE Bad \notin {r[1], r[2]}
  <2>1. r[1] \in Numbers /\ r[2] \in Numbers /\ r = <<r[1], r[2]>> BY <1>2 DEF Given
  <2>2. r[1] \in Int /\ r[2] \in Int BY <2>1, ValuesAssumption
  <2> QED BY <1>2, <2>1, <2>2 DEF NormalizeRangeBounds, RangesOf
<1> QED BY <1>1, <1>2

\* A range that is in order is left alone.
LEMMA NormalizeIsIdentity ==
  ASSUME NEW t, NEW r, r \in RangesOf(Numbers)
  PROVE  NormalizeRangeBounds(r, t) = r
<1>1. r[1] \in Numbers /\ r[2] \in Numbers /\ r[1] <= r[2] BY DEF RangesOf
<1>2. r[1] \in Int /\ r[2] \in Int /\ Bad \notin {r[1], r[2]} BY <1>1, ValuesAssumption
<1> QED BY <1>1, <1>2 DEF NormalizeRangeBounds

\* Ranges of some tags, made from a payload and what was there.
LEMMA CoerceRangesOn ==
  ASSUME NEW tags, NEW raw, NEW existing,
         tags \subseteq Tags, raw \in RangeEntries, existing \in Ranges,
         ~RaisesBound(raw, tags)
  PROVE  CoerceRangeEntries(raw, tags, existing) \in [tags -> RangesOf(Numbers)]
<1>1. DOMAIN raw \subseteq Tags /\ raw \in [DOMAIN raw -> Given \X Given]
  BY OnForm DEF RangeEntries
<1>2. existing \in [DOMAIN existing -> RangesOf(Numbers)] BY OnForm DEF Ranges
<1>3. ASSUME NEW t \in tags
      PROVE  (IF t \in DOMAIN raw THEN NormalizeRangeBounds(raw[t], t)
              ELSE IF t \in DOMAIN existing THEN NormalizeRangeBounds(existing[t], t)
              ELSE DefaultRange[t]) \in RangesOf(Numbers)
  <2>1. CASE t \in DOMAIN raw
    <3>1. raw[t][1] # Huge /\ (raw[t][1] = Bad \/ raw[t][2] # Huge)
      BY <2>1 DEF RaisesBound
    <3>2. raw[t] \in Given \X Given BY <1>1, <2>1
    <3> QED BY <2>1, <3>1, <3>2, NormalizeOrdered
  <2>2. CASE t \notin DOMAIN raw /\ t \in DOMAIN existing
    BY <1>2, <2>2, NormalizeIsIdentity
  <2>3. CASE t \notin DOMAIN raw /\ t \notin DOMAIN existing
    BY <2>3, ValuesAssumption
  <2> QED BY <2>1, <2>2, <2>3
<1> QED BY <1>3 DEF CoerceRangeEntries

\* A tag the payload does not name keeps the range it counts as having.
LEMMA CoerceRangesKeep ==
  ASSUME NEW tags, NEW raw, NEW existing, NEW t,
         existing \in Ranges, t \in tags, t \notin DOMAIN raw
  PROVE  CoerceRangeEntries(raw, tags, existing)[t] = RangeIn(existing, t)
<1>1. existing \in [DOMAIN existing -> RangesOf(Numbers)] BY OnForm DEF Ranges
<1>2. CASE t \in DOMAIN existing
  BY <1>1, <1>2, NormalizeIsIdentity DEF CoerceRangeEntries, RangeIn
<1>3. CASE t \notin DOMAIN existing
  BY <1>3 DEF CoerceRangeEntries, RangeIn
<1> QED BY <1>2, <1>3

LEMMA NothingIsNothing ==
  DOMAIN Nothing = {} /\ Nothing \in RangeEntries /\ Nothing \in Ranges
  /\ \A S : ~RaisesBound(Nothing, S)
<1>1. DOMAIN Nothing = {} BY DEF Nothing
<1>2. ASSUME NEW T PROVE Nothing \in On(Tags, T)
  <2>1. Nothing \in [{} -> T] BY DEF Nothing
  <2> QED BY <2>1, OnIntro
<1> QED BY <1>1, <1>2 DEF RangeEntries, Ranges, RaisesBound

LEMMA DefaultsOn ==
  /\ \A t \in RelayTypes : DefaultAnalogs(t) \in On(AnalogTags, Numbers)
  /\ DefaultWords \in On(WordTags, Numbers)
<1>1. ASSUME NEW t \in RelayTypes PROVE DefaultAnalogs(t) \in On(AnalogTags, Numbers)
  <2>1. RELAY_ANALOG_TAGS[t] \subseteq AnalogTags BY ValuesAssumption
  <2>2. DefaultAnalogs(t) \in [RELAY_ANALOG_TAGS[t] -> Numbers]
    BY <2>1, ValuesAssumption DEF DefaultAnalogs, Restrict, Tags
  <2> QED BY <2>1, <2>2, OnIntro
<1>2. DefaultWords \in [COMMON_WORD_TAGS -> Numbers]
  BY ValuesAssumption DEF DefaultWords, Restrict, Tags
<1>3. DefaultWords \in On(WordTags, Numbers) BY <1>2, ValuesAssumption, OnIntro
<1> QED BY <1>1, <1>3

\* A list that is there and does not raise.
LEMMA ListConverts ==
  ASSUME NEW S \in SUBSET Tags, NEW raw, raw \in On(S, Given), raw \notin {Absent, None},
         ~Raises(raw)
  PROVE  Coerced(raw) \in On(S, Numbers)
<1>1. \A t \in DOMAIN raw : raw[t] # Huge BY DEF Raises
<1> QED BY <1>1, CoercedOn

\* Analogs and words together are the values of a row.
LEMMA ValuesOfBoth ==
  ASSUME NEW a, NEW w, a \in On(AnalogTags, Numbers), w \in On(WordTags, Numbers)
  PROVE  Both(a, w) \in On(Tags, Numbers)
<1>1. a \in On(Tags, Numbers) BY OnWiden DEF Tags
<1>2. w \in On(Tags, Numbers) BY OnWiden DEF Tags
<1> QED BY <1>1, <1>2, BothOn

-----------------------------------------------------------------------------
(* Type correctness.                                                       *)

\* A row as it is made and loaded has a range for every value.
LEMMA LoadedOK ==
  ASSUME NEW file, RowOK(file)
  PROVE  /\ RowOK(Loaded(file))
         /\ Loaded(file).type = file.type /\ Loaded(file).values = file.values
         /\ Loaded(file).ranges = CoerceRangeEntries(file.ranges, DOMAIN file.values, Nothing)
<1> DEFINE v == file.values
           r == CoerceRangeEntries(file.ranges, DOMAIN v, Nothing)
<1>1. v \in On(Tags, Numbers) /\ file.ranges \in Ranges BY DEF RowOK, Ranges
<1>2. Coerced(v) = v BY <1>1, CoercedIsIdentity
<1>3. DOMAIN v \subseteq Tags BY <1>1, OnForm
<1>4. file.ranges \in RangeEntries /\ ~RaisesBound(file.ranges, DOMAIN v)
  <2> DEFINE g == file.ranges
  <2>1. DOMAIN g \subseteq Tags /\ g \in [DOMAIN g -> RangesOf(Numbers)]
    BY <1>1, OnForm DEF Ranges
  <2>2. \A t \in DOMAIN g : /\ g[t] \in Given \X Given
                            /\ g[t][1] # Huge /\ g[t][2] # Huge
    BY <2>1, ValuesAssumption DEF RangesOf, Given
  <2>3. g \in [DOMAIN g -> Given \X Given] BY <2>1, <2>2
  <2>4. g \in On(Tags, Given \X Given) BY <2>1, <2>3, OnIntro
  <2> HIDE DEF g
  <2>5. g \in RangeEntries /\ ~RaisesBound(g, DOMAIN v)
    BY <2>2, <2>4 DEF RangeEntries, RaisesBound
  <2> QED BY <2>5 DEF g
<1>5. r \in [DOMAIN v -> RangesOf(Numbers)]
  BY <1>1, <1>3, <1>4, NothingIsNothing, CoerceRangesOn
<1>6. r \in On(Tags, RangesOf(Numbers)) BY <1>3, <1>5, OnIntro
<1>7. Loaded(file) = Record(file.type, v, r) BY <1>2 DEF Loaded
<1> QED BY <1>1, <1>6, <1>7 DEF RowOK, Record

LEMMA RecordOK ==
  ASSUME NEW t, NEW v, NEW r, t \in RelayTypes, v \in On(Tags, Numbers), r \in Ranges
  PROVE  RowOK(Record(t, v, r))
BY DEF RowOK, Record, Ranges

\* The ranges of all tags of some values.
LEMMA RangesOfValues ==
  ASSUME NEW v, NEW raw, NEW existing, v \in On(Tags, Numbers),
         raw \in RangeEntries, existing \in Ranges,
         ~RaisesBound(raw, DOMAIN v)
  PROVE  CoerceRangeEntries(raw, DOMAIN v, existing) \in Ranges
<1>1. DOMAIN v \subseteq Tags BY OnForm
<1>2. CoerceRangeEntries(raw, DOMAIN v, existing) \in [DOMAIN v -> RangesOf(Numbers)]
  BY <1>1, CoerceRangesOn
<1> QED BY <1>1, <1>2, OnIntro DEF Ranges

LEMMA NewRowOK ==
  ASSUME NEW t \in RelayTypes
  PROVE  RowOK(NewRow(t))
<1> DEFINE v == Both(DefaultAnalogs(t), DefaultWords)
<1>1. v \in On(Tags, Numbers) BY DefaultsOn, ValuesOfBoth
<1> HIDE DEF v
<1>2. CoerceRangeEntries(Nothing, DOMAIN v, Nothing) \in Ranges
  BY <1>1, NothingIsNothing, RangesOfValues
<1>3. NewRow(t) = Record(t, v, CoerceRangeEntries(Nothing, DOMAIN v, Nothing))
  BY DEF NewRow, v
<1> QED BY <1>1, <1>2, <1>3, RecordOK

\* What a row has by type.
LEMMA Unfold ==
  ASSUME TypeOK
  PROVE  /\ type \in RelayTypes /\ values \in On(Tags, Numbers) /\ ranges \in Ranges
         /\ RowOK(saved)
         /\ Part(values, AnalogTags) \in On(AnalogTags, Numbers)
         /\ Part(values, WordTags) \in On(WordTags, Numbers)
<1>1. type \in RelayTypes /\ values \in On(Tags, Numbers) /\ ranges \in Ranges /\ RowOK(saved)
  BY DEF TypeOK, RowOK, Record, Ranges
<1>2. Tags \cap AnalogTags = AnalogTags /\ Tags \cap WordTags = WordTags BY DEF Tags
<1> QED BY <1>1, <1>2, PartOn

LEMMA EntriesOn ==
  ASSUME NEW S \in SUBSET Tags, NEW raw, NEW default, raw \in {None} \cup On(S, Given),
         raw # Absent, ~Raises(raw), default \in On(S, Numbers)
  PROVE  CoerceEntries(raw, default) \in On(S, Numbers)
<1>1. CASE raw # None BY <1>1, ListConverts DEF CoerceEntries
<1>2. CASE raw = None BY <1>2 DEF CoerceEntries
<1> QED BY <1>1, <1>2

\* The parts of a payload.
LEMMA PayloadForm ==
  ASSUME NEW p \in Payloads
  PROVE  /\ p.analogs \in {Absent, None} \cup On(AnalogTags, Given)
         /\ p.words \in {Absent, None} \cup On(WordTags, Given)
         /\ p.ranges \in RangeEntries
BY PayloadAssumption DEF AnalogEntries, WordEntries

LEMMA AnalogsOn ==
  ASSUME TypeOK, NEW t \in RelayTypes, NEW a \in {Absent, None} \cup On(AnalogTags, Given),
         ~Raises(a)
  PROVE  Analogs(t, a) \in On(AnalogTags, Numbers)
<1>1. CASE a # Absent
  <2>1. AnalogTags \in SUBSET Tags BY DEF Tags
  <2> QED BY <1>1, <2>1, DefaultsOn, EntriesOn DEF Analogs
<1>2. CASE a = Absent /\ t # type BY <1>2, DefaultsOn DEF Analogs
<1>3. CASE a = Absent /\ t = type BY <1>3, Unfold DEF Analogs
<1> QED BY <1>1, <1>2, <1>3

LEMMA WordsOn ==
  ASSUME TypeOK, NEW w \in {Absent, None} \cup On(WordTags, Given), ~Raises(w)
  PROVE  Words(w) \in On(WordTags, Numbers)
<1>1. CASE w # Absent
  <2>1. WordTags \in SUBSET Tags BY DEF Tags
  <2> QED BY <1>1, <2>1, DefaultsOn, EntriesOn DEF Words
<1>2. CASE w = Absent BY <1>2, Unfold DEF Words
<1> QED BY <1>1, <1>2

\* What a request leaves in which a bound raises, of the ranges of some tags.
LEMMA HalfSetOn ==
  ASSUME TypeOK, NEW raw \in RangeEntries, NEW S \in SUBSET Tags, RangesHalfSet(raw, S)
  PROVE  ranges' \in Ranges
<1>0. ranges \in Ranges BY Unfold
<1>1. CASE RaisesBound(raw, S \cap AnalogTags)
  BY <1>0, <1>1 DEF RangesHalfSet
<1>2. CASE ~RaisesBound(raw, S \cap AnalogTags)
  <2>1. S \cap AnalogTags \subseteq Tags BY DEF Tags
  <2>2. CoerceRangeEntries(raw, S \cap AnalogTags, ranges)
          \in [S \cap AnalogTags -> RangesOf(Numbers)]
    BY <1>0, <1>2, <2>1, CoerceRangesOn
  <2>3. CoerceRangeEntries(raw, S \cap AnalogTags, ranges) \in Ranges
    BY <2>1, <2>2, OnIntro DEF Ranges
  <2>4. Part(ranges, WordTags) \in On(Tags \cap WordTags, RangesOf(Numbers))
    BY <1>0, PartOn DEF Ranges
  <2>5. Part(ranges, WordTags) \in Ranges BY <2>4, OnWiden DEF Ranges
  <2> QED BY <1>2, <2>3, <2>5, BothOn DEF RangesHalfSet, Ranges
<1> QED BY <1>1, <1>2

\* A step that leaves a good row, and saves it or leaves the file alone.
LEMMA Kept ==
  ASSUME TypeOK, type' \in RelayTypes, values' \in On(Tags, Numbers), ranges' \in Ranges,
         PersistState \/ UNCHANGED saved
  PROVE  TypeOK'
<1>1. RowOK(Record(type', values', ranges')) BY RecordOK
<1>2. RowOK(saved') BY <1>1 DEF PersistState, TypeOK
<1> QED BY <1>1, <1>2 DEF TypeOK, RowOK, Record

LEMMA TypeStep == TypeOK /\ [Next]_vars => TypeOK'
<1> SUFFICES ASSUME TypeOK, [Next]_vars PROVE TypeOK'
  OBVIOUS
<1>1. ASSUME NEW t \in RelayTypes, NEW p \in Payloads, UpdateRow(t, p)
      PROVE  TypeOK'
  <2> DEFINE v == Both(Analogs(t, p.analogs), Words(p.words))
  <2>1. /\ ~Raises(p.analogs) /\ ~Raises(p.words) /\ ~RaisesBound(p.ranges, DOMAIN v)
        /\ type' = t /\ values' = v /\ ranges' = CoerceRangeEntries(p.ranges, DOMAIN v, ranges)
        /\ PersistState
    BY <1>1 DEF UpdateRow, Become, Record
  <2>2. Analogs(t, p.analogs) \in On(AnalogTags, Numbers) BY <2>1, PayloadForm, AnalogsOn
  <2>3. Words(p.words) \in On(WordTags, Numbers) BY <2>1, PayloadForm, WordsOn
  <2>4. v \in On(Tags, Numbers) BY <2>2, <2>3, ValuesOfBoth
  <2> HIDE DEF v
  <2>5. ranges' \in Ranges BY <2>1, <2>4, PayloadForm, Unfold, RangesOfValues
  <2> QED BY <2>1, <2>4, <2>5, Kept
<1>2. ASSUME NEW t \in RelayTypes, NEW p \in Payloads, UpdateRowFails(t, p)
      PROVE  TypeOK'
  <2>1. type' = t /\ UNCHANGED saved BY <1>2 DEF UpdateRowFails
  <2>2. CASE Raises(p.analogs) /\ UNCHANGED <<values, ranges>>
    BY <2>1, <2>2, Unfold, Kept
  <2>3. CASE /\ ~Raises(p.analogs) /\ UNCHANGED ranges
             /\ values' = Both(Analogs(t, p.analogs), Part(values, WordTags))
    <3>1. Analogs(t, p.analogs) \in On(AnalogTags, Numbers) BY <2>3, PayloadForm, AnalogsOn
    <3>2. values' \in On(Tags, Numbers) BY <2>3, <3>1, Unfold, ValuesOfBoth
    <3> QED BY <2>1, <2>3, <3>2, Unfold, Kept
  <2>4. CASE /\ ~Raises(p.analogs) /\ ~Raises(p.words)
             /\ values' = Both(Analogs(t, p.analogs), Words(p.words))
             /\ RangesHalfSet(p.ranges, DOMAIN values')
    <3>1. Analogs(t, p.analogs) \in On(AnalogTags, Numbers) BY <2>4, PayloadForm, AnalogsOn
    <3>2. Words(p.words) \in On(WordTags, Numbers) BY <2>4, PayloadForm, WordsOn
    <3>3. values' \in On(Tags, Numbers) BY <2>4, <3>1, <3>2, ValuesOfBoth
    <3>4. DOMAIN values' \in SUBSET Tags BY <3>3, OnForm
    <3>5. ranges' \in Ranges BY <2>4, <3>4, PayloadForm, HalfSetOn
    <3> QED BY <2>1, <3>3, <3>5, Kept
  <2> QED BY <1>2, <2>2, <2>3, <2>4 DEF UpdateRowFails
<1>3. ASSUME NEW raw \in RangeLists, UpdateRandomSettings(raw)
      PROVE  TypeOK'
  <2>1. ranges' \in Ranges
    BY <1>3, PayloadAssumption, Unfold, RangesOfValues DEF UpdateRandomSettings
  <2> QED BY <1>3, <2>1, Unfold, Kept DEF UpdateRandomSettings
<1>4. ASSUME NEW raw \in RangeLists, UpdateRandomSettingsFails(raw)
      PROVE  TypeOK'
  <2>1. DOMAIN values \in SUBSET Tags BY Unfold, OnForm
  <2>2. ranges' \in Ranges
    BY <1>4, <2>1, PayloadAssumption, HalfSetOn DEF UpdateRandomSettingsFails
  <2> QED BY <1>4, <2>2, Unfold, Kept DEF UpdateRandomSettingsFails
<1>5. ASSUME NEW file \in ImportedRows, ImportRow(file)
      PROVE  TypeOK'
  <2> DEFINE a == CoerceEntries(file.analogs, DefaultAnalogs(file.type))
             w == CoerceEntries(file.words, DefaultWords)
             v == Both(a, w)
             r == CoerceRangeEntries(file.ranges, DOMAIN v, Nothing)
  <2>1. /\ file.type \in RelayTypes /\ file.analogs \in {None} \cup On(AnalogTags, Given)
        /\ file.words \in {None} \cup On(WordTags, Given) /\ file.ranges \in RangeEntries
        /\ file.analogs # Absent /\ file.words # Absent
    BY PayloadAssumption DEF AnalogEntries, WordEntries
  <2>2. ~Raises(file.analogs) /\ ~Raises(file.words) /\ ~RaisesBound(file.ranges, DOMAIN v)
    BY <1>5 DEF ImportRow
  <2>3. type' = file.type /\ values' = v /\ ranges' = r /\ PersistState
    BY <1>5 DEF ImportRow, Become, Record
  <2>0. AnalogTags \in SUBSET Tags /\ WordTags \in SUBSET Tags BY DEF Tags
  <2>4. a \in On(AnalogTags, Numbers) BY <2>0, <2>1, <2>2, DefaultsOn, EntriesOn
  <2>5. w \in On(WordTags, Numbers) BY <2>0, <2>1, <2>2, DefaultsOn, EntriesOn
  <2>6. v \in On(Tags, Numbers) BY <2>4, <2>5, ValuesOfBoth
  <2> HIDE DEF v
  <2>7. r \in Ranges BY <2>1, <2>2, <2>6, NothingIsNothing, RangesOfValues
  <2> QED BY <2>1, <2>3, <2>6, <2>7, Kept
<1>6. CASE RandomizeRow
  <2>1. values' \in [DOMAIN values -> Numbers] BY <1>6 DEF RandomizeRow
  <2>2. DOMAIN values \subseteq Tags BY Unfold, OnForm
  <2>3. values' \in On(Tags, Numbers) BY <2>1, <2>2, OnIntro
  <2> QED BY <1>6, <2>3, Unfold, Kept DEF RandomizeRow
<1>7. CASE OtherRequest
  BY <1>7, Unfold, Kept DEF OtherRequest, row
<1>8. CASE Restart
  <2>1. RowOK(Loaded(saved)) BY Unfold, LoadedOK
  <2> QED BY <1>8, <2>1, Kept DEF Restart, Become, RowOK, Ranges
<1>9. CASE UNCHANGED vars
  BY <1>9, Unfold, Kept DEF vars, row
<1> QED BY <1>1, <1>2, <1>3, <1>4, <1>5, <1>6, <1>7, <1>8, <1>9 DEF Next

LEMMA TypeInit == Init => TypeOK
BY NewRowOK DEF Init, TypeOK, RowOK, Record

\* _coerce_entries, _normalize_range_bounds and what calls them: whatever payloads
\* come and wherever a request fails, every value in memory and in the file is a
\* number and every range has its bounds in order, so that no draw raises.
THEOREM TypeCorrect == Spec => []TypeOK
<1>1. Init => TypeOK BY TypeInit
<1>2. TypeOK /\ [Next]_vars => TypeOK' BY TypeStep
<1> QED BY <1>1, <1>2, PTL DEF Spec

-----------------------------------------------------------------------------
(* Restarts and ranges.                                                    *)

LEMMA RestartStep ==
  ASSUME TypeOK, Restart
  PROVE  /\ type' = saved.type /\ values' = saved.values
         /\ \A t \in DOMAIN values' : RangeIn(ranges', t) = RangeIn(saved.ranges, t)
<1>1. RowOK(saved) BY Unfold
<1>2. /\ type' = saved.type /\ values' = saved.values
      /\ ranges' = CoerceRangeEntries(saved.ranges, DOMAIN saved.values, Nothing)
  BY <1>1, LoadedOK DEF Restart, Become
<1>3. saved.ranges \in [DOMAIN saved.ranges -> RangesOf(Numbers)] BY <1>1, OnForm DEF RowOK
<1>4. ASSUME NEW t \in DOMAIN values'
      PROVE  RangeIn(ranges', t) = RangeIn(saved.ranges, t)
  <2>1. t \in DOMAIN ranges' /\ RangeIn(ranges', t) = ranges'[t]
    BY <1>2 DEF CoerceRangeEntries, RangeIn
  <2>2. CASE t \in DOMAIN saved.ranges
    BY <1>2, <1>3, <2>1, <2>2, NormalizeIsIdentity DEF CoerceRangeEntries, RangeIn
  <2>3. CASE t \notin DOMAIN saved.ranges
    BY <1>2, <2>1, <2>3, NothingIsNothing DEF CoerceRangeEntries, RangeIn
  <2> QED BY <2>2, <2>3
<1> QED BY <1>2, <1>4

\* _load_state and _coerce_row_from_payload_unlocked: a restart brings back the
\* values that were saved, and each is drawn from the range it would have been drawn
\* from, also after a request that failed half-way had left ranges that do not go
\* with the values.
THEOREM RestartKeepsHolds == Spec => RestartKeeps
<1>1. TypeOK /\ [Next]_vars =>
        [Restart => /\ type' = saved.type /\ values' = saved.values
                    /\ \A t \in DOMAIN values' :
                         RangeIn(ranges', t) = RangeIn(saved.ranges, t)]_vars
  BY RestartStep
<1> QED BY <1>1, TypeCorrect, PTL DEF Spec, RestartKeeps

\* The step of RangesKept.
KeepsRanges ==
  \A t \in (DOMAIN values \cap DOMAIN values') \ asked' :
    saved = Record(type, values, ranges) \/ ~Restart =>
      RangeIn(ranges', t) = RangeIn(ranges, t)

\* A request in which a bound raises leaves the other tags their ranges.
LEMMA HalfSetKeeps ==
  ASSUME ranges \in Ranges, NEW raw, NEW S, RangesHalfSet(raw, S),
         NEW t \in S, t \in Tags, t \notin DOMAIN raw
  PROVE  RangeIn(ranges', t) = RangeIn(ranges, t)
<1>1. CASE UNCHANGED ranges BY <1>1 DEF RangeIn
<1>2. CASE ~UNCHANGED ranges
  <2> DEFINE f == CoerceRangeEntries(raw, S \cap AnalogTags, ranges)
             g == Part(ranges, WordTags)
  <2>1. ranges' = Both(f, g) BY <1>2 DEF RangesHalfSet
  <2>2. DOMAIN f = S \cap AnalogTags BY DEF CoerceRangeEntries
  <2>3. /\ DOMAIN g = DOMAIN ranges \cap WordTags
        /\ \A x \in DOMAIN ranges \cap WordTags : g[x] = ranges[x]
    BY DEF Part, Restrict
  <2>4. CASE t \in AnalogTags
    <3>1. f[t] = RangeIn(ranges, t) BY <2>4, CoerceRangesKeep
    <3> HIDE DEF f, g
    <3>2. ranges'[t] = f[t] /\ t \in DOMAIN ranges' BY <2>1, <2>2, <2>4 DEF Both
    <3> QED BY <3>1, <3>2 DEF RangeIn
  <2>5. CASE t \notin AnalogTags
    <3>1. t \in WordTags BY <2>5 DEF Tags
    <3> HIDE DEF f, g
    <3>2. t \in DOMAIN ranges' <=> t \in DOMAIN ranges BY <2>1, <2>2, <2>3, <2>5, <3>1 DEF Both
    <3>3. t \in DOMAIN ranges => ranges'[t] = ranges[t]
      BY <2>1, <2>2, <2>3, <2>5, <3>1 DEF Both
    <3> QED BY <3>2, <3>3 DEF RangeIn
  <2> QED BY <2>4, <2>5
<1> QED BY <1>1, <1>2

LEMMA KeepsRangesStep ==
  ASSUME TypeOK, Next
  PROVE  KeepsRanges
<1> SUFFICES ASSUME NEW t, t \in DOMAIN values, t \in DOMAIN values', t \notin asked',
                    saved = Record(type, values, ranges) \/ ~Restart
             PROVE  RangeIn(ranges', t) = RangeIn(ranges, t)
  BY DEF KeepsRanges
<1>0. ranges \in Ranges /\ DOMAIN values \subseteq Tags BY Unfold, OnForm
<1>1. ASSUME NEW u \in RelayTypes, NEW p \in Payloads, UpdateRow(u, p)
      PROVE  RangeIn(ranges', t) = RangeIn(ranges, t)
  <2>1. ranges' = CoerceRangeEntries(p.ranges, DOMAIN values', ranges) /\ t \notin DOMAIN p.ranges
    BY <1>1 DEF UpdateRow, Become, Record
  <2>2. ranges'[t] = RangeIn(ranges, t) BY <1>0, <2>1, CoerceRangesKeep
  <2>3. t \in DOMAIN ranges' BY <2>1 DEF CoerceRangeEntries
  <2> QED BY <2>2, <2>3 DEF RangeIn
<1>2. ASSUME NEW u \in RelayTypes, NEW p \in Payloads, UpdateRowFails(u, p)
      PROVE  RangeIn(ranges', t) = RangeIn(ranges, t)
  <2>1. t \notin DOMAIN p.ranges BY <1>2 DEF UpdateRowFails
  <2>2. UNCHANGED ranges \/ RangesHalfSet(p.ranges, DOMAIN values') BY <1>2 DEF UpdateRowFails
  <2> QED BY <1>0, <2>1, <2>2, HalfSetKeeps DEF RangeIn
<1>3. ASSUME NEW raw \in RangeLists, UpdateRandomSettings(raw)
      PROVE  RangeIn(ranges', t) = RangeIn(ranges, t)
  <2>1. ranges' = CoerceRangeEntries(raw, DOMAIN values, ranges) /\ t \notin DOMAIN raw
    BY <1>3 DEF UpdateRandomSettings
  <2>2. ranges'[t] = RangeIn(ranges, t) BY <1>0, <2>1, CoerceRangesKeep
  <2>3. t \in DOMAIN ranges' BY <2>1 DEF CoerceRangeEntries
  <2> QED BY <2>2, <2>3 DEF RangeIn
<1>4. ASSUME NEW raw \in RangeLists, UpdateRandomSettingsFails(raw)
      PROVE  RangeIn(ranges', t) = RangeIn(ranges, t)
  BY <1>0, <1>4, HalfSetKeeps DEF UpdateRandomSettingsFails
<1>5. ASSUME NEW file \in ImportedRows, ImportRow(file)
      PROVE  RangeIn(ranges', t) = RangeIn(ranges, t)
  BY <1>0, <1>5 DEF ImportRow
<1>6. CASE RandomizeRow BY <1>6 DEF RandomizeRow
<1>7. CASE OtherRequest BY <1>7 DEF OtherRequest, row
<1>8. CASE Restart
  <2>1. saved.ranges = ranges BY <1>8 DEF Record
  <2> QED BY <1>8, <2>1, RestartStep
<1> QED BY <1>1, <1>2, <1>3, <1>4, <1>5, <1>6, <1>7, <1>8 DEF Next

\* _coerce_range_entries: a tag a row keeps is drawn from the range it was drawn from
\* before, unless the request was to set it, through forms, dialogs, failures
\* half-way and restarts that undo nothing.
THEOREM RangesKeptHolds == Spec => RangesKept
<1>1. TypeOK /\ [Next]_vars => [KeepsRanges]_vars BY KeepsRangesStep
<1> QED BY <1>1, TypeCorrect, PTL DEF Spec, RangesKept, KeepsRanges

=============================================================================
