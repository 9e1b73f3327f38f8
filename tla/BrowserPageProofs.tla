------------------------- MODULE BrowserPageProofs --------------------------
(***************************************************************************)
(* Theorems about BrowserPage, for any number of rows, connections and     *)
(* changes.                                                                *)
(***************************************************************************)
EXTENDS BrowserPage, FiniteSetTheorems, WellFoundedInduction, TLAPS

-----------------------------------------------------------------------------
(* The inductive invariant.                                                *)

Abouts == [id : Nat, made : Nat, epoch : Nat]
Requests ==
  [kind : {"none", "poll", "focus", "save", "remove", "batch", "shutdown"},
   at : {"idle", "sent", "done", "back"}, about : Abouts, done : Nat,
   reply : SUBSET States, owed : SUBSET Abouts, from : Nat]

\* What the user saw in a row: since then, and as long as ids were not handed out
\* anew, the row may have gone but no other has taken its id.
Seeable(a) ==
  /\ a \in Abouts /\ a.id \in Ids /\ a.made # 0
  /\ a.epoch <= epoch
  /\ a.epoch = epoch => a.id < nextId /\ rows[a.id] \in {0, a.made}

\* Rows of today that were made before a state are in it; those made after it, as
\* long as ids were not handed out anew, have larger ids than any in it.
Past(s) ==
  \A i \in Ids :
    /\ rows[i] # 0 /\ rows[i] <= s.version => s.rows[i] = rows[i]
    /\ epoch = s.epoch /\ rows[i] > s.version =>
         \A j \in Ids : s.rows[j] # 0 => j < i

\* A state the service was in.
Known(s) ==
  /\ s \in States /\ IsState(s) /\ Past(s)
  /\ \A i \in Ids : s.rows[i] # 0 =>
       Seeable([id |-> i, made |-> s.rows[i], epoch |-> s.epoch])

\* A selected row the property says nothing of.
Left(r, a) == rows[a.id] # a.made \/ epoch # a.epoch \/ r.from # a.epoch

\* The rows a batch has not updated: the loop is at them, has still to come to
\* them, or they are not there any more.
Owing(r) ==
  /\ r.kind # "batch" => r.owed = {}
  /\ \A a, b \in r.owed : a.id = b.id => a = b
  /\ \A a \in r.owed :
       /\ Seeable(a) /\ a.made <= version
       /\ r.reply # {} \/ r.at = "done" => a.made <= r.done
       /\ a \in Rest(r) \/ (a = r.about /\ r.at = "sent") \/ Left(r, a)

\* A request about a row names one the user saw; a reply comes back with a state,
\* which is none from before what was asked for was done.
Sound(r) ==
  /\ r \in Requests /\ Owing(r)
  /\ r.kind \in AboutRow /\ r.at = "sent" => Seeable(r.about)
  /\ r.done <= version
  /\ r.reply # {} => r.at = "back"
  /\ \A s, u \in r.reply : s = u
  /\ \A s \in r.reply : Known(s) /\ (r.kind \in AboutRow => r.done <= s.version)

ServiceInv ==
  /\ version \in Nat \ {0} /\ epoch \in 0..version /\ nextId \in 1..(MaxId + 1)
  /\ rows \in [Ids -> 0..version]
  /\ \A i \in Ids : rows[i] # 0 => i < nextId

FlightInv == flight \in [Connections -> Requests] /\ \A c \in Connections : Sound(flight[c])

PageInv ==
  /\ Known(snapshot) /\ (shown = Stopped \/ Known(shown))
  /\ editing \in BOOLEAN /\ polling \in BOOLEAN /\ dialog \in {"none", "row", "global"}

IInv == ServiceInv /\ FlightInv /\ PageInv

-----------------------------------------------------------------------------
(* Smallest and largest, and the row that comes next in a batch.           *)

LEMMA Smallest ==
  ASSUME NEW S \in SUBSET Nat, S # {}
  PROVE  Min(S) \in S /\ \A n \in S : Min(S) <= n
<1>0. S \subseteq Nat /\ S # {}
  OBVIOUS
<1>1. PICK m \in S : \A n \in S : ~(<<n, m>> \in OpToRel(<, Nat))
  BY <1>0, NatLessThanWellFounded, WFMin
<1>2. \A n \in S : ~(n < m)
  BY <1>0, <1>1 DEF OpToRel
<1>3. \A n \in S : m <= n
  BY <1>0, <1>2
<1> QED
  BY <1>3 DEF Min

LEMMA Largest ==
  ASSUME NEW S \in SUBSET Ids, S # {}
  PROVE  Max(S) \in S /\ \A n \in S : n <= Max(S)
<1> DEFINE T == {MaxId - i : i \in S}
<1>0. MaxId \in Nat /\ \A i \in S : i \in Nat /\ i <= MaxId
  BY PageAssumption DEF Ids
<1>1. T \subseteq Nat /\ T # {}
  BY <1>0
<1>2. PICK i \in S : Min(T) = MaxId - i
  BY <1>1, Smallest
<1>3. \A n \in S : Min(T) <= MaxId - n
  BY <1>1, Smallest
<1>4. \A n \in S : i >= n
  BY <1>0, <1>2, <1>3
<1> QED
  BY <1>0, <1>4 DEF Max

LEMMA FollowingIsNext ==
  ASSUME NEW todo, NEW state, \A a \in todo : a.id \in Nat, InSnapshot(todo, state) # {}
  PROVE  /\ Following(todo, state) \in InSnapshot(todo, state)
         /\ \A b \in InSnapshot(todo, state) : Following(todo, state).id <= b.id
<1> DEFINE T == {a.id : a \in InSnapshot(todo, state)}
<1>1. T \subseteq Nat /\ T # {}
  BY DEF InSnapshot
<1>2. PICK a \in InSnapshot(todo, state) : a.id = Min(T)
  BY <1>1, Smallest
<1>3. \A b \in InSnapshot(todo, state) : a.id <= b.id
  BY <1>1, <1>2, Smallest
<1> QED
  BY <1>3 DEF Following

-----------------------------------------------------------------------------
(* What every step does to the service, and what that does to what the page *)
(* knows of it.                                                            *)

ServiceForm ==
  /\ version' >= version /\ epoch' >= epoch
  /\ epoch' = epoch =>
       nextId' >= nextId /\ \A i \in Ids : i < nextId => rows'[i] \in {0, rows[i]}
  /\ \A i \in Ids : rows'[i] \in {0, rows[i]} \/ (rows'[i] = version' /\ version' > version)

LEMMA ServiceStep ==
  ASSUME ServiceInv, FlightInv, [Next]_vars
  PROVE  ServiceInv' /\ ServiceForm
<1> USE DEF ServiceInv, ServiceForm
<1>0. MaxId \in Nat \ {0} /\ Ids = 1..MaxId
  BY PageAssumption DEF Ids
<1>1. ASSUME UNCHANGED service PROVE ServiceInv' /\ ServiceForm
  BY <1>1 DEF service
<1>2. CASE Change
  BY <1>2 DEF Change, Count
<1>3. CASE AddRow
  BY <1>0, <1>3 DEF AddRow, Count
<1>4. ASSUME NEW i \in Ids, RemoveRow(i) PROVE ServiceInv' /\ ServiceForm
  BY <1>0, <1>4 DEF RemoveRow, Count
<1>5. CASE Import
  BY <1>0, <1>5 DEF Import, Count
<1>6. CASE Restart
  <2> DEFINE saved == {i \in Ids : rows[i] # 0}
  <2>1. /\ version' = version + 1 /\ epoch' = epoch + 1
        /\ rows' = IF saved = {} THEN [rows EXCEPT ![1] = version'] ELSE rows
        /\ nextId' = IF saved = {} THEN 2 ELSE Max(saved) + 1
    BY <1>6 DEF Restart, Count
  <2>2. CASE saved = {}
    BY <1>0, <2>1, <2>2
  <2>3. CASE saved # {}
    <3>1. Max(saved) \in Ids /\ \A i \in saved : i <= Max(saved)
      BY <2>3, Largest
    <3>2. Max(saved) \in Nat /\ Max(saved) <= MaxId
      BY <1>0, <3>1
    <3>3. rows' = rows /\ nextId' = Max(saved) + 1
      BY <2>1, <2>3
    <3>4. \A i \in Ids : rows'[i] # 0 => i < nextId'
      BY <1>0, <3>1, <3>2, <3>3
    <3> HIDE DEF saved
    <3> QED
      BY <1>0, <2>1, <3>2, <3>3, <3>4
  <2> QED
    BY <2>2, <2>3
<1>7. ASSUME NEW c \in Connections, Perform(c) PROVE ServiceInv' /\ ServiceForm
  <2>1. flight[c].about.id \in Ids
    BY <1>7 DEF FlightInv, Sound, Seeable, Perform
  <2> QED
    BY <1>0, <1>7, <2>1 DEF Perform
<1>8. ASSUME NEW c \in Connections, Refuse(c) \/ Answer(c) \/ Receive(c)
      PROVE  UNCHANGED service
  BY <1>8 DEF Refuse, Answer, Receive
<1>9. CASE Poll \/ User \/ UNCHANGED vars
  BY <1>1, <1>9 DEF Poll, User, WindowFocus, Type, Blur, OpenDialog, CloseDialog, Shutdown,
                    ApplyGlobal, ApplyToNone, Submit, AskRemove, vars
<1> QED
  BY <1>1, <1>2, <1>3, <1>4, <1>5, <1>6, <1>7, <1>8, <1>9 DEF Next, Others, Network

LEMMA SeeableKept ==
  ASSUME ServiceInv, ServiceInv', ServiceForm, NEW a, Seeable(a)
  PROVE  Seeable(a)'
<1>1. a \in Abouts /\ a.id \in Ids /\ a.made # 0 /\ a.epoch \in Nat /\ a.id \in Nat
  BY DEF Seeable, Abouts
<1> QED
  BY <1>1 DEF Seeable, ServiceInv, ServiceForm

LEMMA KnownKept ==
  ASSUME ServiceInv, ServiceInv', ServiceForm, NEW s, Known(s)
  PROVE  Known(s)'
<1>1. IsState(s)'
  BY DEF Known, IsState, ServiceInv, ServiceForm
<1>2. \A i \in Ids : s.rows[i] # 0 =>
        Seeable([id |-> i, made |-> s.rows[i], epoch |-> s.epoch])'
  BY SeeableKept DEF Known
<1>3. Past(s)'
  <2>0. /\ s.version \in Nat /\ s.version <= version /\ s.epoch \in Nat /\ s.epoch <= epoch
        /\ version \in Nat /\ version' \in Nat /\ epoch \in Nat /\ epoch' \in Nat
        /\ nextId \in Nat /\ Ids \subseteq Nat
    BY PageAssumption DEF Known, IsState, ServiceInv, Ids
  <2>1. ASSUME NEW i \in Ids, rows'[i] # 0, rows'[i] <= s.version
        PROVE  s.rows[i] = rows'[i]
    BY <2>0, <2>1 DEF Known, Past, ServiceForm
  <2>2. ASSUME NEW i \in Ids, epoch' = s.epoch, rows'[i] > s.version,
               NEW j \in Ids, s.rows[j] # 0
        PROVE  j < i
    <3>1. epoch' = epoch
      BY <2>0, <2>2 DEF ServiceForm
    <3>2. j < nextId
      BY <2>2, <3>1 DEF Known, Seeable
    <3>3. CASE i < nextId
      <4>1. rows'[i] = rows[i]
        BY <2>0, <2>2, <3>1, <3>3 DEF ServiceForm
      <4> QED
        BY <2>2, <3>1, <4>1 DEF Known, Past
    <3> QED
      BY <2>0, <3>2, <3>3
  <2> QED
    BY <2>1, <2>2 DEF Past
<1> QED
  BY <1>1, <1>2, <1>3 DEF Known

LEMMA LeftKept ==
  ASSUME ServiceInv, ServiceInv', ServiceForm, NEW r, NEW a, Seeable(a), a.made <= version,
         Left(r, a)
  PROVE  Left(r, a)'
<1>1. a.id \in Ids /\ a.made \in Nat /\ a.made # 0 /\ a.epoch \in Nat /\ a.epoch <= epoch
  BY DEF Seeable, Abouts
<1>2. version \in Nat /\ version' \in Nat /\ epoch \in Nat /\ epoch' \in Nat
  BY DEF ServiceInv
<1> QED
  BY <1>1, <1>2 DEF Left, ServiceForm

LEMMA OwingKept ==
  ASSUME ServiceInv, ServiceInv', ServiceForm, NEW r \in Requests, Owing(r)
  PROVE  Owing(r)'
<1>1. ASSUME NEW a \in r.owed
      PROVE  /\ Seeable(a)' /\ a.made <= version'
             /\ a \in Rest(r) \/ (a = r.about /\ r.at = "sent") \/ Left(r, a)'
  <2>1. Seeable(a) /\ a.made \in Nat /\ a.made <= version
    BY DEF Owing, Seeable, Abouts
  <2> QED
    BY <2>1, SeeableKept, LeftKept DEF Owing, ServiceInv, ServiceForm
<1> QED
  BY <1>1 DEF Owing, Rest

LEMMA SoundKept ==
  ASSUME ServiceInv, ServiceInv', ServiceForm, NEW r, Sound(r)
  PROVE  Sound(r)'
<1>1. r \in Requests /\ r.done \in Nat
  BY DEF Sound, Requests
<1>2. r.kind \in AboutRow /\ r.at = "sent" => Seeable(r.about)'
  BY SeeableKept DEF Sound
<1>3. \A s \in r.reply : Known(s)'
  BY KnownKept DEF Sound
<1>4. Owing(r)'
  BY <1>1, OwingKept DEF Sound
<1> QED
  BY <1>1, <1>2, <1>3, <1>4 DEF Sound, ServiceInv, ServiceForm, AboutRow

LEMMA StateKnown == ServiceInv => Known(State)
<1> SUFFICES ASSUME ServiceInv PROVE Known(State)
  OBVIOUS
<1>1. State \in States
  BY DEF ServiceInv, State, States
<1>2. IsState(State)
  BY <1>1, PageAssumption DEF ServiceInv, State, IsState
<1>3. ASSUME NEW i \in Ids, rows[i] # 0
      PROVE  Seeable([id |-> i, made |-> rows[i], epoch |-> epoch])
  BY <1>3 DEF ServiceInv, Seeable, Abouts, Ids
<1>4. Past(State)
  BY DEF ServiceInv, Past, State
<1> QED
  BY <1>1, <1>2, <1>3, <1>4 DEF Known, State

-----------------------------------------------------------------------------
(* The requests.                                                           *)

LEMMA RequestSound ==
  ASSUME ServiceInv, NEW a \in Abouts,
         NEW kind \in {"none", "poll", "focus", "save", "remove", "batch", "shutdown"},
         kind \in AboutRow => Seeable(a)
  PROVE  Sound(Request(kind, a))
<1>1. Request(kind, a) \in Requests
  BY DEF Request, Requests
<1>2. Owing(Request(kind, a))
  BY DEF Owing, Request
<1> QED
  BY <1>1, <1>2 DEF Sound, Request, ServiceInv

LEMMA IdleSound == ServiceInv => Sound(Idle)
<1> SUFFICES ASSUME ServiceInv PROVE Sound(Idle)
  OBVIOUS
<1>1. /\ Idle \in Requests /\ Idle.kind = "none" /\ Idle.done = 0 /\ Idle.reply = {}
      /\ Idle.owed = {}
  BY DEF Idle, Request, Requests, Nobody, Abouts
<1> QED
  BY <1>1 DEF Sound, Owing, AboutRow, ServiceInv

LEMMA FailedSound ==
  ASSUME ServiceInv, NEW r, Sound(r) PROVE Sound(Failed(r))
<1>1. /\ Failed(r) \in Requests /\ Failed(r).at = "back" /\ Failed(r).done = 0
      /\ Failed(r).reply = {} /\ Failed(r).owed = {}
  BY DEF Failed, Sound, Request, Requests, Nobody, Abouts
<1> QED
  BY <1>1 DEF Sound, Owing, AboutRow, ServiceInv

LEMMA FlightFrom ==
  ASSUME flight' \in [Connections -> Requests],
         \A c \in Connections : \E r : r = flight'[c] /\ Sound(r)'
  PROVE  FlightInv'
  BY DEF FlightInv, Sound, Seeable

LEMMA FlightSame ==
  ASSUME ServiceInv, ServiceInv', ServiceForm, FlightInv, UNCHANGED flight
  PROVE  FlightInv'
<1>1. ASSUME NEW c \in Connections PROVE \E r : r = flight'[c] /\ Sound(r)'
  <2>1. PICK r : r = flight[c] /\ Sound(r)
    BY DEF FlightInv
  <2> QED
    BY <2>1, SoundKept
<1> QED
  BY <1>1, FlightFrom DEF FlightInv

LEMMA FlightUpdate ==
  ASSUME ServiceInv, ServiceInv', ServiceForm, FlightInv, NEW c \in Connections,
         NEW q, Sound(q)', flight' = [flight EXCEPT ![c] = q]
  PROVE  FlightInv'
<1>1. ASSUME NEW d \in Connections PROVE \E r : r = flight'[d] /\ Sound(r)'
  <2>1. CASE d = c
    BY <2>1 DEF FlightInv
  <2>2. CASE d # c
    <3>1. PICK r : r = flight[d] /\ Sound(r)
      BY DEF FlightInv
    <3> QED
      BY <2>2, <3>1, SoundKept DEF FlightInv
  <2> QED
    BY <2>1, <2>2
<1>2. q \in Requests
  BY DEF Sound
<1> QED
  BY <1>1, <1>2, FlightFrom DEF FlightInv

LEMMA SendStep ==
  ASSUME ServiceInv, ServiceInv', ServiceForm, FlightInv, NEW r, Sound(r), Send(r)
  PROVE  FlightInv'
<1>1. Free \subseteq Connections /\ Connections \subseteq Nat
  BY PageAssumption DEF Free, Connections
<1>2. Min(Free) \in Connections
  BY <1>1, Smallest DEF Send
<1> QED
  BY <1>2, SoundKept, FlightUpdate DEF Send

LEMMA SeenSeeable ==
  ASSUME PageInv, NEW i \in Ids, Shows(i)
  PROVE  Seeable(Seen(i)) /\ Seen(i) \in Abouts
<1>1. Known(shown) /\ shown.rows[i] # 0
  BY DEF PageInv, Shows
<1> QED
  BY <1>1 DEF Known, Seen, Seeable

\* A row the loop does not find in a state from after it was made is not there.
LEMMA NotThere ==
  ASSUME ServiceInv, NEW s, Known(s), NEW a, Seeable(a), a.made <= s.version,
         s.rows[a.id] = 0
  PROVE  rows[a.id] # a.made
  BY DEF Known, Past, Seeable

LEMMA AfterSound ==
  ASSUME ServiceInv, NEW r, Sound(r), r.at = "back" PROVE Sound(After(r))
<1>1. CASE After(r) = Idle
  BY <1>1, IdleSound
<1>2. CASE After(r) # Idle
  <2> DEFINE state == CHOOSE state \in r.reply : TRUE
  <2>1. PICK s \in r.reply : r.kind = "batch" /\ InSnapshot(Rest(r), s) # {}
    BY <1>2 DEF After
  <2>2. state = s
    BY <2>1 DEF Sound
  <2>3. \A a \in r.owed : Seeable(a) /\ a \in Abouts /\ a.id \in Nat
    BY DEF Sound, Owing, Seeable, Abouts
  <2>4. r \in Requests /\ r.about.id \in Nat /\ Rest(r) \subseteq r.owed
    BY DEF Sound, Requests, Abouts, Rest
  <2>5. PICK f \in Rest(r) : /\ f = Following(Rest(r), s)
                             /\ \A b \in InSnapshot(Rest(r), s) : f.id <= b.id
    BY <2>1, <2>3, <2>4, FollowingIsNext DEF InSnapshot
  <2>6. PICK q : q = OfBatch(f, r.owed, r.from)
    OBVIOUS
  <2>7. After(r) = q
    BY <1>2, <2>2, <2>5, <2>6 DEF After
  <2>8. /\ q.kind = "batch" /\ q.at = "sent" /\ q.about = f /\ q.done = 0 /\ q.reply = {}
        /\ q.owed = r.owed /\ q.from = r.from /\ q \in Requests
    BY <2>3, <2>4, <2>6 DEF OfBatch, Request, Requests
  <2>9. ASSUME NEW a \in r.owed PROVE a \in Rest(q) \/ a = f \/ Left(q, a)
    <3>1. CASE a.id > f.id
      BY <2>8, <3>1 DEF Rest
    <3>2. CASE a.id = f.id
      BY <2>4, <2>5, <3>2 DEF Sound, Owing
    <3>3. CASE a.id < f.id /\ a \in Rest(r)
      <4>1. s.rows[a.id] = 0
        BY <2>3, <2>4, <2>5, <3>3 DEF InSnapshot
      <4>2. Known(s) /\ a.made <= s.version
        <5>1. /\ Known(s) /\ a.made <= r.done /\ r.done <= s.version /\ r.done \in Nat
              /\ a.made \in Nat /\ s.version \in Nat
          BY <2>1, <2>3 DEF Sound, Owing, AboutRow, Requests, Known, States, Abouts
        <5> QED
          BY <5>1
      <4> QED
        BY <2>3, <4>1, <4>2, NotThere DEF Left
    <3>4. CASE a \notin Rest(r)
      BY <2>8, <3>4 DEF Sound, Owing, Left
    <3> QED
      BY <2>3, <2>4, <2>5, <3>1, <3>2, <3>3, <3>4
  <2>10. Owing(q)
    BY <2>8, <2>9 DEF Sound, Owing
  <2> QED
    BY <2>3, <2>4, <2>5, <2>7, <2>8, <2>10 DEF Sound, ServiceInv
<1> QED
  BY <1>1, <1>2

LEMMA SeenMade ==
  ASSUME ServiceInv, PageInv, NEW i \in Ids, Shows(i)
  PROVE  Seen(i).made <= version
<1>1. Known(shown) /\ Seen(i).made = shown.rows[i]
  BY DEF PageInv, Shows, Seen
<1>2. /\ shown.rows[i] \in Nat /\ shown.rows[i] <= shown.version
      /\ shown.version \in Nat /\ shown.version <= version /\ version \in Nat
  BY <1>1 DEF Known, IsState, ServiceInv
<1> QED
  BY <1>1, <1>2

\* The loop passes over rows at its beginning only if they are gone: one made after
\* the snapshot has a larger id than those the snapshot has.
LEMMA BatchSound ==
  ASSUME ServiceInv, PageInv, NEW todo,
         \A a \in todo : Seeable(a) /\ a.made <= version,
         \A a, b \in todo : a.id = b.id => a = b,
         InSnapshot(todo, snapshot) # {}
  PROVE  Sound(OfBatch(Following(todo, snapshot), todo, snapshot.epoch))
<1>1. \A a \in todo : a \in Abouts /\ a.id \in Nat /\ a.id \in Ids /\ a.made \in Nat
  BY DEF Seeable, Abouts
<1>2. PICK f \in todo : /\ f = Following(todo, snapshot) /\ snapshot.rows[f.id] # 0
                        /\ \A b \in InSnapshot(todo, snapshot) : f.id <= b.id
  BY <1>1, FollowingIsNext DEF InSnapshot
<1>3. PICK s : s = snapshot /\ Known(s) /\ s.epoch \in Nat /\ s.version \in Nat
  BY DEF PageInv, Known, States
<1>4. PICK q : q = OfBatch(f, todo, s.epoch)
  OBVIOUS
<1>5. /\ q.kind = "batch" /\ q.at = "sent" /\ q.about = f /\ q.done = 0 /\ q.reply = {}
      /\ q.owed = todo /\ q.from = s.epoch /\ q \in Requests
  BY <1>1, <1>3, <1>4 DEF OfBatch, Request, Requests
<1>6. ASSUME NEW a \in todo PROVE a \in Rest(q) \/ a = f \/ Left(q, a)
  <2>1. CASE a.id > f.id
    BY <1>5, <2>1 DEF Rest
  <2>2. CASE a.id = f.id
    BY <2>2
  <2>3. CASE a.id < f.id
    <3>1. s.rows[a.id] = 0
      BY <1>1, <1>2, <1>3, <2>3 DEF InSnapshot
    <3>2. CASE a.made <= s.version
      BY <1>3, <3>1, <3>2, NotThere DEF Left
    <3>3. CASE a.made > s.version
      BY <1>1, <1>2, <1>3, <1>5, <2>3, <3>3 DEF Left, Known, Past
    <3> QED
      BY <1>1, <1>3, <3>2, <3>3
  <2> QED
    BY <1>1, <2>1, <2>2, <2>3
<1>7. Owing(q)
  BY <1>5, <1>6 DEF Owing
<1> QED
  BY <1>2, <1>3, <1>4, <1>5, <1>7 DEF Sound, ServiceInv

LEMMA FlightStep ==
  ASSUME IInv, ServiceInv', ServiceForm, [Next]_vars
  PROVE  FlightInv'
<1>0. ServiceInv /\ FlightInv /\ PageInv /\ Nobody \in Abouts
  BY DEF IInv, Nobody, Abouts
<1>1. ASSUME UNCHANGED flight PROVE FlightInv'
  BY <1>0, <1>1, FlightSame
<1>2. CASE Change \/ AddRow \/ Import \/ \E i \in Ids : RemoveRow(i)
  BY <1>1, <1>2 DEF Change, AddRow, Import, RemoveRow
<1>3. CASE Restart
  <2>1. PICK lost \in SUBSET {c \in Connections : flight[c].at = "sent"} :
          flight' = [c \in Connections |->
            IF c \in lost \/ flight[c].at = "done" THEN Failed(flight[c]) ELSE flight[c]]
    BY <1>3 DEF Restart
  <2>2. ASSUME NEW c \in Connections PROVE \E r : r = flight'[c] /\ Sound(r)'
    <3>1. PICK r : r = flight[c] /\ Sound(r)
      BY <1>0 DEF FlightInv
    <3>2. PICK q : q = Failed(r) /\ Sound(q)
      BY <1>0, <3>1, FailedSound
    <3>3. Sound(r)' /\ Sound(q)'
      BY <1>0, <3>1, <3>2, SoundKept
    <3> QED
      BY <2>1, <3>1, <3>2, <3>3
  <2>3. \A c \in Connections : flight'[c] \in Requests
    <3> TAKE c \in Connections
    <3>1. PICK r : r = flight'[c] /\ Sound(r)'
      BY <2>2
    <3> QED
      BY <3>1 DEF Sound
  <2>4. flight' \in [Connections -> Requests]
    BY <2>1, <2>3
  <2> QED
    BY <2>2, <2>4, FlightFrom
<1>4. ASSUME NEW c \in Connections, Perform(c) PROVE FlightInv'
  <2>1. PICK r : r = flight[c] /\ Sound(r)
    BY <1>0 DEF FlightInv
  <2>2. PICK v \in Nat : v = version'
    BY DEF ServiceInv
  <2> DEFINE q == [r EXCEPT !.at = "done", !.done = v, !.owed = @ \ {r.about}]
  <2>3. Sound(r)' /\ r \in Requests /\ r.at = "sent" /\ r.reply = {}
    BY <1>0, <1>4, <2>1, SoundKept DEF Sound, Perform
  <2>4. /\ q.kind = r.kind /\ q.at = "done" /\ q.about = r.about /\ q.done = v
        /\ q.reply = {} /\ q.owed = r.owed \ {r.about} /\ q.from = r.from
        /\ q \in Requests
    BY <2>3 DEF Requests
  <2>5. Sound(q)'
    <3> HIDE DEF q
    <3>1. Owing(q)'
      BY <2>2, <2>3, <2>4, <1>0 DEF Sound, Owing, Rest, Left, ServiceInv
    <3> QED
      BY <2>2, <2>3, <2>4, <3>1, <1>0 DEF Sound, ServiceInv
  <2>6. flight' = [flight EXCEPT ![c] = q]
    BY <1>4, <2>1, <2>2 DEF Perform
  <2> HIDE DEF q
  <2> QED
    BY <1>0, <2>5, <2>6, FlightUpdate
<1>5. ASSUME NEW c \in Connections, Refuse(c) PROVE FlightInv'
  <2>1. PICK r : r = flight[c] /\ Sound(r)
    BY <1>0 DEF FlightInv
  <2>2. PICK q : q = Failed(r) /\ Sound(q)
    BY <1>0, <2>1, FailedSound
  <2>3. flight' = [flight EXCEPT ![c] = q]
    BY <1>5, <2>1, <2>2 DEF Refuse
  <2> QED
    BY <1>0, <2>2, <2>3, SoundKept, FlightUpdate
<1>6. ASSUME NEW c \in Connections, Answer(c) PROVE FlightInv'
  <2>1. PICK r : r = flight[c] /\ Sound(r)
    BY <1>0 DEF FlightInv
  <2>2. PICK s : s = State /\ Known(s)
    BY <1>0, StateKnown
  <2> DEFINE q == [r EXCEPT !.at = "back", !.reply = {s}]
  <2>3. Sound(r)' /\ r \in Requests /\ r.done <= version /\ s \in States /\ Known(s)'
    BY <1>0, <2>1, <2>2, SoundKept, KnownKept DEF Sound, Known
  <2>4. /\ q.kind = r.kind /\ q.about = r.about /\ q.done = r.done
        /\ q.reply = {s} /\ q.at = "back" /\ q.owed = r.owed /\ q.from = r.from
        /\ q \in Requests
    BY <2>3 DEF Requests
  <2>5. s.version = version
    BY <2>2 DEF State
  <2>6. Sound(q)'
    <3> HIDE DEF q
    <3>1. Owing(q)'
      <4>1. r.kind = "batch" => r.at = "done"
        BY <1>6, <2>1 DEF Answer, AboutRow
      <4>2. r.kind # "batch" => r.owed = {}
        BY <2>3 DEF Sound, Owing
      <4> QED
        BY <2>3, <2>4, <4>1, <4>2 DEF Sound, Owing, Rest, Left
    <3> QED
      BY <2>3, <2>4, <2>5, <3>1 DEF Sound
  <2>7. flight' = [flight EXCEPT ![c] = q]
    BY <1>6, <2>1, <2>2 DEF Answer
  <2> HIDE DEF q
  <2> QED
    BY <1>0, <2>6, <2>7, FlightUpdate
<1>7. ASSUME NEW c \in Connections, Receive(c) PROVE FlightInv'
  <2>1. PICK r : r = flight[c] /\ Sound(r)
    BY <1>0 DEF FlightInv
  <2>2. PICK q : q = After(r) /\ Sound(q)
    BY <1>0, <1>7, <2>1, AfterSound DEF Receive
  <2>3. flight' = [flight EXCEPT ![c] = q]
    BY <1>7, <2>1, <2>2 DEF Receive
  <2> QED
    BY <1>0, <2>2, <2>3, SoundKept, FlightUpdate
<1>8. ASSUME NEW kind \in {"poll", "focus", "shutdown"}, Send(Request(kind, Nobody))
      PROVE  FlightInv'
  <2>1. Sound(Request(kind, Nobody))
    BY <1>0, RequestSound DEF AboutRow
  <2> QED
    BY <1>0, <1>8, <2>1, SendStep
<1>9. ASSUME NEW kind \in AboutRow, NEW a, Seeable(a), Send(Request(kind, a))
      PROVE  FlightInv'
  <2>1. Sound(Request(kind, a))
    BY <1>0, <1>9, RequestSound DEF AboutRow, Seeable
  <2> QED
    BY <1>0, <1>9, <2>1, SendStep
<1>10. CASE Poll \/ WindowFocus \/ Shutdown
  BY <1>8, <1>10 DEF Poll, WindowFocus, Shutdown
<1>11. ASSUME NEW i \in Ids, Submit(i) \/ AskRemove(i) PROVE FlightInv'
  <2>1. Seeable(Seen(i))
    BY <1>0, <1>11, SeenSeeable DEF Submit, AskRemove
  <2>2. Send(Request("save", Seen(i))) \/ Send(Request("remove", Seen(i)))
    BY <1>11 DEF Submit, AskRemove
  <2> QED
    BY <1>9, <2>1, <2>2 DEF AboutRow
<1>12. CASE ApplyGlobal
  <2>1. PICK S \in SUBSET {i \in Ids : Shows(i)} :
          LET todo == {Seen(i) : i \in S}
          IN  /\ InSnapshot(todo, snapshot) # {}
              /\ Send(OfBatch(Following(todo, snapshot), todo, snapshot.epoch))
    BY <1>12 DEF ApplyGlobal
  <2> DEFINE todo == {Seen(i) : i \in S}
  <2>2. \A a \in todo : Seeable(a) /\ a.made <= version
    BY <1>0, SeenSeeable, SeenMade
  <2>3. \A a, b \in todo : a.id = b.id => a = b
    BY DEF Seen
  <2> HIDE DEF todo
  <2>4. PICK q : q = OfBatch(Following(todo, snapshot), todo, snapshot.epoch) /\ Sound(q)
    BY <1>0, <2>1, <2>2, <2>3, BatchSound DEF todo
  <2> QED
    BY <1>0, <2>1, <2>4, SendStep DEF todo
<1>13. CASE Type \/ Blur \/ OpenDialog \/ CloseDialog \/ ApplyToNone \/ UNCHANGED vars
  BY <1>1, <1>13 DEF Type, Blur, OpenDialog, CloseDialog, ApplyToNone, vars
<1> QED
  BY <1>2, <1>3, <1>4, <1>5, <1>6, <1>7, <1>10, <1>11, <1>12, <1>13
     DEF Next, Others, Network, User

-----------------------------------------------------------------------------
(* The page.                                                               *)

LEMMA PageFrom ==
  ASSUME \E s : s = snapshot' /\ Known(s)',
         shown' = Stopped \/ \E s : s = shown' /\ Known(s)',
         editing' \in BOOLEAN, polling' \in BOOLEAN, dialog' \in {"none", "row", "global"}
  PROVE  PageInv'
  BY DEF PageInv, Known, IsState

LEMMA PageStep ==
  ASSUME IInv, ServiceInv', ServiceForm, [Next]_vars
  PROVE  PageInv'
<1>0. ServiceInv /\ FlightInv /\ PageInv
  BY DEF IInv
<1>1. \E s : s = snapshot /\ Known(s)'
  <2>1. PICK s : s = snapshot /\ Known(s)
    BY <1>0 DEF PageInv
  <2> QED
    BY <1>0, <2>1, KnownKept
<1>2. shown = Stopped \/ \E s : s = shown /\ Known(s)'
  <2>1. PICK s : s = shown /\ (s = Stopped \/ Known(s))
    BY <1>0 DEF PageInv
  <2> QED
    BY <1>0, <2>1, KnownKept
<1>4. editing \in BOOLEAN /\ polling \in BOOLEAN /\ dialog \in {"none", "row", "global"}
  BY <1>0 DEF PageInv
<1>5. ASSUME UNCHANGED page PROVE PageInv'
  BY <1>1, <1>2, <1>4, <1>5, PageFrom DEF page
<1>6. CASE Others \/ Poll \/ WindowFocus \/ UNCHANGED vars
  BY <1>5, <1>6 DEF Others, Change, AddRow, Import, Restart, RemoveRow, Poll, WindowFocus, vars
<1>7. ASSUME NEW c \in Connections, Perform(c) \/ Refuse(c) \/ Answer(c) PROVE PageInv'
  BY <1>5, <1>7 DEF Perform, Refuse, Answer
<1>8. CASE \/ Type \/ Blur \/ OpenDialog \/ CloseDialog \/ Shutdown
           \/ ApplyGlobal \/ ApplyToNone
           \/ \E i \in Ids : Submit(i) \/ AskRemove(i)
  <2>1. /\ snapshot' = snapshot /\ shown' \in {shown, snapshot}
        /\ editing' \in BOOLEAN /\ polling' \in BOOLEAN
        /\ dialog' \in {"none", "row", "global"}
    BY <1>4, <1>8 DEF Type, Blur, OpenDialog, CloseDialog, Shutdown, Submit, AskRemove,
                      ApplyGlobal, ApplyToNone, Render
  <2> QED
    BY <1>1, <1>2, <2>1, PageFrom
<1>10. ASSUME NEW c \in Connections, Receive(c) PROVE PageInv'
  <2>1. PICK r : r = flight[c] /\ Sound(r)
    BY <1>0 DEF FlightInv
  <2>2. \A s \in r.reply : Known(s)'
    BY <1>0, <2>1, KnownKept DEF Sound
  <2>3. UNCHANGED <<dialog, polling>>
    BY <1>10 DEF Receive
  <2>4. editing' \in BOOLEAN
    BY <1>4, <1>10, <2>1
       DEF Receive, ReceivePoll, ReceiveState, ReceiveStopped, ReceiveBatch, ReceiveError, Render
  <2>5. snapshot' = snapshot \/ snapshot' \in r.reply
    BY <1>10, <2>1
       DEF Receive, ReceivePoll, ReceiveState, ReceiveStopped, ReceiveBatch, ReceiveError, Render
  <2>6. shown' \in {shown, snapshot, Stopped} \/ shown' \in r.reply
    BY <1>10, <2>1
       DEF Receive, ReceivePoll, ReceiveState, ReceiveStopped, ReceiveBatch, ReceiveError, Render
  <2>7. \E s : s = snapshot' /\ Known(s)'
    BY <1>1, <2>2, <2>5
  <2>8. shown' = Stopped \/ \E s : s = shown' /\ Known(s)'
    BY <1>1, <1>2, <2>2, <2>6
  <2> QED
    BY <1>4, <2>3, <2>4, <2>7, <2>8, PageFrom
<1> QED
  BY <1>6, <1>7, <1>8, <1>10 DEF Next, Network, User

-----------------------------------------------------------------------------
(* The invariant, and what follows from it.                                *)

LEMMA IInvInit == Init => IInv
<1> SUFFICES ASSUME Init PROVE IInv
  OBVIOUS
<1> USE DEF Init
<1>1. ServiceInv
  BY PageAssumption DEF ServiceInv, Ids
<1>2. \A c \in Connections : Sound(flight[c])
  BY <1>1, IdleSound
<1>3. FlightInv
  BY <1>2 DEF FlightInv, Sound
<1>4. PageInv
  BY <1>1, StateKnown DEF PageInv
<1> QED
  BY <1>1, <1>3, <1>4 DEF IInv

LEMMA IInvInvariant == Spec => []IInv
<1>1. IInv /\ [Next]_vars => IInv'
  BY ServiceStep, FlightStep, PageStep DEF IInv
<1> QED
  BY <1>1, IInvInit, PTL DEF Spec

\* Only performing it and receiving its reply take a request further than being
\* sent, or answered.
LEMMA Waits ==
  ASSUME IInv, [Next]_vars, NEW c \in Connections, ~Perform(c), ~Receive(c)
  PROVE  flight'[c] = flight[c] \/ flight'[c].at \in {"sent", "back"}
<1>0. flight \in [Connections -> Requests]
  BY DEF IInv, FlightInv
<1>1. CASE Poll \/ User
  <2>1. UNCHANGED flight \/ \E r : r.at = "sent" /\ Send(r)
    <3>1. \A kind, a : Request(kind, a).at = "sent"
      BY DEF Request
    <3>2. \A a, owed, from : OfBatch(a, owed, from).at = "sent"
      BY DEF Request, OfBatch
    <3>3. CASE ApplyGlobal
      BY <3>2, <3>3 DEF ApplyGlobal
    <3> QED
      BY <1>1, <3>1, <3>3 DEF Poll, User, WindowFocus, Type, Blur, OpenDialog, CloseDialog,
                              Shutdown, ApplyToNone, Submit, AskRemove
  <2> QED
    BY <1>0, <2>1 DEF Send
<1>2. CASE UNCHANGED vars \/ Others
  <2>1. \/ UNCHANGED flight
        \/ flight'[c] = flight[c] \/ flight'[c] = Failed(flight[c])
    BY <1>2 DEF vars, Others, Change, AddRow, Import, RemoveRow, Restart
  <2>2. Failed(flight[c]).at = "back"
    BY DEF Failed, Request
  <2> QED
    BY <2>1, <2>2
<1>3. ASSUME NEW d \in Connections, Refuse(d) \/ Answer(d)
      PROVE  flight'[c] = flight[c] \/ flight'[c].at = "back"
  <2>1. d # c => flight'[c] = flight[c]
    BY <1>0, <1>3 DEF Refuse, Answer
  <2>2. flight'[d].at = "back"
    BY <1>0, <1>3 DEF Refuse, Answer, Requests, Failed, Request
  <2> QED
    BY <2>1, <2>2
<1>4. ASSUME NEW d \in Connections, Perform(d) \/ Receive(d), d # c
      PROVE  flight'[c] = flight[c]
  BY <1>0, <1>4 DEF Perform, Receive
<1> QED
  BY <1>1, <1>2, <1>3, <1>4 DEF Next, Network

LEMMA OnlyPerform ==
  ASSUME IInv, [Next]_vars, NEW c \in Connections, flight[c].at = "sent",
         flight'[c].at = "done"
  PROVE  Perform(c)
  BY Waits DEF Receive

LEMMA OnlyReceive ==
  ASSUME IInv, [Next]_vars, NEW c \in Connections, flight[c].reply # {},
         flight'[c].at = "idle"
  PROVE  Receive(c)
<1>1. flight[c].at = "back"
  BY DEF IInv, FlightInv, Sound
<1> QED
  BY <1>1, Waits DEF Perform

\* However old the page and however late the request, what is asked for is done
\* to the row the user saw, or refused, unless ids began anew in between.
THEOREM RequestReachesRowSeenHolds == Spec => RequestReachesRowSeen
<1>1. ASSUME IInv, [Next]_vars, NEW c \in Connections, flight[c].kind \in AboutRow,
             flight[c].at = "sent", flight'[c].at = "done"
      PROVE  rows[flight[c].about.id] = flight[c].about.made \/ epoch # flight[c].about.epoch
  <2>1. rows[flight[c].about.id] # 0
    BY <1>1, OnlyPerform DEF Perform
  <2>2. Seeable(flight[c].about)
    BY <1>1 DEF IInv, FlightInv, Sound
  <2> QED
    BY <2>1, <2>2 DEF Seeable
<1>2. IInv /\ [Next]_vars =>
        [\A c \in Connections : LET r == flight[c] IN
           r.kind \in AboutRow /\ r.at = "sent" /\ flight'[c].at = "done" =>
             rows[r.about.id] = r.about.made \/ epoch # r.about.epoch]_vars
  BY <1>1
<1> QED
  BY <1>2, IInvInvariant, PTL DEF Spec, RequestReachesRowSeen

\* A batch that ends with a reply has no row left to look up.
LEMMA BatchEnd ==
  ASSUME IInv, NEW c \in Connections, Receive(c), flight[c].kind = "batch",
         flight'[c].at = "idle", NEW s \in flight[c].reply
  PROVE  InSnapshot(Rest(flight[c]), s) = {}
<1>1. flight'[c] = After(flight[c])
  BY DEF Receive, IInv, FlightInv
<1>2. \A a, owed, from : OfBatch(a, owed, from).at = "sent"
  BY DEF Request, OfBatch
<1> QED
  BY <1>1, <1>2 DEF After

\* The reply to a form or button, or the last of a batch, shows a state that has
\* what was asked for in it.
THEOREM OwnChangeShownHolds == Spec => OwnChangeShown
<1>1. ASSUME IInv, [Next]_vars, NEW c \in Connections, flight[c].kind \in AboutRow,
             flight[c].reply # {}, flight'[c].at = "idle"
      PROVE  shown' # Stopped /\ shown'.version >= flight[c].done
  <2>1. Receive(c)
    BY <1>1, OnlyReceive
  <2>2. PICK s \in flight[c].reply : Render(s)
    <3>1. CASE flight[c].kind = "batch"
      BY <1>1, <2>1, <3>1, BatchEnd
         DEF Receive, ReceivePoll, ReceiveState, ReceiveStopped, ReceiveBatch, ReceiveError
    <3>2. CASE flight[c].kind # "batch"
      BY <1>1, <2>1, <3>2
         DEF Receive, ReceivePoll, ReceiveState, ReceiveStopped, ReceiveBatch, ReceiveError,
             AboutRow
    <3> QED
      BY <3>1, <3>2
  <2>3. Known(s) /\ flight[c].done <= s.version /\ flight[c].done \in Nat
    BY <1>1, <2>2 DEF IInv, FlightInv, Sound, AboutRow, Requests
  <2> QED
    BY <2>2, <2>3 DEF Render, Known, IsState, States
<1>2. IInv /\ [Next]_vars =>
        [\A c \in Connections : LET r == flight[c] IN
           r.kind \in AboutRow /\ r.reply # {} /\ flight'[c].at = "idle" =>
             shown' # Stopped /\ shown'.version >= r.done]_vars
  BY <1>1
<1> QED
  BY <1>2, IInvInvariant, PTL DEF Spec, OwnChangeShown

\* When the loop over the selected rows ends, it has updated all that are there.
THEOREM SelectedRowsReachedHolds == Spec => SelectedRowsReached
<1>1. ASSUME IInv, [Next]_vars, NEW c \in Connections, flight[c].kind = "batch",
             flight[c].reply # {}, flight'[c].at = "idle", NEW a \in flight[c].owed
      PROVE  rows[a.id] # a.made \/ epoch # a.epoch \/ flight[c].from # a.epoch
  <2>1. Receive(c)
    BY <1>1, OnlyReceive
  <2>2. PICK r : r = flight[c] /\ Sound(r) /\ r.at = "back"
    BY <1>1, <2>1 DEF IInv, FlightInv, Receive
  <2>3. PICK s \in r.reply : Known(s) /\ r.done <= s.version
    BY <1>1, <2>2 DEF Sound, AboutRow
  <2>4. /\ Seeable(a) /\ a.made \in Nat /\ r.done \in Nat /\ s.version \in Nat
        /\ a.made <= r.done
    BY <1>1, <2>2, <2>3 DEF Sound, Owing, Seeable, Abouts, Requests, Known, States
  <2>5. CASE a \in Rest(r)
    <3>1. s.rows[a.id] = 0
      BY <1>1, <2>1, <2>2, <2>5, BatchEnd DEF InSnapshot
    <3>2. a.made <= s.version
      BY <2>3, <2>4
    <3> QED
      <4>1. ServiceInv
        BY <1>1 DEF IInv
      <4>2. rows[a.id] # a.made
        BY <2>3, <2>4, <3>1, <3>2, <4>1, NotThere
      <4> QED
        BY <4>2
  <2>6. CASE a \notin Rest(r)
    BY <1>1, <2>2, <2>6 DEF Sound, Owing, Left
  <2> QED
    BY <2>5, <2>6
<1>2. IInv /\ [Next]_vars =>
        [\A c \in Connections : LET r == flight[c] IN
           r.kind = "batch" /\ r.reply # {} /\ flight'[c].at = "idle" =>
             \A a \in r.owed :
               rows[a.id] # a.made \/ epoch # a.epoch \/ r.from # a.epoch]_vars
  BY <1>1
<1> QED
  BY <1>2, IInvInvariant, PTL DEF Spec, SelectedRowsReached

-----------------------------------------------------------------------------
(* Types, and with them that the bound on versions is one: a change counts  *)
(* against it when it is asked for, a removal the row it removes.           *)

Existing == {i \in Ids : rows[i] # 0}

Budget ==
  version + Cardinality(Asked) + Cardinality(Existing) <= MaxVersion + MaxId

LEMMA Smaller ==
  ASSUME NEW S, IsFiniteSet(S), NEW T, T \subseteq S
  PROVE  /\ IsFiniteSet(T) /\ Cardinality(T) \in Nat /\ Cardinality(S) \in Nat
         /\ Cardinality(T) <= Cardinality(S)
  BY FS_Subset, FS_CardinalityType

LEMMA OneLess ==
  ASSUME NEW S, IsFiniteSet(S), NEW x \in S, NEW T, T \subseteq S \ {x}
  PROVE  /\ IsFiniteSet(T) /\ Cardinality(T) \in Nat /\ Cardinality(S) \in Nat
         /\ Cardinality(T) + 1 <= Cardinality(S)
<1>1. IsFiniteSet(S \ {x}) /\ Cardinality(S \ {x}) = Cardinality(S) - 1
  BY FS_RemoveElement
<1>2. IsFiniteSet(T) /\ Cardinality(T) <= Cardinality(S \ {x})
        /\ Cardinality(T) \in Nat /\ Cardinality(S \ {x}) \in Nat
  BY <1>1, Smaller
<1> QED
  BY <1>1, <1>2, FS_CardinalityType

LEMMA BoundedSets ==
  /\ \A S : S \subseteq Ids => IsFiniteSet(S) /\ Cardinality(S) \in 0..MaxId
  /\ \A S : S \subseteq Connections \X Ids => IsFiniteSet(S) /\ Cardinality(S) \in Nat
<1>1. /\ IsFiniteSet(Ids) /\ Cardinality(Ids) = MaxId
      /\ IsFiniteSet(Connections) /\ MaxId \in Nat
  BY PageAssumption, FS_Interval DEF Ids, Connections
<1>2. IsFiniteSet(Connections \X Ids)
  BY <1>1, FS_Product
<1> QED
  BY <1>1, <1>2, Smaller

LEMMA AskedFinite ==
  /\ IsFiniteSet(Asked) /\ Cardinality(Asked) \in Nat
  /\ IsFiniteSet(Asked') /\ Cardinality(Asked') \in Nat
  /\ IsFiniteSet(Existing) /\ Cardinality(Existing) \in 0..MaxId
  /\ IsFiniteSet(Existing') /\ Cardinality(Existing') \in 0..MaxId
<1>1. Asked \subseteq Connections \X Ids /\ Asked' \subseteq Connections \X Ids
  BY DEF Asked
<1>2. Existing \subseteq Ids /\ Existing' \subseteq Ids
  BY DEF Existing
<1> QED
  BY <1>1, <1>2, BoundedSets

\* What a step with a bound on it leaves.
LEMMA BudgetCounted ==
  ASSUME IInv, NEW n \in Nat, Room(n), version' \in Nat,
         version' + Cardinality(Asked') <= version + n + Cardinality(Asked)
  PROVE  Budget'
<1>1. version + n + Cardinality(Asked) <= MaxVersion /\ version \in Nat
  BY DEF Room, IInv, ServiceInv
<1> QED
  BY <1>1, AskedFinite, PageAssumption DEF Budget

\* What taking a request of a connection further does to what is asked for: the
\* ids in S may be new.
LEMMA AskedUpdate ==
  ASSUME IInv, NEW c \in Connections, NEW q, flight' = [flight EXCEPT ![c] = q],
         NEW S, \A i \in Ids : Pledged(q, i) => Pledged(flight[c], i) \/ i \in S
  PROVE  Asked' \subseteq Asked \cup ({c} \X S)
<1>1. /\ \A d \in Connections \ {c} : flight'[d] = flight[d]
      /\ flight'[c] = q
  BY DEF IInv, FlightInv
<1>2. ASSUME NEW d \in Connections, NEW i \in Ids, Pledged(flight'[d], i)
      PROVE  <<d, i>> \in Asked \cup ({c} \X S)
  BY <1>1, <1>2 DEF Asked
<1>3. Asked' = {p \in Connections \X Ids : Pledged(flight'[p[1]], p[2])}
  BY DEF Asked, Pledged, Rest
<1> QED
  BY <1>2, <1>3

LEMMA AskedLess ==
  ASSUME IInv, NEW c \in Connections, NEW q, flight' = [flight EXCEPT ![c] = q],
         \A i \in Ids : Pledged(q, i) => Pledged(flight[c], i)
  PROVE  Asked' \subseteq Asked
<1>1. Asked' \subseteq Asked \cup ({c} \X {})
  BY AskedUpdate
<1> QED
  BY <1>1

LEMMA AskedSend ==
  ASSUME IInv, NEW r, Send(r), NEW S \in SUBSET Ids,
         \A i \in Ids : Pledged(r, i) => i \in S
  PROVE  Cardinality(Asked') <= Cardinality(Asked) + Cardinality(S)
<1>1. Free \subseteq Connections /\ Connections \subseteq Nat
  BY PageAssumption DEF Free, Connections
<1>2. Min(Free) \in Connections
  BY <1>1, Smallest DEF Send
<1>3. PICK c \in Connections : flight' = [flight EXCEPT ![c] = r]
  BY <1>2 DEF Send
<1>4. Asked' \subseteq Asked \cup ({c} \X S)
  BY <1>3, AskedUpdate
<1>5. IsFiniteSet(S) /\ Cardinality(S) \in Nat
  BY BoundedSets
<1>6. IsFiniteSet({c}) /\ Cardinality({c}) = 1
  BY FS_Singleton
<1>7. PICK n \in Nat : n = Cardinality(S)
  BY <1>5
<1>8. IsFiniteSet({c} \X S) /\ Cardinality({c} \X S) = 1 * n
  BY <1>5, <1>6, <1>7, FS_Product
<1>9. /\ IsFiniteSet(Asked \cup ({c} \X S))
      /\ Cardinality(Asked \cup ({c} \X S)) <= Cardinality(Asked) + n
  <2>1. PICK T : T = {c} \X S
    OBVIOUS
  <2>2. IsFiniteSet(T) /\ Cardinality(T) = n
    BY <1>7, <1>8, <2>1
  <2>3. Asked \cap T \subseteq T
    OBVIOUS
  <2>4. Cardinality(Asked \cap T) \in Nat
    BY <2>2, <2>3, Smaller
  <2>5. /\ IsFiniteSet(Asked \cup T)
        /\ Cardinality(Asked \cup T)
             = Cardinality(Asked) + Cardinality(T) - Cardinality(Asked \cap T)
    BY <2>2, AskedFinite, FS_Union
  <2> QED
    BY <1>7, <2>1, <2>2, <2>4, <2>5, AskedFinite
<1> QED
  BY <1>4, <1>7, <1>9, Smaller

LEMMA FailedUnasked ==
  ASSUME NEW r, NEW i PROVE ~Pledged(Failed(r), i)
<1>1. Failed(r).at = "back" /\ Failed(r).owed = {}
  BY DEF Failed, Request
<1> QED
  BY <1>1 DEF Pledged, Rest

\* The loop asks for no more than it had still to come to.
LEMMA AfterAsked ==
  ASSUME ServiceInv, NEW r, Sound(r), NEW i, Pledged(After(r), i)
  PROVE  Pledged(r, i)
<1>1. CASE After(r) = Idle
  <2>1. Idle.at = "idle" /\ Idle.owed = {}
    BY DEF Idle, Request
  <2> QED
    BY <1>1, <2>1 DEF Pledged, Rest
<1>2. CASE After(r) # Idle
  <2> DEFINE state == CHOOSE state \in r.reply : TRUE
  <2>1. PICK s \in r.reply : r.kind = "batch" /\ InSnapshot(Rest(r), s) # {}
    BY <1>2 DEF After
  <2>2. state = s
    BY <2>1 DEF Sound
  <2>3. \A a \in r.owed : a.id \in Nat
    BY DEF Sound, Owing, Seeable, Abouts
  <2>4. r \in Requests /\ r.about.id \in Nat /\ Rest(r) \subseteq r.owed
    BY DEF Sound, Requests, Abouts, Rest
  <2>5. PICK f \in Rest(r) : f = Following(Rest(r), s)
    BY <2>1, <2>3, <2>4, FollowingIsNext DEF InSnapshot
  <2>6. PICK q : q = OfBatch(f, r.owed, r.from)
    OBVIOUS
  <2>7. After(r) = q /\ q.about = f /\ q.owed = r.owed
    BY <1>2, <2>2, <2>5, <2>6 DEF After, OfBatch, Request
  <2>8. f.id \in Nat /\ f.id > r.about.id
    BY <2>3, <2>4, <2>5 DEF Rest
  <2>9. Rest(q) \subseteq Rest(r)
    BY <2>3, <2>4, <2>7, <2>8 DEF Rest
  <2>10. i = f.id \/ \E a \in Rest(q) : a.id = i
    BY <2>7 DEF Pledged
  <2> QED
    BY <2>5, <2>9, <2>10 DEF Pledged
<1> QED
  BY <1>1, <1>2

LEMMA BudgetStep ==
  ASSUME IInv, IInv', Budget, [Next]_vars
  PROVE  Budget'
<1>0. version \in Nat /\ version' \in Nat
  BY DEF IInv, ServiceInv
<1> USE <1>0
<1>1. ASSUME version' = version, rows' = rows, Asked' \subseteq Asked PROVE Budget'
  <2>1. Existing' = Existing
    BY <1>1 DEF Existing
  <2>2. Cardinality(Asked') <= Cardinality(Asked)
    BY <1>1, AskedFinite, Smaller
  <2> QED
    BY <1>1, <2>1, <2>2, AskedFinite, PageAssumption DEF Budget
<1>2. ASSUME Count, Asked' \subseteq Asked PROVE Budget'
  <2>1. Cardinality(Asked') <= Cardinality(Asked)
    BY <1>2, AskedFinite, Smaller
  <2> QED
    BY <1>2, <2>1, AskedFinite, BudgetCounted DEF Count
<1>3. CASE Change \/ AddRow \/ Import \/ \E i \in Ids : RemoveRow(i)
  <2>1. Count /\ flight' = flight
    BY <1>3 DEF Change, AddRow, Import, RemoveRow
  <2>2. Asked' = Asked
    BY <2>1 DEF Asked, Pledged, Rest
  <2> QED
    BY <1>2, <2>1, <2>2
<1>4. CASE Restart
  <2>1. Count
    BY <1>4 DEF Restart
  <2>2. ASSUME NEW c \in Connections, NEW i \in Ids, Pledged(flight'[c], i)
        PROVE  Pledged(flight[c], i)
    <3>1. flight'[c] = flight[c] \/ flight'[c] = Failed(flight[c])
      BY <1>4 DEF Restart
    <3>2. ~Pledged(Failed(flight[c]), i)
      BY FailedUnasked
    <3> QED
      BY <2>2, <3>1, <3>2
  <2>3. Asked' = {p \in Connections \X Ids : Pledged(flight'[p[1]], p[2])}
    BY DEF Asked, Pledged, Rest
  <2>4. Asked' \subseteq Asked
    BY <2>2, <2>3 DEF Asked
  <2> QED
    BY <1>2, <2>1, <2>4
<1>5. ASSUME NEW c \in Connections, Perform(c) PROVE Budget'
  <2>1. PICK r \in Requests : r = flight[c] /\ Sound(r)
    BY DEF IInv, FlightInv, Sound
  <2>2. PICK v \in Nat : v = version' /\ v = version + 1
    BY <1>5 DEF Perform
  <2> DEFINE q == [r EXCEPT !.at = "done", !.done = v, !.owed = @ \ {r.about}]
  <2>3. flight' = [flight EXCEPT ![c] = q]
    BY <1>5, <2>1, <2>2 DEF Perform
  <2>4. q.at = "done" /\ q.about = r.about /\ q.owed = r.owed \ {r.about}
    BY <2>1 DEF Requests
  <2>5. r.at = "sent" /\ r.kind \in AboutRow /\ r.about.id \in Ids /\ rows[r.about.id] # 0
    BY <1>5, <2>1 DEF Perform, Sound, Seeable
  <2> HIDE DEF q
  <2>6. \A i \in Ids : Pledged(q, i) => Pledged(r, i) /\ i # r.about.id
    <3> SUFFICES ASSUME NEW i \in Ids, Pledged(q, i) PROVE Pledged(r, i) /\ i # r.about.id
      OBVIOUS
    <3>1. PICK a \in Rest(q) : a.id = i
      BY <2>4 DEF Pledged
    <3>2. a \in Rest(r) /\ a.id > r.about.id
      BY <2>4, <3>1 DEF Rest
    <3> QED
      BY <2>5, <3>1, <3>2, PageAssumption DEF Pledged, Ids
  <2>7. Asked' \subseteq Asked
    BY <2>1, <2>3, <2>6, AskedLess
  <2>8. CASE r.kind = "remove"
    <3>1. r.about.id \in Existing /\ Existing' \subseteq Existing \ {r.about.id}
      BY <1>5, <2>1, <2>5, <2>8 DEF Perform, Existing, IInv, ServiceInv
    <3>2. Cardinality(Existing') + 1 <= Cardinality(Existing)
      BY <3>1, AskedFinite, OneLess
    <3>3. Cardinality(Asked') <= Cardinality(Asked)
      BY <2>7, AskedFinite, Smaller
    <3> QED
      BY <2>2, <3>2, <3>3, AskedFinite, PageAssumption DEF Budget
  <2>9. CASE r.kind # "remove"
    <3>1. Existing' = Existing
      BY <1>5, <2>1, <2>9 DEF Perform, Existing
    <3>2. <<c, r.about.id>> \in Asked
      BY <2>1, <2>5, <2>9 DEF Asked, Pledged, AboutRow
    <3>3. Asked' = {p \in Connections \X Ids : Pledged(flight'[p[1]], p[2])}
      BY DEF Asked, Pledged, Rest
    <3>4. flight'[c] = q
      BY <2>3 DEF IInv, FlightInv
    <3>5. <<c, r.about.id>> \notin Asked'
      BY <2>5, <2>6, <3>3, <3>4
    <3>6. Asked' \subseteq Asked \ {<<c, r.about.id>>}
      BY <2>7, <3>5
    <3>7. Cardinality(Asked') + 1 <= Cardinality(Asked)
      BY <3>2, <3>6, AskedFinite, OneLess
    <3> QED
      BY <2>2, <3>1, <3>7, AskedFinite, PageAssumption DEF Budget
  <2> QED
    BY <2>8, <2>9
<1>6. ASSUME NEW c \in Connections, Refuse(c) \/ Answer(c) PROVE Budget'
  <2>1. PICK r \in Requests : r = flight[c]
    BY DEF IInv, FlightInv
  <2>2. CASE Refuse(c)
    <3>1. flight' = [flight EXCEPT ![c] = Failed(r)]
      BY <2>1, <2>2 DEF Refuse
    <3>2. Asked' \subseteq Asked
      BY <2>1, <3>1, FailedUnasked, AskedLess
    <3> QED
      BY <1>1, <2>2, <3>2 DEF Refuse, service
  <2>3. CASE Answer(c)
    <3>1. PICK s : s = State
      OBVIOUS
    <3> DEFINE q == [r EXCEPT !.at = "back", !.reply = {s}]
    <3>2. flight' = [flight EXCEPT ![c] = q]
      BY <2>1, <2>3, <3>1 DEF Answer
    <3>3. q.at = "back" /\ q.about = r.about /\ q.owed = r.owed
      BY <2>1 DEF Requests
    <3> HIDE DEF q
    <3>4. \A i \in Ids : Pledged(q, i) => Pledged(r, i)
      BY <3>3 DEF Pledged, Rest
    <3>5. Asked' \subseteq Asked
      BY <2>1, <3>2, <3>4, AskedLess
    <3> QED
      BY <1>1, <2>3, <3>5 DEF Answer, service
  <2> QED
    BY <1>6, <2>2, <2>3
<1>7. ASSUME NEW c \in Connections, Receive(c) PROVE Budget'
  <2>1. PICK r : r = flight[c] /\ Sound(r) /\ r.at = "back"
    BY <1>7 DEF IInv, FlightInv, Receive
  <2>2. flight' = [flight EXCEPT ![c] = After(r)] /\ version' = version /\ rows' = rows
    BY <1>7, <2>1 DEF Receive, service
  <2>3. \A i \in Ids : Pledged(After(r), i) => Pledged(r, i)
    BY <2>1, AfterAsked DEF IInv
  <2>4. Asked' \subseteq Asked
    BY <2>1, <2>2, <2>3, AskedLess
  <2> QED
    BY <1>1, <2>2, <2>4
<1>8. ASSUME NEW kind, kind \notin {"save", "batch"}, NEW a, Send(Request(kind, a)),
             UNCHANGED service
      PROVE  Budget'
  <2>1. \A i \in Ids : ~Pledged(Request(kind, a), i)
    BY <1>8 DEF Pledged, Request, Rest
  <2>2. Cardinality(Asked') <= Cardinality(Asked) + Cardinality({})
    BY <1>8, <2>1, AskedSend
  <2>3. Existing' = Existing /\ version' = version
    BY <1>8 DEF service, Existing
  <2> QED
    BY <2>2, <2>3, FS_EmptySet, AskedFinite, PageAssumption DEF Budget
<1>9. CASE Poll \/ WindowFocus \/ Shutdown \/ \E i \in Ids : AskRemove(i)
  <2>1. /\ \E a : \/ Send(Request("poll", a)) \/ Send(Request("focus", a))
                  \/ Send(Request("shutdown", a)) \/ Send(Request("remove", a))
        /\ UNCHANGED service
    BY <1>9 DEF Poll, WindowFocus, Shutdown, AskRemove
  <2> QED
    BY <1>8, <2>1
<1>10. ASSUME NEW i \in Ids, Submit(i) PROVE Budget'
  <2>1. PICK r : r = Request("save", Seen(i)) /\ Send(r)
    BY <1>10 DEF Submit
  <2>2. r.about.id = i /\ r.owed = {}
    BY <2>1 DEF Request, Seen
  <2>3. \A j \in Ids : Pledged(r, j) => j \in {i}
    BY <2>2 DEF Pledged, Rest
  <2>4. Cardinality(Asked') <= Cardinality(Asked) + Cardinality({i})
    BY <2>1, <2>3, AskedSend
  <2>5. Cardinality({i}) = 1 /\ version' = version /\ Room(1)
    BY <1>10, FS_Singleton DEF Submit, service
  <2> QED
    BY <2>4, <2>5, AskedFinite, BudgetCounted
<1>11. CASE ApplyGlobal
  <2>1. PICK S \in SUBSET {i \in Ids : Shows(i)} :
          LET todo == {Seen(i) : i \in S}
          IN  /\ InSnapshot(todo, snapshot) # {} /\ Room(Cardinality(S))
              /\ Send(OfBatch(Following(todo, snapshot), todo, snapshot.epoch))
    BY <1>11 DEF ApplyGlobal
  <2> DEFINE todo == {Seen(i) : i \in S}
  <2>2. \A a \in todo : a.id \in Nat /\ a.id \in S
    BY PageAssumption DEF Seen, Ids
  <2>3. PICK r : r = OfBatch(Following(todo, snapshot), todo, snapshot.epoch) /\ Send(r)
    BY <2>1
  <2>4. InSnapshot(todo, snapshot) # {} /\ Room(Cardinality(S))
    BY <2>1
  <2> HIDE DEF todo
  <2>5. Following(todo, snapshot) \in todo
    BY <2>2, <2>4, FollowingIsNext DEF InSnapshot
  <2>6. r.about \in todo /\ r.owed = todo
    BY <2>3, <2>5 DEF OfBatch, Request
  <2>7. \A j \in Ids : Pledged(r, j) => j \in S
    BY <2>2, <2>6 DEF Pledged, Rest
  <2>8. Cardinality(Asked') <= Cardinality(Asked) + Cardinality(S)
    BY <2>3, <2>7, AskedSend
  <2>9. version' = version /\ Cardinality(S) \in Nat
    BY <1>11, BoundedSets DEF ApplyGlobal, service
  <2> QED
    BY <2>4, <2>8, <2>9, AskedFinite, BudgetCounted
<1>12. CASE Type \/ Blur \/ OpenDialog \/ CloseDialog \/ ApplyToNone \/ UNCHANGED vars
  <2>1. version' = version /\ rows' = rows /\ flight' = flight
    BY <1>12 DEF Type, Blur, OpenDialog, CloseDialog, ApplyToNone, vars, service
  <2>2. Asked' = Asked
    BY <2>1 DEF Asked, Pledged, Rest
  <2> QED
    BY <1>1, <2>1, <2>2
<1> QED
  BY <1>3, <1>4, <1>5, <1>6, <1>7, <1>9, <1>10, <1>11, <1>12
     DEF Next, Others, Network, User

\* States the page holds, and those on their way to it, are states the service
\* was in, and the bound on versions holds with no guard at the requests performed.
THEOREM TypeCorrect == Spec => []TypeOK
<1>1. Init => Budget
  <2> SUFFICES ASSUME Init PROVE Budget
    OBVIOUS
  <2>1. Asked = {} /\ version = 1
    BY DEF Init, Asked, Pledged, Rest, Idle, Request
  <2> QED
    BY <2>1, AskedFinite, PageAssumption, FS_EmptySet DEF Budget
<1>2. Budget /\ IInv /\ IInv' /\ [Next]_vars => Budget'
  BY BudgetStep
<1>3. IInv /\ Budget => TypeOK
  <2> SUFFICES ASSUME IInv, Budget PROVE TypeOK
    OBVIOUS
  <2>1. version \in 1..(MaxVersion + MaxId)
    BY AskedFinite, PageAssumption DEF IInv, ServiceInv, Budget
  <2>2. \A c \in Connections : /\ flight[c].at \in {"idle", "sent", "done", "back"}
                               /\ \A s \in flight[c].reply : IsState(s)
                               /\ \A a \in flight[c].owed : a.id \in Ids
    BY DEF IInv, FlightInv, Sound, Owing, Seeable, Known, Requests
  <2> QED
    BY <2>1, <2>2 DEF IInv, ServiceInv, PageInv, Known, Seeable, TypeOK
<1> QED
  BY <1>1, <1>2, <1>3, IInvInvariant, PTL DEF Spec

=============================================================================
