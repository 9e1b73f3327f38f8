---------------------------- MODULE BrowserPage -----------------------------
(***************************************************************************)
(* The page of build_app_js and what lies between it and the rows of the   *)
(* service: a timer asks for the state every two seconds, returning to the *)
(* window asks for it at once, forms and buttons send requests about the   *)
(* row they were drawn for.  Requests go over connections of their own, so *)
(* replies come in any order, and each carries the state of the service as *)
(* it was some time after the request was done.  Meanwhile other pages and *)
(* the maintenance thread change the rows, and the service may be stopped  *)
(* and started again under a page that stays open.                         *)
(*                                                                         *)
(* A state is the version of the service's, which every change counts up,  *)
(* its rows, a row being known by the version it was made at, and its      *)
(* epoch: a start of the service and an import hand out ids anew.          *)
(***************************************************************************)
EXTENDS Integers, FiniteSets, FiniteSetsExt

CONSTANTS
  MaxId,       \* bound on the ids handed out
  MaxVersion,  \* bound on the changes, but for removals the page asks for
  MaxFlight,   \* bound on the requests of the page not answered yet
  Opened,      \* rows there are when the page is opened
  Stopped      \* what the page shows after renderServiceStopped

Ids == 1..MaxId
Connections == 1..MaxFlight

\* What a state of the service is made of.
States == [version : Nat, rows : [Ids -> Nat], epoch : Nat]

ASSUME PageAssumption ==
  /\ MaxId \in Nat \ {0} /\ MaxVersion \in Nat \ {0} /\ MaxFlight \in Nat \ {0}
  /\ Opened \in Ids /\ Stopped \notin States

VARIABLES
  version,   \* of its state
  rows,      \* id -> the version its row was made at, 0 for no row
  nextId,    \* next_row_id
  epoch,     \* starts and imports so far
  flight,    \* connection -> its request: on its way, at work, or back as a reply
  snapshot,  \* store.snapshot
  shown,     \* the state the page was drawn from
  editing,   \* isEditing(): the focus is in an input
  dialog,    \* "row" with a store.randomDialogRowId, "global" or "none"
  polling    \* store.pollHandle # null

service == <<version, rows, nextId, epoch>>
page == <<snapshot, shown, editing, dialog, polling>>
vars == <<service, flight, page>>

State == [version |-> version, rows |-> rows, epoch |-> epoch]

\* about is the row the request names, as what row of which epoch the user saw it;
\* done the version it was done at; reply the state it brings back, none if it
\* failed.  One of a batch of applyGlobalRandomSettings is about the row the loop
\* has come to: owed are those selected that have not been updated, from the epoch
\* of the snapshot the loop began with.
Request(kind, about) ==
  [kind |-> kind, at |-> "sent", about |-> about, done |-> 0, reply |-> {},
   owed |-> {}, from |-> 0]
OfBatch(about, owed, from) == [Request("batch", about) EXCEPT !.owed = owed, !.from = from]
Nobody == [id |-> 0, made |-> 0, epoch |-> 0]
Failed(r) == [Request(r.kind, Nobody) EXCEPT !.at = "back"]
Idle == [Request("none", Nobody) EXCEPT !.at = "idle"]

Init ==
  /\ version = 1 /\ nextId = Opened + 1 /\ epoch = 0
  /\ rows = [i \in Ids |-> IF i <= Opened THEN 1 ELSE 0]
  /\ flight = [c \in Connections |-> Idle]
  /\ snapshot = State /\ shown = State
  /\ editing = FALSE /\ dialog = "none" /\ polling = TRUE

-----------------------------------------------------------------------------
(* The service, changed by others.                                         *)

AboutRow == {"save", "remove", "batch"}

\* Mutant: the loop steps over the row that comes next.
RestAfterNext(r) == {a \in r.owed : a.id > r.about.id + 1}

\* The selected rows the loop has still to come to.
Rest(r) == {a \in r.owed : a.id > r.about.id}

\* Changes asked for: by a request on its way, or by those that follow in a batch.
Pledged(r, i) ==
  \/ r.at = "sent" /\ r.kind \in {"save", "batch"} /\ r.about.id = i
  \/ \E a \in Rest(r) : a.id = i
Asked == {p \in Connections \X Ids : Pledged(flight[p[1]], p[2])}

\* The bound leaves room for n changes more than those asked for already (which are
\* only counted if they matter).
Room(n) == version + n <= MaxVersion /\ version + n + Cardinality(Asked) <= MaxVersion

Count == Room(1) /\ version' = version + 1

Change ==
  /\ Count
  /\ UNCHANGED <<rows, nextId, epoch, flight, page>>

\* Mutant: the first free id is taken.
AddToGap ==
  /\ Count
  /\ \E i \in Ids :
       /\ rows[i] = 0 /\ \A j \in 1..(i - 1) : rows[j] # 0
       /\ rows' = [rows EXCEPT ![i] = version']
       /\ nextId' = Max({nextId, i + 1})
  /\ UNCHANGED <<epoch, flight, page>>

AddRow ==
  /\ Count
  /\ nextId \in Ids
  /\ rows' = [rows EXCEPT ![nextId] = version']
  /\ nextId' = nextId + 1
  /\ UNCHANGED <<epoch, flight, page>>

RemoveRow(i) ==
  /\ Count
  /\ rows[i] # 0
  /\ rows' = [rows EXCEPT ![i] = 0]
  /\ UNCHANGED <<nextId, epoch, flight, page>>

\* A configuration of one row: ids begin again.
Import ==
  /\ Count
  /\ rows' = [i \in Ids |-> IF i = 1 THEN version' ELSE 0]
  /\ nextId' = 2 /\ epoch' = epoch + 1
  /\ UNCHANGED <<flight, page>>

\* The service is stopped, from another page or the console, and started again:
\* what it was at work on fails, and so does what is sent in the meantime.  The
\* saved rows keep their ids, the next one follows the largest of them; if none
\* was saved a default row is made.
Restart ==
  /\ Count
  /\ epoch' = epoch + 1
  /\ LET saved == {i \in Ids : rows[i] # 0} IN
       /\ rows' = IF saved = {} THEN [rows EXCEPT ![1] = version'] ELSE rows
       /\ nextId' = IF saved = {} THEN 2 ELSE Max(saved) + 1
  /\ \E lost \in SUBSET {c \in Connections : flight[c].at = "sent"} :
       flight' = [c \in Connections |->
         IF c \in lost \/ flight[c].at = "done" THEN Failed(flight[c]) ELSE flight[c]]
  /\ UNCHANGED page

-----------------------------------------------------------------------------
(* Requests of the page and their replies.                                 *)

Seen(i) == [id |-> i, made |-> shown.rows[i], epoch |-> shown.epoch]

Free == {c \in Connections : flight[c] = Idle}
Send(r) ==
  /\ Free # {}
  /\ flight' = [flight EXCEPT ![Min(Free)] = r]

\* What a request about a row does, in a section of its own.
Perform(c) ==
  LET r == flight[c] IN
  /\ r.at = "sent"
  /\ r.kind \in AboutRow /\ rows[r.about.id] # 0
  /\ version' = version + 1
  /\ rows' = IF r.kind = "remove" THEN [rows EXCEPT ![r.about.id] = 0] ELSE rows
  /\ flight' = [flight EXCEPT ![c].at = "done", ![c].done = version',
                           ![c].owed = @ \ {r.about}]
  /\ UNCHANGED <<nextId, epoch, page>>

\* A row that is not there is an error.
Refuse(c) ==
  LET r == flight[c] IN
  /\ r.at = "sent"
  /\ r.kind \in AboutRow /\ rows[r.about.id] = 0
  /\ flight' = [flight EXCEPT ![c] = Failed(r)]
  /\ UNCHANGED <<service, page>>

\* The state of the reply is taken in a second section; a request for the state
\* alone, or to shut down, has no other.
Answer(c) ==
  /\ IF flight[c].kind \in AboutRow THEN flight[c].at = "done"
                                   ELSE flight[c].at = "sent"
  /\ flight' = [flight EXCEPT ![c].at = "back", ![c].reply = {State}]
  /\ UNCHANGED <<service, page>>

-----------------------------------------------------------------------------
(* The page.                                                               *)

\* innerHTML is replaced: the focus is gone, and what was typed with it.
Render(state) ==
  /\ snapshot' = state /\ shown' = state
  /\ editing' = FALSE

Poll ==
  /\ polling
  /\ Send(Request("poll", Nobody))
  /\ UNCHANGED <<service, page>>

WindowFocus ==
  /\ Send(Request("focus", Nobody))
  /\ UNCHANGED <<service, page>>

Shows(i) == shown # Stopped /\ shown.rows[i] # 0

\* The user types into a form, or opens a selector, or leaves the input.
Type ==
  /\ shown # Stopped
  /\ editing' = TRUE
  /\ UNCHANGED <<service, flight, snapshot, shown, dialog, polling>>

Blur ==
  /\ editing
  /\ editing' = FALSE
  /\ UNCHANGED <<service, flight, snapshot, shown, dialog, polling>>

\* The form of the row, or of its dialog, is sent, from a button or with Enter.
Submit(i) ==
  /\ Shows(i) /\ Room(1)
  /\ Send(Request("save", Seen(i)))
  /\ editing' \in {editing, FALSE}
  /\ UNCHANGED <<service, snapshot, shown, dialog, polling>>

AskRemove(i) ==
  /\ Shows(i)
  /\ Send(Request("remove", Seen(i)))
  /\ editing' = FALSE
  /\ UNCHANGED <<service, snapshot, shown, dialog, polling>>

OpenDialog ==
  /\ \/ dialog' = "row" /\ \E i \in Ids : Shows(i)
     \/ dialog' = "global" /\ shown # Stopped
  /\ Render(snapshot)
  /\ UNCHANGED <<service, flight, polling>>

\* The button, a click beside it, Escape.
CloseDialog ==
  /\ dialog # "none"
  /\ dialog' = "none"
  /\ Render(snapshot)
  /\ UNCHANGED <<service, flight, polling>>

\* The timer is stopped before the service is asked.
Shutdown ==
  /\ shown # Stopped
  /\ Send(Request("shutdown", Nobody))
  /\ polling' = FALSE /\ editing' = FALSE
  /\ UNCHANGED <<service, snapshot, shown, dialog>>

\* The first of the selected rows that the snapshot still has comes next.
InSnapshot(todo, state) == {a \in todo : state.rows[a.id] # 0}
Following(todo, state) ==
  CHOOSE a \in InSnapshot(todo, state) :
    \A b \in InSnapshot(todo, state) : a.id <= b.id

\* The loop over the selected rows begins; it may do so while another one runs.
ApplyGlobal ==
  /\ dialog = "global" /\ shown # Stopped
  /\ \E S \in SUBSET {i \in Ids : Shows(i)} :
       LET todo == {Seen(i) : i \in S}
       IN /\ InSnapshot(todo, snapshot) # {} /\ Room(Cardinality(S))
          /\ Send(OfBatch(Following(todo, snapshot), todo, snapshot.epoch))
  /\ editing' \in {editing, FALSE}
  /\ UNCHANGED <<service, snapshot, shown, dialog, polling>>

\* Nothing is selected, which is an error, or nothing that the snapshot has, which
\* is not: the loop sends nothing and the snapshot is drawn.
ApplyToNone ==
  /\ dialog = "global" /\ shown # Stopped
  /\ ~editing \/ \E i \in Ids : Shows(i) /\ snapshot.rows[i] = 0
  /\ Render(snapshot)
  /\ UNCHANGED <<service, flight, dialog, polling>>

\* Mutant: only what was forced is drawn.
ReceivePollUndrawn(r) ==
  /\ r.kind = "poll"
  /\ \E state \in r.reply : snapshot' = state
  /\ UNCHANGED <<shown, editing>>

\* refresh(false): nothing is drawn while the user edits or a dialog is open.
ReceivePoll(r) ==
  /\ r.kind = "poll"
  /\ \E state \in r.reply :
       IF editing \/ dialog # "none"
       THEN snapshot' = state /\ UNCHANGED <<shown, editing>>
       ELSE Render(state)

\* Mutant: the banner alone is drawn, over the state from before.
ReceiveBanner(r) ==
  /\ r.kind \in {"focus", "save", "remove"} /\ r.reply # {}
  /\ Render(snapshot)

\* refresh(true), and the replies to buttons and forms: drawn whatever is open.
ReceiveState(r) ==
  /\ r.kind \in {"focus", "save", "remove"}
  /\ \E state \in r.reply : Render(state)

\* Mutant: the snapshot goes with the page.
ForgetWhenStopped(r) ==
  /\ r.kind = "shutdown" /\ r.reply # {}
  /\ shown' = Stopped /\ snapshot' = Stopped /\ editing' = FALSE

ReceiveStopped(r) ==
  /\ r.kind = "shutdown" /\ r.reply # {}
  /\ shown' = Stopped /\ editing' = FALSE
  /\ UNCHANGED snapshot

\* setBanner draws the last state again, unless the user edits.
ReceiveError(r) ==
  /\ r.reply = {}
  /\ IF editing
     THEN UNCHANGED <<snapshot, shown, editing>>
     ELSE Render(snapshot)

\* What follows the reply to r: the request for the next selected row, or nothing.
After(r) ==
  IF r.kind = "batch" /\ \E state \in r.reply : InSnapshot(Rest(r), state) # {}
  THEN OfBatch(Following(Rest(r), CHOOSE state \in r.reply : TRUE), r.owed, r.from)
  ELSE Idle

\* The loop goes on with the state of the reply, which is drawn at its end.
ReceiveBatch(r) ==
  /\ r.kind = "batch"
  /\ \E state \in r.reply :
       IF InSnapshot(Rest(r), state) = {}
       THEN Render(state)
       ELSE snapshot' = state /\ UNCHANGED <<shown, editing>>

Receive(c) ==
  LET r == flight[c] IN
  /\ r.at = "back"
  /\ flight' = [flight EXCEPT ![c] = After(r)]
  /\ \/ ReceivePoll(r) \/ ReceiveState(r) \/ ReceiveStopped(r)
     \/ ReceiveBatch(r) \/ ReceiveError(r)
  /\ UNCHANGED <<service, dialog, polling>>

-----------------------------------------------------------------------------

Others ==
  \/ Change \/ AddRow \/ Import \/ Restart
  \/ \E i \in Ids : RemoveRow(i)

Network(c) == Perform(c) \/ Refuse(c) \/ Answer(c) \/ Receive(c)

User ==
  \/ WindowFocus \/ Type \/ Blur \/ OpenDialog \/ CloseDialog
  \/ Shutdown \/ ApplyGlobal \/ ApplyToNone
  \/ \E i \in Ids : Submit(i) \/ AskRemove(i)

Next == Others \/ Poll \/ User \/ \E c \in Connections : Network(c)

Spec == Init /\ [][Next]_vars

\* The timer goes on, whatever else the connections are used for (that they are
\* few is a bound of the model), and every request is answered.
FairSpec == Spec /\ SF_vars(Poll) /\ \A c \in Connections : WF_vars(Network(c))

-----------------------------------------------------------------------------
(* Properties.                                                             *)

IsState(s) ==
  /\ s # Stopped
  /\ s.version \in 1..version /\ s.epoch \in 0..epoch
  /\ s.rows \in [Ids -> 0..s.version]

\* The variables have their types: states of the page and of replies are states
\* the service was in, and only shown, which render replaces, is ever none.
TypeOK ==
  /\ version \in 1..(MaxVersion + MaxId)
  /\ epoch \in 0..version /\ rows \in [Ids -> 0..version] /\ nextId \in 1..(MaxId + 1)
  /\ \A c \in Connections : /\ flight[c].at \in {"idle", "sent", "done", "back"}
                             /\ \A s \in flight[c].reply : IsState(s)
                             /\ \A a \in flight[c].owed : a.id \in Ids
  /\ IsState(snapshot) /\ (shown = Stopped \/ IsState(shown))
  /\ editing \in BOOLEAN /\ polling \in BOOLEAN
  /\ dialog \in {"none", "row", "global"}

\* However old the state a page was drawn from, and however late the request,
\* what the user asks for is done to the row the user saw, or refused, as long as
\* no configuration was imported and the service not started again in between.
RequestReachesRowSeen ==
  [][\A c \in Connections : LET r == flight[c] IN
       r.kind \in AboutRow /\ r.at = "sent" /\ flight'[c].at = "done" =>
         rows[r.about.id] = r.about.made \/ epoch # r.about.epoch]_vars

\* When the reply to a form, a button or the last of a batch has come, the page
\* shows a state that has what was asked for in it, though older replies may still
\* be on their way.
OwnChangeShown ==
  [][\A c \in Connections : LET r == flight[c] IN
       r.kind \in AboutRow /\ r.reply # {} /\ flight'[c].at = "idle" =>
         shown' # Stopped /\ shown'.version >= r.done]_vars

\* When the loop over the selected rows ends with a reply, each of them that is
\* still there was updated, though the loop looks rows up in states that are old by
\* then and passes over those it does not find; as long as no configuration was
\* imported and the service not started again since the snapshot it began with.
SelectedRowsReached ==
  [][\A c \in Connections : LET r == flight[c] IN
       r.kind = "batch" /\ r.reply # {} /\ flight'[c].at = "idle" =>
         \A a \in r.owed :
           rows[a.id] # a.made \/ epoch # a.epoch \/ r.from # a.epoch]_vars

\* When the user has let go of inputs and dialogs, the page comes to show what
\* there is, in whatever order replies come.
PageCatchesUp ==
  <>[](polling /\ ~editing /\ dialog = "none") =>
    <>[](shown # Stopped /\ shown.version = version)

=============================================================================
