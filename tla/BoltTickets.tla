---------------------------- MODULE BoltTickets ----------------------------
(***************************************************************************)
(* The tickets storage, app/store/engine/bolt/ticket.go, with the value    *)
(* types it stores, app/store/ticket.go.                                   *)
(*                                                                         *)
(* A ticket is the program's own record of one issue; its variations name  *)
(* the task that stands for the issue in each tracker.  Two buckets are    *)
(* kept: the tickets by their ID, and the references, which lead from a    *)
(* task to the ticket it belongs to.  A bolt transaction is atomic, so     *)
(* every operation of the storage is one step of its caller.               *)
(*                                                                         *)
(* Names and IDs are sequences of atoms: the empty string is <<>> and the  *)
(* formatting of a reference is a concatenation.  The content of a task    *)
(* (title, body, fields) is left out.                                      *)
(***************************************************************************)
EXTENDS Sequences

CONSTANTS Trackers,   \* names of the configured trackers
          TaskIDs,    \* IDs a task may have in a tracker, "" included
          TicketIDs,  \* IDs uuid.NewString may return
          Sep         \* the separator "!!" of a reference

NoID == <<>>

(* No tracker is named "": static.go:93 refuses an action that names it.   *)
ASSUME NamesAssumption ==
  NoID \in TaskIDs /\ NoID \notin TicketIDs /\ NoID \notin Trackers

VARIABLES tickets,  \* bucket "tickets": ticket ID -> ticket
          refs      \* bucket "refs": reference -> ticket ID

storeVars == <<tickets, refs>>

-----------------------------------------------------------------------------
Locator == [Tracker : Trackers, ID : TaskIDs]

Empty(l) == l.Tracker = NoID \/ l.ID = NoID

TaskRef(l) == l.Tracker \o Sep \o l.ID

Variations == UNION {[D -> TaskIDs] : D \in SUBSET Trackers}

Ticket == [ID : TicketIDs \cup {NoID}, Variations : Variations]

Has(v, trk) == trk \in DOMAIN v

Get(v, trk) == IF Has(v, trk) THEN v[trk] ELSE NoID

Set(v, trk, id) ==
  [t \in DOMAIN v \cup {trk} |-> IF t = trk THEN id ELSE v[t]]

Locators(v) == {[Tracker |-> t, ID |-> v[t]] : t \in DOMAIN v}

NewTicket == [ID |-> NoID, Variations |-> [t \in {} |-> NoID]]
-----------------------------------------------------------------------------
(* What Tickets.Get answers for a locator: an empty locator leaves the     *)
(* ticket ID empty, and no ticket is stored under the empty ID (mutant: an *)
(* empty locator is looked up as any other).                               *)
FoundAny(l) ==
  /\ TaskRef(l) \in DOMAIN refs
  /\ refs[TaskRef(l)] \in DOMAIN tickets
Found(l) ==
  /\ ~Empty(l)
  /\ TaskRef(l) \in DOMAIN refs
  /\ refs[TaskRef(l)] \in DOMAIN tickets

TicketOf(l) == tickets[refs[TaskRef(l)]]

(* Tickets.Update: the ticket and the references to it, in one transaction *)
(* (mutant: the references are written by Create only).                    *)
PutTicketOnly(t) ==
  LET own == {TaskRef(l) : l \in Locators(t.Variations)} IN
  /\ tickets' = [i \in DOMAIN tickets \cup {t.ID} |->
                   IF i = t.ID THEN t ELSE tickets[i]]
  /\ refs' = IF t.ID \in DOMAIN tickets THEN refs
             ELSE [r \in DOMAIN refs \cup own |->
                     IF r \in own THEN t.ID ELSE refs[r]]
PutTicket(t) ==
  LET own == {TaskRef(l) : l \in Locators(t.Variations)} IN
  /\ tickets' = [i \in DOMAIN tickets \cup {t.ID} |->
                   IF i = t.ID THEN t ELSE tickets[i]]
  /\ refs' = [r \in DOMAIN refs \cup own |->
                IF r \in own THEN t.ID ELSE refs[r]]

(* Tickets.Create: Update under a fresh ID (mutant: the ID is generated    *)
(* after the ticket is stored).                                            *)
CreateTicketEarly(t) == PutTicket(t)
CreateTicket(t) ==
  \E id \in TicketIDs \ DOMAIN tickets : PutTicket([t EXCEPT !.ID = id])

StoreInit ==
  /\ tickets = [i \in {} |-> NewTicket]
  /\ refs = [r \in {} |-> NoID]
-----------------------------------------------------------------------------
StoreTypeOK ==
  /\ DOMAIN tickets \subseteq TicketIDs
  /\ tickets \in [DOMAIN tickets -> Ticket]
  /\ \A i \in DOMAIN tickets : tickets[i].ID = i
  /\ DOMAIN refs \subseteq {TaskRef(l) : l \in Locator}
  /\ refs \in [DOMAIN refs -> TicketIDs]

(* The two buckets agree: a reference never leads to a missing ticket, so  *)
(* that Tickets.Get fails for a task nobody saved and for no other reason, *)
(* and every task of a stored ticket can be looked up.  The two are written *)
(* by one transaction (ticket.go:71-81); written by two, a crash or a       *)
(* reader between them would see half.                                      *)
RefsSound ==
  /\ \A r \in DOMAIN refs : refs[r] \in DOMAIN tickets
  /\ \A i \in DOMAIN tickets :
       \A l \in Locators(tickets[i].Variations) : TaskRef(l) \in DOMAIN refs
=============================================================================
