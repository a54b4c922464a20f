------------------------------ MODULE Billing ------------------------------
(***************************************************************************)
(* The webhooks that keep the table of subscriptions in step with the two  *)
(* payment providers: paystack-webhook and stripe-webhook.  A provider     *)
(* sends an event again until it is answered with 200, also while an       *)
(* earlier delivery is still being handled; a handler records the event    *)
(* under a unique key, and one that finds the key answers at once.         *)
(*                                                                         *)
(* `log', `acked' and `Deliver' are the providers, external to the code;   *)
(* an event is the n-th one of its subscription.  Of a row the status is   *)
(* kept, which is what the readers of the table select by.  processed_at,  *)
(* which nothing reads, is left out.                                       *)
(***************************************************************************)
EXTENDS Naturals, Sequences, FiniteSets

CONSTANTS
    Paystack, Stripe,   \* the subscriptions of either provider
    Renewals,           \* the events that tell of an attempt to renew at Paystack
    StripeUpdates,      \* the statuses a subscription.updated may carry
    Calls,              \* numbers of the deliveries handled at the same time
    None,               \* no row, no call
    MaxEvents,          \* bound: events over all subscriptions
    MaxTroubles         \* bound: failures and deaths of handlers

Subs == Paystack \cup Stripe
Served == {"active", "trialing"}
Statuses == Served \cup {"past_due", "canceled", "incomplete"}
Stages == {"insert", "write", "answer"}
Deliveries == [sub : Subs, event : Nat, stage : Stages]

ASSUME BillingAssumption ==
    /\ Calls \subseteq Nat
    /\ Paystack \cap Stripe = {}
    /\ Renewals \subseteq {"subscription.charge", "invoice.update"}
    /\ MaxEvents \in Nat /\ MaxTroubles \in Nat
    /\ None \notin Statuses \cup Deliveries

VARIABLES
    log,        \* per subscription: the events its provider has emitted
    acked,      \* the events answered with 200, which are not sent again
    recorded,   \* the keys in webhook_events
    rows,       \* per subscription: the rows under its code and its reference
    calls,      \* the deliveries under way
    troubles,   \* failures so far
    writes,     \* history: per subscription, the events written, in that order
    struck      \* history: events that a trouble met between record and write

vars == <<log, acked, recorded, rows, calls, troubles, writes, struck>>

Reference == "reference"
Code == "code"

\* An event: its type, the status the provider gives the subscription with it, and the
\* identifier that its handler finds the row by.
Event(type, status, id) == [type |-> type, status |-> status, id |-> id]

Activating == {"charge.success", "subscription.create", "checkout.session.completed"}

-----------------------------------------------------------------------------
(* The providers *)

Happened(s, type) == \E n \in DOMAIN log[s] : log[s][n].type = type
Truth(s) == log[s][Len(log[s])].status

\* A purchase is announced by its charge and, around the same time, by the creation of
\* the subscription; the transaction may not know yet the code of the subscription.  One
\* that its owner gives up runs to the end of the paid period without being renewed, and
\* is then disabled.
PaystackEvents(s) ==
    IF ~Happened(s, "charge.success")
    THEN {Event("charge.success", "active", id) : id \in {Code, Reference}}
         \cup (IF log[s] = << >> THEN {Event("subscription.create", "active", Code)} ELSE {})
    ELSE IF Truth(s) = "canceled" THEN {}
    ELSE IF Truth(s) = "non-renewing" THEN {Event("subscription.disable", "canceled", Code)}
    ELSE (IF Len(log[s]) = 1 THEN {Event("subscription.create", "active", Code)} ELSE {})
         \cup {Event(type, status, Code) : type \in Renewals, status \in {"active", "past_due"}}
         \cup {Event("subscription.not_renew", "non-renewing", Code),
               Event("subscription.disable", "canceled", Code)}

\* The first invoice may be paid before the checkout is completed.
StripeEvents(s) ==
    IF ~Happened(s, "checkout.session.completed")
    THEN {Event("checkout.session.completed", "active", Code)}
         \cup (IF log[s] = << >> THEN {Event("invoice.payment_succeeded", "active", Code)} ELSE {})
    ELSE IF Truth(s) = "canceled" THEN {}
    ELSE {Event("invoice.payment_succeeded", "active", Code),
          Event("invoice.payment_failed", "past_due", Code),
          Event("customer.subscription.deleted", "canceled", Code)}
         \cup {Event("customer.subscription.updated", st, Code) : st \in StripeUpdates}

EventsOf(s) == IF s \in Paystack THEN PaystackEvents(s) ELSE StripeEvents(s)

-----------------------------------------------------------------------------
(* The handlers *)

\* Fault: the key of a renewal lacks the attempt.
KeyWithoutAttempt(s, n) ==
    LET type == log[s][n].type
    IN  IF s \in Stripe THEN <<s, "stripe", n>>
        ELSE IF type = "charge.success" THEN <<s, "reference", n>>
        ELSE <<s, type, 0>>

\* The key of an event: Stripe numbers its events; Paystack numbers its transactions and
\* the attempts to renew, and nothing else.
KeyOf(s, n) ==
    LET type == log[s][n].type
    IN  IF s \in Stripe THEN <<s, "stripe", n>>
        ELSE IF type = "charge.success" THEN <<s, "reference", n>>
        ELSE IF type \in Renewals THEN <<s, type, n>>
        ELSE <<s, type, 0>>

\* Fault: what the map does not list passes for active.
StatusMapLenient(status) ==
    IF status \in {"trialing", "past_due", "canceled", "incomplete"} THEN status
    ELSE IF status = "incomplete_expired" THEN "canceled"
    ELSE "active"

\* statusMap, with what a status it does not list becomes.
StatusMap(status) ==
    IF status \in {"active", "trialing", "past_due", "canceled", "incomplete"} THEN status
    ELSE IF status = "incomplete_expired" THEN "canceled"
    ELSE "past_due"

\* The status that the handler of an event writes.
Status(event) ==
    CASE event.type \in Activating -> "active"
      [] event.type \in Renewals ->
            IF event.status = "active" THEN "active" ELSE "past_due"
      [] event.type \in {"subscription.disable", "subscription.not_renew"} -> "canceled"
      [] event.type = "invoice.payment_succeeded" -> "active"
      [] event.type = "invoice.payment_failed" -> "past_due"
      [] event.type = "customer.subscription.deleted" -> "canceled"
      [] event.type = "customer.subscription.updated" -> StatusMap(event.status)

Init ==
    /\ log = [s \in Subs |-> << >>]
    /\ acked = {}
    /\ recorded = {}
    /\ rows = [s \in Subs |-> [id \in {Code, Reference} |-> None]]
    /\ calls = [c \in Calls |-> None]
    /\ troubles = 0
    /\ writes = [s \in Subs |-> << >>]
    /\ struck = {}

Emitted == UNION {{<<s, n>> : n \in DOMAIN log[s]} : s \in Subs}

Emit(s) ==
    /\ Cardinality(Emitted) < MaxEvents
    /\ \E event \in EventsOf(s) : log' = [log EXCEPT ![s] = Append(@, event)]
    /\ UNCHANGED <<acked, recorded, rows, calls, troubles, writes, struck>>

Call(s, n, stage) == [sub |-> s, event |-> n, stage |-> stage]

\* A delivery, the first one or another, which does not wait for the ones before it.
Deliver(c, s, n) ==
    /\ calls[c] = None /\ \A d \in Calls : d < c => calls[d] # None
    /\ n \in DOMAIN log[s] /\ <<s, n>> \notin acked
    /\ calls' = [calls EXCEPT ![c] = Call(s, n, "insert")]
    /\ UNCHANGED <<log, acked, recorded, rows, troubles, writes, struck>>

At(c, stage) == calls[c] # None /\ calls[c].stage = stage
KeyIn(c) == KeyOf(calls[c].sub, calls[c].event)
EventIn(c) == log[calls[c].sub][calls[c].event]
IdOf(c) == <<calls[c].sub, calls[c].event>>
Goto(c, stage) == calls' = [calls EXCEPT ![c].stage = stage]
Leave(c) == calls' = [calls EXCEPT ![c] = None]

\* Fault: an event that is there is answered with 500.
InsertRejects(c) ==
    /\ At(c, "insert")
    /\ IF KeyIn(c) \in recorded THEN Leave(c) ELSE Goto(c, "write")
    /\ recorded' = recorded \cup {KeyIn(c)}
    /\ UNCHANGED <<log, acked, rows, troubles, writes, struck>>

\* The key is unique in webhook_events.  The insert that adds it goes on to the handler;
\* the one that meets it answers, whatever has become of the first.
Insert(c) ==
    /\ At(c, "insert")
    /\ Goto(c, IF KeyIn(c) \in recorded THEN "answer" ELSE "write")
    /\ recorded' = recorded \cup {KeyIn(c)}
    /\ UNCHANGED <<log, acked, rows, troubles, writes, struck>>

Trouble == troubles < MaxTroubles /\ troubles' = troubles + 1

\* The insert fails and the answer is 500; or its answer is lost, and the key is there.
InsertFails(c) ==
    /\ At(c, "insert") /\ Trouble
    /\ \/ UNCHANGED <<recorded, struck>>
       \/ /\ KeyIn(c) \notin recorded
          /\ recorded' = recorded \cup {KeyIn(c)}
          /\ struck' = struck \cup {IdOf(c)}
    /\ Leave(c)
    /\ UNCHANGED <<log, acked, rows, writes>>

\* What begins a subscription is first verified with the provider, or its customer and its
\* plan are looked up, and then upserted; the others are an update, which finds the row
\* under the code or finds none.
Write(c) ==
    /\ At(c, "write")
    /\ LET event == EventIn(c)  s == calls[c].sub
       IN  /\ rows' = IF event.type \in Activating \/ rows[s][event.id] # None
                      THEN [rows EXCEPT ![s][event.id] = Status(event)]
                      ELSE rows
           /\ writes' = [writes EXCEPT ![s] = Append(@, calls[c].event)]
    /\ Goto(c, "answer")
    /\ UNCHANGED <<log, acked, recorded, troubles, struck>>

\* The provider does not confirm or cannot be reached, there is no such customer or plan,
\* or the statement fails: that is logged, and the event is answered with 200 all the same.
WriteFails(c) ==
    /\ At(c, "write") /\ Trouble
    /\ struck' = struck \cup {IdOf(c)}
    /\ Goto(c, "answer")
    /\ UNCHANGED <<log, acked, recorded, rows, writes>>

Answer(c) ==
    /\ At(c, "answer")
    /\ acked' = acked \cup {IdOf(c)}
    /\ Leave(c)
    /\ UNCHANGED <<log, recorded, rows, troubles, writes, struck>>

\* The function dies, or its answer does not arrive.
Die(c) ==
    /\ calls[c] # None /\ Trouble
    /\ struck' = IF At(c, "write") THEN struck \cup {IdOf(c)} ELSE struck
    /\ Leave(c)
    /\ UNCHANGED <<log, acked, recorded, rows, writes>>

Handle(c) == Insert(c) \/ Write(c) \/ Answer(c)

Next ==
    \/ \E s \in Subs : Emit(s)
    \/ \E c \in Calls, s \in Subs : \E n \in DOMAIN log[s] : Deliver(c, s, n)
    \/ \E c \in Calls :
          Handle(c) \/ InsertFails(c) \/ WriteFails(c) \/ Die(c)

Spec == Init /\ [][Next]_vars

\* A handler goes on, and a provider sends what it has no answer for again.
FairSpec ==
    /\ Spec
    /\ \A c \in Calls : WF_vars(Handle(c))
    /\ \A s \in Subs, n \in 1..MaxEvents : WF_vars(\E c \in Calls : Deliver(c, s, n))

-----------------------------------------------------------------------------
(* Properties *)

Types == Activating \cup Renewals \cup
         {"subscription.disable", "subscription.not_renew",
          "invoice.payment_succeeded", "invoice.payment_failed",
          "customer.subscription.updated", "customer.subscription.deleted"}

Told == {"active", "past_due", "canceled", "non-renewing"} \cup StripeUpdates

\* The types, and that every delivery, answer and record is of an event that was emitted.
TypeOK ==
    /\ log \in [Subs -> Seq([type : Types, status : Told, id : {Code, Reference}])]
    /\ acked \subseteq Emitted
    /\ recorded \subseteq {KeyOf(e[1], e[2]) : e \in Emitted}
    /\ rows \in [Subs -> [{Code, Reference} -> Statuses \cup {None}]]
    /\ calls \in [Calls -> {None} \cup Deliveries]
    /\ \A c \in Calls : calls[c] # None => IdOf(c) \in Emitted
    /\ troubles \in 0..MaxTroubles
    /\ writes \in [Subs -> Seq(Nat)]
    /\ struck \subseteq Emitted

Busy(s, n) == \E c \in Calls : At(c, "write") /\ IdOf(c) = <<s, n>>

\* However often an event is delivered, its statement runs at most once; and an event that
\* was answered with 200 has run, unless its handler is still at it or failed between the
\* record and the write: no two events of one subscription pass for each other, and a
\* failed insert loses nothing.
ExactlyOnce ==
    /\ \A s \in Subs : \A i, j \in DOMAIN writes[s] : writes[s][i] = writes[s][j] => i = j
    /\ \A s \in Subs : \A n \in DOMAIN log[s] :
          <<s, n>> \in acked \ struck =>
              Busy(s, n) \/ \E i \in DOMAIN writes[s] : writes[s][i] = n

\* What the readers of the table select by.
Entitled(s) == \E id \in {Code, Reference} : rows[s][id] \in Served

InOrder(s) == \A i, j \in DOMAIN writes[s] : i < j => writes[s][i] < writes[s][j]

\* It has begun, all its events are answered, none was lost or overtaken, and its row is
\* under its code.
Quiet(s) ==
    /\ \E n \in DOMAIN log[s] : log[s][n].type \in Activating
    /\ \A n \in DOMAIN log[s] :
          /\ <<s, n>> \in acked \ struck /\ ~Busy(s, n)
          /\ log[s][n].id = Code
    /\ InOrder(s)

\* A subscription that has gone quiet is served exactly when its provider has it active and
\* will renew it.  One that will not be renewed is active at the provider to the end of
\* the paid period, yet served no more from the notice on: its handler is the one of the end.
ServedIffRenewed ==
    \A s \in Subs : Quiet(s) => (Entitled(s) <=> Truth(s) \in Served)

\* In the end every event is answered: neither a failure nor a death has the provider send
\* one for ever.
EventsAcked == <>[](Emitted \subseteq acked)
=============================================================================
