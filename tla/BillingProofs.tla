--------------------------- MODULE BillingProofs ---------------------------
(* Proofs about the webhooks, for any number of subscriptions, events,     *)
(* deliveries and troubles.                                                *)
EXTENDS Billing, TLAPS

-----------------------------------------------------------------------------
(* Types.                                                                  *)

Events == [type : Types, status : Told, id : {Code, Reference}]

\* What the emitted events are.
LEMMA EmittedIs ==
    \A s, n : <<s, n>> \in Emitted <=> s \in Subs /\ n \in DOMAIN log[s]
  BY DEF Emitted

\* Every emitted event is a subscription with a number.
LEMMA EmittedPairs ==
    ASSUME NEW e \in Emitted
    PROVE  e = <<e[1], e[2]>> /\ e[1] \in Subs /\ e[2] \in DOMAIN log[e[1]]
  BY DEF Emitted

\* A record of a type, a status and an identifier.
LEMMA EventTyped ==
    ASSUME NEW type \in Types, NEW status \in Told, NEW id \in {Code, Reference}
    PROVE  /\ Event(type, status, id) \in Events
           /\ Event(type, status, id).type = type
           /\ Event(type, status, id).status = status
  BY DEF Event, Events

\* What Paystack may tell of.
PaystackTypes == {"charge.success", "subscription.create", "subscription.disable",
                  "subscription.not_renew"} \cup Renewals

\* What Paystack emits: the charge first or after the creation alone, the creation first or
\* after the charge alone, the end as long as there was none, and a notice only before it.
LEMMA PaystackEmits ==
    ASSUME NEW s \in Subs, NEW event \in PaystackEvents(s)
    PROVE  /\ event \in Events
           /\ event.type \in PaystackTypes
           /\ event.type = "subscription.create" =>
                 log[s] = << >> \/ (Happened(s, "charge.success") /\ Len(log[s]) = 1)
           /\ event.type = "subscription.disable" =>
                 event.status = "canceled" /\ Happened(s, "charge.success")
           /\ event.type = "subscription.not_renew" =>
                 event.status = "non-renewing" /\ Happened(s, "charge.success")
           /\ Happened(s, "charge.success") => Truth(s) # "canceled"
           /\ Happened(s, "charge.success") /\ Truth(s) = "non-renewing" =>
                 event.type = "subscription.disable"
           /\ event.status \in {"active", "past_due", "canceled", "non-renewing"}
           /\ event.type \in {"charge.success", "subscription.create"} => event.status = "active"
<1> DEFINE Begun == Happened(s, "charge.success")
           Ended == Truth(s) = "canceled"
           Notice == Truth(s) = "non-renewing"
           Alone == Len(log[s]) = 1
           Fresh == log[s] = << >>
<1>1. /\ event \in IF ~Begun
                   THEN {Event("charge.success", "active", id) : id \in {Code, Reference}}
                        \cup (IF Fresh THEN {Event("subscription.create", "active", Code)} ELSE {})
                   ELSE IF Ended THEN {}
                   ELSE IF Notice THEN {Event("subscription.disable", "canceled", Code)}
                   ELSE (IF Alone THEN {Event("subscription.create", "active", Code)} ELSE {})
                        \cup {Event(type, status, Code) : type \in Renewals,
                                                          status \in {"active", "past_due"}}
                        \cup {Event("subscription.not_renew", "non-renewing", Code),
                              Event("subscription.disable", "canceled", Code)}
  BY DEF PaystackEvents
<1>2. {"active", "past_due", "canceled", "non-renewing"} \subseteq Told
  BY DEF Told
<1>3. /\ PaystackTypes \subseteq Types /\ Renewals \subseteq Types
      /\ \A type \in Renewals : type \in PaystackTypes
      /\ {"charge.success", "subscription.create", "subscription.disable",
          "subscription.not_renew"} \subseteq PaystackTypes
      /\ Renewals \cap {"charge.success", "subscription.create", "subscription.disable",
                        "subscription.not_renew"} = {}
  BY BillingAssumption DEF Types, Activating, PaystackTypes
<1> HIDE DEF Begun, Ended, Notice, Alone, Fresh
<1>4. CASE ~Begun
  <2>1. CASE \E id \in {Code, Reference} : event = Event("charge.success", "active", id)
    <3>1. PICK id \in {Code, Reference} : event = Event("charge.success", "active", id)
      BY <2>1
    <3>2. event \in Events /\ event.type = "charge.success" /\ event.status = "active"
      BY <3>1, <1>2, <1>3, EventTyped
    <3> QED BY <3>2, <1>3, <1>4 DEF Begun
  <2>2. CASE Fresh /\ event = Event("subscription.create", "active", Code)
    <3>1. event \in Events /\ event.type = "subscription.create" /\ event.status = "active"
      BY <2>2, <1>2, <1>3, EventTyped
    <3>2. log[s] = << >> /\ ~Happened(s, "charge.success")
      BY <2>2, <1>4 DEF Begun, Fresh
    <3>3. event.type \notin {"subscription.disable", "subscription.not_renew"}
      BY <3>1
    <3> QED BY <3>1, <3>2, <3>3, <1>3
  <2> QED BY <1>1, <1>4, <2>1, <2>2
<1>5. CASE Begun /\ ~Ended
  <2>1. CASE ~Notice /\ Alone /\ event = Event("subscription.create", "active", Code)
    <3>1. event \in Events /\ event.type = "subscription.create" /\ event.status = "active"
      BY <2>1, <1>2, <1>3, EventTyped
    <3> QED BY <3>1, <2>1, <1>3, <1>5 DEF Begun, Alone, Ended, Notice
  <2>2. CASE ~Notice /\ \E type \in Renewals, status \in {"active", "past_due"} :
                            event = Event(type, status, Code)
    <3>1. PICK type \in Renewals, status \in {"active", "past_due"} :
              event = Event(type, status, Code)
      BY <2>2
    <3>2. event \in Events /\ event.type = type /\ event.status = status
      BY <3>1, <1>2, <1>3, EventTyped
    <3>3. /\ event.type \in PaystackTypes /\ event.type # "subscription.create"
          /\ event.type \notin {"charge.success", "subscription.disable",
                                "subscription.not_renew"}
      BY <3>1, <3>2, <1>3
    <3> QED BY <3>1, <3>2, <3>3, <2>2, <1>5 DEF Begun, Ended, Notice
  <2>3. CASE ~Notice /\ event = Event("subscription.not_renew", "non-renewing", Code)
    <3>1. /\ event \in Events /\ event.type = "subscription.not_renew"
          /\ event.status = "non-renewing"
      BY <2>3, <1>2, <1>3, EventTyped
    <3> QED BY <3>1, <2>3, <1>3, <1>5 DEF Begun, Ended, Notice
  <2>4. CASE event = Event("subscription.disable", "canceled", Code)
    <3>1. /\ event \in Events /\ event.type = "subscription.disable"
          /\ event.status = "canceled"
      BY <2>4, <1>2, <1>3, EventTyped
    <3> QED BY <3>1, <1>3, <1>5 DEF Begun, Ended, Notice
  <2> QED BY <1>1, <1>5, <2>1, <2>2, <2>3, <2>4
<1> QED BY <1>1, <1>4, <1>5

\* What Stripe emits.
LEMMA StripeEmits ==
    ASSUME NEW s \in Subs, NEW event \in StripeEvents(s)
    PROVE  /\ event \in Events
           /\ \/ event.type \in {"checkout.session.completed", "invoice.payment_succeeded"}
                 /\ event.status = "active"
              \/ event.type = "invoice.payment_failed" /\ event.status = "past_due"
              \/ event.type = "customer.subscription.deleted" /\ event.status = "canceled"
              \/ event.type = "customer.subscription.updated"
<1> DEFINE Fits(type, status) ==
        \/ type \in {"checkout.session.completed", "invoice.payment_succeeded"}
           /\ status = "active"
        \/ type = "invoice.payment_failed" /\ status = "past_due"
        \/ type = "customer.subscription.deleted" /\ status = "canceled"
        \/ type = "customer.subscription.updated"
<1>1. \E type \in Types, status \in Told :
         event = Event(type, status, Code) /\ Fits(type, status)
  <2>1. /\ {"checkout.session.completed", "invoice.payment_succeeded",
            "invoice.payment_failed", "customer.subscription.deleted",
            "customer.subscription.updated"} \subseteq Types
        /\ {"active", "past_due", "canceled"} \cup StripeUpdates \subseteq Told
    BY DEF Told, Types, Activating
  <2>2. \/ event = Event("checkout.session.completed", "active", Code)
        \/ event = Event("invoice.payment_succeeded", "active", Code)
        \/ event = Event("invoice.payment_failed", "past_due", Code)
        \/ event = Event("customer.subscription.deleted", "canceled", Code)
        \/ \E st \in StripeUpdates :
              event = Event("customer.subscription.updated", st, Code)
    BY DEF StripeEvents
  <2> QED BY <2>1, <2>2
<1> QED BY <1>1, EventTyped

\* Whatever a provider emits has the type of an event.
LEMMA EventsTyped ==
    ASSUME NEW s \in Subs, NEW event \in EventsOf(s)
    PROVE  event \in Events
  BY PaystackEmits, StripeEmits DEF EventsOf

\* An event that is emitted comes after the others of its subscription, which it leaves as
\* they are.
LEMMA LogGrows ==
    ASSUME TypeOK, NEW s \in Subs, Emit(s)
    PROVE  \E event \in EventsOf(s) :
              /\ event \in Events
              /\ log' \in [Subs -> Seq(Events)]
              /\ DOMAIN log[s] = 1..Len(log[s]) /\ Len(log[s]) \in Nat
              /\ DOMAIN log'[s] = 1..(Len(log[s]) + 1) /\ Len(log'[s]) = Len(log[s]) + 1
              /\ log'[s][Len(log[s]) + 1] = event
              /\ \A n \in DOMAIN log[s] : log'[s][n] = log[s][n]
              /\ \A t \in Subs \ {s} : log'[t] = log[t]
<1>1. PICK event \in EventsOf(s) : log' = [log EXCEPT ![s] = Append(@, event)]
  BY DEF Emit
<1>2. event \in Events
  BY EventsTyped
<1>3. log \in [Subs -> Seq(Events)]
  BY DEF TypeOK, Events
<1> HIDE DEF Events
<1>4. log[s] \in Seq(Events)
  BY <1>3
<1>5. Append(log[s], event) \in Seq(Events)
  BY <1>2, <1>4
<1>6. log'[s] = Append(log[s], event) /\ \A t \in Subs \ {s} : log'[t] = log[t]
  BY <1>1, <1>3
<1>7. log' \in [Subs -> Seq(Events)]
  BY <1>1, <1>3, <1>5
<1>8. /\ DOMAIN log[s] = 1..Len(log[s]) /\ Len(log[s]) \in Nat
      /\ DOMAIN log'[s] = 1..(Len(log[s]) + 1) /\ Len(log'[s]) = Len(log[s]) + 1
      /\ log'[s][Len(log[s]) + 1] = event
      /\ \A n \in DOMAIN log[s] : log'[s][n] = log[s][n]
  BY <1>2, <1>4, <1>6
<1> QED BY <1>2, <1>6, <1>7, <1>8

\* What was emitted stays so, under the same key.
LEMMA KeysStay ==
    ASSUME TypeOK, NEW s \in Subs, Emit(s), NEW t \in Subs, NEW n \in DOMAIN log[t]
    PROVE  n \in DOMAIN log'[t] /\ KeyOf(t, n)' = KeyOf(t, n)
<1>1. n \in DOMAIN log'[t] /\ log'[t][n] = log[t][n]
  BY LogGrows
<1> QED BY <1>1 DEF KeyOf

\* A delivery that goes to another stage.
LEMMA CallMoves ==
    ASSUME TypeOK, NEW c \in Calls, calls[c] # None, NEW st \in Stages, Goto(c, st)
    PROVE  /\ calls' \in [Calls -> {None} \cup Deliveries]
           /\ calls'[c] = [calls[c] EXCEPT !.stage = st]
           /\ calls[c] \in Deliveries /\ calls'[c] \in Deliveries
           /\ calls'[c].sub = calls[c].sub /\ calls'[c].event = calls[c].event
           /\ calls'[c].stage = st
           /\ \A d \in Calls \ {c} : calls'[d] = calls[d]
<1>1. calls \in [Calls -> {None} \cup Deliveries] /\ calls[c] \in Deliveries
  BY DEF TypeOK, Deliveries
<1>2. [calls[c] EXCEPT !.stage = st] \in Deliveries
  BY <1>1 DEF Deliveries
<1>3. calls' = [calls EXCEPT ![c] = [calls[c] EXCEPT !.stage = st]]
  BY DEF Goto
<1>4. calls'[c] = [calls[c] EXCEPT !.stage = st] /\ \A d \in Calls \ {c} : calls'[d] = calls[d]
  BY <1>1, <1>3
<1>5. calls' \in [Calls -> {None} \cup Deliveries]
  BY <1>1, <1>2, <1>3
<1> QED BY <1>1, <1>2, <1>4, <1>5 DEF Deliveries

\* A delivery that is over.
LEMMA CallEnds ==
    ASSUME TypeOK, NEW c \in Calls, Leave(c)
    PROVE  /\ calls' \in [Calls -> {None} \cup Deliveries]
           /\ calls'[c] = None
           /\ \A d \in Calls \ {c} : calls'[d] = calls[d]
  BY DEF TypeOK, Leave, Deliveries

\* The keys that may be recorded, one for every event.
Keys == {KeyOf(e[1], e[2]) : e \in Emitted}

\* A recorded key is that of an event.
LEMMA RecordedKeys ==
    ASSUME TypeOK, NEW k \in recorded
    PROVE  \E s \in Subs : \E n \in DOMAIN log[s] : k = KeyOf(s, n)
<1>1. PICK e \in Emitted : k = KeyOf(e[1], e[2])
  BY DEF TypeOK
<1> QED BY <1>1, EmittedPairs

\* What a delivery is about.
LEMMA CallTyped ==
    ASSUME TypeOK, NEW c \in Calls, calls[c] # None
    PROVE  /\ calls[c] \in Deliveries
           /\ calls[c].sub \in Subs /\ calls[c].event \in DOMAIN log[calls[c].sub]
           /\ IdOf(c) \in Emitted
           /\ calls[c].event \in Nat
<1>1. calls[c] \in Deliveries /\ IdOf(c) \in Emitted
  BY DEF TypeOK, Deliveries
<1>2. <<calls[c].sub, calls[c].event>> \in Emitted
  BY <1>1 DEF IdOf
<1> QED BY <1>1, <1>2, EmittedIs DEF Deliveries

\* What a handler writes is a status.
LEMMA StatusTyped ==
    ASSUME NEW event \in Events
    PROVE  Status(event) \in Statuses
  BY BillingAssumption DEF Status, StatusMap, Statuses, Served, Events, Types

\* A step that emits nothing keeps the types when it keeps each of them.
LEMMA TypeStays ==
    ASSUME TypeOK, UNCHANGED log,
           acked' \subseteq Emitted, recorded' \subseteq Keys,
           rows' \in [Subs -> [{Code, Reference} -> Statuses \cup {None}]],
           calls' \in [Calls -> {None} \cup Deliveries],
           \A c \in Calls : calls'[c] # None => <<calls'[c].sub, calls'[c].event>> \in Emitted,
           troubles' \in 0..MaxTroubles,
           writes' \in [Subs -> Seq(Nat)], struck' \subseteq Emitted
    PROVE  TypeOK'
<1>1. Emitted' = Emitted
  BY DEF Emitted
<1>2. \A e \in Emitted : KeyOf(e[1], e[2])' = KeyOf(e[1], e[2])
  BY DEF KeyOf
<1>3. recorded' \subseteq {KeyOf(e[1], e[2])' : e \in Emitted'}
  BY <1>1, <1>2 DEF Keys
<1>4. \A c \in Calls : calls'[c] # None => IdOf(c)' \in Emitted'
  BY <1>1 DEF IdOf
<1> QED BY <1>1, <1>3, <1>4 DEF TypeOK, Deliveries

\* A function of sequences with one of them longer.
LEMMA WritesGrow ==
    ASSUME TypeOK, NEW s \in Subs, NEW n \in Nat,
           writes' = [writes EXCEPT ![s] = Append(@, n)]
    PROVE  /\ writes' \in [Subs -> Seq(Nat)]
           /\ DOMAIN writes[s] = 1..Len(writes[s]) /\ Len(writes[s]) \in Nat
           /\ DOMAIN writes'[s] = 1..(Len(writes[s]) + 1)
           /\ writes'[s][Len(writes[s]) + 1] = n
           /\ \A i \in DOMAIN writes[s] : writes'[s][i] = writes[s][i]
           /\ \A t \in Subs \ {s} : writes'[t] = writes[t]
<1>1. writes \in [Subs -> Seq(Nat)]
  BY DEF TypeOK
<1>2. writes[s] \in Seq(Nat) /\ Append(writes[s], n) \in Seq(Nat)
  BY <1>1
<1>3. writes'[s] = Append(writes[s], n) /\ \A t \in Subs \ {s} : writes'[t] = writes[t]
  BY <1>1
<1>4. writes' \in [Subs -> Seq(Nat)]
  BY <1>1, <1>2
<1> QED BY <1>2, <1>3, <1>4

\* The types hold at first, and every step keeps them.
LEMMA TypeInit == Init => TypeOK
<1> SUFFICES ASSUME Init PROVE TypeOK
  OBVIOUS
<1>1. log \in [Subs -> Seq([type : Types, status : Told, id : {Code, Reference}])]
  BY DEF Init
<1>2. writes \in [Subs -> Seq(Nat)]
  BY DEF Init
<1>3. troubles \in 0..MaxTroubles
  BY BillingAssumption DEF Init
<1> QED BY <1>1, <1>2, <1>3 DEF Init, TypeOK

\* A provider emits an event of the types it has.
LEMMA TypeEmit ==
    ASSUME TypeOK, NEW s \in Subs, Emit(s)
    PROVE  TypeOK'
<1>1. log' \in [Subs -> Seq(Events)]
  BY LogGrows
<1>2. Emitted \subseteq Emitted'
  <2> SUFFICES ASSUME NEW e \in Emitted PROVE e \in Emitted'
    OBVIOUS
  <2>1. PICK t, n : t \in Subs /\ n \in DOMAIN log[t] /\ e = <<t, n>>
    BY DEF Emitted
  <2>2. n \in DOMAIN log'[t]
    BY <2>1, KeysStay
  <2> QED BY <2>1, <2>2 DEF Emitted
<1>3. recorded' \subseteq {KeyOf(e[1], e[2])' : e \in Emitted'}
  <2> SUFFICES ASSUME NEW k \in recorded PROVE \E e \in Emitted' : k = KeyOf(e[1], e[2])'
    BY DEF Emit
  <2>1. PICK t, n : t \in Subs /\ n \in DOMAIN log[t] /\ k = KeyOf(t, n)
    BY RecordedKeys
  <2>2. k = KeyOf(t, n)' /\ <<t, n>> \in Emitted'
    BY <2>1, <1>2, KeysStay, EmittedIs
  <2>3. KeyOf(<<t, n>>[1], <<t, n>>[2])' = KeyOf(t, n)'
    OBVIOUS
  <2> QED BY <2>2, <2>3
<1>4. /\ acked' = acked /\ rows' = rows /\ calls' = calls /\ troubles' = troubles
      /\ writes' = writes /\ struck' = struck
  BY DEF Emit
<1> QED BY <1>1, <1>2, <1>3, <1>4 DEF TypeOK, Events, IdOf

\* A delivery is of an event that was emitted.
LEMMA TypeDeliver ==
    ASSUME TypeOK, NEW c \in Calls, NEW s \in Subs, NEW n \in DOMAIN log[s], Deliver(c, s, n)
    PROVE  TypeOK'
<1>1. n \in Nat
  BY DEF TypeOK
<1>2. Call(s, n, "insert") \in Deliveries
  BY <1>1 DEF Call, Deliveries, Stages
<1>3. calls' \in [Calls -> {None} \cup Deliveries]
  BY <1>2 DEF Deliver, TypeOK, Deliveries
<1>4. \A d \in Calls : calls'[d] # None => <<calls'[d].sub, calls'[d].event>> \in Emitted
  BY EmittedIs DEF Deliver, TypeOK, Call, IdOf
<1> QED BY <1>3, <1>4, TypeStays DEF Deliver, TypeOK, Keys

\* Whatever a handler does, or fails to do, is about the event it was called with.
LEMMA TypeHandler ==
    ASSUME TypeOK, NEW c \in Calls,
           Handle(c) \/ InsertFails(c) \/ WriteFails(c) \/ Die(c)
    PROVE  TypeOK'
<1>1. calls[c] # None
  BY DEF Handle, Insert, Write, Answer, InsertFails, WriteFails, Die, At
<1>2. IdOf(c) \in Emitted /\ KeyIn(c) \in Keys
  BY <1>1, CallTyped DEF KeyIn, IdOf, Keys
<1>3. ASSUME NEW st \in Stages, Goto(c, st)
      PROVE  /\ calls' \in [Calls -> {None} \cup Deliveries]
             /\ \A d \in Calls : calls'[d] # None =>
                   <<calls'[d].sub, calls'[d].event>> \in Emitted
  <2>1. /\ calls' \in [Calls -> {None} \cup Deliveries]
        /\ calls'[c].sub = calls[c].sub /\ calls'[c].event = calls[c].event
        /\ \A d \in Calls \ {c} : calls'[d] = calls[d]
    BY <1>1, <1>3, CallMoves
  <2>2. \A d \in Calls : calls[d] # None => <<calls[d].sub, calls[d].event>> \in Emitted
    BY DEF TypeOK, IdOf
  <2> QED BY <1>1, <2>1, <2>2
<1>4. ASSUME Leave(c)
      PROVE  /\ calls' \in [Calls -> {None} \cup Deliveries]
             /\ \A d \in Calls : calls'[d] # None =>
                   <<calls'[d].sub, calls'[d].event>> \in Emitted
  BY <1>4, CallEnds DEF TypeOK, IdOf
<1>5. ASSUME Trouble PROVE troubles' \in 0..MaxTroubles
  BY <1>5, BillingAssumption DEF Trouble, TypeOK
<1>6. /\ acked \subseteq Emitted /\ recorded \subseteq Keys /\ struck \subseteq Emitted
      /\ rows \in [Subs -> [{Code, Reference} -> Statuses \cup {None}]]
      /\ troubles \in 0..MaxTroubles /\ writes \in [Subs -> Seq(Nat)]
  BY DEF TypeOK, Keys
<1>7. CASE Insert(c)
  <2>1. \E st \in Stages : Goto(c, st)
    BY <1>7 DEF Insert, Stages
  <2> QED BY <1>2, <1>3, <1>6, <1>7, <2>1, TypeStays DEF Insert
<1>8. CASE InsertFails(c)
  BY <1>2, <1>4, <1>5, <1>6, <1>8, TypeStays DEF InsertFails
<1>9. CASE Write(c)
  <2> DEFINE event == EventIn(c)
             s == calls[c].sub
  <2>1. event \in Events /\ s \in Subs /\ calls[c].event \in Nat
    <3>1. log \in [Subs -> Seq(Events)]
      BY DEF TypeOK, Events
    <3>2. s \in Subs /\ calls[c].event \in DOMAIN log[s] /\ calls[c].event \in Nat
      BY <1>1, CallTyped
    <3>3. log[s] \in Seq(Events)
      BY <3>1, <3>2
    <3>4. log[s][calls[c].event] \in Events
      BY <3>2, <3>3
    <3> QED BY <3>2, <3>4 DEF EventIn
  <2>2. writes' \in [Subs -> Seq(Nat)]
    BY <1>9, <2>1, WritesGrow DEF Write
  <2>3. Status(event) \in Statuses /\ event.id \in {Code, Reference}
    BY <2>1, StatusTyped DEF Events
  <2>4. rows' = rows \/ rows' = [rows EXCEPT ![s][event.id] = Status(event)]
    BY <1>9 DEF Write
  <2>5. rows' \in [Subs -> [{Code, Reference} -> Statuses \cup {None}]]
    <3> DEFINE id == event.id
               st == Status(event)
    <3>1. id \in {Code, Reference} /\ st \in Statuses
      BY <2>3
    <3>2. rows' = rows \/ rows' = [rows EXCEPT ![s][id] = st]
      BY <2>4
    <3> HIDE DEF event, s, id, st
    <3>3. rows[s] \in [{Code, Reference} -> Statuses \cup {None}]
      BY <1>6, <2>1
    <3>4. [rows[s] EXCEPT ![id] = st] \in [{Code, Reference} -> Statuses \cup {None}]
      BY <3>1, <3>3
    <3>5. rows' = rows \/ rows' = [rows EXCEPT ![s] = [rows[s] EXCEPT ![id] = st]]
      BY <3>2
    <3> QED BY <1>6, <2>1, <3>4, <3>5
  <2>6. Goto(c, "answer") /\ "answer" \in Stages
    BY <1>9 DEF Write, Stages
  <2> QED BY <1>3, <1>6, <1>9, <2>2, <2>5, <2>6, TypeStays DEF Write
<1>10. CASE WriteFails(c)
  <2>1. Goto(c, "answer") /\ "answer" \in Stages
    BY <1>10 DEF WriteFails, Stages
  <2> QED BY <1>2, <1>3, <1>5, <1>6, <1>10, <2>1, TypeStays DEF WriteFails
<1>11. CASE Answer(c)
  BY <1>2, <1>4, <1>6, <1>11, TypeStays DEF Answer
<1>12. CASE Die(c)
  <2>1. struck' \subseteq Emitted
    BY <1>2, <1>6, <1>12 DEF Die
  <2> QED BY <1>4, <1>5, <1>6, <1>12, <2>1, TypeStays DEF Die
<1> QED BY <1>7, <1>8, <1>9, <1>10, <1>11, <1>12 DEF Handle

\* Every step keeps the types.
LEMMA TypeStep == TypeOK /\ [Next]_vars => TypeOK'
<1> SUFFICES ASSUME TypeOK, [Next]_vars PROVE TypeOK'
  OBVIOUS
<1>1. CASE UNCHANGED vars
  <2>1. UNCHANGED <<log, acked, recorded, rows, calls, troubles, writes, struck>>
    BY <1>1 DEF vars
  <2> QED BY <2>1, TypeStays DEF TypeOK, Keys, Deliveries, IdOf
<1> QED BY <1>1, TypeEmit, TypeDeliver, TypeHandler DEF Next

\* The webhooks are well typed: no handler answers or records what was never sent.
THEOREM TypeCorrect == Spec => []TypeOK
  BY TypeInit, TypeStep, PTL DEF Spec

-----------------------------------------------------------------------------
(* Keys: no two events of the providers have the same.                     *)

\* Of the events without a number Paystack emits one of each at most: one creation, one
\* notice, after which there is nothing but the end, and one end, after which there is nothing.
Grammar ==
    \A s \in Paystack :
        /\ \A n \in DOMAIN log[s] : log[s][n].type \in PaystackTypes
        /\ \A n, m \in DOMAIN log[s] :
              log[s][n].type = "subscription.create" /\ log[s][m].type = "subscription.create"
                  => n = m
        /\ \A n \in DOMAIN log[s] :
              log[s][n].type = "subscription.disable" =>
                  /\ n = Len(log[s]) /\ log[s][n].status = "canceled"
                  /\ Happened(s, "charge.success")
        /\ \A n, m \in DOMAIN log[s] :
              /\ log[s][n].type = "subscription.not_renew"
              /\ log[s][m].type = "subscription.not_renew"
              => n = m
        /\ \A n \in DOMAIN log[s] :
              log[s][n].type = "subscription.not_renew" =>
                  /\ Happened(s, "charge.success")
                  /\ \/ n = Len(log[s]) /\ log[s][n].status = "non-renewing"
                     \/ log[s][Len(log[s])].type = "subscription.disable"

\* No log has an event at first.
LEMMA GrammarInit == Init => Grammar
  BY DEF Init, Grammar, Subs

\* A charge that happened did so for good.
LEMMA HappenedStays ==
    ASSUME TypeOK, NEW s \in Subs, Emit(s), NEW t \in Subs, Happened(t, "charge.success")
    PROVE  Happened(t, "charge.success")'
<1>1. PICK n \in DOMAIN log[t] : log[t][n].type = "charge.success"
  BY DEF Happened
<1>2. n \in DOMAIN log'[t] /\ log'[t][n] = log[t][n]
  BY LogGrows
<1> QED BY <1>1, <1>2 DEF Happened

\* An event that is emitted fits the ones before it.
LEMMA GrammarStep == TypeOK /\ Grammar /\ [Next]_vars => Grammar'
<1> SUFFICES ASSUME TypeOK, Grammar, [Next]_vars PROVE Grammar'
  OBVIOUS
<1>1. CASE UNCHANGED log
  BY <1>1 DEF Grammar, Happened
<1>2. ASSUME NEW s \in Subs, Emit(s) PROVE Grammar'
  <2> SUFFICES ASSUME NEW t \in Paystack
               PROVE  /\ \A n \in DOMAIN log'[t] :
                            log'[t][n].type \in PaystackTypes
                      /\ \A n, m \in DOMAIN log'[t] :
                            /\ log'[t][n].type = "subscription.create"
                            /\ log'[t][m].type = "subscription.create"
                            => n = m
                      /\ \A n \in DOMAIN log'[t] :
                            log'[t][n].type = "subscription.disable" =>
                                /\ n = Len(log'[t]) /\ log'[t][n].status = "canceled"
                                /\ Happened(t, "charge.success")'
                      /\ \A n, m \in DOMAIN log'[t] :
                            /\ log'[t][n].type = "subscription.not_renew"
                            /\ log'[t][m].type = "subscription.not_renew"
                            => n = m
                      /\ \A n \in DOMAIN log'[t] :
                            log'[t][n].type = "subscription.not_renew" =>
                                /\ Happened(t, "charge.success")'
                                /\ \/ /\ n = Len(log'[t])
                                      /\ log'[t][n].status = "non-renewing"
                                   \/ log'[t][Len(log'[t])].type = "subscription.disable"
    BY DEF Grammar
  <2>1. t \in Subs
    BY DEF Subs
  <2>2. CASE t # s
    <3>1. log'[t] = log[t]
      BY <1>2, <2>1, <2>2, LogGrows
    <3> QED BY <1>2, <2>1, <3>1, HappenedStays DEF Grammar
  <2>3. CASE t = s
    <3>1. PICK event \in EventsOf(s) :
             /\ DOMAIN log[s] = 1..Len(log[s]) /\ Len(log[s]) \in Nat
             /\ DOMAIN log'[s] = 1..(Len(log[s]) + 1) /\ Len(log'[s]) = Len(log[s]) + 1
             /\ log'[s][Len(log[s]) + 1] = event
             /\ \A n \in DOMAIN log[s] : log'[s][n] = log[s][n]
      BY <1>2, LogGrows
    <3>2. event \in PaystackEvents(s)
      BY <2>3 DEF EventsOf
    <3>3. /\ event.type \in PaystackTypes
          /\ event.type = "subscription.create" =>
                log[s] = << >> \/ (Happened(s, "charge.success") /\ Len(log[s]) = 1)
          /\ event.type = "subscription.disable" =>
                event.status = "canceled" /\ Happened(s, "charge.success")
          /\ event.type = "subscription.not_renew" =>
                event.status = "non-renewing" /\ Happened(s, "charge.success")
          /\ Happened(s, "charge.success") => Truth(s) # "canceled"
          /\ Happened(s, "charge.success") /\ Truth(s) = "non-renewing" =>
                event.type = "subscription.disable"
      BY <3>2, PaystackEmits
    <3>4. \A n \in DOMAIN log[s] : log[s][n].type # "subscription.disable"
      BY <2>3, <3>3 DEF Grammar, Truth
    <3>5. event.type = "subscription.create" =>
             \A n \in DOMAIN log[s] : log[s][n].type # "subscription.create"
      <4> SUFFICES ASSUME event.type = "subscription.create", NEW n \in DOMAIN log[s]
                   PROVE  log[s][n].type # "subscription.create"
        OBVIOUS
      <4>1. Happened(s, "charge.success") /\ Len(log[s]) = 1
        BY <3>1, <3>3
      <4>2. PICK m \in DOMAIN log[s] : log[s][m].type = "charge.success"
        BY <4>1 DEF Happened
      <4>3. m = n
        BY <3>1, <4>1
      <4> QED BY <4>2, <4>3
    <3>6. \A n \in DOMAIN log'[s] : n \in DOMAIN log[s] \/ n = Len(log[s]) + 1
      BY <3>1
    <3>7. Happened(s, "charge.success") => Happened(s, "charge.success")'
      BY <1>2, HappenedStays
    <3>8. \A n \in DOMAIN log'[s] :
             log'[s][n].type \in PaystackTypes
      BY <2>3, <3>1, <3>3, <3>6 DEF Grammar
    <3>9. \A n, m \in DOMAIN log'[s] :
             /\ log'[s][n].type = "subscription.create"
             /\ log'[s][m].type = "subscription.create"
             => n = m
      BY <2>3, <3>1, <3>5, <3>6 DEF Grammar
    <3>10. \A n \in DOMAIN log'[s] :
              log'[s][n].type = "subscription.disable" =>
                  /\ n = Len(log'[s]) /\ log'[s][n].status = "canceled"
                  /\ Happened(s, "charge.success")'
      BY <3>1, <3>3, <3>4, <3>6, <3>7
    <3>11. \A n \in DOMAIN log[s] :
              log[s][n].type = "subscription.not_renew" => event.type = "subscription.disable"
      <4> SUFFICES ASSUME NEW n \in DOMAIN log[s],
                          log[s][n].type = "subscription.not_renew"
                   PROVE  event.type = "subscription.disable"
        OBVIOUS
      <4>1. /\ Happened(s, "charge.success")
            /\ \/ n = Len(log[s]) /\ log[s][n].status = "non-renewing"
               \/ log[s][Len(log[s])].type = "subscription.disable"
        BY <2>3 DEF Grammar
      <4>2. Len(log[s]) \in DOMAIN log[s]
        BY <3>1
      <4> QED BY <3>3, <3>4, <4>1, <4>2 DEF Truth
    <3>12. \A n, m \in DOMAIN log'[s] :
              /\ log'[s][n].type = "subscription.not_renew"
              /\ log'[s][m].type = "subscription.not_renew"
              => n = m
      BY <2>3, <3>1, <3>6, <3>11 DEF Grammar
    <3>13. \A n \in DOMAIN log'[s] :
              log'[s][n].type = "subscription.not_renew" =>
                  /\ Happened(s, "charge.success")'
                  /\ \/ n = Len(log'[s]) /\ log'[s][n].status = "non-renewing"
                     \/ log'[s][Len(log'[s])].type = "subscription.disable"
      <4> SUFFICES ASSUME NEW n \in DOMAIN log'[s],
                          log'[s][n].type = "subscription.not_renew"
                   PROVE  /\ Happened(s, "charge.success")'
                          /\ \/ n = Len(log'[s]) /\ log'[s][n].status = "non-renewing"
                             \/ log'[s][Len(log'[s])].type = "subscription.disable"
        OBVIOUS
      <4>1. CASE n = Len(log[s]) + 1
        BY <3>1, <3>3, <3>7, <4>1
      <4>2. CASE n \in DOMAIN log[s]
        <5>1. log[s][n].type = "subscription.not_renew"
          BY <3>1, <4>2
        <5>2. Happened(s, "charge.success")
          BY <2>3, <4>2, <5>1 DEF Grammar
        <5> QED BY <3>1, <3>7, <3>11, <4>2, <5>1, <5>2
      <4> QED BY <3>6, <4>1, <4>2
    <3> QED BY <2>3, <3>8, <3>9, <3>10, <3>12, <3>13
  <2> QED BY <2>2, <2>3
<1>3. [Next]_vars => UNCHANGED log \/ \E s \in Subs : Emit(s)
  BY DEF Next, vars, Deliver, Handle, Insert, Write, Answer, InsertFails, WriteFails, Die
<1> QED BY <1>1, <1>2, <1>3

\* A key is that of one event.
LEMMA KeysDiffer ==
    ASSUME TypeOK, Grammar,
           NEW s \in Subs, NEW n \in DOMAIN log[s], NEW t \in Subs, NEW m \in DOMAIN log[t],
           KeyOf(s, n) = KeyOf(t, m)
    PROVE  s = t /\ n = m
<1>1. s = t
  BY DEF KeyOf
<1>2. CASE s \in Stripe
  BY <1>1, <1>2 DEF KeyOf
<1>3. CASE s \notin Stripe
  <2>1. s \in Paystack
    BY <1>3 DEF Subs
  <2> DEFINE a == log[s][n].type
             b == log[s][m].type
  <2>2. /\ a \in PaystackTypes /\ b \in PaystackTypes
        /\ a = "subscription.not_renew" /\ b = "subscription.not_renew" => n = m
        /\ a = "subscription.create" /\ b = "subscription.create" => n = m
        /\ a = "subscription.disable" /\ b = "subscription.disable" => n = m
    BY <1>1, <2>1 DEF Grammar
  <2>3. /\ KeyOf(s, n) = IF a = "charge.success" THEN <<s, "reference", n>>
                         ELSE IF a \in Renewals THEN <<s, a, n>> ELSE <<s, a, 0>>
        /\ KeyOf(s, m) = IF b = "charge.success" THEN <<s, "reference", m>>
                         ELSE IF b \in Renewals THEN <<s, b, m>> ELSE <<s, b, 0>>
    BY <1>3 DEF KeyOf
  <2>4. Renewals \subseteq {"subscription.charge", "invoice.update"}
    BY BillingAssumption
  <2> HIDE DEF a, b
  <2> QED BY <1>1, <2>2, <2>3, <2>4 DEF PaystackTypes
<1> QED BY <1>1, <1>2, <1>3

\* All of them.
KeysOwn ==
    \A s, t \in Subs : \A n \in DOMAIN log[s] : \A m \in DOMAIN log[t] :
        KeyOf(s, n) = KeyOf(t, m) => s = t /\ n = m

\* Two events of logs that follow the grammar never share a key (dedupeKey).
LEMMA KeysOwnHold == TypeOK /\ Grammar => KeysOwn
  BY KeysDiffer DEF KeysOwn

-----------------------------------------------------------------------------
(* Every event once.                                                       *)

Done(s, n) == \E i \in DOMAIN writes[s] : writes[s][i] = n
Known(s, n) == KeyOf(s, n) \in recorded
Writing(c, s, n) == At(c, "write") /\ calls[c].sub = s /\ calls[c].event = n

\* No event is written twice.
Distinct ==
    \A s \in Subs : \A i, j \in DOMAIN writes[s] : writes[s][i] = writes[s][j] => i = j

\* Between the record and the write there is one handler, and the write is still to come.
OneWriter ==
    \A c \in Calls, s \in Subs, n \in Nat : Writing(c, s, n) =>
        /\ Known(s, n) /\ ~Done(s, n)
        /\ \A d \in Calls : Writing(d, s, n) => d = c

\* A recorded event is with its handler, has been written or was lost.
Accounted ==
    \A s \in Subs : \A n \in DOMAIN log[s] :
        Known(s, n) => Done(s, n) \/ <<s, n>> \in struck \/ \E c \in Calls : Writing(c, s, n)

\* What was written, is answered or is about to be answered has been recorded.
Recorded ==
    /\ \A s \in Subs, n \in Nat : Done(s, n) => n \in DOMAIN log[s] /\ Known(s, n)
    /\ \A s \in Subs : \A n \in DOMAIN log[s] : <<s, n>> \in acked => Known(s, n)
    /\ \A c \in Calls : At(c, "answer") => Known(calls[c].sub, calls[c].event)

Once == Distinct /\ OneWriter /\ Accounted /\ Recorded

\* At first nothing is recorded or written.
LEMMA OnceInit == Init => Once
  BY DEF Init, Once, Distinct, OneWriter, Accounted, Recorded, Done, Known, Writing, At

\* Where the deliveries are once one has gone on.
LEMMA Moved ==
    ASSUME TypeOK, NEW c \in Calls, calls[c] # None, NEW st \in Stages, Goto(c, st)
    PROVE  /\ \A d \in Calls, x \in Stages : At(d, x)' <=> IF d = c THEN x = st ELSE At(d, x)
           /\ \A d \in Calls : calls'[d].sub = calls[d].sub /\ calls'[d].event = calls[d].event
<1>1. /\ calls'[c] # None /\ calls'[c].stage = st
      /\ calls'[c].sub = calls[c].sub /\ calls'[c].event = calls[c].event
      /\ \A d \in Calls \ {c} : calls'[d] = calls[d]
  BY CallMoves, BillingAssumption
<1> QED BY <1>1 DEF At

\* Where they are once one has left.
LEMMA Left ==
    ASSUME TypeOK, NEW c \in Calls, Leave(c)
    PROVE  /\ \A d \in Calls, x \in Stages : At(d, x)' <=> d # c /\ At(d, x)
           /\ \A d \in Calls \ {c} : calls'[d].sub = calls[d].sub
                                     /\ calls'[d].event = calls[d].event
<1>1. calls'[c] = None /\ \A d \in Calls \ {c} : calls'[d] = calls[d]
  BY CallEnds
<1> QED BY <1>1 DEF At

\* A new event has a key of its own, which nobody has recorded.
LEMMA OnceEmit ==
    ASSUME TypeOK, KeysOwn', Once, NEW s \in Subs, Emit(s)
    PROVE  Once'
<1>1. /\ acked' = acked /\ recorded' = recorded /\ calls' = calls /\ writes' = writes
      /\ struck' = struck
  BY DEF Emit
<1>2. \A t \in Subs : \A n \in DOMAIN log[t] :
         n \in DOMAIN log'[t] /\ KeyOf(t, n)' = KeyOf(t, n)
  BY KeysStay
<1>3. \A t \in Subs : \A n \in DOMAIN log'[t] : Known(t, n)' => n \in DOMAIN log[t]
  <2> SUFFICES ASSUME NEW t \in Subs, NEW n \in DOMAIN log'[t], Known(t, n)'
               PROVE  n \in DOMAIN log[t]
    OBVIOUS
  <2>1. KeyOf(t, n)' \in recorded
    BY <1>1 DEF Known
  <2>2. PICK u \in Subs : \E m \in DOMAIN log[u] : KeyOf(t, n)' = KeyOf(u, m)
    BY <2>1, RecordedKeys
  <2>3. PICK m \in DOMAIN log[u] : KeyOf(t, n)' = KeyOf(u, m)
    BY <2>2
  <2>4. m \in DOMAIN log'[u] /\ KeyOf(t, n)' = KeyOf(u, m)'
    BY <1>2, <2>3
  <2>5. t = u /\ n = m
    BY <2>4 DEF KeysOwn
  <2> QED BY <2>3, <2>5
<1>4. \A t \in Subs : \A n \in DOMAIN log[t] : Known(t, n)' <=> Known(t, n)
  BY <1>1, <1>2 DEF Known
<1>5. \A t \in Subs, n \in Nat : Done(t, n)' <=> Done(t, n)
  BY <1>1 DEF Done
<1>6. \A c \in Calls, t \in Subs, n \in Nat : Writing(c, t, n)' <=> Writing(c, t, n)
  BY <1>1 DEF Writing, At
<1>7. \A t \in Subs : \A n \in DOMAIN log[t] : n \in Nat
  BY DEF TypeOK
<1>8. Distinct'
  BY <1>1 DEF Once, Distinct
<1>9. OneWriter'
  <2> SUFFICES ASSUME NEW c \in Calls, NEW t \in Subs, NEW n \in Nat, Writing(c, t, n)
               PROVE  /\ Known(t, n)' /\ ~Done(t, n)
                      /\ \A d \in Calls : Writing(d, t, n) => d = c
    BY <1>5, <1>6 DEF OneWriter
  <2>1. n \in DOMAIN log[t]
    BY CallTyped DEF Writing, At
  <2> QED BY <1>4, <2>1 DEF Once, OneWriter
<1>10. Accounted'
  BY <1>1, <1>3, <1>4, <1>5, <1>6, <1>7 DEF Once, Accounted
<1>11. Recorded'
  <2>1. \A t \in Subs, n \in Nat : Done(t, n)' => n \in DOMAIN log'[t] /\ Known(t, n)'
    BY <1>2, <1>4, <1>5 DEF Once, Recorded
  <2>2. \A t \in Subs : \A n \in DOMAIN log'[t] : <<t, n>> \in acked => Known(t, n)'
    <3> SUFFICES ASSUME NEW t \in Subs, NEW n \in DOMAIN log'[t], <<t, n>> \in acked
                 PROVE  Known(t, n)'
      OBVIOUS
    <3>1. n \in DOMAIN log[t]
      BY EmittedIs DEF TypeOK
    <3> QED BY <1>4, <3>1 DEF Once, Recorded
  <2>3. \A c \in Calls : At(c, "answer") => Known(calls[c].sub, calls[c].event)'
    <3> SUFFICES ASSUME NEW c \in Calls, At(c, "answer")
                 PROVE  Known(calls[c].sub, calls[c].event)'
      OBVIOUS
    <3>1. calls[c].sub \in Subs /\ calls[c].event \in DOMAIN log[calls[c].sub]
      BY CallTyped DEF At
    <3>2. Known(calls[c].sub, calls[c].event)
      BY DEF Once, Recorded
    <3>3. KeyOf(calls[c].sub, calls[c].event)' = KeyOf(calls[c].sub, calls[c].event)
      BY <1>1, <1>2, <3>1 DEF KeyOf
    <3> QED BY <1>1, <3>2, <3>3 DEF Known
  <2> QED BY <1>1, <2>1, <2>2, <2>3 DEF Recorded, At
<1> QED BY <1>8, <1>9, <1>10, <1>11 DEF Once

\* A delivery that begins writes nothing yet.
LEMMA OnceDeliver ==
    ASSUME TypeOK, Once, NEW c \in Calls, NEW s \in Subs, NEW n \in DOMAIN log[s],
           Deliver(c, s, n)
    PROVE  Once'
<1>1. /\ log' = log /\ acked' = acked /\ recorded' = recorded /\ writes' = writes
      /\ struck' = struck
  BY DEF Deliver
<1>2. /\ calls[c] = None /\ calls'[c].stage = "insert"
      /\ \A d \in Calls \ {c} : calls'[d] = calls[d]
  BY DEF Deliver, TypeOK, Call
<1>3. \A d \in Calls : /\ At(d, "write")' <=> At(d, "write")
                       /\ At(d, "answer")' <=> At(d, "answer")
                       /\ At(d, "write") \/ At(d, "answer") => calls'[d] = calls[d]
  BY <1>2 DEF At
<1>4. \A d \in Calls, t \in Subs, m \in Nat : Writing(d, t, m)' <=> Writing(d, t, m)
  BY <1>3 DEF Writing
<1>5. \A t, m : (Known(t, m)' <=> Known(t, m)) /\ (Done(t, m)' <=> Done(t, m))
  BY <1>1 DEF Known, KeyOf, Done
<1>6. \A t \in Subs : \A m \in DOMAIN log[t] : m \in Nat
  BY DEF TypeOK
<1>7. Distinct' /\ OneWriter'
  BY <1>1, <1>4, <1>5 DEF Once, Distinct, OneWriter
<1>8. Accounted'
  BY <1>1, <1>4, <1>5, <1>6 DEF Once, Accounted
<1>9. Recorded'
  BY <1>1, <1>3, <1>5 DEF Once, Recorded
<1> QED BY <1>7, <1>8, <1>9 DEF Once

\* The first insert of an event begins its handler, and there is no other.
LEMMA OnceInsert ==
    ASSUME TypeOK, KeysOwn, Once, NEW c \in Calls, Insert(c)
    PROVE  Once'
<1> DEFINE s == calls[c].sub
           n == calls[c].event
<1>1. /\ log' = log /\ acked' = acked /\ writes' = writes /\ struck' = struck
      /\ recorded' = recorded \cup {KeyOf(s, n)}
      /\ At(c, "insert") /\ calls[c] # None
  BY DEF Insert, KeyIn, At
<1>2. s \in Subs /\ n \in DOMAIN log[s] /\ n \in Nat
  BY <1>1, CallTyped
<1>3. \A t, m : Known(t, m)' <=> Known(t, m) \/ KeyOf(t, m) = KeyOf(s, n)
  BY <1>1 DEF Known, KeyOf
<1>4. \A t, m : Done(t, m)' <=> Done(t, m)
  BY <1>1 DEF Done
<1>5. \A t \in Subs : \A m \in DOMAIN log[t] : m \in Nat
  BY DEF TypeOK
<1>6. Distinct'
  BY <1>1 DEF Once, Distinct
<1>7. CASE Known(s, n)
  <2>1. Goto(c, "answer") /\ recorded' = recorded
    BY <1>1, <1>7 DEF Insert, Known, KeyIn
  <2>2. /\ \A d \in Calls : At(d, "write")' <=> At(d, "write")
        /\ \A d \in Calls : At(d, "answer")' => d = c \/ At(d, "answer")
        /\ \A d \in Calls : calls'[d].sub = calls[d].sub /\ calls'[d].event = calls[d].event
    BY <1>1, <2>1, Moved DEF Stages, At
  <2>3. \A d \in Calls : \A t, m : Writing(d, t, m)' <=> Writing(d, t, m)
    BY <2>2 DEF Writing
  <2>4. \A t, m : Known(t, m)' <=> Known(t, m)
    BY <1>1, <2>1 DEF Known, KeyOf
  <2>5. OneWriter' /\ Accounted'
    BY <1>1, <1>4, <1>5, <2>3, <2>4 DEF Once, OneWriter, Accounted
  <2>6. Recorded'
    <3>1. \A d \in Calls : At(d, "answer")' => Known(calls[d].sub, calls[d].event)
      BY <1>7, <2>2 DEF Once, Recorded
    <3> QED BY <1>1, <1>4, <2>2, <2>4, <3>1 DEF Once, Recorded
  <2> QED BY <1>6, <2>5, <2>6 DEF Once
<1>8. CASE ~Known(s, n)
  <2>1. Goto(c, "write")
    BY <1>8 DEF Insert, Known, KeyIn
  <2>2. /\ \A d \in Calls : At(d, "write")' <=> d = c \/ At(d, "write")
        /\ \A d \in Calls : At(d, "answer")' => At(d, "answer")
        /\ \A d \in Calls : calls'[d].sub = calls[d].sub /\ calls'[d].event = calls[d].event
    BY <1>1, <2>1, Moved DEF Stages
  <2>3. \A d \in Calls : \A t, m :
           Writing(d, t, m)' <=> (d = c /\ t = s /\ m = n) \/ Writing(d, t, m)
    BY <1>1, <2>2 DEF Writing, At
  <2>4. ~Done(s, n) /\ \A d \in Calls : ~Writing(d, s, n)
    BY <1>2, <1>8 DEF Once, Recorded, OneWriter
  <2>5. \A t \in Subs : \A m \in DOMAIN log[t] :
           KeyOf(t, m) = KeyOf(s, n) => t = s /\ m = n
    BY <1>2 DEF KeysOwn
  <2>6. OneWriter'
    <3> SUFFICES ASSUME NEW d \in Calls, NEW t \in Subs, NEW m \in Nat, Writing(d, t, m)'
                 PROVE  /\ Known(t, m)' /\ ~Done(t, m)'
                        /\ \A e \in Calls : Writing(e, t, m)' => e = d
      BY DEF OneWriter
    <3>1. CASE d = c /\ t = s /\ m = n
      BY <1>3, <1>4, <2>3, <2>4, <3>1
    <3>2. CASE Writing(d, t, m)
      BY <1>3, <1>4, <2>3, <2>4, <3>2 DEF Once, OneWriter
    <3> QED BY <2>3, <3>1, <3>2
  <2>7. Accounted'
    <3> SUFFICES ASSUME NEW t \in Subs, NEW m \in DOMAIN log[t], Known(t, m)'
                 PROVE  \/ Done(t, m)' \/ <<t, m>> \in struck
                        \/ \E d \in Calls : Writing(d, t, m)'
      BY <1>1 DEF Accounted
    <3> QED BY <1>3, <1>4, <2>3, <2>5 DEF Once, Accounted
  <2>8. Recorded'
    BY <1>1, <1>3, <1>4, <2>2 DEF Once, Recorded
  <2> QED BY <1>6, <2>6, <2>7, <2>8 DEF Once
<1> QED BY <1>7, <1>8

\* A handler that writes is the one of its event, whose first write this is.
LEMMA OnceWrite ==
    ASSUME TypeOK, Once, NEW c \in Calls, Write(c)
    PROVE  Once'
<1> DEFINE s == calls[c].sub
           n == calls[c].event
<1>1. /\ log' = log /\ acked' = acked /\ recorded' = recorded /\ struck' = struck
      /\ At(c, "write") /\ calls[c] # None /\ Goto(c, "answer")
      /\ writes' = [writes EXCEPT ![s] = Append(@, n)]
  BY DEF Write, At
<1>2. s \in Subs /\ n \in DOMAIN log[s] /\ n \in Nat
  BY <1>1, CallTyped
<1>3. Writing(c, s, n)
  BY <1>1 DEF Writing
<1>4. Known(s, n) /\ ~Done(s, n) /\ \A d \in Calls : Writing(d, s, n) => d = c
  BY <1>2, <1>3 DEF Once, OneWriter
<1>5. \A t, m : Known(t, m)' <=> Known(t, m)
  BY <1>1 DEF Known, KeyOf
<1>6. /\ DOMAIN writes[s] = 1..Len(writes[s]) /\ Len(writes[s]) \in Nat
      /\ DOMAIN writes'[s] = 1..(Len(writes[s]) + 1)
      /\ writes'[s][Len(writes[s]) + 1] = n
      /\ \A i \in DOMAIN writes[s] : writes'[s][i] = writes[s][i]
      /\ \A t \in Subs \ {s} : writes'[t] = writes[t]
  BY <1>1, <1>2, WritesGrow
<1>7. \A i \in DOMAIN writes'[s] : i \in DOMAIN writes[s] \/ i = Len(writes[s]) + 1
  BY <1>6
<1>8. \A t \in Subs, m \in Nat : Done(t, m)' <=> Done(t, m) \/ (t = s /\ m = n)
  <2> SUFFICES ASSUME NEW t \in Subs, NEW m \in Nat
               PROVE  Done(t, m)' <=> Done(t, m) \/ (t = s /\ m = n)
    OBVIOUS
  <2>1. CASE t # s
    BY <1>6, <2>1 DEF Done
  <2>2. CASE t = s
    <3>1. Len(writes[s]) + 1 \in DOMAIN writes'[s]
          /\ \A i \in DOMAIN writes[s] : i \in DOMAIN writes'[s]
      BY <1>6
    <3> QED BY <1>6, <1>7, <2>2, <3>1 DEF Done
  <2> QED BY <2>1, <2>2
<1>9. Distinct'
  <2> SUFFICES ASSUME NEW t \in Subs, NEW i \in DOMAIN writes'[t], NEW j \in DOMAIN writes'[t],
                      writes'[t][i] = writes'[t][j]
               PROVE  i = j
    BY DEF Distinct
  <2>1. CASE t # s
    BY <1>6, <2>1 DEF Once, Distinct
  <2>2. CASE t = s
    <3>1. \A k \in DOMAIN writes[s] : writes[s][k] # n
      BY <1>4 DEF Done
    <3>2. \A k, l \in DOMAIN writes[s] : writes[s][k] = writes[s][l] => k = l
      BY <1>2 DEF Once, Distinct
    <3>3. CASE i \in DOMAIN writes[s] /\ j \in DOMAIN writes[s]
      BY <1>6, <2>2, <3>2, <3>3
    <3>4. CASE i = Len(writes[s]) + 1 \/ j = Len(writes[s]) + 1
      BY <1>6, <1>7, <2>2, <3>1, <3>4
    <3> QED BY <1>7, <2>2, <3>3, <3>4
  <2> QED BY <2>1, <2>2
<1>10. /\ \A d \in Calls : At(d, "write")' <=> d # c /\ At(d, "write")
       /\ \A d \in Calls : At(d, "answer")' <=> d = c \/ At(d, "answer")
       /\ \A d \in Calls : calls'[d].sub = calls[d].sub /\ calls'[d].event = calls[d].event
  BY <1>1, Moved DEF Stages
<1>11. \A d \in Calls : \A t, m : Writing(d, t, m)' <=> d # c /\ Writing(d, t, m)
  BY <1>10 DEF Writing
<1>12. OneWriter'
  BY <1>4, <1>5, <1>8, <1>11 DEF Once, OneWriter
<1>13. \A t \in Subs : \A m \in DOMAIN log[t] : m \in Nat
  BY DEF TypeOK
<1>14. \A t, m : Writing(c, t, m) => t = s /\ m = n
  BY DEF Writing
<1>15. Accounted'
  BY <1>1, <1>5, <1>8, <1>11, <1>13, <1>14 DEF Once, Accounted
<1>16. Recorded'
  BY <1>1, <1>2, <1>4, <1>5, <1>8, <1>10 DEF Once, Recorded
<1> QED BY <1>9, <1>12, <1>15, <1>16 DEF Once

\* A handler that leaves its write undone has the event count as lost, wherever it goes.
LEMMA OnceLost ==
    ASSUME TypeOK, Once, NEW c \in Calls, UNCHANGED <<log, recorded, writes>>,
           At(c, "write") => struck' = struck \cup {IdOf(c)},
           struck \subseteq struck',
           \A d \in Calls : At(d, "write")' <=> d # c /\ At(d, "write"),
           \A d \in Calls \ {c} : calls'[d].sub = calls[d].sub /\ calls'[d].event = calls[d].event,
           \A t \in Subs : \A m \in DOMAIN log[t] : <<t, m>> \in acked' => Known(t, m),
           \A d \in Calls : At(d, "answer")' => Known(calls'[d].sub, calls'[d].event)
    PROVE  Once'
<1>1. \A t, m : (Known(t, m)' <=> Known(t, m)) /\ (Done(t, m)' <=> Done(t, m))
  BY DEF Known, KeyOf, Done
<1>2. \A d \in Calls : \A t, m : Writing(d, t, m)' <=> d # c /\ Writing(d, t, m)
  BY DEF Writing
<1>3. \A t, m : Writing(c, t, m) => <<t, m>> \in struck'
  BY DEF Writing, IdOf
<1>4. Distinct' /\ OneWriter'
  BY <1>1, <1>2 DEF Once, Distinct, OneWriter
<1>5. Accounted'
  BY <1>1, <1>2, <1>3 DEF Once, Accounted
<1>6. Recorded'
  BY <1>1 DEF Once, Recorded
<1> QED BY <1>4, <1>5, <1>6 DEF Once

\* A write that fails strikes its event.
LEMMA OnceWriteFails ==
    ASSUME TypeOK, Once, NEW c \in Calls, WriteFails(c)
    PROVE  Once'
<1>1. /\ log' = log /\ acked' = acked /\ recorded' = recorded /\ writes' = writes
      /\ At(c, "write") /\ calls[c] # None /\ Goto(c, "answer")
      /\ struck' = struck \cup {IdOf(c)}
  BY DEF WriteFails, At
<1>2. /\ \A d \in Calls : At(d, "write")' <=> d # c /\ At(d, "write")
      /\ \A d \in Calls : At(d, "answer")' <=> d = c \/ At(d, "answer")
      /\ \A d \in Calls : calls'[d].sub = calls[d].sub /\ calls'[d].event = calls[d].event
  BY <1>1, Moved DEF Stages
<1>3. Known(calls[c].sub, calls[c].event)
  BY <1>1, CallTyped DEF Once, OneWriter, Writing
<1>4. \A d \in Calls : At(d, "answer")' => Known(calls'[d].sub, calls'[d].event)
  BY <1>2, <1>3 DEF Once, Recorded
<1> QED BY <1>1, <1>2, <1>4, OnceLost DEF Once, Recorded

\* A function that dies before its write strikes its event.
LEMMA OnceDie ==
    ASSUME TypeOK, Once, NEW c \in Calls, Die(c)
    PROVE  Once'
<1>1. /\ log' = log /\ acked' = acked /\ recorded' = recorded /\ writes' = writes
      /\ Leave(c)
      /\ struck' = IF At(c, "write") THEN struck \cup {IdOf(c)} ELSE struck
  BY DEF Die
<1>2. /\ \A d \in Calls : At(d, "write")' <=> d # c /\ At(d, "write")
      /\ \A d \in Calls : At(d, "answer")' <=> d # c /\ At(d, "answer")
      /\ \A d \in Calls \ {c} : calls'[d].sub = calls[d].sub /\ calls'[d].event = calls[d].event
  BY <1>1, Left DEF Stages
<1> QED BY <1>1, <1>2, OnceLost DEF Once, Recorded

\* An answer changes nothing of what is written.
LEMMA OnceAnswer ==
    ASSUME TypeOK, Once, NEW c \in Calls, Answer(c)
    PROVE  Once'
<1>1. /\ log' = log /\ recorded' = recorded /\ writes' = writes /\ struck' = struck
      /\ acked' = acked \cup {IdOf(c)} /\ Leave(c) /\ At(c, "answer")
  BY DEF Answer
<1>2. /\ \A d \in Calls : At(d, "write")' <=> d # c /\ At(d, "write")
      /\ \A d \in Calls : At(d, "answer")' <=> d # c /\ At(d, "answer")
      /\ \A d \in Calls \ {c} : calls'[d].sub = calls[d].sub /\ calls'[d].event = calls[d].event
  BY <1>1, Left DEF Stages
<1>3. ~At(c, "write")
  BY <1>1 DEF At
<1>4. Known(calls[c].sub, calls[c].event)
  BY <1>1 DEF Once, Recorded
<1>5. \A t \in Subs : \A m \in DOMAIN log[t] : <<t, m>> \in acked' => Known(t, m)
  BY <1>1, <1>4 DEF Once, Recorded, IdOf
<1> QED BY <1>1, <1>2, <1>3, <1>5, OnceLost DEF Once, Recorded

\* An insert that fails leaves the key out, or strikes the event.
LEMMA OnceInsertFails ==
    ASSUME TypeOK, KeysOwn, Once, NEW c \in Calls, InsertFails(c)
    PROVE  Once'
<1> DEFINE s == calls[c].sub
           n == calls[c].event
<1>1. /\ log' = log /\ acked' = acked /\ writes' = writes
      /\ Leave(c) /\ At(c, "insert") /\ ~At(c, "write")
  BY DEF InsertFails, At
<1>2. /\ \A d \in Calls : At(d, "write")' <=> d # c /\ At(d, "write")
      /\ \A d \in Calls : At(d, "answer")' <=> d # c /\ At(d, "answer")
      /\ \A d \in Calls \ {c} : calls'[d].sub = calls[d].sub /\ calls'[d].event = calls[d].event
  BY <1>1, Left DEF Stages
<1>3. CASE UNCHANGED <<recorded, struck>>
  BY <1>1, <1>2, <1>3, OnceLost DEF Once, Recorded
<1>4. CASE /\ recorded' = recorded \cup {KeyOf(s, n)}
           /\ struck' = struck \cup {<<s, n>>}
  <2>1. s \in Subs /\ n \in DOMAIN log[s]
    BY <1>1, CallTyped DEF At
  <2>2. \A t, m : Known(t, m)' <=> Known(t, m) \/ KeyOf(t, m) = KeyOf(s, n)
    BY <1>1, <1>4 DEF Known, KeyOf
  <2>3. \A t, m : Done(t, m)' <=> Done(t, m)
    BY <1>1 DEF Done
  <2>4. \A d \in Calls : \A t, m : Writing(d, t, m)' <=> Writing(d, t, m)
    BY <1>1, <1>2 DEF Writing
  <2>5. \A t \in Subs : \A m \in DOMAIN log[t] :
           KeyOf(t, m) = KeyOf(s, n) => t = s /\ m = n
    BY <2>1 DEF KeysOwn
  <2>6. Distinct' /\ OneWriter'
    BY <1>1, <2>2, <2>3, <2>4 DEF Once, Distinct, OneWriter
  <2>7. Accounted'
    <3> SUFFICES ASSUME NEW t \in Subs, NEW m \in DOMAIN log[t], Known(t, m)'
                 PROVE  \/ Done(t, m)' \/ <<t, m>> \in struck'
                        \/ \E d \in Calls : Writing(d, t, m)'
      BY <1>1 DEF Accounted
    <3> QED BY <1>4, <2>2, <2>3, <2>4, <2>5 DEF Once, Accounted
  <2>8. Recorded'
    BY <1>1, <1>2, <2>2, <2>3 DEF Once, Recorded
  <2> QED BY <2>6, <2>7, <2>8 DEF Once
<1> QED BY <1>3, <1>4 DEF InsertFails, KeyIn, IdOf

\* No step writes an event twice, or loses one that was not struck.
LEMMA OnceStep == TypeOK /\ KeysOwn /\ KeysOwn' /\ Once /\ [Next]_vars => Once'
<1> SUFFICES ASSUME TypeOK, KeysOwn, KeysOwn', Once, [Next]_vars PROVE Once'
  OBVIOUS
<1>1. CASE UNCHANGED vars
  <2>1. /\ log' = log /\ acked' = acked /\ recorded' = recorded /\ calls' = calls
        /\ writes' = writes /\ struck' = struck
    BY <1>1 DEF vars
  <2>2. /\ \A t, m : (Known(t, m)' <=> Known(t, m)) /\ (Done(t, m)' <=> Done(t, m))
        /\ \A d, x : At(d, x)' <=> At(d, x)
        /\ \A d, t, m : Writing(d, t, m)' <=> Writing(d, t, m)
    BY <2>1 DEF Known, KeyOf, Done, Writing, At
  <2>3. Distinct' /\ OneWriter'
    BY <2>1, <2>2 DEF Once, Distinct, OneWriter
  <2>4. Accounted'
    BY <2>1, <2>2 DEF Once, Accounted
  <2>5. Recorded'
    BY <2>1, <2>2 DEF Once, Recorded
  <2> QED BY <2>3, <2>4, <2>5 DEF Once
<1> QED
  BY <1>1, OnceEmit, OnceDeliver, OnceInsert, OnceWrite, OnceWriteFails, OnceDie, OnceAnswer,
     OnceInsertFails DEF Next, Handle

\* What the four of them say of an answered event.
LEMMA OnceIsExact == TypeOK /\ Once => ExactlyOnce
<1> SUFFICES ASSUME TypeOK, Once, NEW s \in Subs, NEW n \in DOMAIN log[s],
                    <<s, n>> \in acked \ struck, ~Busy(s, n)
             PROVE  Done(s, n)
  BY DEF Once, Distinct, ExactlyOnce, Done
<1>1. Known(s, n)
  BY DEF Once, Recorded
<1>2. \A c \in Calls : ~Writing(c, s, n)
  BY DEF Busy, Writing, IdOf
<1> QED BY <1>1, <1>2 DEF Once, Accounted

\* The accounting of keys, writes and failures holds in every reachable state.
LEMMA OnceAlways == Spec => [](TypeOK /\ KeysOwn /\ Once)
<1>1. Spec => [](TypeOK /\ Grammar)
  BY TypeInit, TypeStep, GrammarInit, GrammarStep, PTL DEF Spec
<1>2. Spec => []KeysOwn
  BY <1>1, KeysOwnHold, PTL
<1> QED BY <1>1, <1>2, OnceInit, OnceStep, PTL DEF Spec

\* Every event takes effect once, however often it is delivered and whatever fails, but for
\* the one that a failure meets between its record and its write.
THEOREM ExactlyOnceHolds == Spec => []ExactlyOnce
  BY OnceAlways, OnceIsExact, PTL

-----------------------------------------------------------------------------
(* The row follows the provider.                                           *)

\* What a handler writes gives access when the provider does.
Honest ==
    \A s \in Subs : \A n \in DOMAIN log[s] :
        Status(log[s][n]) \in Served <=> log[s][n].status \in Served

\* No log has an event at first.
LEMMA HonestInit == Init => Honest
  BY DEF Init, Honest

\* Every event is read for what it says.
LEMMA EventsHonest ==
    ASSUME NEW s \in Subs, NEW event \in EventsOf(s)
    PROVE  Status(event) \in Served <=> event.status \in Served
<1>1. CASE s \in Paystack
  <2>1. /\ event.type \in PaystackTypes
        /\ event.status \in {"active", "past_due", "canceled", "non-renewing"}
        /\ event.type \in {"charge.success", "subscription.create"} => event.status = "active"
        /\ event.type = "subscription.disable" => event.status = "canceled"
        /\ event.type = "subscription.not_renew" => event.status = "non-renewing"
    BY <1>1, PaystackEmits DEF EventsOf
  <2>2. Renewals \subseteq {"subscription.charge", "invoice.update"}
    BY BillingAssumption
  <2>3. CASE event.type \in {"charge.success", "subscription.create"}
    BY <2>1, <2>3 DEF Status, Activating, Served
  <2>4. CASE event.type \in {"subscription.disable", "subscription.not_renew"}
    BY <2>1, <2>2, <2>4 DEF Status, Activating, Served
  <2>5. CASE event.type \in Renewals
    BY <2>1, <2>2, <2>5 DEF Status, Activating, Served
  <2> QED BY <2>1, <2>3, <2>4, <2>5 DEF PaystackTypes
<1>2. CASE s \notin Paystack
  <2>1. \/ event.type \in {"checkout.session.completed", "invoice.payment_succeeded"}
           /\ event.status = "active"
        \/ event.type = "invoice.payment_failed" /\ event.status = "past_due"
        \/ event.type = "customer.subscription.deleted" /\ event.status = "canceled"
        \/ event.type = "customer.subscription.updated"
    BY <1>2, StripeEmits DEF EventsOf
  <2>2. Renewals \subseteq {"subscription.charge", "invoice.update"}
    BY BillingAssumption
  <2>3. CASE event.type = "customer.subscription.updated"
    <3>1. Status(event) = StatusMap(event.status)
      BY <2>2, <2>3 DEF Status, Activating
    <3> QED BY <3>1 DEF StatusMap, Served
  <2>4. CASE event.type # "customer.subscription.updated"
    BY <2>1, <2>2, <2>4 DEF Status, Activating, Served
  <2> QED BY <2>3, <2>4
<1> QED BY <1>1, <1>2

\* An event that is emitted carries a status its handler reads as the provider means it.
LEMMA HonestStep == TypeOK /\ Honest /\ [Next]_vars => Honest'
<1> SUFFICES ASSUME TypeOK, Honest, [Next]_vars PROVE Honest'
  OBVIOUS
<1>1. CASE UNCHANGED log
  BY <1>1 DEF Honest, Status
<1>2. ASSUME NEW s \in Subs, Emit(s) PROVE Honest'
  <2>1. PICK event \in EventsOf(s) :
           /\ DOMAIN log'[s] = 1..(Len(log[s]) + 1) /\ DOMAIN log[s] = 1..Len(log[s])
           /\ Len(log[s]) \in Nat
           /\ log'[s][Len(log[s]) + 1] = event
           /\ \A n \in DOMAIN log[s] : log'[s][n] = log[s][n]
           /\ \A t \in Subs \ {s} : log'[t] = log[t]
    BY <1>2, LogGrows
  <2>2. \A n \in DOMAIN log'[s] : n \in DOMAIN log[s] \/ n = Len(log[s]) + 1
    BY <2>1
  <2>3. Status(event) \in Served <=> event.status \in Served
    BY EventsHonest
  <2>4. \A t \in Subs : \A n \in DOMAIN log'[t] :
           Status(log'[t][n]) \in Served <=> log'[t][n].status \in Served
    BY <2>1, <2>2, <2>3 DEF Honest
  <2> QED BY <2>4 DEF Honest, Status
<1>3. [Next]_vars => UNCHANGED log \/ \E s \in Subs : Emit(s)
  BY DEF Next, vars, Deliver, Handle, Insert, Write, Answer, InsertFails, WriteFails, Die
<1> QED BY <1>1, <1>2, <1>3

\* A subscription all of whose events name it by its code.
Coded(s) == \A n \in DOMAIN log[s] : log[s][n].id = Code

\* Its row is there as soon as an event that begins it has been written, and shows what the
\* last event written says.
RowShows ==
    \A s \in Subs : Coded(s) =>
        /\ rows[s][Reference] = None
        /\ (\E i \in DOMAIN writes[s] : log[s][writes[s][i]].type \in Activating)
              => rows[s][Code] # None
        /\ rows[s][Code] # None =>
              /\ writes[s] # << >>
              /\ rows[s][Code] = Status(log[s][writes[s][Len(writes[s])]])

\* At first there are no rows.
LEMMA RowInit == Init => RowShows
  BY DEF Init, RowShows

\* What has been written is an event.
LEMMA WrittenEvents ==
    ASSUME TypeOK, Once, NEW s \in Subs, NEW i \in DOMAIN writes[s]
    PROVE  writes[s][i] \in DOMAIN log[s]
<1>1. writes[s][i] \in Nat
  BY DEF TypeOK
<1> QED BY <1>1 DEF Once, Recorded, Done

\* An event that is emitted changes no row.
LEMMA RowEmit ==
    ASSUME TypeOK, Once, RowShows, NEW s \in Subs, Emit(s)
    PROVE  RowShows'
<1>1. \A t \in Subs : \A n \in DOMAIN log[t] : n \in DOMAIN log'[t] /\ log'[t][n] = log[t][n]
  BY LogGrows
<1>2. rows' = rows /\ writes' = writes
  BY DEF Emit
<1> SUFFICES ASSUME NEW t \in Subs, Coded(t)'
             PROVE  /\ rows[t][Reference] = None
                    /\ (\E i \in DOMAIN writes[t] : log'[t][writes[t][i]].type \in Activating)
                          => rows[t][Code] # None
                    /\ rows[t][Code] # None =>
                          /\ writes[t] # << >>
                          /\ rows[t][Code] = Status(log'[t][writes[t][Len(writes[t])]])
  BY <1>2 DEF RowShows, Status
<1>3. Coded(t)
  BY <1>1 DEF Coded
<1>4. \A i \in DOMAIN writes[t] : log'[t][writes[t][i]] = log[t][writes[t][i]]
  BY <1>1, WrittenEvents
<1>5. writes[t] # << >> => Len(writes[t]) \in DOMAIN writes[t]
  BY DEF TypeOK
<1> QED BY <1>3, <1>4, <1>5 DEF RowShows

\* A write makes the row what its event says.
LEMMA RowWrite ==
    ASSUME TypeOK, Once, RowShows, NEW c \in Calls, Write(c)
    PROVE  RowShows'
<1> DEFINE s == calls[c].sub
           n == calls[c].event
           event == log[s][n]
<1>1. /\ log' = log /\ calls[c] # None
      /\ writes' = [writes EXCEPT ![s] = Append(@, n)]
      /\ rows' = IF event.type \in Activating \/ rows[s][event.id] # None
                 THEN [rows EXCEPT ![s][event.id] = Status(event)] ELSE rows
  BY DEF Write, At, EventIn
<1>2. s \in Subs /\ n \in DOMAIN log[s] /\ n \in Nat
  BY <1>1, CallTyped
<1>3. /\ DOMAIN writes[s] = 1..Len(writes[s]) /\ Len(writes[s]) \in Nat
      /\ DOMAIN writes'[s] = 1..(Len(writes[s]) + 1)
      /\ writes' \in [Subs -> Seq(Nat)]
      /\ writes'[s][Len(writes[s]) + 1] = n
      /\ \A i \in DOMAIN writes[s] : writes'[s][i] = writes[s][i]
      /\ \A t \in Subs \ {s} : writes'[t] = writes[t]
  BY <1>1, <1>2, WritesGrow
<1>4. Len(writes'[s]) = Len(writes[s]) + 1 /\ writes'[s] # << >>
  <2>1. writes'[s] \in Seq(Nat)
    BY <1>2, <1>3
  <2> QED BY <1>3, <2>1
<1>5. \A i \in DOMAIN writes'[s] : i \in DOMAIN writes[s] \/ i = Len(writes[s]) + 1
  BY <1>3
<1>6. \A t \in Subs \ {s} : rows'[t] = rows[t]
  BY <1>1 DEF TypeOK
<1> SUFFICES ASSUME NEW t \in Subs, Coded(t)
             PROVE  /\ rows'[t][Reference] = None
                    /\ (\E i \in DOMAIN writes'[t] : log[t][writes'[t][i]].type \in Activating)
                          => rows'[t][Code] # None
                    /\ rows'[t][Code] # None =>
                          /\ writes'[t] # << >>
                          /\ rows'[t][Code] = Status(log[t][writes'[t][Len(writes'[t])]])
  BY <1>1 DEF RowShows, Coded, Status
<1>7. CASE t # s
  BY <1>3, <1>6, <1>7 DEF RowShows
<1>8. CASE t = s
  <2>1. event.id = Code
    BY <1>2, <1>8 DEF Coded
  <2>2. event \in Events
    <3>1. log[s] \in Seq(Events)
      BY <1>2 DEF TypeOK, Events
    <3> QED BY <1>2, <3>1
  <2>3. Status(event) \in Statuses /\ Status(event) # None
    BY <2>2, StatusTyped, BillingAssumption
  <2>4. rows[s] \in [{Code, Reference} -> Statuses \cup {None}] /\ Code # Reference
    BY <1>2 DEF TypeOK, Code, Reference
  <2>5. CASE event.type \in Activating \/ rows[s][Code] # None
    <3> DEFINE st == Status(event)
    <3>1. rows' = [rows EXCEPT ![s][Code] = st]
      BY <1>1, <2>1, <2>5
    <3> HIDE DEF st, s, n, event
    <3>2. rows'[s] = [rows[s] EXCEPT ![Code] = st]
      BY <1>2, <3>1 DEF TypeOK
    <3>3. rows'[s][Code] = st /\ rows'[s][Reference] = rows[s][Reference]
      BY <2>4, <3>2
    <3>4. log[s][writes'[s][Len(writes'[s])]] = event
      BY <1>3, <1>4 DEF event
    <3> QED BY <1>4, <1>8, <2>3, <3>3, <3>4 DEF RowShows, st
  <2>6. CASE ~(event.type \in Activating \/ rows[s][Code] # None)
    <3>1. rows' = rows
      BY <1>1, <2>1, <2>6
    <3>2. \A i \in DOMAIN writes[s] : log[s][writes[s][i]].type \notin Activating
      BY <1>8, <2>6 DEF RowShows
    <3>3. \A i \in DOMAIN writes'[s] : log[s][writes'[s][i]].type \notin Activating
      BY <1>3, <1>5, <2>6, <3>2
    <3> QED BY <1>8, <2>6, <3>1, <3>3 DEF RowShows
  <2> QED BY <2>5, <2>6
<1> QED BY <1>7, <1>8

\* Every step leaves the row as the last write made it.
LEMMA RowStep == TypeOK /\ Once /\ RowShows /\ [Next]_vars => RowShows'
<1> SUFFICES ASSUME TypeOK, Once, RowShows, [Next]_vars PROVE RowShows'
  OBVIOUS
<1>1. CASE UNCHANGED <<log, rows, writes>>
  BY <1>1 DEF RowShows, Coded, Status
<1>2. [Next]_vars => \/ UNCHANGED <<log, rows, writes>>
                     \/ \E s \in Subs : Emit(s)
                     \/ \E c \in Calls : Write(c)
  BY DEF Next, vars, Deliver, Handle, Insert, Answer, InsertFails, WriteFails, Die
<1> QED BY <1>1, <1>2, RowEmit, RowWrite

\* A quiet subscription has been written up to its last event, last.
LEMMA QuietRow ==
    ASSUME TypeOK, Once, Honest, RowShows, NEW s \in Subs, Quiet(s)
    PROVE  Entitled(s) <=> Truth(s) \in Served
<1> DEFINE last == Len(log[s])
           k == Len(writes[s])
<1>1. /\ DOMAIN log[s] = 1..last /\ last \in Nat
      /\ DOMAIN writes[s] = 1..k /\ k \in Nat
  BY DEF TypeOK
<1>2. \A n \in DOMAIN log[s] : \E i \in DOMAIN writes[s] : writes[s][i] = n
  BY OnceIsExact DEF Quiet, ExactlyOnce
<1>3. PICK a \in DOMAIN log[s] : log[s][a].type \in Activating
  BY DEF Quiet
<1>4. last \in DOMAIN log[s]
  BY <1>1, <1>3
<1>5. PICK i \in DOMAIN writes[s] : writes[s][i] = last
  BY <1>2, <1>4
<1>6. k \in DOMAIN writes[s] /\ writes[s][k] \in DOMAIN log[s]
  <2>1. k \in DOMAIN writes[s]
    BY <1>1, <1>5
  <2> QED BY <2>1, WrittenEvents
<1>7. ~(i < k)
  <2> SUFFICES ASSUME i < k PROVE FALSE
    OBVIOUS
  <2>1. writes[s][i] < writes[s][k]
    BY <1>5, <1>6 DEF Quiet, InOrder
  <2> QED BY <1>1, <1>5, <1>6, <2>1
<1>8. writes[s][k] = last
  <2>1. i = k
    BY <1>1, <1>5, <1>7
  <2> QED BY <1>5, <2>1
<1>9. Coded(s)
  BY DEF Quiet, Coded
<1>10. \E j \in DOMAIN writes[s] : log[s][writes[s][j]].type \in Activating
  BY <1>2, <1>3
<1>11. rows[s][Reference] = None /\ rows[s][Code] = Status(log[s][last])
  BY <1>8, <1>9, <1>10 DEF RowShows
<1>12. None \notin Served
  BY BillingAssumption DEF Statuses
<1>13. Entitled(s) <=> Status(log[s][last]) \in Served
  BY <1>11, <1>12 DEF Entitled
<1> QED BY <1>4, <1>13 DEF Honest, Truth

\* A subscription whose events have all arrived in order is served exactly when its provider
\* has it active.
THEOREM RowFollows == Spec => []ServedIffRenewed
<1>1. Spec => []Honest
  <2>1. Spec => []TypeOK
    BY TypeCorrect
  <2> QED BY <2>1, HonestInit, HonestStep, PTL DEF Spec
<1>2. Spec => []RowShows
  BY OnceAlways, RowInit, RowStep, PTL DEF Spec
<1>3. TypeOK /\ Once /\ Honest /\ RowShows => ServedIffRenewed
  BY QuietRow DEF ServedIffRenewed
<1> QED BY <1>1, <1>2, <1>3, OnceAlways, PTL
=============================================================================
