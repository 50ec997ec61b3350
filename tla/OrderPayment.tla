---------------------------- MODULE OrderPayment ----------------------------
(***************************************************************************)
(* The payment of one order: intents asked for by the customer, webhooks   *)
(* of the payment gateway, refunds and status changes by the staff         *)
(* (commerce/services.py, commerce/views.py, builder/payment_services.py). *)
(*                                                                         *)
(* No request locks the order.  Each reads it, talks to the gateway and    *)
(* saves the listed fields from memory; one that dies between two steps is *)
(* one that takes no further step, for nothing makes a request continue.   *)
(* A webhook handler saves constants, so finding the order and saving it   *)
(* are one step.                                                           *)
(*                                                                         *)
(* The gateway is outside the repository: it charges an intent once, gives *)
(* back no more than it took, and delivers its events in any order, again  *)
(* and again.                                                              *)
(***************************************************************************)
EXTENDS Integers, FiniteSets, Tally

CONSTANTS Intents,   \* payment intents of the gateway
          Requests,  \* refund requests that can be in progress together
          Price,     \* Order.total
          None,      \* no intent
          MaxFaults, \* bound: how many webhook handlers die half way
          MaxOthers, \* bound: cards declined, keys of events that expire and
                     \* status changes by the staff
          MaxAsked   \* bound: how many intents and refunds are asked for

ASSUME PaymentAssumption ==
  /\ IsFiniteSet(Intents)
  /\ IsFiniteSet(Requests)
  /\ Price \in Nat \ {0}
  /\ None \notin Intents
  /\ MaxFaults \in Nat
  /\ MaxOthers \in Nat
  /\ MaxAsked \in Nat

VARIABLES
  status,     \* Order.status
  payStatus,  \* Order.payment_status
  reference,  \* Order.payment_reference
  refunds,    \* Order.refunds_total
  rows,       \* what the Refund rows of the order add up to
  asking,     \* how far the request that creates each intent is
  charge,     \* the gateway: state of each intent
  returned,   \* the gateway: what was given back of each intent
  events,     \* the gateway: the events there are to deliver
  seen,       \* events with a cache key payment:webhook:provider:id
  handling,   \* events whose webhook request is past the cache
  applied,    \* events whose handler has run to its end
  req,        \* the refund requests and what they hold in memory
  byStaff,    \* history: mark_paid was called
  used        \* how much of each bound is used up

orderVars   == <<status, payStatus, reference, refunds, rows>>
gatewayVars == <<charge, returned, events>>
hookVars    == <<seen, handling, applied>>
vars == <<orderVars, asking, gatewayVars, hookVars, req, byStaff, used>>

Statuses    == {"pending", "paid", "fulfilled", "cancelled"}
PayStatuses == {"pending", "paid", "failed", "refunded", "partially_refunded"}

Event(type, i, amount) == [type |-> type, intent |-> i, amount |-> amount]

Succeeded(i) == Event("succeeded", i, Price)
Failed(i)    == Event("failed", i, 0)

Events == { Succeeded(i) : i \in Intents } \cup { Failed(i) : i \in Intents }
            \cup { Event("refunded", i, n) : i \in Intents, n \in 1..Price }

NoRequest == [stage |-> "idle", amount |-> 0, status |-> "pending", payStatus |-> "pending",
              refunds |-> 0, intent |-> None]

Init ==
  /\ status = "pending"
  /\ payStatus = "pending"
  /\ reference = None
  /\ refunds = 0
  /\ rows = 0
  /\ asking = [i \in Intents |-> "none"]
  /\ charge = [i \in Intents |-> "none"]
  /\ returned = [i \in Intents |-> 0]
  /\ events = {}
  /\ seen = {}
  /\ handling = {}
  /\ applied = {}
  /\ req = [r \in Requests |-> NoRequest]
  /\ byStaff = FALSE
  /\ used = [faults |-> 0, others |-> 0, asked |-> 0]

-----------------------------------------------------------------------------
(* POST payments/intent/: create_payment_intent.  It does not look at the   *)
(* payment status, and saves the reference twice: in the provider's         *)
(* create_checkout_session, and again after the Payment row.                *)

CreateIntent(i) ==
  /\ used.asked < MaxAsked /\ used' = [used EXCEPT !.asked = @ + 1]
  /\ asking[i] = "none"
  /\ charge' = [charge EXCEPT ![i] = "open"]
  /\ asking' = [asking EXCEPT ![i] = "created"]
  /\ UNCHANGED <<orderVars, returned, events, hookVars, req, byStaff>>

SaveReference(i) ==
  /\ asking[i] \in {"created", "saved"}
  /\ reference' = i
  /\ asking' = [asking EXCEPT ![i] = IF @ = "created" THEN "saved" ELSE "answered"]
  /\ UNCHANGED <<status, payStatus, refunds, rows, gatewayVars, hookVars, req, byStaff, used>>

-----------------------------------------------------------------------------
(* The customer pays with the client secret of an answered request.         *)

Pay(i) ==
  /\ asking[i] = "answered" /\ charge[i] = "open"
  /\ charge' = [charge EXCEPT ![i] = "captured"]
  /\ events' = events \cup {Succeeded(i)}
  /\ UNCHANGED <<orderVars, asking, returned, hookVars, req, byStaff, used>>

\* The card is declined; the intent can be paid with another.
Decline(i) ==
  /\ asking[i] = "answered" /\ charge[i] = "open"
  /\ used.others < MaxOthers /\ used' = [used EXCEPT !.others = @ + 1]
  /\ events' = events \cup {Failed(i)}
  /\ UNCHANGED <<orderVars, asking, charge, returned, hookVars, req, byStaff>>

-----------------------------------------------------------------------------
(* POST payments/webhook/: process_webhook_event.                           *)

(* Mutant: the cache key leaves out the event's id. *)
ReceiveEvent_ByType(e) ==
  /\ e \in events
  /\ \A f \in seen : f.type # e.type
  /\ seen' = seen \cup {e}
  /\ handling' = handling \cup {e}
  /\ UNCHANGED <<orderVars, asking, gatewayVars, applied, req, byStaff, used>>

\* cache.add: an event that has its key is answered as a duplicate.
ReceiveEvent(e) ==
  /\ e \in events \ seen
  /\ seen' = seen \cup {e}
  /\ handling' = handling \cup {e}
  /\ UNCHANGED <<orderVars, asking, gatewayVars, applied, req, byStaff, used>>

(* Mutant: the type of the event is not looked at. *)
Outcome_AnyType(e) == <<"paid", "paid">>

\* _handle_payment_succeeded, _handle_payment_failed and _handle_refund; a
\* partial refund changes nothing.
Outcome(e) ==
  CASE e.type = "succeeded" -> <<"paid", "paid">>
    [] e.type = "failed"    -> <<status, "failed">>
    [] e.type = "refunded"  -> IF e.amount >= Price THEN <<"cancelled", "refunded">>
                               ELSE <<status, payStatus>>

\* PAYMENT_WEBHOOK_IDEMPOTENCY_TTL_SECONDS have passed: the next delivery of
\* the event is handled like the first.  Two handlers of one event that
\* overlap are in handling once; the second's end is that of a later delivery.
KeyExpires(e) ==
  /\ used.others < MaxOthers /\ used' = [used EXCEPT !.others = @ + 1]
  /\ e \in seen
  /\ seen' = seen \ {e}
  /\ UNCHANGED <<orderVars, asking, gatewayVars, handling, applied, req, byStaff>>

\* Orders are looked up by their payment_reference; one that has moved on to
\* another intent is not found.
HandleEvent(e) ==
  /\ e \in handling
  /\ LET found == IF reference = e.intent THEN Outcome(e) ELSE <<status, payStatus>>
     IN  status' = found[1] /\ payStatus' = found[2]
  /\ handling' = handling \ {e}
  /\ applied' = applied \cup {e}
  /\ UNCHANGED <<reference, refunds, rows, asking, gatewayVars, seen, req, byStaff, used>>

\* The handler raises or its process dies; the cache key stays.
HandlerDies(e) ==
  /\ used.faults < MaxFaults /\ used' = [used EXCEPT !.faults = @ + 1]
  /\ e \in handling
  /\ handling' = handling \ {e}
  /\ UNCHANGED <<orderVars, asking, gatewayVars, seen, applied, req, byStaff>>

-----------------------------------------------------------------------------
(* RefundViewSet.create and RefundOrderView: refund_order.                  *)

AskRefund(r, amount) ==
  /\ used.asked < MaxAsked /\ used' = [used EXCEPT !.asked = @ + 1]
  /\ req[r].stage = "idle"
  /\ reference # None
  /\ req' = [req EXCEPT ![r] = [stage |-> "asked", amount |-> amount, status |-> status,
                                payStatus |-> payStatus, refunds |-> refunds,
                                intent |-> reference]]
  /\ UNCHANGED <<orderVars, asking, gatewayVars, hookVars, byStaff>>

Refundable(i, amount) == charge[i] = "captured" /\ returned[i] + amount <= Price

GrantRefund(r) ==
  LET q == req[r] IN
  /\ q.stage = "asked" /\ Refundable(q.intent, q.amount)
  /\ returned' = [returned EXCEPT ![q.intent] = @ + q.amount]
  /\ events' = events \cup {Event("refunded", q.intent, returned[q.intent] + q.amount)}
  /\ req' = [req EXCEPT ![r].stage = "granted"]
  /\ UNCHANGED <<orderVars, asking, charge, hookVars, byStaff, used>>

(* Mutant: a refund the gateway refuses is booked like any other. *)
RefuseRefund_Booked(r) ==
  /\ req[r].stage = "asked" /\ ~Refundable(req[r].intent, req[r].amount)
  /\ req' = [req EXCEPT ![r].stage = "granted"]
  /\ UNCHANGED <<orderVars, asking, gatewayVars, hookVars, byStaff, used>>

RefuseRefund(r) ==
  /\ req[r].stage = "asked" /\ ~Refundable(req[r].intent, req[r].amount)
  /\ req' = [req EXCEPT ![r] = NoRequest]
  /\ UNCHANGED <<orderVars, asking, gatewayVars, hookVars, byStaff, used>>

\* PaymentService.refund_order saves the statuses, changed or not.
NoteRefund(r) ==
  LET q == req[r]
      full == q.amount >= Price
      s == IF full THEN "cancelled" ELSE q.status
      p == IF full THEN "refunded" ELSE q.payStatus
  IN
  /\ q.stage = "granted"
  /\ status' = s /\ payStatus' = p
  /\ req' = [req EXCEPT ![r] = [q EXCEPT !.stage = "noted", !.status = s, !.payStatus = p]]
  /\ UNCHANGED <<reference, refunds, rows, asking, gatewayVars, hookVars, byStaff, used>>

\* Refund.objects.create
RecordRefund(r) ==
  /\ req[r].stage = "noted"
  /\ rows' = rows + req[r].amount
  /\ req' = [req EXCEPT ![r].stage = "recorded"]
  /\ UNCHANGED <<status, payStatus, reference, refunds, asking, gatewayVars, hookVars, byStaff, used>>

\* order.save(): refunds_total and the statuses, from memory.
SettleRefund(r) ==
  LET q == req[r]
      sum == q.refunds + q.amount
  IN
  /\ q.stage = "recorded"
  /\ refunds' = sum
  /\ payStatus' = IF sum >= Price THEN "refunded" ELSE "partially_refunded"
  /\ status' = IF sum >= Price THEN "cancelled" ELSE q.status
  /\ req' = [req EXCEPT ![r] = NoRequest]
  /\ UNCHANGED <<reference, rows, asking, gatewayVars, hookVars, byStaff, used>>

-----------------------------------------------------------------------------
(* The staff: each saves constants, whatever the order's state.             *)

SetStatus(s, p) ==
  /\ used.others < MaxOthers /\ used' = [used EXCEPT !.others = @ + 1]
  /\ status' = s /\ payStatus' = p
  /\ UNCHANGED <<reference, refunds, rows, asking, gatewayVars, hookVars, req>>

MarkPaid      == SetStatus("paid", "paid") /\ byStaff' = TRUE
\* Also what ShipmentViewSet.mark_delivered does with the last shipment.
Fulfill       == SetStatus("fulfilled", payStatus) /\ UNCHANGED byStaff
Cancel        == SetStatus("cancelled", "failed") /\ UNCHANGED byStaff

RefundNext(r) ==
  \/ \E a \in 1..Price : AskRefund(r, a)
  \/ GrantRefund(r) \/ RefuseRefund(r) \/ NoteRefund(r) \/ RecordRefund(r) \/ SettleRefund(r)

IntentNext(i) == CreateIntent(i) \/ SaveReference(i) \/ Pay(i) \/ Decline(i)

HookNext(e) == ReceiveEvent(e) \/ KeyExpires(e) \/ HandleEvent(e) \/ HandlerDies(e)

Next ==
  \/ \E i \in Intents : IntentNext(i)
  \/ \E e \in Events : HookNext(e)
  \/ \E r \in Requests : RefundNext(r)
  \/ MarkPaid \/ Fulfill \/ Cancel

Spec == Init /\ [][Next]_vars

\* The gateway delivers a capture until it is answered, and its handler ends.
FairSpec ==
  Spec /\ \A i \in Intents : WF_vars(ReceiveEvent(Succeeded(i))) /\ WF_vars(HandleEvent(Succeeded(i)))

-----------------------------------------------------------------------------
RefundRequests ==
  [stage : {"idle", "asked", "granted", "noted", "recorded"}, amount : 0..Price,
   status : Statuses, payStatus : PayStatuses, refunds : Nat, intent : Intents \cup {None}]

PaymentTypeOK ==
  /\ status \in Statuses
  /\ payStatus \in PayStatuses
  /\ reference \in Intents \cup {None}
  /\ refunds \in Nat
  /\ rows \in Nat
  /\ asking \in [Intents -> {"none", "created", "saved", "answered"}]
  /\ charge \in [Intents -> {"none", "open", "captured"}]
  /\ returned \in [Intents -> 0..Price]
  /\ events \subseteq Events
  /\ seen \subseteq events
  /\ handling \subseteq events
  /\ applied \subseteq events
  /\ req \in [Requests -> RefundRequests]
  /\ byStaff \in BOOLEAN
  /\ used \in [faults : 0..MaxFaults, others : 0..MaxOthers, asked : 0..MaxAsked]

\* No order is paid without money: unless the staff marked it, it is paid only
\* if an intent of it was captured, whatever is saved from stale memory.
PaidMeansCaptured ==
  payStatus = "paid" /\ ~byStaff => \E i \in Intents : charge[i] = "captured"

\* The order never claims more was refunded than there are Refund rows for,
\* the rows never more than the gateway gave back, and an order called
\* refunded has had its price given back, although refunds overlap and lose
\* each other's updates.
RefundsBacked ==
  /\ refunds <= rows
  /\ rows <= Total(returned)
  /\ payStatus = "refunded" => Price <= Total(returned)

\* A captured payment of the intent the order refers to is seen: the order
\* becomes paid, unless it moves to another intent or a handler dies.
CaptureSeen ==
  \A i \in Intents :
    (charge[i] = "captured" /\ reference = i /\ Succeeded(i) \notin applied)
      ~> payStatus = "paid" \/ reference # i \/ used.faults > 0
=============================================================================
