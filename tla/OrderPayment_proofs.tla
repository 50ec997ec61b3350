------------------------ MODULE OrderPayment_proofs ------------------------
(***************************************************************************)
(* Proofs about the payment of an order, for any number of intents and of  *)
(* overlapping refund requests: no order is paid without a capture, and    *)
(* what the books say was refunded was given back.                         *)
(***************************************************************************)
EXTENDS OrderPayment, FiniteSetTheorems, TLAPS

(* A tally over finitely many keys has finitely many units.                *)
LEMMA UnitsFinite ==
  ASSUME NEW K, IsFiniteSet(K), NEW f \in [K -> Nat]
  PROVE  IsFiniteSet(Units(f))
<1> DEFINE share == [k \in K |-> {k} \X (1..f[k])]
           Shares == {{k} \X (1..f[k]) : k \in K}
<1>1. share \in Surjection(K, Shares)
  BY DEF Surjection
<1>2. IsFiniteSet(Shares)
  BY <1>1, FS_Surjection
<1>3. ASSUME NEW T \in Shares PROVE IsFiniteSet(T)
  <2>1. PICK k \in K : T = {k} \X (1..f[k])
    OBVIOUS
  <2>2. IsFiniteSet({k})
    BY FS_Singleton
  <2>3. f[k] \in Int
    OBVIOUS
  <2>4. IsFiniteSet(1..f[k])
    BY <2>3, FS_Interval
  <2> QED BY <2>1, <2>2, <2>4, FS_Product
<1>4. IsFiniteSet(UNION Shares)
  BY <1>2, <1>3, FS_UNION
<1> QED BY <1>4 DEF Units

(* Taking one key out of a tally takes its units out of the total.         *)
LEMMA TotalSplit ==
  ASSUME NEW K, IsFiniteSet(K), NEW f \in [K -> Nat], NEW k \in K
  PROVE  LET rest == {u \in Units(f) : u[1] # k} IN
         /\ IsFiniteSet(rest)
         /\ Cardinality(rest) \in Nat
         /\ Total(f) = Cardinality(rest) + f[k]
<1> DEFINE rest == {u \in Units(f) : u[1] # k}
           own == {k} \X (1..f[k])
<1>1. IsFiniteSet(rest)
  BY UnitsFinite, FS_Subset
<1>2. IsFiniteSet(own) /\ Cardinality(own) = f[k]
  <2>1. IsFiniteSet({k}) /\ Cardinality({k}) = 1
    BY FS_Singleton
  <2>2. IsFiniteSet(1..f[k]) /\ Cardinality(1..f[k]) = f[k]
    BY FS_Interval
  <2>3. IsFiniteSet(own) /\ Cardinality(own) = 1 * f[k]
    BY <2>1, <2>2, FS_Product
  <2> QED BY <2>3
<1>3. Units(f) = rest \cup own /\ rest \cap own = {}
  BY DEF Units
<1>4. Cardinality(rest) \in Nat
  BY <1>1, FS_CardinalityType
<1>5. Cardinality(rest \cup own) = Cardinality(rest) + Cardinality(own) - Cardinality(rest \cap own)
  BY <1>1, <1>2, FS_Union
<1>6. Cardinality(rest \cap own) = 0
  BY <1>3, FS_EmptySet
<1> HIDE DEF rest, own
<1>7. Total(f) = Cardinality(rest) + f[k]
  BY <1>2, <1>3, <1>4, <1>5, <1>6 DEF Total
<1> QED BY <1>1, <1>4, <1>7 DEF rest

(* Every entry of a tally is within its total.                             *)
LEMMA TotalBounds ==
  ASSUME NEW K, IsFiniteSet(K), NEW f \in [K -> Nat]
  PROVE  /\ Total(f) \in Nat
         /\ \A k \in K : f[k] <= Total(f)
<1>1. Total(f) \in Nat
  BY UnitsFinite, FS_CardinalityType DEF Total
<1>2. ASSUME NEW k \in K PROVE f[k] <= Total(f)
  <2> DEFINE rest == {u \in Units(f) : u[1] # k}
  <2>1. Cardinality(rest) \in Nat /\ Total(f) = Cardinality(rest) + f[k]
    BY TotalSplit
  <2> HIDE DEF rest
  <2> QED BY <2>1
<1> QED BY <1>1, <1>2

(* Changing one entry changes the total by the difference.                 *)
LEMMA TotalChange ==
  ASSUME NEW K, IsFiniteSet(K), NEW f \in [K -> Nat], NEW g \in [K -> Nat],
         NEW k \in K, \A j \in K \ {k} : g[j] = f[j]
  PROVE  Total(g) = Total(f) - f[k] + g[k]
<1> DEFINE restf == {u \in Units(f) : u[1] # k}
           restg == {u \in Units(g) : u[1] # k}
<1>1. restf = restg
  BY DEF Units
<1>2. Total(f) = Cardinality(restf) + f[k] /\ Cardinality(restf) \in Nat
  BY TotalSplit
<1>3. Total(g) = Cardinality(restg) + g[k]
  BY TotalSplit
<1> HIDE DEF restf, restg
<1> QED BY <1>1, <1>2, <1>3

(* A tally of nothing is zero.                                             *)
LEMMA TotalZero ==
  ASSUME NEW K, NEW f \in [K -> Nat], \A k \in K : f[k] = 0
  PROVE  Total(f) = 0
<1>1. Units(f) = {}
  BY DEF Units
<1> QED BY <1>1, FS_EmptySet DEF Total

-----------------------------------------------------------------------------
(* What holds between the order, its requests and the gateway.              *)

Captured == \E i \in Intents : charge[i] = "captured"

\* What a payment status may say, in the row or in the memory of a request.
Backed(p) ==
  /\ p = "paid" => byStaff \/ Captured
  /\ p = "refunded" => Price <= Total(returned)

\* Only an answered request's intent is paid, and every event is true of the
\* gateway.
Truthful ==
  /\ \A i \in Intents : charge[i] = "captured" => asking[i] = "answered"
  /\ \A e \in events :
    /\ e.type = "succeeded" => charge[e.intent] = "captured"
    /\ e.type = "refunded" => e.amount <= returned[e.intent]

\* The refunds that were given back and have no row yet.
Unbooked == [r \in Requests |-> IF req[r].stage \in {"granted", "noted"} THEN req[r].amount ELSE 0]

\* A total in memory is never ahead of the rows.
Memory ==
  \A r \in Requests :
    /\ Backed(req[r].payStatus)
    /\ req[r].stage # "idle" => req[r].amount >= 1 /\ req[r].intent \in Intents
    /\ req[r].refunds <= rows
    /\ req[r].stage = "recorded" => req[r].refunds + req[r].amount <= rows

Books ==
  /\ refunds <= rows
  /\ rows + Total(Unbooked) <= Total(returned)

PaymentInv ==
  PaymentTypeOK /\ Backed(payStatus) /\ Truthful /\ Memory /\ Books

-----------------------------------------------------------------------------
LEMMA InitInv == Init => PaymentInv
<1> SUFFICES ASSUME Init PROVE PaymentInv
  OBVIOUS
<1>1. PaymentTypeOK
  <2>1. NoRequest \in RefundRequests
    BY PaymentAssumption
    DEF PaymentAssumption, NoRequest, RefundRequests, Statuses, PayStatuses
  <2>2. used \in [faults : 0..MaxFaults, others : 0..MaxOthers, asked : 0..MaxAsked]
    BY PaymentAssumption DEF PaymentAssumption, Init
  <2>3. returned \in [Intents -> 0..Price]
    BY PaymentAssumption DEF PaymentAssumption, Init
  <2> QED BY <2>1, <2>2, <2>3 DEF Init, PaymentTypeOK, Statuses, PayStatuses
<1>2. Backed(payStatus) /\ Truthful
  BY DEF Init, Backed, Truthful
<1>3. Memory
  BY DEF Init, Memory, NoRequest, Backed
<1>4. Books
  <2>1. Unbooked \in [Requests -> Nat] /\ \A r \in Requests : Unbooked[r] = 0
    BY DEF Init, NoRequest, Unbooked
  <2>2. returned \in [Intents -> Nat] /\ \A i \in Intents : returned[i] = 0
    BY DEF Init
  <2>3. Total(Unbooked) = 0 /\ Total(returned) = 0
    BY <2>1, <2>2, TotalZero
  <2> QED BY <2>3 DEF Init, Books
<1> QED BY <1>1, <1>2, <1>3, <1>4 DEF PaymentInv

\* The sums are natural numbers and not less than their parts.
LEMMA Sums ==
  ASSUME PaymentTypeOK
  PROVE  /\ returned \in [Intents -> Nat]
         /\ Unbooked \in [Requests -> Nat]
         /\ Total(returned) \in Nat /\ Total(Unbooked) \in Nat
         /\ \A i \in Intents : returned[i] <= Total(returned)
         /\ \A r \in Requests : Unbooked[r] <= Total(Unbooked)
<1>1. returned \in [Intents -> Nat]
  BY PaymentAssumption DEF PaymentAssumption, PaymentTypeOK
<1>2. Unbooked \in [Requests -> Nat]
  BY PaymentAssumption DEF PaymentAssumption, PaymentTypeOK, Unbooked, RefundRequests
<1> QED BY <1>1, <1>2, TotalBounds, PaymentAssumption DEF PaymentAssumption

\* What is captured, given back or marked by the staff stays so; the memory of
\* a request is as well backed after a step as before.
LEMMA StaysBacked ==
  ASSUME PaymentTypeOK,
         \A i \in Intents : charge[i] = "captured" => charge'[i] = "captured",
         byStaff => byStaff',
         Total(returned)' \in Nat,
         Total(returned) <= Total(returned)',
         NEW p, Backed(p)
  PROVE  Backed(p)'
<1>1. Captured => Captured'
  BY DEF Captured, PaymentTypeOK
<1>2. Total(returned) \in Nat
  BY Sums
<1>3. p = "refunded" => Price <= Total(returned)'
  BY <1>2, PaymentAssumption DEF PaymentAssumption, Backed
<1> QED BY <1>1, <1>3 DEF Backed

\* What a step that touches neither the refunds nor the requests leaves.
LEMMA Untouched ==
  ASSUME PaymentInv,
         \A i \in Intents : charge[i] = "captured" => charge'[i] = "captured",
         byStaff => byStaff',
         UNCHANGED <<returned, req, rows, refunds>>
  PROVE  Memory' /\ Books' /\ \A p : Backed(p) => Backed(p)'
<1>1. Total(returned)' = Total(returned) /\ Total(returned) \in Nat
  BY Sums DEF PaymentInv
<1>2. ASSUME NEW p, Backed(p) PROVE Backed(p)'
  BY <1>1, <1>2, StaysBacked DEF PaymentInv
<1>3. Memory'
  BY <1>2 DEF PaymentInv, Memory
<1>4. Unbooked' = Unbooked
  BY DEF Unbooked
<1>5. Books'
  BY <1>1, <1>4 DEF PaymentInv, Books
<1> QED BY <1>2, <1>3, <1>5

-----------------------------------------------------------------------------
(* One lemma per actor. *)

LEMMA IntentStep ==
  ASSUME PaymentInv, NEW i \in Intents, IntentNext(i)
  PROVE  PaymentInv'
<1> USE DEF PaymentInv
<1>1. CASE CreateIntent(i)
  <2>1. /\ \A j \in Intents : charge[j] = "captured" => charge'[j] = "captured"
        /\ UNCHANGED <<orderVars, returned, events, hookVars, req, byStaff>>
    BY <1>1 DEF CreateIntent, PaymentTypeOK, Truthful
  <2>3. used' \in [faults : 0..MaxFaults, others : 0..MaxOthers,
                    asked : 0..MaxAsked]
    BY <1>1, PaymentAssumption DEF PaymentAssumption, CreateIntent, PaymentTypeOK
  <2>2. PaymentTypeOK' /\ Truthful'
    BY <1>1, <2>3 DEF CreateIntent, PaymentTypeOK, Truthful, orderVars, hookVars, Events, Event,
       Succeeded, Failed
  <2> QED BY <2>1, <2>2, Untouched DEF orderVars, hookVars
<1>2. CASE SaveReference(i)
  <2>1. UNCHANGED <<status, payStatus, refunds, rows, gatewayVars, hookVars, req, byStaff, used>>
    BY <1>2 DEF SaveReference
  <2>2. PaymentTypeOK' /\ Truthful'
    BY <1>2 DEF SaveReference, PaymentTypeOK, Truthful, gatewayVars, hookVars
  <2> QED BY <2>1, <2>2, Untouched DEF gatewayVars, hookVars
<1>3. CASE Pay(i)
  <2>1. /\ \A j \in Intents : charge[j] = "captured" => charge'[j] = "captured"
        /\ charge' = [charge EXCEPT ![i] = "captured"]
        /\ events' = events \cup {Succeeded(i)}
        /\ UNCHANGED <<orderVars, asking, returned, hookVars, req, byStaff, used>>
    BY <1>3 DEF Pay, PaymentTypeOK
  <2>2. Succeeded(i) \in Events /\ Succeeded(i).type = "succeeded" /\ Succeeded(i).intent = i
    BY DEF Events, Succeeded, Event
  <2>3. PaymentTypeOK'
    BY <2>1, <2>2 DEF PaymentTypeOK, orderVars, hookVars
  <2>4. Truthful'
    BY <1>3, <2>1, <2>2 DEF Pay, PaymentTypeOK, Truthful
  <2> QED BY <2>1, <2>3, <2>4, Untouched DEF orderVars, hookVars
<1>4. CASE Decline(i)
  <2>1. /\ events' = events \cup {Failed(i)}
        /\ UNCHANGED <<orderVars, asking, charge, returned, hookVars, req, byStaff>>
    BY <1>4 DEF Decline
  <2>4. used' \in [faults : 0..MaxFaults, others : 0..MaxOthers, asked : 0..MaxAsked]
    BY <1>4, PaymentAssumption DEF Decline, PaymentTypeOK, PaymentAssumption
  <2>2. Failed(i) \in Events /\ Failed(i).type = "failed"
    BY DEF Events, Failed, Event
  <2>3. PaymentTypeOK' /\ Truthful'
    BY <2>1, <2>2, <2>4 DEF PaymentTypeOK, Truthful, orderVars, hookVars
  <2> QED BY <2>1, <2>3, Untouched DEF orderVars, hookVars
<1> QED BY <1>1, <1>2, <1>3, <1>4 DEF IntentNext

LEMMA HookStep ==
  ASSUME PaymentInv, NEW e \in Events, HookNext(e)
  PROVE  PaymentInv'
<1> USE DEF PaymentInv
<1>1. CASE ReceiveEvent(e)
  BY <1>1, Untouched DEF ReceiveEvent, PaymentTypeOK, Truthful, orderVars, gatewayVars
<1>2. CASE HandlerDies(e)
  <2>1. UNCHANGED <<orderVars, asking, gatewayVars, seen, applied, req, byStaff>>
    BY <1>2 DEF HandlerDies
  <2>2. used' \in [faults : 0..MaxFaults, others : 0..MaxOthers, asked : 0..MaxAsked]
    BY <1>2, PaymentAssumption DEF HandlerDies, PaymentTypeOK, PaymentAssumption
  <2>3. PaymentTypeOK' /\ Truthful'
    BY <1>2, <2>1, <2>2
    DEF HandlerDies, PaymentTypeOK, Truthful, orderVars, gatewayVars
  <2> QED BY <2>1, <2>3, Untouched DEF orderVars, gatewayVars
<1>4. CASE KeyExpires(e)
  <2>1. UNCHANGED <<orderVars, asking, gatewayVars, handling, applied, req, byStaff>>
    BY <1>4 DEF KeyExpires
  <2>2. used' \in [faults : 0..MaxFaults, others : 0..MaxOthers,
                    asked : 0..MaxAsked]
    BY <1>4, PaymentAssumption DEF KeyExpires, PaymentTypeOK, PaymentAssumption
  <2>3. PaymentTypeOK' /\ Truthful'
    BY <1>4, <2>1, <2>2 DEF KeyExpires, PaymentTypeOK, Truthful, orderVars, gatewayVars
  <2> QED BY <2>1, <2>3, Untouched DEF orderVars, gatewayVars
<1>3. CASE HandleEvent(e)
  <2>1. /\ e \in handling /\ e \in events
        /\ handling' = handling \ {e} /\ applied' = applied \cup {e}
        /\ UNCHANGED <<reference, refunds, rows, asking, gatewayVars, seen, req, byStaff, used>>
    BY <1>3 DEF HandleEvent, PaymentTypeOK
  <2>2. /\ e.type \in {"succeeded", "failed", "refunded"}
        /\ e.intent \in Intents
        /\ e.amount \in 0..Price
    BY PaymentAssumption DEF PaymentAssumption, Events, Event, Succeeded, Failed
  <2>3. \/ status' = status /\ payStatus' = payStatus
        \/ e.type = "succeeded" /\ status' = "paid" /\ payStatus' = "paid"
        \/ e.type = "failed" /\ status' = status /\ payStatus' = "failed"
        \/ /\ e.type = "refunded" /\ e.amount >= Price
           /\ status' = "cancelled" /\ payStatus' = "refunded"
    BY <1>3, <2>2 DEF HandleEvent, Outcome
  <2>4. Backed(payStatus')
    <3>1. e.type = "succeeded" => Captured
      BY <2>1, <2>2 DEF Truthful, Captured
    <3>2. e.type = "refunded" /\ e.amount >= Price => Price <= Total(returned)
      BY <2>1, <2>2, Sums, PaymentAssumption DEF PaymentAssumption, Truthful
    <3> QED BY <2>3, <3>1, <3>2 DEF Backed
  <2>5. Memory' /\ Books' /\ Backed(payStatus)'
    BY <2>1, <2>4, Untouched DEF gatewayVars, Backed, Captured
  <2>6. PaymentTypeOK' /\ Truthful'
    BY <2>1, <2>3
    DEF PaymentTypeOK, Truthful, gatewayVars, Statuses, PayStatuses
  <2> QED BY <2>5, <2>6
<1> QED BY <1>1, <1>2, <1>3, <1>4 DEF HookNext

\* How the sum of the unbooked refunds changes with one request.
LEMMA UnbookedChange ==
  ASSUME PaymentTypeOK, PaymentTypeOK', NEW r \in Requests,
         \A o \in Requests \ {r} : req'[o] = req[o]
  PROVE  /\ Total(Unbooked)' = Total(Unbooked) - Unbooked[r] + Unbooked'[r]
         /\ Total(Unbooked)' \in Nat /\ Total(returned)' \in Nat
         /\ Total(Unbooked) \in Nat /\ Total(returned) \in Nat
         /\ Unbooked[r] \in Nat /\ Unbooked'[r] \in Nat
<1>1. Unbooked \in [Requests -> Nat] /\ Total(Unbooked) \in Nat /\ Total(returned) \in Nat
  BY Sums
<1>2. Unbooked' \in [Requests -> Nat]
  BY PaymentAssumption DEF PaymentAssumption, PaymentTypeOK, Unbooked, RefundRequests
<1>3. returned' \in [Intents -> Nat]
  BY PaymentAssumption DEF PaymentAssumption, PaymentTypeOK
<1>4. Total(Unbooked') \in Nat /\ Total(returned') \in Nat
  BY <1>2, <1>3, TotalBounds, PaymentAssumption DEF PaymentAssumption
<1>5. \A o \in Requests \ {r} : Unbooked'[o] = Unbooked[o]
  BY DEF Unbooked
<1>6. Total(Unbooked') = Total(Unbooked) - Unbooked[r] + Unbooked'[r]
  BY <1>1, <1>2, <1>5, TotalChange, PaymentAssumption DEF PaymentAssumption
<1> QED BY <1>1, <1>2, <1>4, <1>6

LEMMA AskStep ==
  ASSUME PaymentInv, NEW r \in Requests, NEW amount \in 1..Price, AskRefund(r, amount)
  PROVE  PaymentInv'
<1> DEFINE q == [stage |-> "asked", amount |-> amount, status |-> status,
                 payStatus |-> payStatus, refunds |-> refunds, intent |-> reference]
<1>1. /\ req[r].stage = "idle" /\ reference # None
      /\ req' = [req EXCEPT ![r] = q]
      /\ UNCHANGED <<orderVars, asking, gatewayVars, hookVars, byStaff>>
  BY DEF AskRefund
<1>2. q \in RefundRequests /\ reference \in Intents
  BY <1>1, PaymentAssumption DEF PaymentAssumption, PaymentInv, PaymentTypeOK, RefundRequests
<1>3. used' \in [faults : 0..MaxFaults, others : 0..MaxOthers, asked : 0..MaxAsked]
  BY PaymentAssumption DEF AskRefund, PaymentInv, PaymentTypeOK, PaymentAssumption
<1>4. PaymentTypeOK' /\ Truthful' /\ Backed(payStatus)'
  BY <1>1, <1>2, <1>3
  DEF PaymentInv, PaymentTypeOK, Truthful, Backed, Captured, orderVars,
      gatewayVars, hookVars
<1>5. \A p : Backed(p) => Backed(p)'
  BY <1>1 DEF Backed, Captured, gatewayVars
<1>6. Memory'
  BY <1>1, <1>2, <1>5 DEF PaymentInv, PaymentTypeOK, Memory, Books, orderVars
<1>7. Unbooked' = Unbooked
  BY <1>1 DEF PaymentInv, PaymentTypeOK, Unbooked
<1>8. Books'
  BY <1>1, <1>7 DEF PaymentInv, Books, orderVars, gatewayVars
<1> QED BY <1>4, <1>6, <1>8 DEF PaymentInv

LEMMA GrantStep ==
  ASSUME PaymentInv, NEW r \in Requests, GrantRefund(r)
  PROVE  PaymentInv'
<1> DEFINE i == req[r].intent
           n == req[r].amount
           e == Event("refunded", i, returned[i] + n)
<1>1. /\ req[r].stage = "asked" /\ returned[i] + n <= Price
      /\ returned' = [returned EXCEPT ![i] = @ + n]
      /\ events' = events \cup {e}
      /\ req' = [req EXCEPT ![r].stage = "granted"]
      /\ UNCHANGED <<orderVars, asking, charge, hookVars, byStaff, used>>
  BY DEF GrantRefund, Refundable
<1>2. i \in Intents /\ n \in 1..Price /\ returned[i] \in 0..Price
  BY <1>1, PaymentAssumption
  DEF PaymentAssumption, PaymentInv, PaymentTypeOK, Memory, RefundRequests
<1>3. e \in Events /\ e.type = "refunded" /\ e.intent = i /\ e.amount = returned[i] + n
  BY <1>1, <1>2, PaymentAssumption DEF PaymentAssumption, Events, Event
<1> HIDE DEF i, n, e
<1>4. PaymentTypeOK'
  <2>1. req' \in [Requests -> RefundRequests]
    BY <1>1 DEF PaymentInv, PaymentTypeOK, RefundRequests
  <2>2. returned' \in [Intents -> 0..Price]
    BY <1>1, <1>2, PaymentAssumption DEF PaymentAssumption, PaymentInv, PaymentTypeOK
  <2> QED BY <1>1, <1>3, <2>1, <2>2 DEF PaymentInv, PaymentTypeOK, orderVars, hookVars
<1>5. Truthful'
  <2>1. \A f \in events : f.intent \in Intents /\ f.amount \in 0..Price
    BY PaymentAssumption
    DEF PaymentInv, PaymentTypeOK, PaymentAssumption, Events, Event, Succeeded, Failed
  <2>2. /\ \A j \in Intents : returned[j] <= returned'[j]
        /\ \A j \in Intents : returned[j] \in Nat /\ returned'[j] \in Nat
        /\ returned'[i] = returned[i] + n
    <3>1. returned \in [Intents -> Nat] /\ returned[i] + n \in Nat
      BY <1>2, PaymentAssumption DEF PaymentAssumption, PaymentInv, PaymentTypeOK
    <3>2. \A j \in Intents : returned'[j] = IF j = i THEN returned[i] + n ELSE returned[j]
      BY <1>1, <3>1
    <3> QED BY <1>2, <3>1, <3>2
  <2>3. ASSUME NEW f \in events', f.type = "refunded"
        PROVE  f.amount <= returned'[f.intent]
    <3>1. CASE f \in events
      <4>1. f.amount <= returned[f.intent]
        BY <2>3, <3>1 DEF PaymentInv, Truthful
      <4>2. f.intent \in Intents /\ f.amount \in Nat
        BY <2>1, <3>1, PaymentAssumption DEF PaymentAssumption
      <4>3. /\ returned[f.intent] \in Nat /\ returned'[f.intent] \in Nat
            /\ returned[f.intent] <= returned'[f.intent]
        BY <2>2, <4>2
      <4> QED BY <4>1, <4>2, <4>3
    <3>2. CASE f = e
      BY <1>2, <1>3, <2>2, <3>2
    <3> QED BY <1>1, <3>1, <3>2
  <2> QED BY <1>1, <1>3, <2>3 DEF PaymentInv, Truthful, hookVars
<1>6. Total(returned)' = Total(returned) + n
  <2>1. returned \in [Intents -> Nat] /\ returned' \in [Intents -> Nat]
    BY <1>4, PaymentAssumption DEF PaymentAssumption, PaymentInv, PaymentTypeOK
  <2>2. \A j \in Intents \ {i} : returned'[j] = returned[j]
    BY <1>1, <2>1
  <2>3. Total(returned') = Total(returned) - returned[i] + returned'[i]
    BY <1>2, <2>1, <2>2, TotalChange, PaymentAssumption DEF PaymentAssumption
  <2>4. Total(returned) \in Nat
    BY Sums DEF PaymentInv
  <2> QED BY <1>1, <1>2, <2>1, <2>3, <2>4
<1>7. \A o \in Requests \ {r} : req'[o] = req[o]
  BY <1>1 DEF PaymentInv, PaymentTypeOK
<1>8. /\ Total(Unbooked)' = Total(Unbooked) - Unbooked[r] + Unbooked'[r]
      /\ Total(Unbooked) \in Nat /\ Total(returned) \in Nat /\ Total(returned)' \in Nat
  BY <1>4, <1>7, UnbookedChange DEF PaymentInv
<1>9. Unbooked[r] = 0 /\ Unbooked'[r] = n
  BY <1>1 DEF Unbooked, n, PaymentInv, PaymentTypeOK, RefundRequests
<1>10. \A p : Backed(p) => Backed(p)'
  BY <1>1, <1>2, <1>6, <1>8, StaysBacked DEF PaymentInv
<1>11. Memory' /\ Backed(payStatus)'
  BY <1>1, <1>10 DEF PaymentInv, PaymentTypeOK, Memory, RefundRequests, orderVars
<1>12. Books'
  BY <1>1, <1>2, <1>6, <1>8, <1>9 DEF PaymentInv, PaymentTypeOK, Books, orderVars
<1> QED BY <1>4, <1>5, <1>11, <1>12 DEF PaymentInv

LEMMA RefuseStep ==
  ASSUME PaymentInv, NEW r \in Requests, RefuseRefund(r)
  PROVE  PaymentInv'
<1>1. /\ req[r].stage = "asked" /\ req' = [req EXCEPT ![r] = NoRequest]
      /\ UNCHANGED <<orderVars, asking, gatewayVars, hookVars, byStaff, used>>
  BY DEF RefuseRefund
<1>2. NoRequest \in RefundRequests
  BY PaymentAssumption DEF PaymentAssumption, NoRequest, RefundRequests, Statuses, PayStatuses
<1>3. PaymentTypeOK' /\ Truthful'
  BY <1>1, <1>2
  DEF PaymentInv, PaymentTypeOK, Truthful, orderVars, gatewayVars, hookVars
<1>4. \A p : Backed(p) => Backed(p)'
  BY <1>1 DEF Backed, Captured, gatewayVars
<1>5. Backed("pending")' /\ rows' = rows /\ rows \in Nat
  BY <1>1 DEF Backed, orderVars, PaymentInv, PaymentTypeOK
<1>6. Memory' /\ Backed(payStatus)'
  BY <1>1, <1>4, <1>5 DEF PaymentInv, PaymentTypeOK, Memory, NoRequest, orderVars
<1>7. Unbooked' = Unbooked
  BY <1>1 DEF PaymentInv, PaymentTypeOK, Unbooked, NoRequest
<1>8. Books'
  BY <1>1, <1>7 DEF PaymentInv, Books, orderVars, gatewayVars
<1> QED BY <1>3, <1>6, <1>8 DEF PaymentInv

LEMMA NoteStep ==
  ASSUME PaymentInv, NEW r \in Requests, NoteRefund(r)
  PROVE  PaymentInv'
<1> DEFINE n == req[r].amount
           s == IF n >= Price THEN "cancelled" ELSE req[r].status
           p == IF n >= Price THEN "refunded" ELSE req[r].payStatus
<1>1. /\ req[r].stage = "granted"
      /\ status' = s /\ payStatus' = p
      /\ req' = [req EXCEPT ![r] = [req[r] EXCEPT !.stage = "noted", !.status = s, !.payStatus = p]]
      /\ UNCHANGED <<reference, refunds, rows, asking, gatewayVars, hookVars, byStaff, used>>
  BY DEF NoteRefund
<1>2. req[r] \in RefundRequests /\ s \in Statuses /\ p \in PayStatuses /\ n \in Nat
  BY PaymentAssumption
  DEF PaymentAssumption, PaymentInv, PaymentTypeOK, RefundRequests, Statuses, PayStatuses
<1>3. Backed(p)
  <2>1. n >= Price => Price <= Total(returned)
    <3>1. Unbooked[r] = n
      BY <1>1 DEF Unbooked
    <3>2. /\ Unbooked[r] <= Total(Unbooked) /\ rows + Total(Unbooked) <= Total(returned)
          /\ rows \in Nat /\ Total(Unbooked) \in Nat /\ Total(returned) \in Nat
      BY Sums DEF PaymentInv, Books, PaymentTypeOK
    <3> QED BY <1>2, <3>1, <3>2, PaymentAssumption DEF PaymentAssumption
  <2>2. Backed(req[r].payStatus)
    BY DEF PaymentInv, Memory
  <2> QED BY <2>1, <2>2 DEF Backed
<1> HIDE DEF s, p, n
<1>4. PaymentTypeOK' /\ Truthful'
  <2>1. req' \in [Requests -> RefundRequests]
    BY <1>1, <1>2 DEF PaymentInv, PaymentTypeOK, RefundRequests
  <2> QED BY <1>1, <1>2, <2>1
          DEF PaymentInv, PaymentTypeOK, Truthful, gatewayVars, hookVars
<1>5. \A x : Backed(x) => Backed(x)'
  BY <1>1 DEF Backed, Captured, gatewayVars
<1>6. Memory' /\ Backed(payStatus)'
  BY <1>1, <1>2, <1>3, <1>5 DEF PaymentInv, PaymentTypeOK, Memory, RefundRequests
<1>7. Unbooked' = Unbooked
  BY <1>1, <1>2 DEF PaymentInv, PaymentTypeOK, Unbooked, RefundRequests
<1>8. Books'
  BY <1>1, <1>7 DEF PaymentInv, Books, gatewayVars
<1> QED BY <1>4, <1>6, <1>8 DEF PaymentInv

LEMMA RecordStep ==
  ASSUME PaymentInv, NEW r \in Requests, RecordRefund(r)
  PROVE  PaymentInv'
<1> DEFINE n == req[r].amount
<1>1. /\ req[r].stage = "noted" /\ rows' = rows + n
      /\ req' = [req EXCEPT ![r].stage = "recorded"]
      /\ UNCHANGED <<status, payStatus, reference, refunds, asking, gatewayVars, hookVars,
                     byStaff, used>>
  BY DEF RecordRefund
<1>2. n \in Nat /\ rows \in Nat /\ rows' \in Nat /\ refunds \in Nat
  BY <1>1, PaymentAssumption
  DEF PaymentAssumption, PaymentInv, PaymentTypeOK, RefundRequests
<1>3. /\ \A o \in Requests : req[o].refunds \in Nat /\ req[o].amount \in Nat
      /\ \A o \in Requests : req[o].refunds <= rows
  BY PaymentAssumption
  DEF PaymentAssumption, PaymentInv, PaymentTypeOK, RefundRequests, Memory
<1>4. PaymentTypeOK' /\ Truthful'
  <2>1. req' \in [Requests -> RefundRequests]
    BY <1>1 DEF PaymentInv, PaymentTypeOK, RefundRequests
  <2> QED BY <1>1, <1>2, <2>1
          DEF PaymentInv, PaymentTypeOK, Truthful, gatewayVars, hookVars
<1>5. \A x : Backed(x) => Backed(x)'
  BY <1>1 DEF Backed, Captured, gatewayVars
<1>6. \A o \in Requests :
        /\ req'[o].payStatus = req[o].payStatus /\ req'[o].refunds = req[o].refunds
        /\ req'[o].amount = req[o].amount /\ req'[o].intent = req[o].intent
        /\ req'[o].stage = IF o = r THEN "recorded" ELSE req[o].stage
  BY <1>1 DEF PaymentInv, PaymentTypeOK, RefundRequests
<1>7. \A o \in Requests :
        /\ Backed(req[o].payStatus)'
        /\ req'[o].stage # "idle" => req'[o].amount >= 1 /\ req'[o].intent \in Intents
        /\ req'[o].refunds <= rows'
        /\ req'[o].stage = "recorded" => req'[o].refunds + req'[o].amount <= rows'
  <2> TAKE o \in Requests
  <2>1. Backed(req[o].payStatus)'
    BY <1>1, <1>6 DEF PaymentInv, Memory, Backed, Captured, gatewayVars
  <2>2. req'[o].stage # "idle" => req'[o].amount >= 1 /\ req'[o].intent \in Intents
    BY <1>1, <1>6 DEF PaymentInv, Memory
  <2>3. req'[o].refunds <= rows'
    BY <1>1, <1>2, <1>3, <1>6
  <2>4. req'[o].stage = "recorded" => req'[o].refunds + req'[o].amount <= rows'
    BY <1>1, <1>2, <1>3, <1>6 DEF PaymentInv, Memory
  <2> QED BY <2>1, <2>2, <2>3, <2>4
<1>8. Books'
  <2>1. /\ Total(Unbooked)' = Total(Unbooked) - Unbooked[r] + Unbooked'[r]
        /\ Total(Unbooked) \in Nat /\ Total(returned) \in Nat /\ Total(returned)' = Total(returned)
    BY <1>1, <1>4, UnbookedChange DEF PaymentInv, PaymentTypeOK, gatewayVars
  <2>2. Unbooked[r] = n /\ Unbooked'[r] = 0
    BY <1>1, <1>6 DEF Unbooked
  <2> QED BY <1>1, <1>2, <2>1, <2>2 DEF PaymentInv, Books
<1> QED BY <1>1, <1>4, <1>5, <1>7, <1>8 DEF PaymentInv, Memory

LEMMA SettleStep ==
  ASSUME PaymentInv, NEW r \in Requests, SettleRefund(r)
  PROVE  PaymentInv'
<1> DEFINE sum == req[r].refunds + req[r].amount
           p == IF sum >= Price THEN "refunded" ELSE "partially_refunded"
           s == IF sum >= Price THEN "cancelled" ELSE req[r].status
<1>1. /\ req[r].stage = "recorded"
      /\ refunds' = sum /\ payStatus' = p /\ status' = s
      /\ req' = [req EXCEPT ![r] = NoRequest]
      /\ UNCHANGED <<reference, rows, asking, gatewayVars, hookVars, byStaff, used>>
  BY DEF SettleRefund
<1>2. sum \in Nat /\ s \in Statuses /\ p \in PayStatuses /\ sum <= rows
  BY <1>1, PaymentAssumption
  DEF PaymentAssumption, PaymentInv, PaymentTypeOK, RefundRequests, Statuses, PayStatuses, Memory
<1>3. Backed(p)
  <2>1. sum >= Price => Price <= Total(returned)
    <3>1. /\ rows + Total(Unbooked) <= Total(returned)
          /\ rows \in Nat /\ Total(Unbooked) \in Nat /\ Total(returned) \in Nat
      BY Sums DEF PaymentInv, Books, PaymentTypeOK
    <3> QED BY <1>2, <3>1, PaymentAssumption DEF PaymentAssumption
  <2> QED BY <2>1 DEF Backed
<1> HIDE DEF sum, p, s
<1>4. NoRequest \in RefundRequests
  BY PaymentAssumption DEF PaymentAssumption, NoRequest, RefundRequests, Statuses, PayStatuses
<1>5. PaymentTypeOK' /\ Truthful'
  BY <1>1, <1>2, <1>4
  DEF PaymentInv, PaymentTypeOK, Truthful, gatewayVars, hookVars
<1>6. \A x : Backed(x) => Backed(x)'
  BY <1>1 DEF Backed, Captured, gatewayVars
<1>7. Backed("pending")' /\ rows' = rows /\ rows \in Nat
  BY <1>1 DEF Backed, PaymentInv, PaymentTypeOK
<1>8. Memory' /\ Backed(payStatus)'
  BY <1>1, <1>3, <1>6, <1>7 DEF PaymentInv, PaymentTypeOK, Memory, NoRequest
<1>9. Unbooked' = Unbooked
  BY <1>1 DEF PaymentInv, PaymentTypeOK, Unbooked, NoRequest
<1>10. Books'
  BY <1>1, <1>2, <1>9 DEF PaymentInv, Books, gatewayVars
<1> QED BY <1>5, <1>8, <1>10 DEF PaymentInv

LEMMA StaffStep ==
  ASSUME PaymentInv, MarkPaid \/ Fulfill \/ Cancel
  PROVE  PaymentInv'
<1>1. /\ status' \in Statuses /\ payStatus' \in {payStatus, "paid", "failed"}
      /\ payStatus' = "paid" /\ payStatus # "paid" => byStaff'
      /\ byStaff => byStaff'
      /\ UNCHANGED <<reference, refunds, rows, asking, gatewayVars, hookVars, req>>
  BY DEF MarkPaid, Fulfill, Cancel, SetStatus, Statuses
<1>2. used' \in [faults : 0..MaxFaults, others : 0..MaxOthers, asked : 0..MaxAsked]
  <2>1. used.others < MaxOthers /\ used' = [used EXCEPT !.others = @ + 1]
    BY DEF MarkPaid, Fulfill, Cancel, SetStatus
  <2> QED BY <2>1, PaymentAssumption DEF PaymentInv, PaymentTypeOK, PaymentAssumption
<1>3. byStaff' \in BOOLEAN
  BY DEF PaymentInv, PaymentTypeOK, MarkPaid, Fulfill, Cancel
<1>4. PaymentTypeOK' /\ Truthful'
  <2>1. payStatus' \in PayStatuses
    BY <1>1 DEF PaymentInv, PaymentTypeOK, PayStatuses
  <2> QED BY <1>1, <1>2, <1>3, <2>1
          DEF PaymentInv, PaymentTypeOK, Truthful, gatewayVars, hookVars
<1>5. Memory' /\ Books' /\ \A p : Backed(p) => Backed(p)'
  BY <1>1, Untouched DEF gatewayVars
<1>6. Backed(payStatus)'
  BY <1>1, <1>5 DEF PaymentInv, Backed, Captured
<1> QED BY <1>4, <1>5, <1>6 DEF PaymentInv

LEMMA StutterStep ==
  ASSUME PaymentInv, UNCHANGED vars
  PROVE  PaymentInv'
<1>1. PaymentTypeOK' /\ Truthful' /\ Backed(payStatus)'
  BY DEF vars, orderVars, gatewayVars, hookVars, PaymentInv, PaymentTypeOK,
     Truthful, Backed, Captured
<1>2. Memory' /\ Books'
  BY Untouched DEF vars, orderVars, gatewayVars
<1> QED BY <1>1, <1>2 DEF PaymentInv

LEMMA InvInductive == PaymentInv /\ [Next]_vars => PaymentInv'
<1> SUFFICES ASSUME PaymentInv, [Next]_vars PROVE PaymentInv'
  OBVIOUS
<1>1. CASE \E i \in Intents : IntentNext(i)
  BY <1>1, IntentStep
<1>2. CASE \E e \in Events : HookNext(e)
  BY <1>2, HookStep
<1>3. CASE \E r \in Requests : RefundNext(r)
  BY <1>3, AskStep, GrantStep, RefuseStep, NoteStep, RecordStep, SettleStep DEF RefundNext
<1>4. CASE MarkPaid \/ Fulfill \/ Cancel
  BY <1>4, StaffStep
<1>5. CASE UNCHANGED vars
  BY <1>5, StutterStep
<1> QED BY <1>1, <1>2, <1>3, <1>4, <1>5 DEF Next

THEOREM InvHolds == Spec => []PaymentInv
<1>1. PaymentInv /\ [Next]_vars => PaymentInv'
  BY InvInductive
<1> QED BY InitInv, <1>1, PTL DEF Spec

-----------------------------------------------------------------------------
\* Type correctness of the order, its requests and the gateway's state.
THEOREM PaymentTyping == Spec => []PaymentTypeOK
<1>1. PaymentInv => PaymentTypeOK
  BY DEF PaymentInv
<1> QED BY InvHolds, <1>1, PTL

\* An order the staff did not mark is paid only if the gateway captured one of
\* its intents, although refunds save statuses read long before.
THEOREM PaidOnlyIfCaptured == Spec => []PaidMeansCaptured
<1>1. PaymentInv => PaidMeansCaptured
  BY DEF PaymentInv, Backed, Captured, PaidMeansCaptured
<1> QED BY InvHolds, <1>1, PTL

\* refunds_total is never ahead of the Refund rows, nor these of what was given
\* back, and a refunded order has had its price given back, for any number of
\* overlapping refunds (commerce refund_order).
THEOREM RefundsAreBacked == Spec => []RefundsBacked
<1>1. ASSUME PaymentInv PROVE RefundsBacked
  <2>1. rows <= Total(returned)
    <3>1. /\ rows + Total(Unbooked) <= Total(returned)
          /\ rows \in Nat /\ Total(Unbooked) \in Nat /\ Total(returned) \in Nat
      BY <1>1, Sums DEF PaymentInv, Books, PaymentTypeOK
    <3> QED BY <3>1
  <2> QED BY <1>1, <2>1 DEF PaymentInv, Books, Backed, RefundsBacked
<1> QED BY InvHolds, <1>1, PTL
=============================================================================
