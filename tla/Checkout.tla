------------------------------ MODULE Checkout ------------------------------
(***************************************************************************)
(* Carts, checkout sessions and stock reservations of the commerce app     *)
(* (commerce/services.py, the public cart views of builder/views.py).      *)
(*                                                                         *)
(* A request that runs in transaction.atomic and holds row locks until it  *)
(* commits is one action.  A request that only autocommits is split where  *)
(* it reads a row and later writes what it read: `req' holds what such a   *)
(* request carries between its steps.                                      *)
(***************************************************************************)
EXTENDS Integers, FiniteSets, Tally

CONSTANTS Sessions,   \* browser sessions (session_key)
          Threads,    \* web requests under way at a time, of whatever session
          Carts,      \* ids of Cart rows
          OwnerOf,    \* the session each cart id belongs to
          Checkouts,  \* ids of CheckoutSession rows
          Variants,   \* ids of ProductVariant rows
          Tracked,    \* variants with track_inventory
          Backorder,  \* variants with allow_backorder
          Stock,      \* ProductVariant.inventory before the first sale
          MaxQty,     \* bound on the quantity of a cart line
          MaxUses     \* DiscountCode.max_uses, 0 for no limit

ASSUME CheckoutAssumption ==
  /\ IsFiniteSet(Checkouts)
  /\ OwnerOf \in [Carts -> Sessions]
  /\ Tracked \subseteq Variants
  /\ Backorder \subseteq Variants
  /\ MaxQty \in Nat
  /\ MaxUses \in Nat
  /\ Stock \in [Variants -> Nat]

VARIABLES
  cart,       \* Cart.status of each id, "none" before the row exists
  item,       \* CartItem.quantity per cart and variant, 0 for no row
  req,        \* what each request that is between two steps carries
  status,     \* CheckoutSession.status, "none" before the row exists
  ofCart,     \* CheckoutSession.cart
  overdue,    \* checkouts whose expires_at has passed
  priced,     \* the cart lines CheckoutSession.total was computed from
  coded,      \* checkouts priced with the discount code
  resv,       \* the StockReservation of each checkout and variant
  rows,       \* variants that have an Inventory row
  onHand,     \* Inventory.on_hand
  reserved,   \* Inventory.reserved
  inventory,  \* ProductVariant.inventory, the copy the catalog shows
  useCount,   \* DiscountCode.use_count
  orders,     \* how many Order rows each checkout has produced
  ordered,    \* the lines of its Order
  refused,    \* checkouts whose completion was answered "has expired"
  direct,     \* units in orders that were placed without a checkout session
  directUses  \* how many such orders counted a use of the discount code

cartVars  == <<cart, item, req>>
chkVars   == <<status, ofCart, overdue, priced, coded>>
stockVars == <<resv, rows, onHand, reserved, inventory>>
orderVars == <<useCount, orders, ordered, refused, direct, directUses>>
vars      == <<cartVars, chkVars, stockVars, orderVars>>

Lines == [Variants -> 0..MaxQty]

NoLines == [v \in Variants |-> 0]

Idle == [op |-> "idle"]

Requests == [op : {"idle"}]
              \cup [op : {"checkout"}, cart : Carts]
              \cup [op : {"priced"}, cart : Carts, lines : Lines]
              \cup [op : {"save"}, cart : Carts, variant : Variants, quantity : 0..MaxQty]
              \cup [op : {"order"}, cart : Carts, lines : Lines, left : [Variants -> Int],
                    code : BOOLEAN, uses : Nat]

Reservations == [status : {"none", "reserved", "committed", "expired"}, quantity : 0..MaxQty]

NoReservation == [status |-> "none", quantity |-> 0]

(***************************************************************************)
(* Inventory.  get_or_create gives a variant its row the first time it is  *)
(* touched, from ProductVariant.inventory and with nothing reserved.       *)
(***************************************************************************)
OnHand(v)   == IF v \in rows THEN onHand[v] ELSE inventory[v]
Reserved(v) == IF v \in rows THEN reserved[v] ELSE 0

AtLeastZero(n) == IF n < 0 THEN 0 ELSE n
(* Mutant: reserved units count as available. *)
Available_IgnoresReserved(v) == AtLeastZero(OnHand(v))

Available(v) == AtLeastZero(OnHand(v) - Reserved(v))

(* Inventory.save and _sync_variant_from_inventory for the variants of V.  *)
WriteStock(V, hand, held) ==
  /\ rows' = rows \cup V
  /\ onHand' = [v \in Variants |-> IF v \in V THEN hand[v] ELSE onHand[v]]
  /\ reserved' = [v \in Variants |-> IF v \in V THEN held[v] ELSE reserved[v]]
  /\ inventory' = [v \in Variants |-> IF v \in V THEN hand[v] ELSE inventory[v]]

TypeOK ==
  /\ cart \in [Carts -> {"none", "open", "converted"}]
  /\ item \in [Carts -> Lines]
  /\ req \in [Threads -> Requests]
  /\ status \in [Checkouts -> {"none", "open", "completed", "expired"}]
  /\ ofCart \in [Checkouts -> Carts \cup {"none"}]
  /\ overdue \subseteq Checkouts
  /\ priced \in [Checkouts -> Lines]
  /\ coded \subseteq Checkouts
  /\ resv \in [Checkouts -> [Variants -> Reservations]]
  /\ rows \subseteq Variants
  /\ onHand \in [Variants -> Int]
  /\ reserved \in [Variants -> Nat]
  /\ inventory \in [Variants -> Int]
  /\ useCount \in Nat
  /\ orders \in [Checkouts -> Nat]
  /\ ordered \in [Checkouts -> Lines]
  /\ refused \subseteq Checkouts
  /\ direct \in [Variants -> Nat]
  /\ directUses \in Nat

Init ==
  /\ cart = [c \in Carts |-> "none"]
  /\ item = [c \in Carts |-> NoLines]
  /\ req = [t \in Threads |-> Idle]
  /\ status = [k \in Checkouts |-> "none"]
  /\ ofCart = [k \in Checkouts |-> "none"]
  /\ overdue = {}
  /\ priced = [k \in Checkouts |-> NoLines]
  /\ coded = {}
  /\ resv = [k \in Checkouts |-> [v \in Variants |-> NoReservation]]
  /\ rows = {}
  /\ onHand = Stock
  /\ reserved = [v \in Variants |-> 0]
  /\ inventory = Stock
  /\ useCount = 0
  /\ orders = [k \in Checkouts |-> 0]
  /\ ordered = [k \in Checkouts |-> NoLines]
  /\ refused = {}
  /\ direct = [v \in Variants |-> 0]
  /\ directUses = 0

(***************************************************************************)
(* The cart.                                                               *)
(***************************************************************************)
(* Mutant: the cart is read without FOR UPDATE. *)
Locked_Never(c) == FALSE

(* create_checkout_session holds the Cart row FOR UPDATE.  Who writes the  *)
(* Cart row, and who inserts a CartItem (its foreign key locks the cart's  *)
(* key), waits; writing or deleting a line that exists does not.           *)
Locked(c) == \E t \in Threads : req[t].op = "priced" /\ req[t].cart = c

(* get_or_create_cart: a partial unique index allows one open cart per     *)
(* session; a converted cart is followed by a new row.                     *)
OpenCart(c) ==
  /\ cart[c] = "none"
  /\ \A d \in Carts : OwnerOf[d] = OwnerOf[c] => cart[d] # "open"
  /\ cart' = [cart EXCEPT ![c] = "open"]
  /\ UNCHANGED <<item, req, chkVars, stockVars, orderVars>>

(* builder.services.ensure_variant_inventory: the cart looks at the copy   *)
(* on the variant, which leaves out what is reserved.                      *)
InStock(v, q) == v \in Tracked => q <= inventory[v]

SaveRequest(c, v, q) == [op |-> "save", cart |-> c, variant |-> v, quantity |-> q]

(* POST cart/items/: CartItem.get_or_create commits a new line with the    *)
(* quantity asked for before the stock is looked at; the line is saved     *)
(* again, with what was read before, only if there is stock.               *)
AddItem(t, c, v, q) ==
  LET total == item[c][v] + q IN
  /\ cart[c] = "open" /\ req[t] = Idle /\ total <= MaxQty
  /\ item[c][v] = 0 => ~Locked(c)
  /\ item' = [item EXCEPT ![c][v] = IF @ = 0 THEN q ELSE @]
  /\ req' = [req EXCEPT ![t] = IF InStock(v, total) THEN SaveRequest(c, v, total) ELSE Idle]
  /\ UNCHANGED <<cart, chkVars, stockVars, orderVars>>

(* PATCH cart/items/<id>/ with a quantity above zero.                      *)
ChangeItem(t, c, v, q) ==
  /\ cart[c] = "open" /\ req[t] = Idle /\ item[c][v] > 0
  /\ InStock(v, q)
  /\ req' = [req EXCEPT ![t] = SaveRequest(c, v, q)]
  /\ UNCHANGED <<cart, item, chkVars, stockVars, orderVars>>

(* cart_item.save(): writes the line whatever became of the cart since,    *)
(* and inserts it again if it was deleted.                                 *)
SaveItem(t) ==
  LET r == req[t] IN
  /\ r.op = "save"
  /\ item[r.cart][r.variant] = 0 => ~Locked(r.cart)
  /\ item' = [item EXCEPT ![r.cart][r.variant] = r.quantity]
  /\ req' = [req EXCEPT ![t] = Idle]
  /\ UNCHANGED <<cart, chkVars, stockVars, orderVars>>

(* DELETE cart/items/<id>/, and PATCH with quantity zero.                  *)
RemoveItem(t, c, v) ==
  /\ cart[c] = "open" /\ req[t] = Idle /\ item[c][v] > 0
  /\ item' = [item EXCEPT ![c][v] = 0]
  /\ UNCHANGED <<cart, req, chkVars, stockVars, orderVars>>

(***************************************************************************)
(* The checkout session.                                                   *)
(***************************************************************************)
(* PublicCheckoutSessionView finds the session's open cart, and only then  *)
(* starts the transaction.                                                 *)
StartCheckout(t, c) ==
  /\ cart[c] = "open" /\ req[t] = Idle
  /\ req' = [req EXCEPT ![t] = [op |-> "checkout", cart |-> c]]
  /\ UNCHANGED <<cart, item, chkVars, stockVars, orderVars>>

(* _reserve_inventory_for_checkout reserves every tracked line or raises.  *)
Reservable(lines) ==
  {v \in Variants : lines[v] > 0 /\ v \in Tracked}

EnoughStock(lines) ==
  \A v \in Reservable(lines) \ Backorder : lines[v] <= Available(v)

CodeAccepted == MaxUses > 0 => useCount < MaxUses

CheckoutAccepted(lines, code) ==
  /\ \E v \in Variants : lines[v] > 0
  /\ code => CodeAccepted
  /\ EnoughStock(lines)

Reserve(k, lines) ==
  /\ resv' = [resv EXCEPT ![k] =
       [v \in Variants |-> IF v \in Reservable(lines)
                           THEN [status |-> "reserved", quantity |-> lines[v]]
                           ELSE NoReservation]]
  /\ WriteStock(Reservable(lines),
                [v \in Variants |-> OnHand(v)],
                [v \in Variants |-> Reserved(v) + lines[v]])

(* create_checkout_session locks the cart, whose status it does not look   *)
(* at again.  recalculate_cart reads the lines the session is priced from. *)
PriceCheckout(t) ==
  LET c == req[t].cart IN
  /\ req[t].op = "checkout" /\ ~Locked(c)
  /\ req' = [req EXCEPT ![t] = [op |-> "priced", cart |-> c, lines |-> item[c]]]
  /\ UNCHANGED <<cart, item, chkVars, stockVars, orderVars>>

(* recalculate_cart then saves each line it read, which fails for one that *)
(* is gone.  From its save on a line is locked, and what is reserved is    *)
(* read again.                                                             *)
LinesThere(r) == \A v \in Variants : r.lines[v] > 0 => item[r.cart][v] > 0

(* The rest of the transaction.                                            *)
CreateCheckout(t, k, code) ==
  LET r == req[t] IN
  /\ r.op = "priced" /\ status[k] = "none"
  /\ LinesThere(r) /\ CheckoutAccepted(item[r.cart], code)
  /\ status' = [status EXCEPT ![k] = "open"]
  /\ ofCart' = [ofCart EXCEPT ![k] = r.cart]
  /\ priced' = [priced EXCEPT ![k] = r.lines]
  /\ coded' = IF code THEN coded \cup {k} ELSE coded
  /\ Reserve(k, item[r.cart])
  /\ req' = [req EXCEPT ![t] = Idle]
  /\ UNCHANGED <<cart, item, overdue, orderVars>>

(* An exception in the transaction rolls all of it back; a bad code, an    *)
(* empty cart, a shortage and a line that is gone come to the same.        *)
RefuseCheckout(t, code) ==
  LET r == req[t] IN
  /\ r.op = "priced"
  /\ ~(LinesThere(r) /\ CheckoutAccepted(item[r.cart], code))
  /\ req' = [req EXCEPT ![t] = Idle]
  /\ UNCHANGED <<cart, item, chkVars, stockVars, orderVars>>

(* expires_at passes.                                                      *)
PassDeadline(k) ==
  /\ status[k] = "open" /\ k \notin overdue
  /\ overdue' = overdue \cup {k}
  /\ UNCHANGED <<cartVars, status, ofCart, priced, coded, stockVars, orderVars>>

Held(k, v) == resv[k][v].status = "reserved"

HeldBy(k) == {v \in Variants : Held(k, v)}

SetReservations(k, to) ==
  resv' = [resv EXCEPT ![k] =
    [v \in Variants |-> IF Held(k, v) THEN [resv[k][v] EXCEPT !.status = to] ELSE resv[k][v]]]
(* Mutant: Inventory.reserved is left as it was. *)
LessReserved_Keeps(k) == [v \in Variants |-> Reserved(v)]

LessReserved(k) ==
  [v \in Variants |-> AtLeastZero(Reserved(v) - resv[k][v].quantity)]

(* _release_checkout_reservations with mark_status EXPIRED.                *)
Release(k) ==
  /\ SetReservations(k, "expired")
  /\ WriteStock(HeldBy(k) \cap Tracked, [v \in Variants |-> OnHand(v)], LessReserved(k))

(* CheckoutSessionViewSet.cancel, the only caller of                       *)
(* expire_checkout_session whose transaction commits.                      *)
CancelCheckout(k) ==
  /\ status[k] = "open"
  /\ Release(k)
  /\ status' = [status EXCEPT ![k] = "expired"]
  /\ UNCHANGED <<cartVars, ofCart, overdue, priced, coded, orderVars>>

(* Mutant: committing only lifts the reservation. *)
LessOnHand_Keeps(k) == [v \in Variants |-> OnHand(v)]

(* _commit_checkout_reservations.                                          *)
LessOnHand(k) ==
  [v \in Variants |->
    LET left == OnHand(v) - resv[k][v].quantity IN
    IF v \in Backorder THEN left ELSE AtLeastZero(left)]

Commit(k) ==
  /\ SetReservations(k, "committed")
  /\ WriteStock(HeldBy(k) \cap Tracked, LessOnHand(k), LessReserved(k))

(* Mutant: a second submission of a completed session is not refused. *)
CompleteCheckout_Twice(k) ==
  /\ status[k] \in {"open", "completed"} /\ k \notin overdue /\ ~Locked(ofCart[k])
  /\ \E v \in Variants : item[ofCart[k]][v] > 0
  /\ orders' = [orders EXCEPT ![k] = @ + 1]
  /\ ordered' = [ordered EXCEPT ![k] = item[ofCart[k]]]
  /\ Commit(k)
  /\ useCount' = IF k \in coded THEN useCount + 1 ELSE useCount
  /\ cart' = [cart EXCEPT ![ofCart[k]] = "converted"]
  /\ status' = [status EXCEPT ![k] = "completed"]
  /\ UNCHANGED <<item, req, ofCart, overdue, priced, coded, refused, direct, directUses>>

(* create_order_from_checkout: the order lists the cart as it is now and   *)
(* charges what the checkout was priced at.                                *)
CompleteCheckout(k) ==
  /\ status[k] = "open" /\ k \notin overdue /\ ~Locked(ofCart[k])
  /\ \E v \in Variants : item[ofCart[k]][v] > 0
  /\ orders' = [orders EXCEPT ![k] = @ + 1]
  /\ ordered' = [ordered EXCEPT ![k] = item[ofCart[k]]]
  /\ Commit(k)
  /\ useCount' = IF k \in coded THEN useCount + 1 ELSE useCount
  /\ cart' = [cart EXCEPT ![ofCart[k]] = "converted"]
  /\ status' = [status EXCEPT ![k] = "completed"]
  /\ UNCHANGED <<item, req, ofCart, overdue, priced, coded, refused, direct, directUses>>

(* Past expires_at it calls expire_checkout_session and then raises inside *)
(* the same atomic block, so that what was released is rolled back.        *)
CompleteOverdue(k) ==
  /\ status[k] = "open" /\ k \in overdue
  /\ refused' = refused \cup {k}
  /\ UNCHANGED <<cartVars, chkVars, stockVars, useCount, orders, ordered, direct, directUses>>

(***************************************************************************)
(* The one-step checkout, POST checkout/ and the form of the shop page: no *)
(* transaction, no reservation, and the stock it looks at and lowers is    *)
(* the copy on the variant.                                                *)
(***************************************************************************)
(* create_order_from_cart up to Order.objects.create.  What is written     *)
(* later is computed from the objects read here.                           *)
PlaceOrder(t, c, code) ==
  LET lines == item[c] IN
  /\ cart[c] = "open" /\ req[t] = Idle
  /\ \E v \in Variants : lines[v] > 0
  /\ \A v \in Variants : lines[v] > 0 => InStock(v, lines[v])
  /\ code => CodeAccepted
  /\ req' = [req EXCEPT ![t] =
       [op |-> "order", cart |-> c, lines |-> lines, code |-> code,
        left |-> [v \in Variants |-> IF v \in Reservable(lines)
                                     THEN AtLeastZero(inventory[v] - lines[v]) ELSE 0],
        uses |-> IF code THEN useCount ELSE 0]]
  /\ UNCHANGED <<cart, item, chkVars, stockVars, orderVars>>

(* Its order lines, the variants, the cart and the discount code are saved *)
(* without another look at their rows.                                     *)
FinishOrder(t) ==
  LET r == req[t] IN
  /\ r.op = "order"
  /\ direct' = [v \in Variants |-> direct[v] + r.lines[v]]
  /\ inventory' = [v \in Variants |->
       IF v \in Reservable(r.lines) THEN r.left[v] ELSE inventory[v]]
  /\ cart' = [cart EXCEPT ![r.cart] = "converted"]
  /\ useCount' = IF r.code THEN r.uses + 1 ELSE useCount
  /\ directUses' = IF r.code THEN directUses + 1 ELSE directUses
  /\ req' = [req EXCEPT ![t] = Idle]
  /\ UNCHANGED <<item, chkVars, resv, rows, onHand, reserved, orders, ordered, refused>>

CartNext ==
  \/ \E c \in Carts : OpenCart(c)
  \/ \E t \in Threads :
       \/ SaveItem(t)
       \/ FinishOrder(t)
       \/ \E c \in Carts :
            \/ StartCheckout(t, c)
            \/ \E code \in BOOLEAN : PlaceOrder(t, c, code)
            \/ \E v \in Variants :
                 \/ RemoveItem(t, c, v)
                 \/ \E q \in 1..MaxQty : AddItem(t, c, v, q) \/ ChangeItem(t, c, v, q)

CheckoutNext ==
  \/ \E t \in Threads :
       \/ PriceCheckout(t)
       \/ \E code \in BOOLEAN :
            \/ RefuseCheckout(t, code)
            \/ \E k \in Checkouts : CreateCheckout(t, k, code)
  \/ \E k \in Checkouts :
       PassDeadline(k) \/ CancelCheckout(k) \/ CompleteCheckout(k) \/ CompleteOverdue(k)

Next == CartNext \/ CheckoutNext

Spec == Init /\ [][Next]_vars

(***************************************************************************)
(* Properties.                                                             *)
(***************************************************************************)
(* How many units of v the reservations in a status stand for.             *)
Quantities(st, v) ==
  [k \in Checkouts |-> IF resv[k][v].status = st THEN resv[k][v].quantity ELSE 0]

UnitsHeld(v) == Total(Quantities("reserved", v))
UnitsSold(v) == Total(Quantities("committed", v))

(* Inventory.reserved, which create, cancel and complete each adjust by a  *)
(* difference (with max(0, ..) hiding an underflow), is exactly the sum of *)
(* the reservations still held.                                            *)
ReservedIsSum == \A v \in Variants : Reserved(v) = UnitsHeld(v)

(* No unit of a tracked variant is sold twice through checkout sessions,   *)
(* and none is lost while nothing of it was ordered without one: what is   *)
(* on hand and what was committed add up to the stock there was, so the    *)
(* clamp of on_hand at zero never swallows a sale.                         *)
StockConserved ==
  \A v \in Tracked :
    /\ OnHand(v) + UnitsSold(v) <= Stock[v]
    /\ direct[v] = 0 => OnHand(v) + UnitsSold(v) = Stock[v]

(* A variant without backorders never has more units reserved than it has  *)
(* on hand, however many checkouts run side by side.                       *)
ReservedOnHand == \A v \in Tracked \ Backorder : Reserved(v) <= OnHand(v)

(* Reservations live and die with their checkout session: none is held for *)
(* a session that is closed, none is committed without an order.           *)
ReservationFollowsCheckout ==
  \A k \in Checkouts, v \in Variants :
    /\ resv[k][v].status = "reserved" => status[k] = "open"
    /\ resv[k][v].status = "committed" => status[k] = "completed" /\ orders[k] = 1
    /\ status[k] = "completed" => resv[k][v].status \in {"none", "committed"}

(* A checkout session produces one order at most, and exactly one once it  *)
(* is completed; DiscountCode.use_count never runs ahead of the orders     *)
(* made with the code, and counts the completed sessions priced with it    *)
(* exactly until the one-step checkout, which can lose others' counts,     *)
(* first writes it.                                                        *)
CodedSales == {k \in coded : status[k] = "completed"}

OneOrderPerCheckout ==
  /\ \A k \in Checkouts : orders[k] = IF status[k] = "completed" THEN 1 ELSE 0
  /\ useCount <= Cardinality(CodedSales) + directUses
  /\ directUses = 0 => useCount = Cardinality(CodedSales)

(* A checkout session holds stock for the lines its total was computed     *)
(* from, no line less and none more, although pricing and reserving each   *)
(* read the cart and other requests of the browser edit it in between.     *)
(* (The quantities may differ: a save of a line can fall in between.)      *)
PricedLinesReserved ==
  \A k \in Checkouts, v \in Tracked :
    status[k] # "none" => (priced[k][v] > 0 <=> resv[k][v].status # "none")

(* A closed session stays closed, a converted cart stays converted, and    *)
(* units once committed to an order are never taken back by this path.     *)
ClosedStaysClosed ==
  [][/\ \A k \in Checkouts : status[k] \in {"completed", "expired"} =>
          /\ status'[k] = status[k]
          /\ resv'[k] = resv[k]
          /\ ordered'[k] = ordered[k]
     /\ \A c \in Carts : cart[c] = "converted" => cart'[c] = "converted"]_vars

(* The counters implement the claims of StockClaims.                       *)
Claims == INSTANCE StockClaims WITH
  Claims <- Checkouts,
  Limited <- Tracked \ Backorder,
  phase <- [k \in Checkouts |->
              CASE status[k] = "none" -> "none"
                [] status[k] = "open" -> "held"
                [] status[k] = "completed" -> "sold"
                [] status[k] = "expired" -> "released"],
  want <- [k \in Checkouts |-> [v \in Variants |-> resv[k][v].quantity]]

ImplementsClaims == Claims!ClaimSpec

(***************************************************************************)
(* What the repository says and the code does not do.                      *)
(***************************************************************************)
(* commerce/README.md: "Expired/cancelled checkout sessions release        *)
(* reservations."  Here: once a completion was answered "Checkout session  *)
(* has expired.", nothing is held for that session any more.               *)
ExpiredReleases == \A k \in refused, v \in Variants : ~Held(k, v)
=============================================================================
