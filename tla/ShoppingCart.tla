---------------------------- MODULE ShoppingCart ----------------------------
(***************************************************************************)
(* message_passing/update_with_start/lazy_initialization: a cart per       *)
(* session, created by the first add_item (update-with-start with          *)
(* USE_EXISTING), which takes items until checkout and returns the order.  *)
(* After it has returned, the next add_item creates a new cart.            *)
(***************************************************************************)
EXTENDS Integers, Sequences

CONSTANTS
  Requests,        \* identities of add_item requests, one item each
  Price,           \* price of the item of a request; 0: unavailable
  MaxCarts         \* bound: executions of the cart workflow

VARIABLES
  cart,            \* number of the current execution, 0 before the first
  open,
  items,           \* the requests whose items are in the cart
  order_submitted,
  status,          \* how far a request has come
  cartOf,          \* the execution that accepted a request
  subtotal,        \* what a request was answered
  orders           \* the orders returned

vars == <<cart, open, items, order_submitted, status, cartOf, subtotal, orders>>

\* sum(price for _, price in s)
Total[s \in Seq(Requests)] == IF s = <<>> THEN 0 ELSE Price[Head(s)] + Total[Tail(s)]

all_handlers_finished == \A r \in Requests : status[r] # "pricing"

Init ==
  /\ cart = 0 /\ open = FALSE
  /\ items = <<>> /\ order_submitted = FALSE
  /\ status = [r \in Requests |-> "unsent"]
  /\ cartOf = [r \in Requests |-> 0]
  /\ subtotal = [r \in Requests |-> 0]
  /\ orders = <<>>

-----------------------------------------------------------------------------
\* The cart is there: the validator, then get_price.
AddToCart(r) ==
  /\ open /\ status[r] = "unsent"
  /\ \/ order_submitted /\ status' = [status EXCEPT ![r] = "rejected"] /\ UNCHANGED cartOf
     \/ /\ ~order_submitted
        /\ status' = [status EXCEPT ![r] = "pricing"]
        /\ cartOf' = [cartOf EXCEPT ![r] = cart]
  /\ UNCHANGED <<cart, open, items, order_submitted, subtotal, orders>>

\* There is no cart: the request starts one.
StartCart(r) ==
  /\ ~open /\ cart < MaxCarts /\ status[r] = "unsent"
  /\ cart' = cart + 1 /\ open' = TRUE
  /\ items' = <<>> /\ order_submitted' = FALSE
  /\ status' = [status EXCEPT ![r] = "pricing"]
  /\ cartOf' = [cartOf EXCEPT ![r] = cart']
  /\ UNCHANGED <<subtotal, orders>>

\* Variant: the items are read before get_price and written after it; here,
\* what others add meanwhile is lost.
PricedStale(r) ==
  /\ open /\ status[r] = "pricing" /\ Price[r] # 0
  /\ \E n \in 0 .. Len(items) : items' = Append(SubSeq(items, 1, n), r)
  /\ subtotal' = [subtotal EXCEPT ![r] = Total[items']]
  /\ status' = [status EXCEPT ![r] = "added"]
  /\ UNCHANGED <<cart, open, order_submitted, cartOf, orders>>

\* get_price has returned.
Priced(r) ==
  /\ open /\ status[r] = "pricing" /\ Price[r] # 0
  /\ items' = Append(items, r)
  /\ subtotal' = [subtotal EXCEPT ![r] = Total[items']]
  /\ status' = [status EXCEPT ![r] = "added"]
  /\ UNCHANGED <<cart, open, order_submitted, cartOf, orders>>

Unavailable(r) ==
  /\ open /\ status[r] = "pricing" /\ Price[r] = 0
  /\ status' = [status EXCEPT ![r] = "unavailable"]
  /\ UNCHANGED <<cart, open, items, order_submitted, cartOf, subtotal, orders>>

Checkout ==
  /\ open /\ ~order_submitted
  /\ order_submitted' = TRUE
  /\ UNCHANGED <<cart, open, items, status, cartOf, subtotal, orders>>

\* run returns the order.
Finalize ==
  /\ open /\ order_submitted /\ all_handlers_finished
  /\ open' = FALSE
  /\ orders' = Append(orders, [items |-> items, total |-> Total[items]])
  /\ UNCHANGED <<cart, items, order_submitted, status, cartOf, subtotal>>

-----------------------------------------------------------------------------
RequestStep(r) == AddToCart(r) \/ StartCart(r) \/ Priced(r) \/ Unavailable(r)

Next == Checkout \/ Finalize \/ \E r \in Requests : RequestStep(r)

Fairness == WF_vars(Finalize) /\ \A r \in Requests : WF_vars(Priced(r) \/ Unavailable(r))
Spec == Init /\ [][Next]_vars /\ Fairness

-----------------------------------------------------------------------------
(* Properties *)

\* Every variable has its type, and there is one order for each cart that has
\* closed.
TypeOK ==
  /\ cart \in 0 .. MaxCarts /\ open \in BOOLEAN /\ order_submitted \in BOOLEAN
  /\ items \in Seq(Requests)
  /\ status \in [Requests -> {"unsent", "rejected", "pricing", "added", "unavailable"}]
  /\ cartOf \in [Requests -> 0 .. MaxCarts] /\ subtotal \in [Requests -> Nat]
  /\ Len(orders) = (IF open THEN cart - 1 ELSE cart)

\* The order of a cart holds what its customers were told is in it, each item
\* once, and its total is the last and largest subtotal anybody was told.
OrderIsWhatWasAdded ==
  \A k \in DOMAIN orders :
    LET o == orders[k]
        added == {r \in Requests : status[r] = "added" /\ cartOf[r] = k}
    IN  /\ {o.items[i] : i \in DOMAIN o.items} = added
        /\ \A i, j \in DOMAIN o.items : o.items[i] = o.items[j] => i = j
        /\ \A r \in added : subtotal[r] <= o.total
        /\ added # {} => \E r \in added : subtotal[r] = o.total

\* A cart that is checked out returns its order.
OrderIsReturned == order_submitted ~> ~open
=============================================================================
