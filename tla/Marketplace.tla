------------------------------ MODULE Marketplace ------------------------------
(***************************************************************************)
(* The cart of one user and its checkout.  A checkout reads the cart and   *)
(* the balance of the authenticated user first and then runs one           *)
(* transaction on a connection of its own; in the middle of it, the wallet *)
(* is read through another connection of the same pool.  Rows written or   *)
(* deleted by a transaction stay locked until it ends, and so does the     *)
(* view that a trigger refreshes after every insert of a payment: from     *)
(* their payments on, transactions run one after another.                  *)
(*                                                                         *)
(* Every item costs one SoM.  The cart and the collection have a primary   *)
(* key over user and item, so both are sets.                               *)
(***************************************************************************)
EXTENDS Integers, FiniteSets

CONSTANTS
    Buyers,         \* requests of the user that may run at the same time
    Items,          \* avatar items
    Funds,          \* the balance of the wallet to begin with
    Connections,    \* connections of the pool
    MaxStarts,      \* bound on the requests ever started
    MaxFaults       \* bound on the statements the database refuses

ASSUME BuyersAssumption   == IsFiniteSet(Buyers)
ASSUME ItemsAssumption    == IsFiniteSet(Items)
ASSUME PoolAssumption     == Connections \in Nat
ASSUME MarketBounds       == Funds \in Nat /\ MaxStarts \in Nat /\ MaxFaults \in Nat

VARIABLES
    active,         \* items on sale
    cart,           \* committed rows of carts_items
    owned,          \* committed rows of users_items_collections
    orders,         \* committed orders of each item
    payments,       \* sum of the committed payments of type PURCHASE
    balance,        \* of the wallet
    free,           \* connections nobody uses
    buyer,          \* the running requests
    overlapped,     \* two requests have run at the same time
    starts,         \* requests started
    faults          \* statements refused

marketVars == <<active, cart, owned, orders, payments, balance, free, buyer,
                overlapped, starts, faults>>

-----------------------------------------------------------------------------
(* Types                                                                   *)

Away == [pc |-> "away"]

\* A request: what it does next, the items it is about, the balance it read and
\* the cart rows it has deleted.
HasPaid       == {"reading", "deducting", "emptying", "collecting", "committing"}
InTransaction == {"ordering", "paying"} \cup HasPaid
Shopping == [pc : {"finding", "adding", "carting", "connecting"} \cup InTransaction,
             items : SUBSET Items, seen : Int, gone : SUBSET Items]

MarketTypeOK ==
    /\ active \subseteq Items
    /\ cart \subseteq Items
    /\ owned \subseteq Items
    /\ orders \in [Items -> Nat]
    /\ payments \in Nat
    /\ balance \in Int
    /\ free \in 0..Connections
    /\ buyer \in [Buyers -> Shopping \cup {Away}]
    /\ overlapped \in BOOLEAN
    /\ starts \in Nat
    /\ faults \in Nat

MarketInit ==
    /\ active = Items
    /\ cart = {}
    /\ owned = {}
    /\ orders = [i \in Items |-> 0]
    /\ payments = 0
    /\ balance = Funds
    /\ free = Connections
    /\ buyer = [b \in Buyers |-> Away]
    /\ overlapped = FALSE
    /\ starts = 0
    /\ faults = 0

-----------------------------------------------------------------------------
(* The cart                                                                *)

Trades(b) == buyer[b].pc \in InTransaction

\* Cart rows that a transaction has deleted and not committed.
Deleted(rows) == \E a \in Buyers : Trades(a) /\ buyer[a].gone \cap rows # {}

\* The view of payments and rewards is locked by the refresh of a trigger.
ViewLocked == \E a \in Buyers : buyer[a].pc \in HasPaid

Shop(b, p, items) ==
    /\ buyer[b] = Away
    /\ starts < MaxStarts
    /\ starts' = starts + 1
    /\ overlapped' = (overlapped \/ \E a \in Buyers \ {b} : buyer[a] # Away)
    /\ buyer' = [buyer EXCEPT ![b] =
                    [pc |-> p, items |-> items, seen |-> balance, gone |-> {}]]
    /\ UNCHANGED <<active, cart, owned, orders, payments, balance, free, faults>>

Move(b, p)  == buyer' = [buyer EXCEPT ![b].pc = p]
Depart(b)   == buyer' = [buyer EXCEPT ![b] = Away]
SameShop    == UNCHANGED <<active, orders, payments, balance, overlapped, starts, faults>>

\* Mutant: the collection is not looked at.
AddCartItemAgain(b, i) == i \in active /\ Shop(b, "finding", {i})

\* getUserNotPurchedItems: what the collection does not have.
NotPurchased == Items \ owned

\* addCartItem of an item on sale.  The items of one request are added
\* independently of each other, after its answer.
AddCartItem(b, i) == i \in active \cap NotPurchased /\ Shop(b, "finding", {i})

FindCartItem(b) ==
    /\ buyer[b].pc = "finding"
    /\ IF buyer[b].items \subseteq cart THEN Depart(b) ELSE Move(b, "adding")
    /\ SameShop /\ UNCHANGED <<cart, owned, free>>

\* The row may be there by now: save finds it, or the insert fails and nobody
\* hears of it.
InsertCartItem(b) ==
    /\ buyer[b].pc = "adding"
    /\ ~Deleted(buyer[b].items)
    /\ cart' = cart \cup buyer[b].items
    /\ Depart(b)
    /\ SameShop /\ UNCHANGED <<owned, free>>

\* deleteItemFromUsercart of an item that is there, and deleteUsercartItem.
DeleteFromCart(items) ==
    /\ items \subseteq cart
    /\ items # {}
    /\ ~Deleted(items)
    /\ cart' = cart \ items
    /\ SameShop /\ UNCHANGED <<owned, free, buyer>>

\* updateAvatar of the admins changes the status of an item.
UpdateAvatar(i) ==
    /\ active' = IF i \in active THEN active \ {i} ELSE active \cup {i}
    /\ UNCHANGED <<cart, owned, orders, payments, balance, free, buyer, overlapped,
                   starts, faults>>

-----------------------------------------------------------------------------
(* The checkout                                                            *)

\* The user was loaded with the wallet when the request was authenticated.
Checkout(b) == Shop(b, "carting", {})

\* getUserCartItems, and the checks.
ReadCart(b) ==
    /\ buyer[b].pc = "carting"
    /\ LET items == cart \cap active
       IN  IF items # {} /\ buyer[b].seen >= Cardinality(items)
           THEN buyer' = [buyer EXCEPT ![b] = [@ EXCEPT !.pc = "connecting", !.items = items]]
           ELSE Depart(b)
    /\ SameShop /\ UNCHANGED <<cart, owned, free>>

\* Mutant: the pool is asked for one connection too many.
ConnectTwice(b) ==
    /\ buyer[b].pc = "connecting"
    /\ free > 0
    /\ free' = free - 2
    /\ Move(b, "ordering")
    /\ SameShop /\ UNCHANGED <<cart, owned>>

\* connect waits for a connection.
Connect(b) ==
    /\ buyer[b].pc = "connecting"
    /\ free > 0
    /\ free' = free - 1
    /\ Move(b, "ordering")
    /\ SameShop /\ UNCHANGED <<cart, owned>>

\* createOrder and createOrderItems insert rows nobody else sees before the
\* commit.
CreateOrder(b) ==
    /\ buyer[b].pc = "ordering"
    /\ Move(b, "paying")
    /\ SameShop /\ UNCHANGED <<cart, owned, free>>

\* Mutant: inserting a payment refreshes nothing.
CreatePaymentUnseen(b) ==
    /\ buyer[b].pc = "paying"
    /\ Move(b, "reading")
    /\ SameShop /\ UNCHANGED <<cart, owned, free>>

\* createPayment inserts the payment; the refresh waits for the view.
CreatePayment(b) ==
    /\ buyer[b].pc = "paying"
    /\ ~ViewLocked
    /\ Move(b, "reading")
    /\ SameShop /\ UNCHANGED <<cart, owned, free>>

\* deductPaymentFromUserWallet gets the user through another connection ...
ReadBalance(b) ==
    /\ buyer[b].pc = "reading"
    /\ free > 0
    /\ buyer' = [buyer EXCEPT ![b] = [@ EXCEPT !.pc = "deducting", !.seen = balance]]
    /\ SameShop /\ UNCHANGED <<cart, owned, free>>

\* ... and updates the wallet.
DeductPayment(b) ==
    /\ buyer[b].pc = "deducting"
    /\ Move(b, "emptying")
    /\ SameShop /\ UNCHANGED <<cart, owned, free>>

\* Mutant: the cart keeps what was bought.
DeleteNoCartItems(b) ==
    /\ buyer[b].pc = "emptying"
    /\ Move(b, "collecting")
    /\ SameShop /\ UNCHANGED <<cart, owned, free>>

DeleteCartItems(b) ==
    /\ buyer[b].pc = "emptying"
    /\ LET rows == buyer[b].items \cap cart
       IN  buyer' = [buyer EXCEPT ![b] = [@ EXCEPT !.pc = "collecting", !.gone = rows]]
    /\ SameShop /\ UNCHANGED <<cart, owned, free>>

\* Saving the collection inserts the rows that are not there.
SaveItemCollection(b) ==
    /\ buyer[b].pc = "collecting"
    /\ Move(b, "committing")
    /\ SameShop /\ UNCHANGED <<cart, owned, free>>

\* Mutant: the connection is not released when the transaction fails.
RollbackKeeping(b) ==
    /\ Depart(b)
    /\ UNCHANGED free

\* The rollback undoes everything; the connection is released.
Rollback(b) ==
    /\ Depart(b)
    /\ free' = free + 1

Price(b) == Cardinality(buyer[b].items)

\* Mutant: an order gets the items whose cart rows it deleted.
PaidFresh(b) == [i \in Items |-> orders[i] + IF i \in buyer[b].gone THEN 1 ELSE 0]

Paid(b) == [i \in Items |-> orders[i] + IF i \in buyer[b].items THEN 1 ELSE 0]

\* Mutant: the price is deducted twice.
ChargedAgain(b) == buyer[b].seen - 2 * Price(b)

\* The balance deductPaymentFromUserWallet has written.
Charged(b) == buyer[b].seen - Price(b)

\* The respect points are saved with the user, and everything is committed.
Commit(b) ==
    /\ buyer[b].pc = "committing"
    /\ orders' = Paid(b)
    /\ payments' = payments + Price(b)
    /\ balance' = Charged(b)
    /\ cart' = cart \ buyer[b].gone
    /\ owned' = owned \cup buyer[b].items
    /\ free' = free + 1
    /\ Depart(b)
    /\ UNCHANGED <<active, overlapped, starts, faults>>

\* The database refuses a statement of the transaction.
Refuse(b) ==
    /\ Trades(b)
    /\ faults < MaxFaults
    /\ faults' = faults + 1
    /\ Rollback(b)
    /\ UNCHANGED <<active, cart, owned, orders, payments, balance, overlapped, starts>>

-----------------------------------------------------------------------------

Trade(b) ==
    \/ FindCartItem(b) \/ InsertCartItem(b) \/ ReadCart(b) \/ Connect(b)
    \/ CreateOrder(b) \/ CreatePayment(b) \/ ReadBalance(b) \/ DeductPayment(b)
    \/ DeleteCartItems(b) \/ SaveItemCollection(b) \/ Commit(b)

MarketNext ==
    \/ \E b \in Buyers :
        \/ Trade(b) \/ Refuse(b) \/ Checkout(b)
        \/ \E i \in Items : AddCartItem(b, i)
    \/ \E items \in {{i} : i \in Items} \cup {cart} : DeleteFromCart(items)
    \/ \E i \in Items : UpdateAvatar(i)

MarketSpec == MarketInit /\ [][MarketNext]_marketVars

\* Statements are answered and locks are granted in turn, so a request that can
\* go on does.
MarketFairness == \A b \in Buyers : WF_marketVars(Trade(b))
FairMarketSpec == MarketSpec /\ MarketFairness

-----------------------------------------------------------------------------
(* Properties                                                              *)

\* Whatever fails and whichever checkouts overlap, an item is in the collection
\* exactly when an order of it is committed.
OwnedIsOrdered == \A i \in Items : i \in owned <=> orders[i] > 0

\* However checkouts overlap and fail, the wallet loses what the committed orders
\* cost, no more and no less, although every checkout writes back a balance it
\* read through another connection.
ChargedExactly == balance = Funds - payments

\* Requests that do not overlap buy every item once and never overdraw.
BoughtOnceAlone ==
    ~overlapped => balance >= 0 /\ \A i \in Items : orders[i] <= 1

\* Payments are made one at a time.
OnePays ==
    \A a, b \in Buyers : buyer[a].pc \in HasPaid /\ buyer[b].pc \in HasPaid => a = b

\* An item that is bought, out of the cart and held by no request is never put
\* back or ordered again.  (Requests that were on their way when it was bought
\* can do both.)
Settled(i) ==
    /\ i \in owned /\ i \notin cart
    /\ \A b \in Buyers : buyer[b] # Away => i \notin buyer[b].items
SettledForGood ==
    [][\A i \in Items : Settled(i) => Settled(i)' /\ orders'[i] = orders[i]]_marketVars

\* Every checkout lets go of its connection, so none is lost when it fails.
ConnectionsReturned ==
    free = Connections - Cardinality({b \in Buyers : Trades(b)})

\* Carts, orders, wallets, collections and connections fit together.
PurchasesSound ==
    /\ MarketTypeOK /\ OnePays /\ ConnectionsReturned
    /\ OwnedIsOrdered /\ ChargedExactly /\ BoughtOnceAlone

\* As long as the pool has more connections than there are requests, no
\* checkout waits for ever for a connection or a lock.  (With as many requests
\* as connections each can hold one and wait for a second one.)
CheckoutsEnd ==
    Connections > Cardinality(Buyers) => \A b \in Buyers : Trades(b) ~> ~Trades(b)
=============================================================================
