------------------------------ MODULE Storefront ------------------------------
(***************************************************************************)
(* The buyer's shop in the browser: one cart in localStorage, a copy of it *)
(* in every tab, and the checkouts the tabs drive through the API.         *)
(*                                                                         *)
(* A tab shows the list of products or the page of one of them.  It writes *)
(* the cart from the copy it shows; the other tabs learn of the write by a *)
(* storage event that comes later.  What a cart may hold is read from the  *)
(* catalog the tab has fetched: on the product page the cart works before  *)
(* the catalog has come.                                                   *)
(*                                                                         *)
(* A checkout is a chain of requests with loops that poll until a time     *)
(* limit.  No button is disabled while one is under way, and it goes on    *)
(* when the buyer moves to another page; a reload of the tab ends it.      *)
(***************************************************************************)
EXTENDS Integers, FiniteSets

CONSTANTS
    Tabs,
    Products,
    Stock,          \* Products -> units that are available at first
    MaxQuantity,    \* 99
    MaxPolls,       \* bound: polls within the 30 s of a loop
    Flows,          \* bound: checkouts that are started, 1 .. n
    Null,
    MaxEdits,       \* bound: changes of the cart by the buyer
    MaxSales        \* bound: units other buyers take

ASSUME StorefrontAssumption ==
    /\ Stock \in [Products -> Nat]
    /\ MaxQuantity \in Nat \ {0} /\ MaxPolls \in Nat \ {0}
    /\ Null \notin Tabs
    /\ MaxEdits \in Nat /\ MaxSales \in Nat
    /\ Flows \subseteq Nat

VARIABLES
    available,      \* Products -> units the projection shows
    stored,         \* localStorage: Products -> quantity, 0 when there is no entry
    tab,            \* Tabs -> [screen, loaded, catalog, cart, dirty]
    flow,           \* Flows -> [step, tab, screen, kind, polls]
    command,        \* Flows -> command_status of the command the flow has sent
    checkout,       \* Flows -> the checkout in the event store
    view,           \* Flows -> the checkout in checkout_intent_projection
    used            \* [edits, sales] against the bounds

vars == <<available, stored, tab, flow, command, checkout, view, used>>

Carts == [Products -> 0 .. MaxQuantity]

Empty == [p \in Products |-> 0]

Polling == {"command", "lookup", "status"}

Projecting == {"project", "project_done", "project_status"}

Screens == {"products", "product", "complete"}

CommandStatus == {"none", "accepted", "created", "failed"}

\* "queued" is queued or reserving, "reserved" is reserved or pending_payment, "final" is
\* confirmed or rejected.
CheckoutStatus == {"none", "queued", "reserved", "final"}

Ended == {"finished", "failed", "abandoned"}

TypeOK ==
    /\ available \in [Products -> Nat]
    /\ stored \in Carts
    /\ tab \in [Tabs -> [screen : Screens, loaded : BOOLEAN,
                         catalog : [Products -> Nat], cart : Carts, dirty : BOOLEAN]]
    /\ flow \in [Flows -> [step : {"none", "complete", "finish"} \cup Polling \cup Projecting \cup Ended,
                           tab : Tabs \cup {Null}, screen : {"products", "product", Null},
                           kind : {"cart", "buy_now", Null}, polls : 0 .. MaxPolls]]
    /\ command \in [Flows -> CommandStatus]
    /\ checkout \in [Flows -> CheckoutStatus]
    /\ view \in [Flows -> CheckoutStatus]
    /\ used \in [edits : 0 .. MaxEdits, sales : 0 .. MaxSales]

Least(a, b) == IF a < b THEN a ELSE b

\* A tab without a catalog maps every product to nothing.
NoCatalog == [p \in Products |-> 0]

MaxQuantityFor(p, catalog) == Least(catalog[p], MaxQuantity)

\* clampQuantity, of a quantity that is a positive number.
ClampQuantity(n, most) == IF most <= 0 THEN 0 ELSE Least(n, most)

\* normalizeCart keeps what the catalog knows, within its stock.
NormalizeCart(cart, catalog) ==
    [p \in Products |-> IF cart[p] = 0 THEN 0
                        ELSE ClampQuantity(cart[p], MaxQuantityFor(p, catalog))]

ReadCart(catalog) == NormalizeCart(stored, catalog)

NoFlow == [step |-> "none", tab |-> Null, screen |-> Null, kind |-> Null, polls |-> 0]

EndedAs(how) == [NoFlow EXCEPT !.step = how]

NewTab == [screen |-> "products", loaded |-> FALSE, catalog |-> NoCatalog, cart |-> Empty, dirty |-> FALSE]

Init ==
    /\ available = Stock
    /\ stored = Empty
    /\ tab = [t \in Tabs |-> NewTab]
    /\ flow = [f \in Flows |-> NoFlow]
    /\ command = [f \in Flows |-> "none"]
    /\ checkout = [f \in Flows |-> "none"]
    /\ view = [f \in Flows |-> "none"]
    /\ used = [edits |-> 0, sales |-> 0]

serverVars == <<command, checkout, view>>

Progress == [none |-> 0, queued |-> 1, reserved |-> 2, final |-> 3]

Between(from, to) ==
    {s \in CheckoutStatus : Progress[from] <= Progress[s] /\ Progress[s] <= Progress[to]}

------------------------------------------------------------------------------
(* The cart *)

\* Mutation: the cart is not read again with the catalog.
CatalogArrivesOnly(t) ==
    /\ tab' = [tab EXCEPT ![t].loaded = TRUE, ![t].catalog = available]
    /\ UNCHANGED <<available, stored, flow, serverVars, used>>

\* The query of the catalog is answered, also again when the window gets the focus; the
\* effect on productBySlug reads the cart with it.
CatalogArrives(t) ==
    /\ tab' = [tab EXCEPT ![t].loaded = TRUE, ![t].catalog = available,
                          ![t].cart = ReadCart(available), ![t].dirty = FALSE]
    /\ UNCHANGED <<available, stored, flow, serverVars, used>>

\* handleStorage: another tab has written the cart.
StorageEvent(t) ==
    /\ tab[t].dirty /\ tab[t].screen # "complete"
    /\ tab' = [tab EXCEPT ![t].cart = ReadCart(tab[t].catalog), ![t].dirty = FALSE]
    /\ UNCHANGED <<available, stored, flow, serverVars, used>>

\* The cart is stored whole.  The event in the own window makes the tab read it again at
\* once; the other tabs get theirs later, when the stored text has changed.
PersistCart(t, cart, own) ==
    /\ stored' = cart
    /\ tab' = [u \in Tabs |->
          IF u = t THEN own ELSE [tab[u] EXCEPT !.dirty = (tab[u].dirty \/ cart # stored)]]

SyncCart(t, next) ==
    LET normalized == NormalizeCart(next, tab[t].catalog)
    IN  PersistCart(t, normalized, [tab[t] EXCEPT !.cart = normalized, !.dirty = FALSE])

MergeCartEntry(cart, p, quantity) == [cart EXCEPT ![p] = @ + quantity]

\* What the drawer shows and a checkout orders.
HydrateCartProducts(t) == NormalizeCart(tab[t].cart, tab[t].catalog)

Edit ==
    /\ used.edits < MaxEdits
    /\ used' = [used EXCEPT !.edits = @ + 1]
    /\ UNCHANGED <<available, flow, serverVars>>

\* The list of products appears with its catalog, the page of a product with the product.
Shown(t) == tab[t].screen = "product" \/ (tab[t].screen = "products" /\ tab[t].loaded)

\* addCurrentProductToCart: the page knows the stock of its product from a query of its
\* own, here an answer that is up to date; the quantity comes from its stepper.
AddCurrentProductToCart(t, p, quantity) ==
    /\ tab[t].screen = "product"
    /\ quantity \in 1 .. MaxQuantityFor(p, available)
    /\ SyncCart(t, MergeCartEntry(tab[t].cart, p, quantity))
    /\ Edit

Adds(t) == \E p \in Products, quantity \in 1 .. MaxQuantity : AddCurrentProductToCart(t, p, quantity)

\* The steppers of the drawer.
UpdateCartQuantity(t, p, quantity) ==
    /\ HydrateCartProducts(t)[p] > 0
    /\ quantity \in {HydrateCartProducts(t)[p] - 1, HydrateCartProducts(t)[p] + 1}
    /\ quantity \in 1 .. MaxQuantityFor(p, tab[t].catalog)
    /\ SyncCart(t, [tab[t].cart EXCEPT ![p] = quantity])
    /\ Edit

RemoveFromCart(t, p) ==
    /\ HydrateCartProducts(t)[p] > 0
    /\ SyncCart(t, [tab[t].cart EXCEPT ![p] = 0])
    /\ Edit

ClearCart(t) ==
    /\ HydrateCartProducts(t) # Empty
    /\ SyncCart(t, Empty)
    /\ Edit

Drawer(t) ==
    \/ \E p \in Products, quantity \in 1 .. MaxQuantity : UpdateCartQuantity(t, p, quantity)
    \/ \E p \in Products : RemoveFromCart(t, p)
    \/ ClearCart(t)

\* The same drawer on both pages.
ProductsDrawer(t) == tab[t].screen = "products" /\ Shown(t) /\ Drawer(t)

ProductDrawer(t) == tab[t].screen = "product" /\ Drawer(t)

\* A link to the other page: its component starts with an empty cart and reads the
\* stored one with the catalog of the query cache, if it has come.
Visit(t, screen) ==
    /\ screen # "complete" /\ tab[t].screen # screen
    /\ tab' = [tab EXCEPT ![t].screen = screen, ![t].cart = ReadCart(tab[t].catalog), ![t].dirty = FALSE]
    /\ UNCHANGED <<available, stored, flow, serverVars, used>>

\* The page is loaded again: what the tab was waiting for is gone.
Reload(t) ==
    /\ tab' = [tab EXCEPT ![t] = NewTab]
    /\ flow' = [f \in Flows |-> IF flow[f].tab = t THEN EndedAs("abandoned") ELSE flow[f]]
    /\ UNCHANGED <<available, stored, serverVars, used>>

\* Other buyers take a unit.
Sale(p) ==
    /\ used.sales < MaxSales /\ available[p] > 0
    /\ used' = [used EXCEPT !.sales = @ + 1]
    /\ available' = [available EXCEPT ![p] = @ - 1]
    /\ UNCHANGED <<stored, tab, flow, serverVars>>

------------------------------------------------------------------------------
(* Checkouts *)

Start(t, f, kind) ==
    /\ flow[f].step = "none" /\ \A g \in Flows : g < f => flow[g].step # "none"
    /\ flow' = [flow EXCEPT ![f] = [step |-> "command", tab |-> t, screen |-> tab[t].screen,
                                    kind |-> kind, polls |-> 0]]
    /\ command' = [command EXCEPT ![f] = "accepted"]
    /\ UNCHANGED <<available, stored, tab, checkout, view, used>>

\* checkoutCart and createBuyIntent: every click sends a command with a key of its own.
\* (A request that is refused ends the flow before anything has happened.)
CheckoutCart(t, f) == Shown(t) /\ HydrateCartProducts(t) # Empty /\ Start(t, f, "cart")

BuyNow(t, f) ==
    /\ tab[t].screen = "product" /\ \E p \in Products : MaxQuantityFor(p, available) > 0
    /\ Start(t, f, "buy_now")

End(f, how) == flow' = [flow EXCEPT ![f] = EndedAs(how)]

GoTo(f, step) == flow' = [flow EXCEPT ![f].step = step, ![f].polls = 0]

\* Mutation: the loop has no time limit.
PollForever(f, step) == flow' = [flow EXCEPT ![f].step = step]

\* One more round of a loop, or its time limit.
PollAgain(f, step) ==
    flow' = [flow EXCEPT ![f] = IF flow[f].polls + 1 < MaxPolls
                                THEN [flow[f] EXCEPT !.step = step, !.polls = flow[f].polls + 1]
                                ELSE EndedAs("failed")]

\* The request is rejected or answered with an error, or only its answer is lost: the flow
\* ends and says so on the product page, and without a word on the list of products.  (The
\* last loop ends so for a request that is rejected; an answer with an error is polled
\* again.)
RequestFails(f) ==
    /\ flow[f].step \in {"complete"} \cup Polling \cup Projecting
    /\ End(f, "failed")
    /\ \E reached \in IF flow[f].step = "complete" THEN Between(checkout[f], "final") ELSE {checkout[f]} :
          checkout' = [checkout EXCEPT ![f] = reached]
    /\ UNCHANGED <<available, stored, tab, command, view, used>>

\* waitForBuyIntentCommandStatus: a status that is not there yet (404) or not settled is
\* asked for again.
PollCommandStatus(f) ==
    /\ flow[f].step = "command"
    /\ \/ command[f] = "created" /\ GoTo(f, "project")
       \/ command[f] = "failed" /\ End(f, "failed")
       \/ command[f] = "accepted" /\ PollAgain(f, "command")
    /\ UNCHANGED <<available, stored, tab, serverVars, used>>

\* What a batch of events can make of the status that is shown; it may end between two
\* events of the checkout.  Every InventoryReservationRequested sets it to reserving, also
\* after an item before it was reserved, but for a status that is final.
StatusAfterBatch(f) ==
    Between(view[f], checkout[f]) \cup (IF view[f] = "reserved" THEN {"queued"} ELSE {})

BatchApplied(f) == \E reached \in StatusAfterBatch(f) : view' = [view EXCEPT ![f] = reached]

\* The loops of the other processes apply batches at any time.
OthersProject(f) ==
    /\ BatchApplied(f)
    /\ UNCHANGED <<available, stored, tab, flow, command, checkout, used>>

\* processProjections: the read model catches up by one batch, or another processor has
\* the projection (409), which is not an error.
ProcessProjections(f) ==
    /\ flow[f].step \in Projecting
    /\ BatchApplied(f)
    /\ flow' = [flow EXCEPT ![f].step = CASE @ = "project" -> "lookup"
                                         [] @ = "project_done" -> "project_status"
                                         [] OTHER -> "status"]
    /\ UNCHANGED <<available, stored, tab, command, checkout, used>>

\* The second half of waitForCheckoutIntentProjection.
LookUpCheckout(f) ==
    /\ flow[f].step = "lookup"
    /\ IF view[f] # "none" THEN GoTo(f, "complete") ELSE PollAgain(f, "project")
    /\ UNCHANGED <<available, stored, tab, serverVars, used>>

\* Mutation: the request is answered before all events are appended.
CompleteDemoCheckoutSoon(f) ==
    /\ flow[f].step = "complete"
    /\ \E reached \in Between(checkout[f], "final") : checkout' = [checkout EXCEPT ![f] = reached]
    /\ GoTo(f, "project_done")
    /\ UNCHANGED <<available, stored, tab, command, view, used>>

CompleteDemoCheckout(f) ==
    /\ flow[f].step = "complete"
    /\ checkout' = [checkout EXCEPT ![f] = "final"]
    /\ GoTo(f, "project_done")
    /\ UNCHANGED <<available, stored, tab, command, view, used>>

HasCheckoutReachedDisplayState(f) == view[f] \notin {"none", "queued"}

\* The second half of waitForCheckoutStatus: a status that is still waiting is asked for
\* again, and so is any status when the answer is an error.
ReadCheckoutStatus(f) ==
    /\ flow[f].step = "status"
    /\ \/ HasCheckoutReachedDisplayState(f) /\ GoTo(f, "finish")
       \/ PollAgain(f, "project_status")
    /\ UNCHANGED <<available, stored, tab, serverVars, used>>

AtTheEnd(page) == [page EXCEPT !.screen = "complete", !.cart = Empty, !.dirty = FALSE]

\* Mutation: buying one product at once clears the cart, too.
FinishAndClear(f) ==
    /\ flow[f].step = "finish" /\ flow[f].screen = "product"
    /\ PersistCart(flow[f].tab, Empty, AtTheEnd(tab[flow[f].tab]))
    /\ End(f, "finished")
    /\ UNCHANGED <<available, serverVars, used>>

\* The buyer is taken to the page of the checkout.  From the product page that is a
\* change of the route.
Finish(f) ==
    /\ flow[f].step = "finish" /\ flow[f].screen = "product"
    /\ PersistCart(flow[f].tab, IF flow[f].kind = "cart" THEN Empty ELSE stored,
                   AtTheEnd(tab[flow[f].tab]))
    /\ End(f, "finished")
    /\ UNCHANGED <<available, serverVars, used>>

\* From the list of products it is window.location.assign: the other checkouts of the tab
\* end with the page they run in.
FinishAndLeave(f) ==
    /\ flow[f].step = "finish" /\ flow[f].screen = "products"
    /\ PersistCart(flow[f].tab, Empty, AtTheEnd(NewTab))
    /\ flow' = [g \in Flows |->
          IF g = f THEN EndedAs("finished")
          ELSE IF flow[g].tab = flow[f].tab THEN EndedAs("abandoned") ELSE flow[g]]
    /\ UNCHANGED <<available, serverVars, used>>

\* The pipelines settle the command and the event store has its checkout, or not.
CommandSettles(f) ==
    /\ command[f] = "accepted"
    /\ \/ /\ command' = [command EXCEPT ![f] = "created"]
          /\ checkout' = [checkout EXCEPT ![f] = "queued"]
       \/ /\ command' = [command EXCEPT ![f] = "failed"]
          /\ UNCHANGED checkout
    /\ UNCHANGED <<available, stored, tab, flow, view, used>>

FlowStep(f) ==
    \/ RequestFails(f) \/ PollCommandStatus(f) \/ ProcessProjections(f) \/ LookUpCheckout(f)
    \/ CompleteDemoCheckout(f) \/ ReadCheckoutStatus(f) \/ Finish(f) \/ FinishAndLeave(f)

Buyer(t) ==
    \/ CatalogArrives(t) \/ StorageEvent(t) \/ Reload(t)
    \/ Adds(t)
    \/ ProductsDrawer(t) \/ ProductDrawer(t)
    \/ \E screen \in Screens : Visit(t, screen)
    \/ \E f \in Flows : CheckoutCart(t, f) \/ BuyNow(t, f)

Next ==
    \/ \E t \in Tabs : Buyer(t)
    \/ \E f \in Flows : FlowStep(f) \/ CommandSettles(f) \/ OthersProject(f)
    \/ \E p \in Products : Sale(p)

Spec == Init /\ [][Next]_vars

\* The browser settles every request and every timer while the page lives; nothing is
\* assumed of the buyer, the pipelines or the other processors.
FairSpec == Spec /\ \A f \in Flows : WF_vars(FlowStep(f))

------------------------------------------------------------------------------
(* Properties *)

\* Once the storage events have come, every tab shows the stored cart as its catalog
\* allows it, whatever the tabs, their checkouts and the catalog have done.
ShowsStoredCart ==
    \A t \in Tabs : ~tab[t].dirty /\ tab[t].screen # "complete" => tab[t].cart = ReadCart(tab[t].catalog)

\* An entry leaves the stored cart only because the buyer takes it out or a checkout of
\* the cart has ended, but for two cases: a tab that has not heard of the entry yet
\* writes its own picture, and a tab whose catalog has no stock of it, or has not come at
\* all, drops it with whatever is changed.
NothingVanishes ==
    [][\A p \in Products : stored[p] > 0 /\ stored'[p] = 0 =>
         \/ \E t \in Tabs : RemoveFromCart(t, p) \/ ClearCart(t)
         \/ \E f \in Flows : flow[f].kind = "cart" /\ (Finish(f) \/ FinishAndLeave(f))
         \/ \E t \in Tabs : (Adds(t) \/ Drawer(t)) /\ (tab[t].dirty \/ tab[t].catalog[p] = 0)]_vars

\* A checkout that ends as finished, and clears the cart, is confirmed or rejected in the
\* event store and known to the read model, although the status the loop has accepted need
\* not be final, whoever has projected it and however late.  (What its page shows is not
\* said: it may be a reservation, a pending payment, or reserving again while the events of
\* further items are applied.)
FinishedIsFinal ==
    \A f \in Flows : flow[f].step = "finished" =>
        command[f] = "created" /\ checkout[f] = "final" /\ view[f] # "none"

\* A checkout ends: it is finished, gives up at the time limit of one of its loops or
\* with an error, or its page is left.
CheckoutEnds == \A f \in Flows : flow[f].step # "none" ~> flow[f].step \in Ended

==============================================================================
