------------------------------ MODULE ShopProofs ------------------------------
(***************************************************************************)
(* Proofs about what a buyer is shown: the shop in the browser             *)
(* (Storefront) and the projections the browser polls for the outcome of a *)
(* checkout (Projections).  The two do not share state, and the theorems   *)
(* of one say nothing about the other; the names of Projections that a     *)
(* specification usually has carry the component's name, so that both can  *)
(* be extended here.                                                       *)
(*                                                                         *)
(* Storefront: any number of tabs, products and checkouts, any stock, any  *)
(* number of polls, edits and sales.  Projections: any checkouts, products *)
(* and histories of them, any sizes of batches, any number of queries,     *)
(* workers, deliveries and crashes.                                        *)
(***************************************************************************)
EXTENDS Storefront, Projections, SumLemmas, TLAPS

(***************************************************************************)
(* The shop in the browser                                                 *)
(***************************************************************************)

------------------------------------------------------------------------------
(* The inductive invariant *)

Past == {"project_done", "project_status", "status", "finish", "finished"}

\* What a checkout has seen when it is where it is.
HasSeen(f) ==
    /\ flow[f].step \in {"project", "lookup", "complete"} \cup Past => command[f] = "created"
    /\ flow[f].step \in Past => checkout[f] = "final"
    /\ flow[f].step \in {"complete"} \cup Past => view[f] # "none"

\* The list of products sells carts only.
CartsOnly(f) ==
    flow[f].step \notin {"none"} \cup Ended /\ flow[f].screen = "products" => flow[f].kind = "cart"

FlowInv == \A f \in Flows : HasSeen(f) /\ CartsOnly(f)

IInv == TypeOK /\ FlowInv /\ ShowsStoredCart

TabRecord == [screen : Screens, loaded : BOOLEAN, catalog : [Products -> Nat], cart : Carts,
              dirty : BOOLEAN]

FlowRecord == [step : {"none", "complete", "finish"} \cup Polling \cup Projecting \cup Ended,
               tab : Tabs \cup {Null}, screen : {"products", "product", Null},
               kind : {"cart", "buy_now", Null}, polls : 0 .. MaxPolls]

------------------------------------------------------------------------------
(* The cart *)

\* Normalising a cart gives a cart, and a second time changes nothing.
LEMMA Normalized ==
    ASSUME NEW cart \in [Products -> Nat], NEW catalog \in [Products -> Nat]
    PROVE  /\ NormalizeCart(cart, catalog) \in Carts
           /\ NormalizeCart(NormalizeCart(cart, catalog), catalog) = NormalizeCart(cart, catalog)
  <1>1. MaxQuantity \in Nat /\ MaxQuantity > 0
    BY StorefrontAssumption
  <1>2. ASSUME NEW p \in Products
        PROVE  /\ NormalizeCart(cart, catalog)[p] \in 0 .. MaxQuantity
               /\ NormalizeCart(NormalizeCart(cart, catalog), catalog)[p]
                    = NormalizeCart(cart, catalog)[p]
    <2>1. cart[p] \in Nat /\ catalog[p] \in Nat
      OBVIOUS
    <2> QED
      BY <1>1, <2>1, SMTT(30) DEF NormalizeCart, ClampQuantity, MaxQuantityFor, Least
  <1> QED
    BY <1>2 DEF NormalizeCart, Carts

\* An entry is dropped only where the catalog has no stock of it.
LEMMA DroppedHasNoStock ==
    ASSUME NEW cart \in [Products -> Nat], NEW catalog \in [Products -> Nat], NEW p \in Products,
           cart[p] > 0, NormalizeCart(cart, catalog)[p] = 0
    PROVE  catalog[p] = 0
  <1>1. MaxQuantity \in Nat /\ MaxQuantity > 0 /\ cart[p] \in Nat /\ catalog[p] \in Nat
    BY StorefrontAssumption
  <1> QED
    BY <1>1, SMTT(30) DEF NormalizeCart, ClampQuantity, MaxQuantityFor, Least

\* Without a catalog every cart is empty.
LEMMA NothingWithoutCatalog ==
    ASSUME NEW cart \in [Products -> Nat]
    PROVE  NormalizeCart(cart, NoCatalog) = Empty
  <1>1. MaxQuantity \in Nat /\ MaxQuantity > 0
    BY StorefrontAssumption
  <1>2. ASSUME NEW p \in Products PROVE NormalizeCart(cart, NoCatalog)[p] = 0
    BY <1>1 DEF NormalizeCart, ClampQuantity, MaxQuantityFor, Least, NoCatalog
  <1> QED
    BY <1>2 DEF NormalizeCart, Empty

\* The constant carts are carts.
LEMMA EmptyIsCart == Empty \in Carts /\ Empty \in [Products -> Nat] /\ NoCatalog \in [Products -> Nat]
  <1>1. MaxQuantity \in Nat
    BY StorefrontAssumption
  <1> QED
    BY <1>1 DEF Empty, Carts, NoCatalog

\* A cart is a function to the naturals.
LEMMA CartIsNat == ASSUME NEW cart \in Carts PROVE cart \in [Products -> Nat]
  <1>1. MaxQuantity \in Nat
    BY StorefrontAssumption
  <1> QED
    BY <1>1 DEF Carts

\* The type of the state, with its records named.
LEMMA Types ==
    TypeOK <=>
    /\ available \in [Products -> Nat] /\ stored \in Carts
    /\ tab \in [Tabs -> TabRecord] /\ flow \in [Flows -> FlowRecord]
    /\ command \in [Flows -> CommandStatus]
    /\ checkout \in [Flows -> CheckoutStatus] /\ view \in [Flows -> CheckoutStatus]
    /\ used \in [edits : 0 .. MaxEdits, sales : 0 .. MaxSales]
  BY DEF TypeOK, TabRecord, FlowRecord

\* What the cart of a tab is stored as after a change by the buyer.
Edits(t, next) == next \in [Products -> Nat] /\ SyncCart(t, next) /\ Edit

\* Every change by the buyer normalises a cart and stores it.
LEMMA EditsOf ==
    ASSUME TypeOK, NEW t \in Tabs, Adds(t) \/ Drawer(t)
    PROVE  \E next : Edits(t, next)
  <1>1. tab[t].cart \in [Products -> Nat] /\ MaxQuantity \in Nat
    BY Types, CartIsNat, StorefrontAssumption DEF TabRecord
  <1>2. ASSUME NEW p \in Products, NEW q \in 1 .. MaxQuantity
        PROVE  /\ MergeCartEntry(tab[t].cart, p, q) \in [Products -> Nat]
               /\ [tab[t].cart EXCEPT ![p] = q] \in [Products -> Nat]
               /\ [tab[t].cart EXCEPT ![p] = 0] \in [Products -> Nat]
    BY <1>1 DEF MergeCartEntry
  <1>3. CASE Adds(t)
    BY <1>2, <1>3 DEF Adds, AddCurrentProductToCart, Edits
  <1>4. CASE Drawer(t)
    <2>1. CASE ClearCart(t)
      BY <2>1, EmptyIsCart DEF ClearCart, Edits
    <2>2. CASE \E p \in Products : RemoveFromCart(t, p)
      <3>1. 1 \in 1 .. MaxQuantity
        BY StorefrontAssumption
      <3> QED
        BY <1>2, <2>2, <3>1 DEF RemoveFromCart, Edits
    <2>3. CASE \E p \in Products, q \in 1 .. MaxQuantity : UpdateCartQuantity(t, p, q)
      BY <1>2, <2>3 DEF UpdateCartQuantity, Edits
    <2> QED
      BY <1>4, <2>1, <2>2, <2>3 DEF Drawer
  <1> QED
    BY <1>3, <1>4

------------------------------------------------------------------------------
(* Types *)

\* The tabs after the cart was stored.
LEMMA PersistType ==
    ASSUME TypeOK, NEW t, NEW cart \in Carts, NEW own, t \in Tabs => own \in TabRecord,
           PersistCart(t, cart, own)
    PROVE  stored' \in Carts /\ tab' \in [Tabs -> TabRecord]
  <1>1. \A u \in Tabs : [tab[u] EXCEPT !.dirty = (tab[u].dirty \/ cart # stored)] \in TabRecord
    BY Types DEF TabRecord
  <1> QED
    BY <1>1 DEF PersistCart

\* A change by the buyer keeps the types.
LEMMA EditsType ==
    ASSUME TypeOK, NEW t \in Tabs, NEW next, Edits(t, next)
    PROVE  TypeOK'
  <1> DEFINE normalized == NormalizeCart(next, tab[t].catalog)
             own == [tab[t] EXCEPT !.cart = normalized, !.dirty = FALSE]
  <1>1. tab[t] \in TabRecord /\ tab[t].catalog \in [Products -> Nat]
    BY Types DEF TabRecord
  <1>2. normalized \in Carts
    BY <1>1, Normalized DEF Edits
  <1>3. own \in TabRecord
    BY <1>1, <1>2 DEF TabRecord
  <1>4. PersistCart(t, normalized, own)
    BY DEF Edits, SyncCart
  <1>5. stored' \in Carts /\ tab' \in [Tabs -> TabRecord]
    <2> HIDE DEF normalized, own
    <2> QED
      BY <1>2, <1>3, <1>4, PersistType
  <1>6. used' \in [edits : 0 .. MaxEdits, sales : 0 .. MaxSales]
    BY Types, StorefrontAssumption DEF Edits, Edit
  <1>7. available' = available /\ flow' = flow /\ command' = command /\ checkout' = checkout
        /\ view' = view
    BY DEF Edits, Edit, serverVars
  <1> QED
    BY <1>5, <1>6, <1>7, Types DEF TypeOK, TabRecord, FlowRecord

\* The cart a tab reads is a cart.
LEMMA ReadCartType ==
    ASSUME TypeOK, NEW catalog \in [Products -> Nat]
    PROVE  ReadCart(catalog) \in Carts
  BY Types, CartIsNat, Normalized DEF ReadCart

\* Records a flow may become.
LEMMA FlowRecords ==
    ASSUME NEW how \in Ended PROVE EndedAs(how) \in FlowRecord
  <1>1. 0 \in 0 .. MaxPolls
    BY StorefrontAssumption
  <1> QED
    BY <1>1 DEF EndedAs, NoFlow, FlowRecord

\* A tab that starts anew.
LEMMA NewTabType == NewTab \in TabRecord /\ AtTheEnd(NewTab) \in TabRecord
  BY EmptyIsCart DEF NewTab, AtTheEnd, TabRecord, Screens

\* Whatever the buyer and the browser do keeps the types.
LEMMA BuyerType ==
    ASSUME TypeOK, NEW t \in Tabs, Buyer(t)
    PROVE  TypeOK'
  <1>1. tab[t] \in TabRecord /\ tab[t].catalog \in [Products -> Nat] /\ available \in [Products -> Nat]
    BY Types DEF TabRecord
  <1>2. ReadCart(available) \in Carts /\ ReadCart(tab[t].catalog) \in Carts
    BY <1>1, ReadCartType
  <1>3. CASE CatalogArrives(t) \/ StorageEvent(t) \/ \E screen \in Screens : Visit(t, screen)
    <2>1. tab' \in [Tabs -> TabRecord]
      <3>1. /\ [tab[t] EXCEPT !.loaded = TRUE, !.catalog = available, !.cart = ReadCart(available),
                             !.dirty = FALSE] \in TabRecord
            /\ [tab[t] EXCEPT !.cart = ReadCart(tab[t].catalog), !.dirty = FALSE] \in TabRecord
            /\ \A screen \in Screens : [tab[t] EXCEPT !.screen = screen,
                             !.cart = ReadCart(tab[t].catalog), !.dirty = FALSE] \in TabRecord
        BY <1>1, <1>2 DEF TabRecord
      <3>2. CASE CatalogArrives(t)
        BY <3>1, <3>2, Types DEF CatalogArrives
      <3>3. CASE StorageEvent(t)
        BY <3>1, <3>3, Types DEF StorageEvent
      <3>4. CASE \E screen \in Screens : Visit(t, screen)
        BY <3>1, <3>4, Types DEF Visit
      <3> QED
        BY <1>3, <3>2, <3>3, <3>4
    <2>2. UNCHANGED <<available, stored, flow, command, checkout, view, used>>
      BY <1>3 DEF CatalogArrives, StorageEvent, Visit, serverVars
    <2> QED
      BY <2>1, <2>2, Types DEF TypeOK, TabRecord, FlowRecord
  <1>4. CASE Reload(t)
    <2>1. tab' \in [Tabs -> TabRecord]
      BY <1>4, Types, NewTabType DEF Reload
    <2>2. flow' \in [Flows -> FlowRecord]
      BY <1>4, Types, FlowRecords DEF Reload, Ended
    <2>3. UNCHANGED <<available, stored, command, checkout, view, used>>
      BY <1>4 DEF Reload, serverVars
    <2> QED
      BY <2>1, <2>2, <2>3, Types DEF TypeOK, TabRecord, FlowRecord
  <1>5. CASE Adds(t) \/ ProductsDrawer(t) \/ ProductDrawer(t)
    BY <1>5, EditsOf, EditsType DEF ProductsDrawer, ProductDrawer
  <1>6. ASSUME NEW f \in Flows, CheckoutCart(t, f) \/ BuyNow(t, f)
        PROVE  TypeOK'
    <2>1. PICK kind \in {"cart", "buy_now"} : Start(t, f, kind)
      BY <1>6 DEF CheckoutCart, BuyNow
    <2>2. tab[t].screen \in {"products", "product"}
      BY <1>6 DEF CheckoutCart, BuyNow, Shown
    <2>3. [step |-> "command", tab |-> t, screen |-> tab[t].screen, kind |-> kind, polls |-> 0]
            \in FlowRecord
      BY <2>2, StorefrontAssumption DEF FlowRecord, Polling
    <2>4. flow' \in [Flows -> FlowRecord] /\ command' \in [Flows -> CommandStatus]
      BY <2>1, <2>3, Types DEF Start, CommandStatus
    <2>5. UNCHANGED <<available, stored, tab, checkout, view, used>>
      BY <2>1 DEF Start
    <2> QED
      BY <2>4, <2>5, Types DEF TypeOK, TabRecord, FlowRecord
  <1> QED
    BY <1>3, <1>4, <1>5, <1>6 DEF Buyer

\* What a step of a checkout may do to the others, and to itself.
Moves(f, steps) ==
    /\ flow' \in [Flows -> FlowRecord]
    /\ \A g \in Flows \ {f} : flow'[g] = flow[g]
    /\ flow'[f].step \in steps \cup {"failed"}
    /\ flow'[f].step # "failed" => flow'[f].screen = flow[f].screen /\ flow'[f].kind = flow[f].kind

LEMMA GoToMoves ==
    ASSUME TypeOK, NEW f \in Flows, NEW step \in {"complete", "finish"} \cup Polling \cup Projecting,
           GoTo(f, step) \/ PollAgain(f, step)
    PROVE  Moves(f, {step})
  <1>1. flow[f] \in FlowRecord /\ MaxPolls \in Nat /\ flow[f].polls \in 0 .. MaxPolls
    BY Types, StorefrontAssumption DEF FlowRecord
  <1>2. EndedAs("failed") \in FlowRecord /\ EndedAs("failed").step = "failed"
    BY FlowRecords DEF Ended, EndedAs, NoFlow
  <1>3. CASE GoTo(f, step)
    <2>1. [flow[f] EXCEPT !.step = step, !.polls = 0] \in FlowRecord
      <3>1. 0 \in 0 .. MaxPolls
        BY <1>1
      <3> QED
        BY <1>1, <3>1 DEF FlowRecord, Polling, Projecting
    <2> QED
      BY <1>1, <1>3, <2>1, Types DEF GoTo, Moves, FlowRecord
  <1>4. CASE PollAgain(f, step) /\ flow[f].polls + 1 < MaxPolls
    <2>1. [flow[f] EXCEPT !.step = step, !.polls = flow[f].polls + 1] \in FlowRecord
      <3>1. flow[f].polls + 1 \in 0 .. MaxPolls
        BY <1>1, <1>4
      <3> QED
        BY <1>1, <3>1 DEF FlowRecord, Polling, Projecting
    <2>2. flow' = [flow EXCEPT ![f] = [flow[f] EXCEPT !.step = step, !.polls = flow[f].polls + 1]]
      BY <1>4 DEF PollAgain
    <2> QED
      BY <1>1, <2>1, <2>2, Types DEF Moves, FlowRecord
  <1>5. CASE PollAgain(f, step) /\ ~(flow[f].polls + 1 < MaxPolls)
    BY <1>1, <1>2, <1>5, Types DEF PollAgain, Moves
  <1> QED
    BY <1>3, <1>4, <1>5

LEMMA FailureMoves ==
    ASSUME TypeOK, NEW f \in Flows, End(f, "failed")
    PROVE  Moves(f, {})
  <1>1. EndedAs("failed") \in FlowRecord /\ EndedAs("failed").step = "failed"
    BY FlowRecords DEF Ended, EndedAs, NoFlow
  <1> QED
    BY <1>1, Types DEF End, Moves

\* A status between two others is a status.
LEMMA BetweenType ==
    ASSUME NEW from \in CheckoutStatus, NEW to \in CheckoutStatus
    PROVE  Between(from, to) \subseteq CheckoutStatus
  BY DEF Between

\* A batch leaves a status, and never takes a checkout out of the read model.
LEMMA StatusAfterBatchType ==
    ASSUME NEW f \in Flows, view[f] \in CheckoutStatus
    PROVE  /\ StatusAfterBatch(f) \subseteq CheckoutStatus
           /\ view[f] # "none" => "none" \notin StatusAfterBatch(f)
  BY DEF StatusAfterBatch, Between, CheckoutStatus, Progress

\* The steps of a checkout but the last one: where they lead, and what they learn.
Onward(f) ==
    \E steps \in SUBSET ({"complete", "finish"} \cup Polling \cup Projecting) :
        /\ Moves(f, steps)
        /\ checkout' \in [Flows -> CheckoutStatus] /\ view' \in [Flows -> CheckoutStatus]
        /\ \A g \in Flows \ {f} : checkout'[g] = checkout[g] /\ view'[g] = view[g]
        /\ flow[f].step \notin {"none"} \cup Ended
        /\ HasSeen(f) => HasSeen(f)'
        /\ UNCHANGED <<available, stored, tab, command, used>>

LEMMA FlowStepIsOnward ==
    ASSUME TypeOK, NEW f \in Flows, FlowStep(f)
    PROVE  Onward(f) \/ Finish(f) \/ FinishAndLeave(f)
  <1>1. /\ checkout \in [Flows -> CheckoutStatus] /\ view \in [Flows -> CheckoutStatus]
        /\ command \in [Flows -> CommandStatus] /\ flow \in [Flows -> FlowRecord]
    BY Types
  <1>2. CASE RequestFails(f)
    <2>1. Moves(f, {})
      BY <1>2, FailureMoves DEF RequestFails
    <2>2. PICK reached \in CheckoutStatus : checkout' = [checkout EXCEPT ![f] = reached]
      BY <1>1, <1>2, BetweenType DEF RequestFails, CheckoutStatus
    <2>3. UNCHANGED <<available, stored, tab, command, view, used>>
      BY <1>2 DEF RequestFails
    <2>4. flow[f].step \notin {"none"} \cup Ended
      BY <1>2 DEF RequestFails, Polling, Projecting, Ended
    <2>5. HasSeen(f)'
      BY <2>1 DEF HasSeen, Moves, Past
    <2> QED
      BY <1>1, <2>1, <2>2, <2>3, <2>4, <2>5 DEF Onward
  <1>3. CASE PollCommandStatus(f)
    <2>1. UNCHANGED <<available, stored, tab, command, checkout, view, used>>
      BY <1>3 DEF PollCommandStatus, serverVars
    <2>2. flow[f].step \notin {"none"} \cup Ended
      BY <1>3 DEF PollCommandStatus, Ended
    <2>3. CASE command[f] = "created" /\ GoTo(f, "project")
      <3>1. Moves(f, {"project"})
        BY <2>3, GoToMoves DEF Projecting
      <3>2. HasSeen(f)'
        BY <2>1, <2>3, <3>1 DEF HasSeen, Moves, Past
      <3> QED
        BY <1>1, <2>1, <2>2, <3>1, <3>2 DEF Onward, Projecting
    <2>4. CASE command[f] = "failed" /\ End(f, "failed")
      <3>1. Moves(f, {})
        BY <2>4, FailureMoves
      <3>2. HasSeen(f)'
        BY <3>1 DEF HasSeen, Moves, Past
      <3> QED
        BY <1>1, <2>1, <2>2, <3>1, <3>2 DEF Onward
    <2>5. CASE command[f] = "accepted" /\ PollAgain(f, "command")
      <3>1. Moves(f, {"command"})
        BY <2>5, GoToMoves DEF Polling
      <3>2. HasSeen(f)'
        BY <3>1 DEF HasSeen, Moves, Past
      <3> QED
        BY <1>1, <2>1, <2>2, <3>1, <3>2 DEF Onward, Polling
    <2> QED
      BY <1>3, <2>3, <2>4, <2>5 DEF PollCommandStatus
  <1>4. CASE ProcessProjections(f)
    <2> DEFINE next == CASE flow[f].step = "project" -> "lookup"
                         [] flow[f].step = "project_done" -> "project_status"
                         [] OTHER -> "status"
    <2>1. flow' = [flow EXCEPT ![f].step = next] /\ next \in {"lookup", "project_status", "status"}
      BY <1>4 DEF ProcessProjections
    <2>2. [flow[f] EXCEPT !.step = next] \in FlowRecord
      BY <1>1, <2>1 DEF FlowRecord, Polling, Projecting
    <2>3. Moves(f, {next})
      BY <1>1, <2>1, <2>2 DEF Moves, FlowRecord
    <2>4. PICK reached \in CheckoutStatus :
              /\ view' = [view EXCEPT ![f] = reached]
              /\ view[f] # "none" => reached # "none"
      BY <1>1, <1>4, StatusAfterBatchType DEF ProcessProjections, BatchApplied
    <2>5. UNCHANGED <<available, stored, tab, command, checkout, used>>
      BY <1>4 DEF ProcessProjections
    <2>6. flow[f].step \in Projecting
      BY <1>4 DEF ProcessProjections
    <2>7. flow'[f].step = next
      BY <1>1, <2>1
    <2>8. HasSeen(f) => HasSeen(f)'
      BY <1>1, <2>1, <2>4, <2>5, <2>6, <2>7 DEF HasSeen, Past, Projecting
    <2> QED
      BY <1>1, <2>1, <2>3, <2>4, <2>5, <2>6, <2>8 DEF Onward, Projecting, Polling, Ended
  <1>5. CASE LookUpCheckout(f)
    <2>1. UNCHANGED <<available, stored, tab, command, checkout, view, used>>
      BY <1>5 DEF LookUpCheckout, serverVars
    <2>2. flow[f].step = "lookup"
      BY <1>5 DEF LookUpCheckout
    <2>3. PICK step \in {"complete", "project"} :
              Moves(f, {step}) /\ (step = "complete" => view[f] # "none")
      BY <1>5, GoToMoves DEF LookUpCheckout, Polling, Projecting
    <2>4. HasSeen(f) => HasSeen(f)'
      BY <2>1, <2>2, <2>3 DEF HasSeen, Moves, Past
    <2> QED
      BY <1>1, <2>1, <2>2, <2>3, <2>4 DEF Onward, Projecting, Ended
  <1>6. CASE CompleteDemoCheckout(f)
    <2>1. UNCHANGED <<available, stored, tab, command, view, used>>
      BY <1>6 DEF CompleteDemoCheckout
    <2>2. flow[f].step = "complete" /\ checkout' = [checkout EXCEPT ![f] = "final"]
      BY <1>6 DEF CompleteDemoCheckout
    <2>3. Moves(f, {"project_done"})
      BY <1>6, GoToMoves DEF CompleteDemoCheckout, Projecting
    <2>4. HasSeen(f) => HasSeen(f)'
      BY <1>1, <2>1, <2>2, <2>3 DEF HasSeen, Moves, Past
    <2> QED
      BY <1>1, <2>1, <2>2, <2>3, <2>4 DEF Onward, Projecting, Ended, CheckoutStatus
  <1>7. CASE ReadCheckoutStatus(f)
    <2>1. UNCHANGED <<available, stored, tab, command, checkout, view, used>>
      BY <1>7 DEF ReadCheckoutStatus, serverVars
    <2>2. flow[f].step = "status"
      BY <1>7 DEF ReadCheckoutStatus
    <2>3. PICK step \in {"finish", "project_status"} : Moves(f, {step})
      BY <1>7, GoToMoves DEF ReadCheckoutStatus, Projecting
    <2>4. HasSeen(f) => HasSeen(f)'
      BY <1>1, <2>1, <2>2, <2>3 DEF HasSeen, Moves, Past
    <2> QED
      BY <1>1, <2>1, <2>2, <2>3, <2>4 DEF Onward, Projecting, Ended
  <1> QED
    BY <1>2, <1>3, <1>4, <1>5, <1>6, <1>7 DEF FlowStep

\* The end of a checkout, on either page.
LEMMA FinishType ==
    ASSUME TypeOK, NEW f \in Flows, Finish(f) \/ FinishAndLeave(f)
    PROVE  TypeOK'
  <1>1. Empty \in Carts /\ stored \in Carts
    BY Types, EmptyIsCart
  <1>2. EndedAs("finished") \in FlowRecord /\ EndedAs("abandoned") \in FlowRecord
    BY FlowRecords DEF Ended
  <1>3. CASE Finish(f)
    <2> DEFINE next == IF flow[f].kind = "cart" THEN Empty ELSE stored
    <2>1. flow[f].tab \in Tabs => AtTheEnd(tab[flow[f].tab]) \in TabRecord
      BY Types, EmptyIsCart DEF AtTheEnd, TabRecord, Screens
    <2>2. next \in Carts
      BY <1>1
    <2>3. stored' \in Carts /\ tab' \in [Tabs -> TabRecord]
      <3>1. PersistCart(flow[f].tab, next, AtTheEnd(tab[flow[f].tab]))
        BY <1>3 DEF Finish
      <3> HIDE DEF next
      <3> QED
        BY <2>1, <2>2, <3>1, PersistType
    <2>4. flow' \in [Flows -> FlowRecord]
      BY <1>2, <1>3, Types DEF Finish, End
    <2>5. UNCHANGED <<available, command, checkout, view, used>>
      BY <1>3 DEF Finish, serverVars
    <2> QED
      BY <2>3, <2>4, <2>5, Types DEF TypeOK, TabRecord, FlowRecord
  <1>4. CASE FinishAndLeave(f)
    <2>1. stored' \in Carts /\ tab' \in [Tabs -> TabRecord]
      BY <1>1, <1>4, NewTabType, PersistType DEF FinishAndLeave
    <2>2. flow' \in [Flows -> FlowRecord]
      BY <1>2, <1>4, Types DEF FinishAndLeave
    <2>3. UNCHANGED <<available, command, checkout, view, used>>
      BY <1>4 DEF FinishAndLeave, serverVars
    <2> QED
      BY <2>1, <2>2, <2>3, Types DEF TypeOK, TabRecord, FlowRecord
  <1> QED
    BY <1>3, <1>4

\* Every step keeps the types.
LEMMA TypeStep == TypeOK /\ [Next]_vars => TypeOK'
  <1> SUFFICES ASSUME TypeOK, [Next]_vars PROVE TypeOK'
    OBVIOUS
  <1>1. ASSUME NEW t \in Tabs, Buyer(t) PROVE TypeOK'
    BY <1>1, BuyerType
  <1>2. ASSUME NEW f \in Flows, FlowStep(f) PROVE TypeOK'
    <2>1. CASE Onward(f)
      <3>1. /\ flow' \in [Flows -> FlowRecord]
            /\ checkout' \in [Flows -> CheckoutStatus] /\ view' \in [Flows -> CheckoutStatus]
            /\ UNCHANGED <<available, stored, tab, command, used>>
        BY <2>1 DEF Onward, Moves
      <3> QED
        BY <3>1, Types DEF TypeOK, TabRecord, FlowRecord
    <2> QED
      BY <1>2, <2>1, FlowStepIsOnward, FinishType
  <1>3. ASSUME NEW f \in Flows, CommandSettles(f) PROVE TypeOK'
    <2>1. command' \in [Flows -> CommandStatus] /\ checkout' \in [Flows -> CheckoutStatus]
      BY <1>3, Types DEF CommandSettles, CommandStatus, CheckoutStatus
    <2>2. UNCHANGED <<available, stored, tab, flow, view, used>>
      BY <1>3 DEF CommandSettles
    <2> QED
      BY <2>1, <2>2, Types DEF TypeOK, TabRecord, FlowRecord
  <1>4. ASSUME NEW p \in Products, Sale(p) PROVE TypeOK'
    <2>1. available' \in [Products -> Nat]
      BY <1>4, Types DEF Sale
    <2>2. used' \in [edits : 0 .. MaxEdits, sales : 0 .. MaxSales]
      BY <1>4, Types, StorefrontAssumption DEF Sale
    <2>3. UNCHANGED <<stored, tab, flow, command, checkout, view>>
      BY <1>4 DEF Sale, serverVars
    <2> QED
      BY <2>1, <2>2, <2>3, Types DEF TypeOK, TabRecord, FlowRecord
  <1>5. ASSUME NEW f \in Flows, OthersProject(f) PROVE TypeOK'
    <2>1. view' \in [Flows -> CheckoutStatus]
      BY <1>5, Types, StatusAfterBatchType DEF OthersProject, BatchApplied
    <2>2. UNCHANGED <<available, stored, tab, flow, command, checkout, used>>
      BY <1>5 DEF OthersProject
    <2> QED
      BY <2>1, <2>2, Types DEF TypeOK, TabRecord, FlowRecord
  <1>6. CASE UNCHANGED vars
    BY <1>6, Types DEF vars, TypeOK, TabRecord, FlowRecord
  <1> QED
    BY <1>1, <1>2, <1>3, <1>4, <1>5, <1>6 DEF Next

------------------------------------------------------------------------------
(* What a checkout has seen *)

LEMMA FlowInvStep == TypeOK /\ FlowInv /\ [Next]_vars => FlowInv'
  <1> SUFFICES ASSUME TypeOK, FlowInv, [Next]_vars, NEW f \in Flows
               PROVE  HasSeen(f)' /\ CartsOnly(f)'
    BY DEF FlowInv
  <1>0. /\ HasSeen(f) /\ CartsOnly(f)
        /\ command \in [Flows -> CommandStatus] /\ checkout \in [Flows -> CheckoutStatus]
        /\ flow \in [Flows -> FlowRecord]
    BY Types DEF FlowInv
  \* Steps that leave this checkout where it is.
  <1>1. CASE flow'[f] = flow[f] /\ command'[f] = command[f] /\ checkout'[f] = checkout[f]
             /\ view'[f] = view[f]
    BY <1>0, <1>1 DEF HasSeen, CartsOnly
  \* Steps that end it with its page.
  <1>2. CASE flow'[f].step \in {"abandoned", "failed"}
    BY <1>2 DEF HasSeen, CartsOnly, Past, Ended
  <1>3. ASSUME NEW t \in Tabs, Buyer(t) PROVE HasSeen(f)' /\ CartsOnly(f)'
    <2>1. CASE Reload(t)
      <3>1. UNCHANGED <<command, checkout, view>>
        BY <2>1 DEF Reload, serverVars
      <3>2. flow'[f] = flow[f] \/ flow'[f].step = "abandoned"
        BY <2>1 DEF Reload, EndedAs, NoFlow
      <3> QED
        BY <1>1, <1>2, <3>1, <3>2
    <2>2. ASSUME NEW g \in Flows, CheckoutCart(t, g) \/ BuyNow(t, g)
          PROVE  HasSeen(f)' /\ CartsOnly(f)'
      <3>1. PICK kind \in {"cart", "buy_now"} :
              Start(t, g, kind) /\ (tab[t].screen = "products" => kind = "cart")
        BY <2>2 DEF CheckoutCart, BuyNow
      <3>2. /\ flow' = [flow EXCEPT ![g] = [step |-> "command", tab |-> t, screen |-> tab[t].screen,
                                           kind |-> kind, polls |-> 0]]
            /\ command' = [command EXCEPT ![g] = "accepted"]
            /\ UNCHANGED <<checkout, view>>
        BY <3>1 DEF Start
      <3>3. CASE f # g
        BY <1>0, <1>1, <3>2, <3>3
      <3>4. CASE f = g
        <4>1. /\ flow'[f].step = "command"
              /\ flow'[f].screen = "products" => flow'[f].kind = "cart"
          BY <1>0, <3>1, <3>2, <3>4
        <4> QED
          BY <4>1 DEF HasSeen, CartsOnly, Past
      <3> QED
        BY <3>3, <3>4
    <2>3. CASE UNCHANGED <<flow, command, checkout, view>>
      BY <1>1, <2>3
    <2> QED
      BY <1>3, <2>1, <2>2, <2>3
      DEF Buyer, CatalogArrives, StorageEvent, Visit, Adds, AddCurrentProductToCart, ProductsDrawer,
          ProductDrawer, Drawer, UpdateCartQuantity, RemoveFromCart, ClearCart, Edit, serverVars
  <1>4. ASSUME NEW g \in Flows, FlowStep(g) PROVE HasSeen(f)' /\ CartsOnly(f)'
    <2>1. CASE Onward(g)
      <3>1. CASE f # g
        BY <1>1, <2>1, <3>1 DEF Onward, Moves
      <3>2. CASE f = g
        <4>1. HasSeen(f)' /\ (flow'[f].step # "failed" =>
                flow'[f].screen = flow[f].screen /\ flow'[f].kind = flow[f].kind)
              /\ flow[f].step \notin {"none"} \cup Ended
          BY <1>0, <2>1, <3>2 DEF Onward, Moves
        <4> QED
          BY <1>0, <1>2, <4>1 DEF CartsOnly
      <3> QED
        BY <3>1, <3>2
    <2>2. CASE Finish(g) \/ FinishAndLeave(g)
      <3>1. UNCHANGED <<command, checkout, view>>
        BY <2>2 DEF Finish, FinishAndLeave, serverVars
      <3>2. CASE f = g
        <4>1. flow'[f].step = "finished" /\ flow[f].step = "finish"
          BY <1>0, <2>2, <3>2 DEF Finish, FinishAndLeave, End, EndedAs, NoFlow
        <4> QED
          BY <1>0, <3>1, <4>1 DEF HasSeen, CartsOnly, Past, Ended
      <3>3. CASE f # g
        <4>1. flow'[f] = flow[f] \/ flow'[f].step = "abandoned"
          BY <1>0, <2>2, <3>3 DEF Finish, FinishAndLeave, End, EndedAs, NoFlow
        <4> QED
          BY <1>1, <1>2, <3>1, <4>1
      <3> QED
        BY <3>2, <3>3
    <2> QED
      BY <1>4, <2>1, <2>2, FlowStepIsOnward
  <1>5. ASSUME NEW g \in Flows, CommandSettles(g) PROVE HasSeen(f)' /\ CartsOnly(f)'
    <2>1. UNCHANGED <<flow, view>> /\ command[g] = "accepted"
      BY <1>5 DEF CommandSettles
    <2>2. CASE f # g
      BY <1>0, <1>1, <1>5, <2>1, <2>2 DEF CommandSettles
    <2>3. CASE f = g
      BY <1>0, <2>1, <2>3 DEF HasSeen, CartsOnly, Past
    <2> QED
      BY <2>2, <2>3
  <1>6. ASSUME NEW p \in Products, Sale(p) PROVE HasSeen(f)' /\ CartsOnly(f)'
    BY <1>1, <1>6 DEF Sale, serverVars
  <1>7. ASSUME NEW g \in Flows, OthersProject(g) PROVE HasSeen(f)' /\ CartsOnly(f)'
    <2>1. UNCHANGED <<flow, command, checkout>>
      BY <1>7 DEF OthersProject
    <2>2. view[f] # "none" => view'[f] # "none"
      BY <1>7, Types, StatusAfterBatchType DEF OthersProject, BatchApplied
    <2> QED
      BY <1>0, <2>1, <2>2 DEF HasSeen, CartsOnly
  <1>8. CASE UNCHANGED vars
    BY <1>1, <1>8 DEF vars
  <1> QED
    BY <1>3, <1>4, <1>5, <1>6, <1>7, <1>8 DEF Next

------------------------------------------------------------------------------
(* What a tab shows *)

Shows(t) == ~tab[t].dirty /\ tab[t].screen # "complete" => tab[t].cart = ReadCart(tab[t].catalog)

\* The other tabs have an event to come, or the stored cart is what it was.
LEMMA OthersShow ==
    ASSUME TypeOK, NEW t, NEW cart, NEW own, PersistCart(t, cart, own),
           NEW u \in Tabs, u # t, Shows(u)
    PROVE  Shows(u)'
  <1>1. tab'[u] = [tab[u] EXCEPT !.dirty = (tab[u].dirty \/ cart # stored)] /\ stored' = cart
    BY DEF PersistCart
  <1>2. tab[u] \in TabRecord
    BY Types
  <1>3. /\ tab'[u].dirty = (tab[u].dirty \/ cart # stored) /\ tab'[u].screen = tab[u].screen
        /\ tab'[u].cart = tab[u].cart /\ tab'[u].catalog = tab[u].catalog
    BY <1>1, <1>2 DEF TabRecord
  <1> QED
    BY <1>1, <1>3 DEF Shows, ReadCart

\* The tab that stores a cart shows it.
LEMMA EditorShows ==
    ASSUME TypeOK, NEW t \in Tabs, NEW next, Edits(t, next)
    PROVE  Shows(t)'
  <1>1. tab[t] \in TabRecord /\ tab[t].catalog \in [Products -> Nat]
    BY Types DEF TabRecord
  <1> DEFINE normalized == NormalizeCart(next, tab[t].catalog)
  <1>2. /\ normalized \in Carts
        /\ NormalizeCart(normalized, tab[t].catalog) = normalized
    BY <1>1, Normalized DEF Edits
  <1>3. /\ stored' = normalized
        /\ tab'[t] = [tab[t] EXCEPT !.cart = normalized, !.dirty = FALSE]
    BY DEF Edits, SyncCart, PersistCart
  <1>4. tab'[t].cart = normalized /\ tab'[t].catalog = tab[t].catalog
    BY <1>1, <1>3 DEF TabRecord
  <1> QED
    BY <1>2, <1>3, <1>4 DEF Shows, ReadCart

LEMMA ShowsStep == TypeOK /\ ShowsStoredCart /\ [Next]_vars => ShowsStoredCart'
  <1> SUFFICES ASSUME TypeOK, ShowsStoredCart, [Next]_vars, NEW u \in Tabs
               PROVE  Shows(u)'
    BY DEF ShowsStoredCart, Shows
  <1>0. Shows(u) /\ tab[u] \in TabRecord /\ tab \in [Tabs -> TabRecord]
    BY Types DEF ShowsStoredCart, Shows
  <1>1. CASE tab'[u] = tab[u] /\ stored' = stored
    BY <1>0, <1>1 DEF Shows, ReadCart
  <1>2. ASSUME NEW t \in Tabs, Buyer(t) PROVE Shows(u)'
    <2>1. CASE CatalogArrives(t) \/ StorageEvent(t) \/ \E screen \in Screens : Visit(t, screen)
      <3>1. stored' = stored
        BY <2>1 DEF CatalogArrives, StorageEvent, Visit
      <3>2. CASE u # t
        <4>1. tab'[u] = tab[u]
          BY <1>0, <2>1, <3>2 DEF CatalogArrives, StorageEvent, Visit
        <4> QED
          BY <1>1, <3>1, <4>1
      <3>3. CASE u = t
        <4>1. tab'[u].cart = ReadCart(tab'[u].catalog)
          <5>1. CASE CatalogArrives(t)
            <6>1. tab'[u] = [tab[u] EXCEPT !.loaded = TRUE, !.catalog = available,
                                           !.cart = ReadCart(available), !.dirty = FALSE]
              BY <1>0, <3>3, <5>1 DEF CatalogArrives
            <6> QED
              BY <1>0, <6>1 DEF TabRecord
          <5>2. CASE StorageEvent(t)
            <6>1. tab'[u] = [tab[u] EXCEPT !.cart = ReadCart(tab[u].catalog), !.dirty = FALSE]
              BY <1>0, <3>3, <5>2 DEF StorageEvent
            <6> QED
              BY <1>0, <6>1 DEF TabRecord
          <5>3. ASSUME NEW screen \in Screens, Visit(t, screen)
                PROVE  tab'[u].cart = ReadCart(tab'[u].catalog)
            <6>1. tab'[u] = [tab[u] EXCEPT !.screen = screen, !.cart = ReadCart(tab[u].catalog),
                                           !.dirty = FALSE]
              BY <1>0, <3>3, <5>3 DEF Visit
            <6> QED
              BY <1>0, <6>1 DEF TabRecord
          <5> QED
            BY <2>1, <5>1, <5>2, <5>3
        <4> QED
          BY <3>1, <4>1 DEF Shows, ReadCart
      <3> QED
        BY <3>2, <3>3
    <2>2. CASE Reload(t)
      <3>1. stored' = stored /\ stored \in [Products -> Nat]
        BY <2>2, Types, CartIsNat DEF Reload
      <3>2. CASE u # t
        BY <1>0, <1>1, <2>2, <3>1, <3>2 DEF Reload
      <3>3. CASE u = t
        <4>1. tab'[u].cart = Empty /\ tab'[u].catalog = NoCatalog
          BY <1>0, <2>2, <3>3 DEF Reload, NewTab
        <4> QED
          BY <3>1, <4>1, NothingWithoutCatalog DEF Shows, ReadCart
      <3> QED
        BY <3>2, <3>3
    <2>3. CASE Adds(t) \/ ProductsDrawer(t) \/ ProductDrawer(t)
      <3>1. PICK next : Edits(t, next)
        BY <2>3, EditsOf DEF ProductsDrawer, ProductDrawer
      <3>2. CASE u # t
        <4>1. \E cart, own : PersistCart(t, cart, own)
          BY <3>1 DEF Edits, SyncCart
        <4> QED
          BY <1>0, <3>2, <4>1, OthersShow
      <3>3. CASE u = t
        BY <3>1, <3>3, EditorShows
      <3> QED
        BY <3>2, <3>3
    <2>4. ASSUME NEW f \in Flows, CheckoutCart(t, f) \/ BuyNow(t, f) PROVE Shows(u)'
      BY <1>1, <2>4 DEF CheckoutCart, BuyNow, Start
    <2> QED
      BY <1>2, <2>1, <2>2, <2>3, <2>4 DEF Buyer
  <1>3. ASSUME NEW f \in Flows, FlowStep(f) PROVE Shows(u)'
    <2>1. CASE Onward(f)
      BY <1>1, <2>1 DEF Onward
    <2>2. CASE Finish(f) \/ FinishAndLeave(f)
      <3>1. PICK cart, page : PersistCart(flow[f].tab, cart, AtTheEnd(page))
                              /\ page \in {tab[flow[f].tab], NewTab}
        BY <2>2 DEF Finish, FinishAndLeave
      <3>2. CASE u # flow[f].tab
        BY <1>0, <3>1, <3>2, OthersShow
      <3>3. CASE u = flow[f].tab
        <4>1. tab'[u] = AtTheEnd(page)
          BY <3>1, <3>3 DEF PersistCart
        <4>2. page \in TabRecord
          BY <1>0, <3>1, <3>3, NewTabType
        <4>3. tab'[u].screen = "complete"
          BY <4>1, <4>2 DEF AtTheEnd, TabRecord
        <4> QED
          BY <4>3 DEF Shows
      <3> QED
        BY <3>2, <3>3
    <2> QED
      BY <1>3, <2>1, <2>2, FlowStepIsOnward
  <1>4. ASSUME NEW f \in Flows, CommandSettles(f) \/ OthersProject(f) PROVE Shows(u)'
    BY <1>1, <1>4 DEF CommandSettles, OthersProject
  <1>5. ASSUME NEW p \in Products, Sale(p) PROVE Shows(u)'
    BY <1>1, <1>5 DEF Sale
  <1>6. CASE UNCHANGED vars
    BY <1>1, <1>6 DEF vars
  <1> QED
    BY <1>2, <1>3, <1>4, <1>5, <1>6 DEF Next

------------------------------------------------------------------------------
(* What may vanish *)

\* A change by the buyer that is not a removal drops p only if the tab had not heard of it
\* or has no stock of it in its catalog.
LEMMA EditDropsOnlyTheUnknown ==
    ASSUME TypeOK, ShowsStoredCart, NEW t \in Tabs, tab[t].screen # "complete", NEW p \in Products,
           NEW q \in Products, NEW next, Edits(t, next), next[q] > 0,
           \A r \in Products \ {q} : next[r] = tab[t].cart[r],
           stored[p] > 0, stored'[p] = 0
    PROVE  tab[t].dirty \/ tab[t].catalog[p] = 0
  <1>1. /\ tab[t].catalog \in [Products -> Nat] /\ stored \in [Products -> Nat]
        /\ next \in [Products -> Nat] /\ tab[t].cart \in [Products -> Nat]
    BY Types, CartIsNat DEF TabRecord, Edits
  <1>2. stored' = NormalizeCart(next, tab[t].catalog)
    BY DEF Edits, SyncCart, PersistCart
  <1>3. CASE next[p] > 0
    BY <1>1, <1>2, <1>3, DroppedHasNoStock
  <1>4. CASE ~(next[p] > 0)
    <2>1. p # q /\ next[p] = tab[t].cart[p] /\ next[p] \in Nat
      BY <1>1, <1>4
    <2>2. tab[t].cart[p] = 0
      BY <1>1, <1>4, <2>1
    <2>3. ~tab[t].dirty => NormalizeCart(stored, tab[t].catalog)[p] = 0
      BY <2>2 DEF ShowsStoredCart, ReadCart
    <2> QED
      BY <1>1, <2>3, DroppedHasNoStock
  <1> QED
    BY <1>3, <1>4

\* The reasons NothingVanishes gives.
Reason(p) ==
    \/ \E t \in Tabs : RemoveFromCart(t, p) \/ ClearCart(t)
    \/ \E f \in Flows : flow[f].kind = "cart" /\ (Finish(f) \/ FinishAndLeave(f))
    \/ \E t \in Tabs : (Adds(t) \/ Drawer(t)) /\ (tab[t].dirty \/ tab[t].catalog[p] = 0)

LEMMA VanishStep ==
    IInv /\ [Next]_vars => \A p \in Products : stored[p] > 0 /\ stored'[p] = 0 => Reason(p)
  <1> SUFFICES ASSUME TypeOK, FlowInv, ShowsStoredCart, [Next]_vars, NEW p \in Products,
                      stored[p] > 0, stored'[p] = 0
               PROVE  Reason(p)
    BY DEF IInv
  <1>0. stored' # stored
    OBVIOUS
  <1>1. ASSUME NEW t \in Tabs, Buyer(t) PROVE Reason(p)
    <2>0. Adds(t) \/ ((ProductsDrawer(t) \/ ProductDrawer(t)) /\ Drawer(t))
      BY <1>0, <1>1
      DEF Buyer, CatalogArrives, StorageEvent, Reload, Visit, CheckoutCart, BuyNow, Start,
          ProductsDrawer, ProductDrawer
    <2>1. tab[t].screen # "complete" /\ tab[t].cart \in [Products -> Nat] /\ MaxQuantity \in Nat
      BY <2>0, Types, CartIsNat, StorefrontAssumption
      DEF TabRecord, Adds, AddCurrentProductToCart, ProductsDrawer, ProductDrawer
    <2>2. ASSUME NEW q \in Products, NEW n \in 1 .. MaxQuantity,
                 AddCurrentProductToCart(t, q, n) \/ UpdateCartQuantity(t, q, n)
          PROVE  tab[t].dirty \/ tab[t].catalog[p] = 0
      <3>1. PICK next \in [Products -> Nat] :
              SyncCart(t, next) /\ Edit /\ next[q] > 0
              /\ \A r \in Products \ {q} : next[r] = tab[t].cart[r]
        <4>1. CASE AddCurrentProductToCart(t, q, n)
          <5>1. MergeCartEntry(tab[t].cart, q, n) \in [Products -> Nat]
                /\ MergeCartEntry(tab[t].cart, q, n)[q] > 0
                /\ \A r \in Products \ {q} : MergeCartEntry(tab[t].cart, q, n)[r] = tab[t].cart[r]
            BY <2>1 DEF MergeCartEntry
          <5> QED
            BY <4>1, <5>1 DEF AddCurrentProductToCart
        <4>2. CASE UpdateCartQuantity(t, q, n)
          <5>1. [tab[t].cart EXCEPT ![q] = n] \in [Products -> Nat]
                /\ [tab[t].cart EXCEPT ![q] = n][q] > 0
                /\ \A r \in Products \ {q} : [tab[t].cart EXCEPT ![q] = n][r] = tab[t].cart[r]
            BY <2>1
          <5> QED
            BY <4>2, <5>1 DEF UpdateCartQuantity
        <4> QED
          BY <2>2, <4>1, <4>2
      <3>2. Edits(t, next)
        BY <3>1 DEF Edits
      <3> QED
        BY <2>1, <3>1, <3>2, EditDropsOnlyTheUnknown
    <2>3. CASE Adds(t)
      BY <2>2, <2>3 DEF Adds, Reason
    <2>4. CASE Drawer(t)
      <3>1. CASE ClearCart(t)
        BY <3>1 DEF Reason
      <3>2. ASSUME NEW q \in Products, RemoveFromCart(t, q) PROVE Reason(p)
        <4>1. CASE q = p
          BY <3>2, <4>1 DEF Reason
        <4>2. CASE q # p
          <5> DEFINE next == [tab[t].cart EXCEPT ![q] = 0]
          <5>1. next \in [Products -> Nat] /\ next[p] = tab[t].cart[p]
            BY <2>1, <4>2
          <5>2. stored' = NormalizeCart(next, tab[t].catalog)
            BY <3>2 DEF RemoveFromCart, SyncCart, PersistCart
          <5>3. tab[t].catalog \in [Products -> Nat] /\ stored \in [Products -> Nat]
            BY Types, CartIsNat DEF TabRecord
          <5>4. tab[t].dirty \/ tab[t].catalog[p] = 0
            <6>1. CASE next[p] > 0
              <7> HIDE DEF next
              <7> QED
                BY <5>1, <5>2, <5>3, <6>1, DroppedHasNoStock
            <6>2. CASE ~(next[p] > 0)
              <7>1. tab[t].cart[p] = 0
                BY <2>1, <5>1, <6>2
              <7>2. ~tab[t].dirty => NormalizeCart(stored, tab[t].catalog)[p] = 0
                BY <2>1, <7>1 DEF ShowsStoredCart, ReadCart
              <7> QED
                BY <5>3, <7>2, DroppedHasNoStock
            <6> QED
              BY <6>1, <6>2
          <5> QED
            BY <2>4, <5>4 DEF Reason
        <4> QED
          BY <4>1, <4>2
      <3>3. CASE \E q \in Products, n \in 1 .. MaxQuantity : UpdateCartQuantity(t, q, n)
        BY <2>2, <2>4, <3>3 DEF Reason
      <3> QED
        BY <2>4, <3>1, <3>2, <3>3 DEF Drawer
    <2> QED
      BY <2>0, <2>3, <2>4
  <1>2. ASSUME NEW f \in Flows, FlowStep(f) PROVE Reason(p)
    <2>1. ~Onward(f)
      BY <1>0 DEF Onward
    <2>2. CASE Finish(f)
      <3>1. flow[f].kind = "cart"
        BY <1>0, <2>2 DEF Finish, PersistCart
      <3> QED
        BY <2>2, <3>1 DEF Reason
    <2>3. CASE FinishAndLeave(f)
      <3>1. flow[f].kind = "cart"
        BY <2>3 DEF FinishAndLeave, FlowInv, CartsOnly, Ended
      <3> QED
        BY <2>3, <3>1 DEF Reason
    <2> QED
      BY <1>2, <2>1, <2>2, <2>3, FlowStepIsOnward
  <1>3. /\ ~(\E f \in Flows : CommandSettles(f) \/ OthersProject(f))
        /\ ~(\E q \in Products : Sale(q)) /\ ~UNCHANGED vars
    BY <1>0 DEF CommandSettles, OthersProject, Sale, vars
  <1> QED
    BY <1>1, <1>2, <1>3 DEF Next

------------------------------------------------------------------------------
(* Theorems *)

LEMMA InvInit == Init => IInv
  <1> SUFFICES ASSUME Init PROVE IInv
    OBVIOUS
  <1>1. NoFlow \in FlowRecord
    <2>1. 0 \in 0 .. MaxPolls
      BY StorefrontAssumption
    <2> QED
      BY <2>1 DEF NoFlow, FlowRecord
  <1>2. TypeOK
    <2>1. [edits |-> 0, sales |-> 0] \in [edits : 0 .. MaxEdits, sales : 0 .. MaxSales]
      BY StorefrontAssumption
    <2> QED
      BY <1>1, <2>1, Types, NewTabType, EmptyIsCart, StorefrontAssumption
      DEF Init, CommandStatus, CheckoutStatus
  <1>3. FlowInv
    BY DEF Init, FlowInv, HasSeen, CartsOnly, NoFlow, Past
  <1>4. ShowsStoredCart
    <2>1. \A t \in Tabs : tab[t].cart = Empty /\ tab[t].catalog = NoCatalog
      BY DEF Init, NewTab
    <2> QED
      BY <2>1, EmptyIsCart, NothingWithoutCatalog DEF Init, ShowsStoredCart, ReadCart
  <1> QED
    BY <1>2, <1>3, <1>4 DEF IInv

LEMMA InvStep == IInv /\ [Next]_vars => IInv'
  BY TypeStep, FlowInvStep, ShowsStep DEF IInv

\* The inductive invariant holds in every reachable state of the shop.
THEOREM Invariant == Spec => []IInv
  BY InvInit, InvStep, PTL DEF Spec

\* Every variable keeps its type: in particular no stored or shown cart ever holds more
\* than the most that may be bought of a product, whatever the catalog says.
THEOREM TypeCorrect == Spec => []TypeOK
  <1>1. IInv => TypeOK
    BY DEF IInv
  <1> QED
    BY <1>1, Invariant, PTL

\* Every tab that has heard of the last change shows the stored cart (readCart,
\* normalizeCart and syncCart agree).
THEOREM TabsShowStoredCart == Spec => []ShowsStoredCart
  <1>1. IInv => ShowsStoredCart
    BY DEF IInv
  <1> QED
    BY <1>1, Invariant, PTL

\* A checkout whose page is shown is final in the event store and known to the read model,
\* whatever status the last loop has accepted and whatever is projected afterwards.
THEOREM FinishedCheckoutIsFinal == Spec => []FinishedIsFinal
  <1>1. IInv => FinishedIsFinal
    BY DEF IInv, FlowInv, HasSeen, FinishedIsFinal, Past
  <1> QED
    BY <1>1, Invariant, PTL

\* Entries of the stored cart vanish only for the reasons NothingVanishes lists.
THEOREM CartKeepsItsEntries == Spec => NothingVanishes
  <1>1. IInv /\ [Next]_vars =>
          [\A p \in Products : stored[p] > 0 /\ stored'[p] = 0 => Reason(p)]_vars
    BY VanishStep
  <1> QED
    BY <1>1, Invariant, PTL DEF Spec, NothingVanishes, Reason

(***************************************************************************)
(* The projections                                                         *)
(***************************************************************************)

------------------------------------------------------------------------------
(* Sums of units, and the order of the ids *)

OfType(type, S) == {e \in S : e.type = type}

UnitsOf(s) == [e \in Event |-> e.units[s]]

\* What UnitsIn computes is a sum of weights.
LEMMA EventUnitsAreCounted ==
    ASSUME NEW type, NEW s \in Skus, NEW S \in SUBSET Event, IsFiniteSet(S)
    PROVE  UnitsIn(type, s, S) = Count(UnitsOf(s), OfType(type, S))
  <1> DEFINE T == OfType(type, S)
             w == UnitsOf(s)
             Rec(g) == g = [U \in SUBSET T |-> IF U = {} THEN 0
                  ELSE (CHOOSE x \in U : TRUE).units[s] + g[U \ {CHOOSE x \in U : TRUE}]]
             i == CHOOSE g : Rec(g)
  <1>1. T \in SUBSET S /\ IsFiniteSet(T)
    BY FS_Subset DEF OfType
  <1>2. \A x \in T : w[x] \in Nat /\ w[x] = x.units[s]
    BY <1>1 DEF UnitsOf, Event
  <1>3. UnitsIn(type, s, S) = i[T]
    BY DEF UnitsIn, MapThenSumSet, MapThenFoldSet, OfType
  <1> HIDE DEF T, w
  <1>4. \A g : Rec(g) <=> Sums(g, w, T)
    BY <1>2 DEF Sums
  <1>5. \E g : Rec(g)
    BY <1>1, <1>2, <1>4, CountSums
  <1>6. Rec(i)
    BY <1>5
  <1> HIDE DEF i, Rec
  <1> QED
    BY <1>1, <1>2, <1>3, <1>4, <1>6, SumsCount DEF T, w

\* Nothing is in no events.
LEMMA UnitsInNone ==
    ASSUME NEW type, NEW s \in Skus
    PROVE  UnitsIn(type, s, {}) = 0
  <1>1. IsFiniteSet({}) /\ OfType(type, {}) = {}
    BY FS_EmptySet DEF OfType
  <1>2. UnitsIn(type, s, {}) = Count(UnitsOf(s), {})
    BY <1>1, EventUnitsAreCounted
  <1> QED
    BY <1>2, CountEmpty

\* One more event adds its units to the sum of its type.
LEMMA UnitsInOneMore ==
    ASSUME NEW type, NEW s \in Skus, NEW S \in SUBSET Event, IsFiniteSet(S),
           NEW e \in Event, e \notin S
    PROVE  /\ UnitsIn(type, s, S) \in Nat
           /\ UnitsIn(type, s, S \cup {e})
                = UnitsIn(type, s, S) + (IF e.type = type THEN e.units[s] ELSE 0)
  <1> DEFINE T == OfType(type, S)
             w == UnitsOf(s)
  <1>1. T \in SUBSET S /\ IsFiniteSet(T) /\ IsFiniteSet(S \cup {e})
    BY FS_Subset, FS_AddElement DEF OfType
  <1>2. \A x \in T \cup {e} : w[x] \in Nat
    BY <1>1 DEF UnitsOf, Event
  <1>3. w[e] = e.units[s]
    BY DEF UnitsOf
  <1>4. UnitsIn(type, s, S) = Count(w, T) /\ Count(w, T) \in Nat
    BY <1>1, <1>2, EventUnitsAreCounted, TokensFinite
  <1>5. UnitsIn(type, s, S \cup {e}) = Count(w, OfType(type, S \cup {e}))
    BY <1>1, EventUnitsAreCounted
  <1>6. CASE e.type = type
    <2>1. OfType(type, S \cup {e}) = T \cup {e} /\ e \notin T
      BY <1>6 DEF OfType
    <2> HIDE DEF T, w
    <2>2. Count(w, T \cup {e}) = Count(w, T) + w[e]
      BY <1>1, <1>2, <2>1, CountAdd
    <2> QED
      BY <1>3, <1>4, <1>5, <1>6, <2>1, <2>2
  <1>7. CASE e.type # type
    <2>1. OfType(type, S \cup {e}) = T
      BY <1>7 DEF OfType
    <2> HIDE DEF T, w
    <2> QED
      BY <1>4, <1>5, <1>7, <2>1
  <1> QED
    BY <1>6, <1>7

DistinctIds(S) == \A e, f \in S : e.id = f.id => e = f

Before(e, S) == {f \in S : f.id < e.id}

\* The events of a set that has ids are numbered by them: to every number below its size
\* there is one event that so many come before.
LEMMA Numbered ==
    ASSUME NEW S \in SUBSET Event, IsFiniteSet(S), DistinctIds(S)
    PROVE  /\ Cardinality(S) \in Nat
           /\ \A e \in S : Cardinality(Before(e, S)) \in 0 .. Cardinality(S) - 1
           /\ \A e, f \in S : e.id < f.id => Cardinality(Before(e, S)) < Cardinality(Before(f, S))
           /\ \A n \in 0 .. Cardinality(S) - 1 : \E e \in S : Cardinality(Before(e, S)) = n
  <1>1. Cardinality(S) \in Nat
    BY FS_CardinalityType
  <1>2. \A e \in S : e.id \in Nat
    BY DEF Event
  <1>3. ASSUME NEW e \in S
        PROVE  IsFiniteSet(Before(e, S)) /\ Cardinality(Before(e, S)) \in Nat
    <2>1. Before(e, S) \in SUBSET S
      BY DEF Before
    <2>2. IsFiniteSet(Before(e, S))
      BY <2>1, FS_Subset
    <2> QED
      BY <2>2, FS_CardinalityType
  <1>4. ASSUME NEW e \in S, NEW T \in SUBSET S, Before(e, S) \cup {e} \subseteq T
        PROVE  Cardinality(Before(e, S)) < Cardinality(T)
    <2>1. e \notin Before(e, S)
      BY <1>2 DEF Before
    <2>2. /\ IsFiniteSet(Before(e, S) \cup {e})
          /\ Cardinality(Before(e, S) \cup {e}) = Cardinality(Before(e, S)) + 1
      BY <1>3, <2>1, FS_AddElement
    <2>3. IsFiniteSet(T)
      BY FS_Subset
    <2>4. Cardinality(Before(e, S) \cup {e}) <= Cardinality(T) /\ Cardinality(T) \in Nat
      BY <1>4, <2>3, FS_Subset, FS_CardinalityType
    <2> QED
      BY <1>3, <2>2, <2>4
  <1>5. ASSUME NEW e \in S PROVE Cardinality(Before(e, S)) \in 0 .. Cardinality(S) - 1
    <2>1. Before(e, S) \cup {e} \subseteq S
      BY DEF Before
    <2>2. Cardinality(Before(e, S)) < Cardinality(S)
      BY <1>4, <2>1
    <2> QED
      BY <1>1, <1>3, <2>2
  <1>6. ASSUME NEW e \in S, NEW f \in S, e.id < f.id
        PROVE  Cardinality(Before(e, S)) < Cardinality(Before(f, S))
    <2>1. Before(e, S) \cup {e} \subseteq Before(f, S) /\ Before(f, S) \in SUBSET S
      BY <1>2, <1>6 DEF Before
    <2> QED
      BY <1>4, <2>1
  <1>7. ASSUME NEW n \in 0 .. Cardinality(S) - 1
        PROVE  \E e \in S : Cardinality(Before(e, S)) = n
    <2> DEFINE number == [e \in S |-> Cardinality(Before(e, S))]
    <2>1. ASSUME NEW e \in S, NEW f \in S, number[e] = number[f] PROVE e = f
      <3>1. Cardinality(Before(e, S)) \in Nat /\ Cardinality(Before(f, S)) \in Nat
        BY <1>3
      <3>2. ~ (e.id < f.id) /\ ~ (f.id < e.id)
        BY <1>6, <2>1, <3>1
      <3> QED
        BY <1>2, <3>2 DEF DistinctIds
    <2>2. number \in Injection(S, 0 .. Cardinality(S) - 1)
      <3>1. number \in [S -> 0 .. Cardinality(S) - 1]
        BY <1>5
      <3> HIDE DEF number
      <3> QED
        BY <2>1, <3>1, Fun_IsInj
    <2>3. /\ IsFiniteSet(0 .. Cardinality(S) - 1)
          /\ Cardinality(0 .. Cardinality(S) - 1) = Cardinality(S)
      BY <1>1, FS_Interval
    <2>4. number \in Surjection(S, 0 .. Cardinality(S) - 1)
      BY <2>2, <2>3, FS_Injection
    <2>5. \E e \in S : number[e] = n
      BY <2>4 DEF Surjection
    <2> QED
      BY <2>5
  <1> QED
    BY <1>1, <1>5, <1>6, <1>7

------------------------------------------------------------------------------
(* A batch *)

Increasing(es) == \A i, j \in DOMAIN es : i < j => es[i].id < es[j].id

\* es are the first events of S in the order of their ids.
FirstOf(es, S) ==
    /\ es \in Seq(S)
    /\ Increasing(es)
    /\ \A e \in S : es # <<>> /\ e.id <= es[Len(es)].id => \E i \in DOMAIN es : es[i] = e

\* readEventsAfter returns the next events, none of them left out.
LEMMA NextBatchIsFirst ==
    ASSUME NEW S, S = After(checkpoint), S \in SUBSET Event, IsFiniteSet(S), DistinctIds(S)
    PROVE  FirstOf(NextBatch, S)
  <1> DEFINE len == Min({BatchSize, Cardinality(S)})
             number(e) == Cardinality(Before(e, S))
  <1>1. /\ Cardinality(S) \in Nat
        /\ \A e \in S : number(e) \in 0 .. Cardinality(S) - 1
        /\ \A e, f \in S : e.id < f.id => number(e) < number(f)
        /\ \A n \in 0 .. Cardinality(S) - 1 : \E e \in S : number(e) = n
    BY Numbered
  <1>2. len \in Nat /\ len <= Cardinality(S)
    BY <1>1, MinOfTwo, HistoryAssumption
  <1>3. NextBatch = [i \in 1 .. len |-> CHOOSE e \in S : number(e) = i - 1]
    BY DEF NextBatch, Before
  <1>4. \A e \in S : e.id \in Nat
    BY DEF Event
  <1> HIDE DEF number, len
  <1>5. PICK es : es = NextBatch
    OBVIOUS
  <1>6. ASSUME NEW i \in 1 .. len PROVE es[i] \in S /\ number(es[i]) = i - 1
    <2>1. i - 1 \in 0 .. Cardinality(S) - 1
      BY <1>1, <1>2
    <2>2. \E e \in S : number(e) = i - 1
      BY <1>1, <2>1
    <2> QED
      BY <1>3, <1>5, <2>2
  <1>7. es \in Seq(S) /\ Len(es) = len /\ DOMAIN es = 1 .. len
    <2>1. es = [i \in 1 .. len |-> es[i]]
      BY <1>3, <1>5
    <2>2. es \in [1 .. len -> S]
      BY <1>6, <2>1
    <2> QED
      BY <1>2, <2>2
  <1>8. Increasing(es)
    <2> SUFFICES ASSUME NEW i \in 1 .. len, NEW j \in 1 .. len, i < j PROVE es[i].id < es[j].id
      BY <1>7 DEF Increasing
    <2>1. /\ es[i] \in S /\ es[j] \in S
          /\ number(es[i]) = i - 1 /\ number(es[j]) = j - 1
      BY <1>6
    <2>2. ~ (number(es[j]) < number(es[i])) /\ number(es[i]) # number(es[j])
      BY <1>2, <2>1
    <2>3. ~ (es[j].id < es[i].id) /\ es[i] # es[j]
      BY <1>1, <2>1, <2>2
    <2> QED
      BY <1>4, <2>1, <2>3 DEF DistinctIds
  <1>9. ASSUME NEW e \in S, es # <<>>, e.id <= es[Len(es)].id PROVE \E i \in DOMAIN es : es[i] = e
    <2>1. len \in 1 .. len
      BY <1>2, <1>7, <1>9
    <2>2. es[len] \in S /\ number(es[len]) = len - 1
      BY <1>6, <2>1
    <2>3. number(e) \in 0 .. Cardinality(S) - 1 /\ e.id <= es[len].id
      BY <1>1, <1>7, <1>9
    <2>4. ~ (number(es[len]) < number(e))
      <3>1. ~ (es[len].id < e.id)
        BY <1>4, <2>2, <2>3
      <3>2. CASE e.id < es[len].id
        BY <1>1, <1>2, <2>2, <2>3, <3>2
      <3>3. CASE e = es[len]
        BY <1>2, <2>2, <3>3
      <3> QED
        BY <1>4, <2>2, <3>1, <3>2, <3>3 DEF DistinctIds
    <2>5. number(e) + 1 \in 1 .. len
      BY <1>1, <1>2, <2>2, <2>3, <2>4
    <2>6. es[number(e) + 1] \in S /\ number(es[number(e) + 1]) = number(e)
      BY <1>6, <2>3, <2>5
    <2>7. es[number(e) + 1] = e
      <3>1. ~ (es[number(e) + 1].id < e.id) /\ ~ (e.id < es[number(e) + 1].id)
        BY <1>1, <2>3, <2>6
      <3> QED
        BY <1>4, <2>6, <3>1 DEF DistinctIds
    <2> QED
      BY <1>7, <2>5, <2>7
  <1> QED
    BY <1>5, <1>7, <1>8, <1>9 DEF FirstOf

\* The last event of a batch has the largest id of it.
LEMMA LastIsLargest ==
    ASSUME NEW S \in SUBSET Event, NEW es, FirstOf(es, S), es # <<>>
    PROVE  /\ Len(es) \in DOMAIN es /\ es[Len(es)] \in S
           /\ \A i \in DOMAIN es : es[i] \in S /\ es[i].id <= es[Len(es)].id
  <1>1. es \in Seq(S) /\ Increasing(es)
    BY DEF FirstOf
  <1>2. Len(es) \in Nat /\ DOMAIN es = 1 .. Len(es) /\ Len(es) \in DOMAIN es
    BY <1>1
  <1>3. \A i \in DOMAIN es : es[i] \in S /\ es[i].id \in Nat
    BY <1>1 DEF Event
  <1>4. ASSUME NEW i \in DOMAIN es PROVE es[i].id <= es[Len(es)].id
    <2>1. i = Len(es) \/ i < Len(es)
      BY <1>2
    <2> QED
      BY <1>1, <1>2, <1>3, <2>1 DEF Increasing
  <1> QED
    BY <1>2, <1>3, <1>4

------------------------------------------------------------------------------
(* What the events of a batch do to the rows *)

Counters == [Skus -> [reserved : Int, sold : Int, available : Int]]

Rows == [sku : Counters, status : [Checkouts -> Statuses],
         payment : [Checkouts -> {"none", "requested", "succeeded"}], ok : BOOLEAN]

\* How an event moves the units of a SKU that are reserved, and those that are sold.
MovesReserved(e, s) ==
    CASE e.type = "InventoryReserved" -> e.units[s]
      [] e.type \in {"InventoryReservationReleased", "OrderConfirmed"} -> -e.units[s]
      [] OTHER -> 0
MovesSold(e, s) == IF e.type = "OrderConfirmed" THEN e.units[s] ELSE 0

\* Every event keeps the form of the rows, moves the counters by its units, and leaves a
\* batch that is stopped stopped; one that is not stopped has consistent counters.
LEMMA EventApplies ==
    ASSUME NEW r \in Rows, NEW e \in Event, NEW n, n = ApplyEvent(r, e)
    PROVE  /\ n \in Rows
           /\ \A s \in Skus :
                 /\ n.sku[s].reserved = r.sku[s].reserved + MovesReserved(e, s)
                 /\ n.sku[s].sold = r.sku[s].sold + MovesSold(e, s)
                 /\ n.sku[s].available
                      = r.sku[s].available - MovesReserved(e, s) - MovesSold(e, s)
           /\ n.ok => r.ok /\ (Consistent(n.sku) \/ n.sku = r.sku)
           /\ r.ok /\ Consistent(n.sku) => n.ok
  <1>1. /\ e.checkout \in Checkouts /\ e.type \in EventTypes /\ e.units \in [Skus -> Nat]
        /\ NoUnits \in [Skus -> Int] /\ e.units \in [Skus -> Int] /\ Minus(e.units) \in [Skus -> Int]
    BY DEF Event, NoUnits, Minus
  <1> DEFINE c == e.checkout
             OnlyStatus(x, y) == y \in Rows /\ y.sku = x.sku /\ y.ok = x.ok
             MovedBy(x, y, reserved, sold) ==
                /\ y \in Rows
                /\ \A s \in Skus : /\ y.sku[s].reserved = x.sku[s].reserved + reserved[s]
                                   /\ y.sku[s].sold = x.sku[s].sold + sold[s]
                                   /\ y.sku[s].available
                                        = x.sku[s].available - reserved[s] - sold[s]
                /\ y.ok = (x.ok /\ Consistent(y.sku))
  <1>2. ASSUME NEW x \in Rows, NEW status \in Statuses, NEW d \in Checkouts
        PROVE  /\ OnlyStatus(x, [x EXCEPT !.status[d] = status])
               /\ OnlyStatus(x, WithStatus(x, d, status))
               /\ OnlyStatus(x, WithProgress(x, d, status))
    <2>1. OnlyStatus(x, [x EXCEPT !.status[d] = status])
      BY DEF Rows
    <2>2. OnlyStatus(x, WithStatus(x, d, status))
      BY <2>1 DEF WithStatus
    <2> QED
      BY <2>1, <2>2 DEF WithProgress
  <1>15. ASSUME NEW x \in Rows, NEW d \in Checkouts,
                NEW payment \in {"none", "requested", "succeeded"}
         PROVE  /\ OnlyStatus(x, [x EXCEPT !.payment[d] = payment])
                /\ OnlyStatus(x, WithPayment(x, d, payment))
    <2>1. OnlyStatus(x, [x EXCEPT !.payment[d] = payment])
      BY DEF Rows
    <2> QED
      BY <2>1 DEF WithPayment
  <1>3. ASSUME NEW x \in Rows, NEW reserved \in [Skus -> Int], NEW sold \in [Skus -> Int],
               NEW y, y = WithSku(x, reserved, sold)
        PROVE  MovedBy(x, y, reserved, sold)
    <2> DEFINE m == Moved(x.sku, reserved, sold)
    <2>1. m \in Counters
      BY DEF Moved, Counters, Rows
    <2>2. \A s \in Skus : m[s] = [reserved  |-> x.sku[s].reserved + reserved[s],
                                  sold      |-> x.sku[s].sold + sold[s],
                                  available |-> x.sku[s].available - reserved[s] - sold[s]]
      BY DEF Moved
    <2>3. PICK okay : okay = Consistent(m)
      OBVIOUS
    <2>4. okay \in BOOLEAN
      BY <2>3 DEF Consistent
    <2>5. y = [x EXCEPT !.sku = m, !.ok = @ /\ okay]
      BY <1>3, <2>3 DEF WithSku
    <2> HIDE DEF m
    <2>6. y \in Rows /\ y.sku = m /\ y.ok = (x.ok /\ okay)
      BY <2>1, <2>4, <2>5 DEF Rows
    <2>7. y.ok = (x.ok /\ Consistent(y.sku))
      BY <2>3, <2>6, Zenon
    <2>8. \A s \in Skus : /\ y.sku[s].reserved = x.sku[s].reserved + reserved[s]
                          /\ y.sku[s].sold = x.sku[s].sold + sold[s]
                          /\ y.sku[s].available = x.sku[s].available - reserved[s] - sold[s]
      <3> SUFFICES ASSUME NEW s \in Skus
                   PROVE  /\ y.sku[s].reserved = x.sku[s].reserved + reserved[s]
                          /\ y.sku[s].sold = x.sku[s].sold + sold[s]
                          /\ y.sku[s].available = x.sku[s].available - reserved[s] - sold[s]
        OBVIOUS
      <3>1. PICK t : t = y.sku[s]
        OBVIOUS
      <3>2. t = [reserved  |-> x.sku[s].reserved + reserved[s],
                 sold      |-> x.sku[s].sold + sold[s],
                 available |-> x.sku[s].available - reserved[s] - sold[s]]
        BY <2>2, <2>6, <3>1, Zenon
      <3>3. /\ t.reserved = x.sku[s].reserved + reserved[s]
            /\ t.sold = x.sku[s].sold + sold[s]
            /\ t.available = x.sku[s].available - reserved[s] - sold[s]
        BY <3>2
      <3> QED
        BY <3>1, <3>3
    <2> QED
      BY <2>6, <2>7, <2>8
  <1>4. \A s \in Skus : r.sku[s].reserved \in Int /\ r.sku[s].sold \in Int /\ r.sku[s].available \in Int
    BY DEF Rows, Counters
  <1>5. \A s \in Skus : e.units[s] \in Int /\ NoUnits[s] = 0 /\ Minus(e.units)[s] = -e.units[s]
    BY <1>1 DEF NoUnits, Minus
  <1> DEFINE Still == \A s \in Skus : MovesReserved(e, s) = 0 /\ MovesSold(e, s) = 0
             Result(x) ==
                /\ x \in Rows
                /\ \A s \in Skus :
                      /\ x.sku[s].reserved = r.sku[s].reserved + MovesReserved(e, s)
                      /\ x.sku[s].sold = r.sku[s].sold + MovesSold(e, s)
                      /\ x.sku[s].available
                           = r.sku[s].available - MovesReserved(e, s) - MovesSold(e, s)
                /\ x.ok => r.ok /\ (Consistent(x.sku) \/ x.sku = r.sku)
                /\ r.ok /\ Consistent(x.sku) => x.ok
  <1>6. ASSUME NEW x, NEW y, OnlyStatus(x, y), Result(x) PROVE Result(y)
    BY <1>6
  <1>7. ASSUME Still PROVE Result(r)
    BY <1>4, <1>7
  <1>16. \A x, y : OnlyStatus(x, y) => y \in Rows
    OBVIOUS
  <1> HIDE DEF Still, OnlyStatus, MovedBy
  <1>8. CASE e.type = "CheckoutIntentCreated"
    <2>1. Still /\ n = [r EXCEPT !.status[c] = "queued"] /\ "queued" \in Statuses
      BY <1>8 DEF Still, MovesReserved, MovesSold, ApplyEvent, CheckoutIntentCreated, Statuses
    <2>2. Result(r)
      BY <1>7, <2>1
    <2> HIDE DEF Result
    <2>3. OnlyStatus(r, n)
      <3>1. /\ c \in Checkouts /\ "queued" \in Statuses
            /\ n = [r EXCEPT !.status[c] = "queued"]
        BY <1>1, <2>1
      <3> HIDE DEF c
      <3> QED
        BY <1>2, <3>1, Zenon
    <2>4. Result(n)
      BY <1>6, <2>2, <2>3
    <2> QED
      BY <2>4 DEF Result
  <1>9. CASE e.type = "InventoryReservationRequested"
    <2>1. Still /\ n = WithProgress(r, c, "reserving") /\ "reserving" \in Statuses
      BY <1>9 DEF Still, MovesReserved, MovesSold, ApplyEvent, Statuses
    <2>2. Result(r)
      BY <1>7, <2>1
    <2> HIDE DEF Result
    <2>3. OnlyStatus(r, n)
      BY <1>1, <1>2, <2>1
    <2>4. Result(n)
      BY <1>6, <2>2, <2>3
    <2> QED
      BY <2>4 DEF Result
  <1>10. CASE e.type = "InventoryReserved"
    <2> DEFINE x == WithSku(r, e.units, NoUnits)
    <2>1. n = WithProgress(x, c, "reserved") /\ "reserved" \in Statuses
      BY <1>10 DEF ApplyEvent, InventoryReserved, Statuses
    <2>2. Result(x)
      <3>1. \A s \in Skus : MovesReserved(e, s) = e.units[s] /\ MovesSold(e, s) = 0
        BY <1>10 DEF MovesReserved, MovesSold
      <3>2. MovedBy(r, x, e.units, NoUnits)
        BY <1>1, <1>3
      <3> HIDE DEF x
      <3> QED
        BY <1>4, <1>5, <3>1, <3>2 DEF MovedBy
    <2> HIDE DEF x
    <2>3. x \in Rows
      BY <2>2
    <2> HIDE DEF Result
    <2>4. OnlyStatus(x, n)
      BY <1>1, <1>2, <2>1, <2>3
    <2>5. Result(n)
      BY <1>6, <2>2, <2>4
    <2> QED
      BY <2>5 DEF Result
  <1>11. CASE e.type = "InventoryReservationRejected"
    <2>1. Still /\ n = WithStatus(r, c, "rejected") /\ "rejected" \in Statuses
      BY <1>11 DEF Still, MovesReserved, MovesSold, ApplyEvent, InventoryReservationRejected, Statuses
    <2>2. Result(r)
      BY <1>7, <2>1
    <2> HIDE DEF Result
    <2>3. OnlyStatus(r, n)
      BY <1>1, <1>2, <2>1
    <2>4. Result(n)
      BY <1>6, <2>2, <2>3
    <2> QED
      BY <2>4 DEF Result
  <1>12. CASE e.type = "InventoryReservationReleased"
    <2>1. n = WithSku(r, Minus(e.units), NoUnits)
      BY <1>12 DEF ApplyEvent, InventoryReservationReleased
    <2>2. \A s \in Skus : MovesReserved(e, s) = -e.units[s] /\ MovesSold(e, s) = 0
      BY <1>12 DEF MovesReserved, MovesSold
    <2>3. MovedBy(r, n, Minus(e.units), NoUnits)
      BY <1>1, <1>3, <2>1
    <2> QED
      BY <1>4, <1>5, <2>2, <2>3 DEF MovedBy
  <1>13. CASE e.type = "PaymentRequested"
    <2> DEFINE x == WithStatus(r, c, "pending_payment")
    <2>1. Still /\ n = WithPayment(x, c, "requested") /\ "pending_payment" \in Statuses
      BY <1>13 DEF Still, MovesReserved, MovesSold, ApplyEvent, PaymentRequested, Statuses
    <2> HIDE DEF Result
    <2>2. OnlyStatus(r, x) /\ Result(r)
      BY <1>1, <1>2, <1>7, <2>1
    <2> HIDE DEF x
    <2>3. x \in Rows
      BY <1>16, <2>2
    <2>4. OnlyStatus(x, n)
      BY <1>1, <1>15, <2>1, <2>3
    <2>5. Result(n)
      BY <1>6, <2>2, <2>4
    <2> QED
      BY <2>5 DEF Result
  <1>14. CASE e.type = "OrderConfirmed"
    <2> DEFINE x == WithStatus(r, c, "confirmed")
               y == WithSku(x, Minus(e.units), e.units)
    <2>1. n = [y EXCEPT !.payment[c] = "succeeded"] /\ "confirmed" \in Statuses
      BY <1>14 DEF ApplyEvent, OrderConfirmed, Sold, Statuses
    <2>2. OnlyStatus(r, x) /\ x \in Rows /\ x.sku = r.sku /\ x.ok = r.ok
      BY <1>1, <1>2, <2>1 DEF OnlyStatus
    <2>3. \A s \in Skus : MovesReserved(e, s) = -e.units[s] /\ MovesSold(e, s) = e.units[s]
      BY <1>14 DEF MovesReserved, MovesSold
    <2> HIDE DEF x
    <2>4. Result(y)
      <3>1. MovedBy(x, y, Minus(e.units), e.units)
        BY <1>1, <1>3, <2>2
      <3> HIDE DEF y
      <3> QED
        BY <1>4, <1>5, <2>2, <2>3, <3>1 DEF MovedBy
    <2> HIDE DEF y
    <2>5. y \in Rows
      BY <2>4
    <2> HIDE DEF Result
    <2>6. OnlyStatus(y, n)
      BY <1>1, <1>15, <2>1, <2>5
    <2>7. Result(n)
      BY <1>6, <2>4, <2>6
    <2> QED
      BY <2>7 DEF Result
  <1> QED
    BY <1>1, <1>8, <1>9, <1>10, <1>11, <1>12, <1>13, <1>14 DEF EventTypes


\* Applied, event by event.
AppliedUpTo(es, upTo) ==
    /\ upTo[0] = rows
    /\ \A n \in 1 .. Len(es) : upTo[n] = ApplyEvent(upTo[n - 1], es[n])

\* The recursion of Applied has a solution.
LEMMA AppliedEventByEvent ==
    ASSUME NEW es, Len(es) \in Nat
    PROVE  \E upTo : AppliedUpTo(es, upTo) /\ Applied(es) = upTo[Len(es)]
  <1> DEFINE Rec(g, m) == g = [n \in 0 .. m |-> IF n = 0 THEN rows ELSE ApplyEvent(g[n - 1], es[n])]
             Good == {m \in 0 .. Len(es) : \E g : Rec(g, m)}
             upTo == CHOOSE g : Rec(g, Len(es))
  <1>1. 0 \in Good
    <2>1. Rec([n \in 0 .. 0 |-> rows], 0)
      OBVIOUS
    <2> HIDE DEF Rec
    <2> QED
      BY <2>1
  <1>2. ASSUME NEW m \in 1 .. Len(es), m - 1 \in Good PROVE m \in Good
    <2>1. PICK g : Rec(g, m - 1)
      BY <1>2
    <2> DEFINE h == [n \in 0 .. m |-> IF n = m THEN ApplyEvent(g[m - 1], es[m]) ELSE g[n]]
    <2>2. ASSUME NEW n \in 0 .. m
          PROVE  h[n] = IF n = 0 THEN rows ELSE ApplyEvent(h[n - 1], es[n])
      <3>1. CASE n = m
        <4>1. n # 0 /\ n - 1 \in 0 .. m /\ n - 1 # m
          BY <3>1
        <4>2. h[n - 1] = g[m - 1] /\ h[n] = ApplyEvent(g[m - 1], es[m])
          BY <3>1, <4>1
        <4> QED
          BY <3>1, <4>1, <4>2
      <3>2. CASE n # m
        <4>1. n \in 0 .. m - 1 /\ h[n] = g[n]
          BY <3>2
        <4>2. g[n] = IF n = 0 THEN rows ELSE ApplyEvent(g[n - 1], es[n])
          BY <2>1, <4>1
        <4>3. n # 0 => n - 1 \in 0 .. m /\ n - 1 # m
          BY <4>1
        <4>4. n # 0 => h[n - 1] = g[n - 1]
          BY <4>3
        <4> HIDE DEF h
        <4> QED
          BY <4>1, <4>2, <4>4
      <3> QED
        BY <3>1, <3>2
    <2>3. h = [n \in 0 .. m |-> h[n]]
      OBVIOUS
    <2> HIDE DEF h
    <2>4. Rec(h, m)
      BY <2>2, <2>3
    <2> QED
      BY <2>4
  <1>3. Len(es) \in Good
    <2> HIDE DEF Good
    <2>1. Len(es) \in 0 .. Len(es)
      OBVIOUS
    <2> QED
      BY <1>1, <1>2, <2>1, UpToEvery
  <1>4. Rec(upTo, Len(es))
    <2>1. \E g : Rec(g, Len(es))
      BY <1>3
    <2> HIDE DEF Rec
    <2> QED
      BY <2>1
  <1>5. Applied(es) = upTo[Len(es)]
    BY DEF Applied
  <1> HIDE DEF upTo
  <1>6. AppliedUpTo(es, upTo)
    <2>1. upTo[0] = rows
      BY <1>4
    <2>2. ASSUME NEW n \in 1 .. Len(es) PROVE upTo[n] = ApplyEvent(upTo[n - 1], es[n])
      <3>1. n \in 0 .. Len(es) /\ n # 0
        OBVIOUS
      <3> QED
        BY <1>4, <3>1
    <2> QED
      BY <2>1, <2>2 DEF AppliedUpTo
  <1> QED
    BY <1>5, <1>6

\* The units that events leave reserved.
ReservedAfter(s, seen) ==
    UnitsIn("InventoryReserved", s, seen) - UnitsIn("InventoryReservationReleased", s, seen)
                                          - UnitsIn("OrderConfirmed", s, seen)

\* The counters are what these events leave.
Account(sku, seen) ==
    \A s \in Skus : /\ sku[s].reserved = ReservedAfter(s, seen)
                    /\ sku[s].sold = UnitsIn("OrderConfirmed", s, seen)
                    /\ sku[s].available = AvailableAfter(s, seen)

\* An event that is applied is accounted for.
LEMMA EventIsAccounted ==
    ASSUME NEW S \in SUBSET Event, IsFiniteSet(S), NEW e \in Event, e \notin S,
           NEW r \in Rows, Account(r.sku, S)
    PROVE  Account(ApplyEvent(r, e).sku, S \cup {e})
  <1> PICK n : n = ApplyEvent(r, e)
    OBVIOUS
  <1> SUFFICES ASSUME NEW s \in Skus
               PROVE  /\ n.sku[s].reserved = ReservedAfter(s, S \cup {e})
                      /\ n.sku[s].sold = UnitsIn("OrderConfirmed", s, S \cup {e})
                      /\ n.sku[s].available = AvailableAfter(s, S \cup {e})
    BY DEF Account
  <1> DEFINE OneMore(type) == UnitsIn(type, s, S \cup {e})
                             = UnitsIn(type, s, S) + (IF e.type = type THEN e.units[s] ELSE 0)
  <1>1. ASSUME NEW type PROVE OneMore(type) /\ UnitsIn(type, s, S) \in Nat
    BY UnitsInOneMore
  <1>2. /\ n.sku[s].reserved = r.sku[s].reserved + MovesReserved(e, s)
        /\ n.sku[s].sold = r.sku[s].sold + MovesSold(e, s)
        /\ n.sku[s].available = r.sku[s].available - MovesReserved(e, s) - MovesSold(e, s)
    BY EventApplies
  <1>3. /\ r.sku[s].reserved = ReservedAfter(s, S)
        /\ r.sku[s].sold = UnitsIn("OrderConfirmed", s, S)
        /\ r.sku[s].available = AvailableAfter(s, S)
    BY DEF Account
  <1>4. OnHand[s] \in Nat /\ e.units[s] \in Nat
    BY HistoryAssumption DEF Event
  <1>5. /\ OneMore("InventoryReserved") /\ OneMore("InventoryReservationReleased") /\ OneMore("OrderConfirmed")
        /\ UnitsIn("InventoryReserved", s, S) \in Nat
        /\ UnitsIn("InventoryReservationReleased", s, S) \in Nat
        /\ UnitsIn("OrderConfirmed", s, S) \in Nat
    BY <1>1
  <1> QED
    BY <1>2, <1>3, <1>4, <1>5, SMTT(30)
       DEF ReservedAfter, AvailableAfter, MovesReserved, MovesSold

Taken(es, n) == {es[i] : i \in 1 .. n}

\* A batch that is applied to rows that account for S accounts, after each of its events,
\* for S and the events so far; the rows are consistent for as long as it is not stopped.
LEMMA BatchIsAccounted ==
    ASSUME NEW S \in SUBSET Event, IsFiniteSet(S),
           NEW es \in Seq(Event), Increasing(es), \A i \in DOMAIN es : es[i] \notin S,
           rows \in Rows, Account(rows.sku, S), rows.ok, Consistent(rows.sku),
           NEW upTo, AppliedUpTo(es, upTo)
    PROVE  \A n \in 0 .. Len(es) :
              /\ IsFiniteSet(S \cup Taken(es, n)) /\ S \cup Taken(es, n) \in SUBSET Event
              /\ upTo[n] \in Rows
              /\ Account(upTo[n].sku, S \cup Taken(es, n))
              /\ upTo[n].ok => Consistent(upTo[n].sku)
              /\ upTo[n].ok <=> \A m \in 0 .. n : Consistent(upTo[m].sku)
  <1> DEFINE So(n) == S \cup Taken(es, n)
             Here(n) == /\ IsFiniteSet(So(n)) /\ So(n) \in SUBSET Event
                        /\ upTo[n] \in Rows
                        /\ Account(upTo[n].sku, So(n))
                        /\ upTo[n].ok => Consistent(upTo[n].sku)
                        /\ upTo[n].ok <=> \A m \in 0 .. n : Consistent(upTo[m].sku)
             Good == {n \in 0 .. Len(es) : Here(n)}
  <1>1. Len(es) \in Nat /\ DOMAIN es = 1 .. Len(es)
    OBVIOUS
  <1>2. 0 \in Good
    <2>1. So(0) = S
      BY DEF Taken
    <2>2. upTo[0] = rows
      BY DEF AppliedUpTo
    <2>3. 0 .. 0 = {0} /\ 0 \in 0 .. Len(es)
      BY <1>1
    <2> HIDE DEF So
    <2>4. Here(0)
      BY <2>1, <2>2, <2>3
    <2> QED
      BY <2>3, <2>4
  <1>3. ASSUME NEW n \in 1 .. Len(es), n - 1 \in Good PROVE n \in Good
    <2> DEFINE e == es[n]
    <2>1. Here(n - 1) /\ n - 1 \in 0 .. Len(es) /\ n \in 0 .. Len(es)
      BY <1>3
    <2>2. So(n) = So(n - 1) \cup {e}
      <3>1. 1 .. n = (1 .. n - 1) \cup {n}
        BY <1>1
      <3> QED
        BY <3>1 DEF Taken
    <2>3. e \in Event /\ e \notin So(n - 1)
      <3>1. \A i \in 1 .. n - 1 : i \in DOMAIN es /\ i < n
        BY <1>1
      <3>2. \A i \in DOMAIN es : es[i] \in Event /\ es[i].id \in Nat
        <4>1. \A i \in DOMAIN es : es[i] \in Event
          BY <1>1
        <4> QED
          BY <4>1 DEF Event
      <3>3. \A i \in 1 .. n - 1 : es[i].id < e.id
        BY <1>1, <3>1 DEF Increasing
      <3> QED
        BY <1>1, <3>1, <3>2, <3>3 DEF Taken
    <2>4. upTo[n] = ApplyEvent(upTo[n - 1], e)
      BY DEF AppliedUpTo
    <2>5. IsFiniteSet(So(n)) /\ So(n) \in SUBSET Event
      BY <2>1, <2>2, <2>3, FS_AddElement
    <2> HIDE DEF e, So
    <2>6. Account(upTo[n].sku, So(n))
      BY <2>1, <2>2, <2>3, <2>4, EventIsAccounted
    <2>7. /\ upTo[n] \in Rows
          /\ upTo[n].ok => upTo[n - 1].ok /\ (Consistent(upTo[n].sku) \/ upTo[n].sku = upTo[n - 1].sku)
          /\ upTo[n - 1].ok /\ Consistent(upTo[n].sku) => upTo[n].ok
      <3>1. PICK r : r = upTo[n - 1]
        OBVIOUS
      <3>2. r \in Rows /\ e \in Event /\ upTo[n] = ApplyEvent(r, e)
        BY <2>1, <2>3, <2>4, <3>1
      <3>3. /\ upTo[n] \in Rows
            /\ upTo[n].ok => r.ok /\ (Consistent(upTo[n].sku) \/ upTo[n].sku = r.sku)
            /\ r.ok /\ Consistent(upTo[n].sku) => upTo[n].ok
        BY <3>2, EventApplies
      <3> QED
        BY <3>1, <3>3
    <2>8. upTo[n].ok => Consistent(upTo[n].sku)
      BY <2>1, <2>7
    <2>9. upTo[n].ok <=> \A m \in 0 .. n : Consistent(upTo[m].sku)
      <3>1. 0 .. n = (0 .. n - 1) \cup {n}
        BY <1>1
      <3> QED
        BY <2>1, <2>7, <2>8, <3>1
    <2> QED
      BY <2>1, <2>5, <2>6, <2>7, <2>8, <2>9
  <1> HIDE DEF Good
  <1>4. \A n \in 0 .. Len(es) : n \in Good
    BY <1>1, <1>2, <1>3, UpToEvery
  <1> QED
    BY <1>4 DEF Good

\* So does the batch as a whole.
LEMMA AppliedIsAccounted ==
    ASSUME NEW S \in SUBSET Event, IsFiniteSet(S),
           NEW es \in Seq(Event), Increasing(es), \A i \in DOMAIN es : es[i] \notin S,
           rows \in Rows, Account(rows.sku, S), rows.ok, Consistent(rows.sku)
    PROVE  /\ Applied(es) \in Rows
           /\ Account(Applied(es).sku, S \cup Taken(es, Len(es)))
           /\ Applied(es).ok => Consistent(Applied(es).sku)
  <1>1. Len(es) \in Nat /\ Len(es) \in 0 .. Len(es)
    OBVIOUS
  <1>2. PICK upTo : AppliedUpTo(es, upTo) /\ Applied(es) = upTo[Len(es)]
    BY <1>1, AppliedEventByEvent
  <1>3. /\ upTo[Len(es)] \in Rows
        /\ Account(upTo[Len(es)].sku, S \cup Taken(es, Len(es)))
        /\ upTo[Len(es)].ok => Consistent(upTo[Len(es)].sku)
    BY <1>1, <1>2, BatchIsAccounted
  <1> QED
    BY <1>2, <1>3

------------------------------------------------------------------------------
(* The store, the checkpoint and the batch under way *)

Appended == events \cup inFlight

StoreInv ==
    /\ {lastId, checkpoint} \subseteq Nat /\ checkpoint <= lastId
    /\ failures \in 0 .. MaxFailures
    /\ Appended \in SUBSET Event /\ IsFiniteSet(events) /\ events \cap inFlight = {}
    /\ DistinctIds(Appended) /\ \A e \in Appended : e.id <= lastId
    /\ late \subseteq {e \in events : e.id <= checkpoint}

\* What a batch has read are the first events that the store showed it beyond the
\* checkpoint; what the store did not show it is beyond the checkpoint still, or late.
BatchOfStore(batch) ==
    /\ batch = [read |-> batch.read, store |-> batch.store]
    /\ batch.store \subseteq events
    /\ FirstOf(batch.read, {e \in batch.store : e.id > checkpoint})
    /\ \A e \in events \ batch.store : e.id <= checkpoint => e \in late

\* The lock admits one batch.
BatchInv == \/ batches = <<>>
            \/ \E batch : batches = <<batch>> /\ BatchOfStore(batch)

RowsInv == /\ rows \in Rows /\ rows.ok /\ Consistent(rows.sku)
           /\ Account(rows.sku, Projected)

ProjectionInv == StoreInv /\ BatchInv /\ RowsInv

\* A batch is the only one, and its end leaves none.
LEMMA TheBatch ==
    ASSUME BatchInv, NEW i \in DOMAIN batches
    PROVE  /\ RemoveAt(batches, i) = <<>>
           /\ BatchOfStore(batches[i])
  <1>1. batches # <<>>
    OBVIOUS
  <1>2. PICK batch : batches = <<batch>> /\ BatchOfStore(batch)
    BY <1>1 DEF BatchInv
  <1>3. i = 1 /\ Len(batches) = 1 /\ batches[i] = batch
    BY <1>2
  <1>4. SubSeq(batches, 1, 0) = <<>> /\ SubSeq(batches, 2, 1) = <<>>
    BY <1>2
  <1>5. RemoveAt(batches, i) = <<>> \o <<>>
    BY <1>3, <1>4 DEF RemoveAt
  <1> QED
    BY <1>2, <1>3, <1>5

\* What a batch has read is in the store, beyond the checkpoint.
LEMMA ReadIsBeyond ==
    ASSUME StoreInv, NEW batch, BatchOfStore(batch)
    PROVE  /\ batch.read \in Seq(Event) /\ Increasing(batch.read)
           /\ {e \in batch.store : e.id > checkpoint} \in SUBSET Event
           /\ \A i \in DOMAIN batch.read :
                 /\ batch.read[i] \in batch.store /\ batch.read[i] \in events
                 /\ batch.read[i].id > checkpoint
                 /\ batch.read[i] \notin Projected
  <1> DEFINE S == {e \in batch.store : e.id > checkpoint}
             es == batch.read
  <1>1. es \in Seq(S) /\ Increasing(es)
    BY DEF BatchOfStore, FirstOf
  <1>2. S \subseteq Event
    BY DEF StoreInv, BatchOfStore, Appended
  <1>3. es \in Seq(Event)
    <2> HIDE DEF S, es
    <2> QED
      BY <1>1, <1>2
  <1>4. \A i \in DOMAIN es : es[i] \in S
    <2> HIDE DEF S, es
    <2> QED
      BY <1>1
  <1>5. \A e \in S : e \in events /\ e \in batch.store /\ e.id > checkpoint /\ e.id \in Nat
    BY <1>2 DEF BatchOfStore, Event
  <1>6. \A e \in S : e \notin Projected
    BY <1>5 DEF Projected, StoreInv
  <1> QED
    BY <1>1, <1>2, <1>3, <1>4, <1>5, <1>6

\* The projected events are finitely many events.
LEMMA ProjectedFinite ==
    ASSUME StoreInv
    PROVE  Projected \in SUBSET Event /\ Projected \in SUBSET events /\ IsFiniteSet(Projected)
  <1>1. Projected \in SUBSET events /\ events \in SUBSET Event /\ IsFiniteSet(events)
    BY DEF Projected, StoreInv, Appended
  <1>2. IsFiniteSet(Projected)
    BY <1>1, FS_Subset
  <1> QED
    BY <1>1, <1>2

\* A batch that commits moves the checkpoint on, and projects what it has read and
\* nothing else: what it did not see, and passes, is late.
LEMMA CommitProjects ==
    ASSUME StoreInv, BatchInv, NEW i \in DOMAIN batches, CommitBatch(i), NEW es, es = batches[i].read
    PROVE  /\ checkpoint' \in Nat /\ checkpoint <= checkpoint' /\ checkpoint' <= lastId
           /\ late' \subseteq {e \in events : e.id <= checkpoint'}
           /\ Projected' = Projected \cup Taken(es, Len(es))
  <1> PICK batch : batch = batches[i]
    OBVIOUS
  <1> DEFINE S == {e \in batch.store : e.id > checkpoint}
  <1>1. BatchOfStore(batch) /\ FirstOf(es, S) /\ S \in SUBSET Event
    BY TheBatch, ReadIsBeyond DEF BatchOfStore
  <1>2. /\ checkpoint' = CheckpointAfter(es)
        /\ late' = late \cup {e \in events \ batch.store : e.id <= checkpoint'}
        /\ events' = events
    BY DEF CommitBatch, store
  <1>3. /\ checkpoint \in Nat /\ lastId \in Nat /\ checkpoint <= lastId
        /\ late \subseteq {e \in events : e.id <= checkpoint}
        /\ \A e \in events : e.id \in Nat /\ e.id <= lastId
    BY DEF StoreInv, Appended, Event
  <1>4. /\ batch.store \subseteq events
        /\ \A e \in events \ batch.store : e.id <= checkpoint => e \in late
    BY <1>1 DEF BatchOfStore
  <1>5. PICK to : to = checkpoint'
    OBVIOUS
  <1>6. Projected' = {e \in events : e.id <= to}
                       \ (late \cup {e \in events \ batch.store : e.id <= to})
    BY <1>2, <1>5 DEF Projected
  <1>7. CASE es = <<>>
    <2>1. to = checkpoint /\ Taken(es, Len(es)) = {}
      BY <1>2, <1>5, <1>7 DEF CheckpointAfter, Taken
    <2>2. {e \in events \ batch.store : e.id <= to} \subseteq late
      BY <1>4, <2>1
    <2>3. Projected' = Projected
      BY <1>6, <2>1, <2>2 DEF Projected
    <2> QED
      BY <1>2, <1>3, <1>5, <2>1, <2>2, <2>3
  <1>8. CASE es # <<>>
    <2>1. /\ to = es[Len(es)].id
          /\ es \in Seq(S) /\ Len(es) \in Nat /\ DOMAIN es = 1 .. Len(es)
      BY <1>1, <1>2, <1>5, <1>8 DEF CheckpointAfter, FirstOf
    <2>2. es[Len(es)] \in S /\ \A j \in DOMAIN es : es[j] \in S /\ es[j].id <= to
      BY <1>1, <1>8, <2>1, LastIsLargest
    <2>3. to \in Nat /\ checkpoint < to /\ to <= lastId
      BY <1>3, <1>4, <2>1, <2>2
    <2>4. Taken(es, Len(es)) = {e \in batch.store : e.id > checkpoint /\ e.id <= to}
      <3>1. \A e \in S : e.id <= to => \E j \in DOMAIN es : es[j] = e
        BY <1>1, <1>8, <2>1 DEF FirstOf
      <3> QED
        BY <2>1, <2>2, <3>1 DEF Taken
    <2>5. ASSUME NEW e
          PROVE  e \in Projected' <=> e \in Projected \/ e \in Taken(es, Len(es))
      <3>1. CASE e \notin events
        BY <1>4, <1>6, <2>4, <3>1 DEF Projected
      <3>2. CASE e \in events /\ e.id <= checkpoint
        <4>1. e.id <= to /\ e \notin Taken(es, Len(es)) /\ e.id \in Nat
          BY <1>3, <2>3, <2>4, <3>2
        <4>2. e \notin batch.store => e \in late
          BY <1>4, <3>2
        <4> QED
          BY <1>6, <3>2, <4>1, <4>2 DEF Projected
      <3>3. CASE e \in events /\ ~ (e.id <= checkpoint)
        <4>1. e.id > checkpoint /\ e \notin late /\ e \notin Projected
          BY <1>3, <3>3 DEF Projected
        <4> QED
          BY <1>6, <2>4, <3>3, <4>1
      <3> QED
        BY <3>1, <3>2, <3>3
    <2>6. late' \subseteq {e \in events : e.id <= checkpoint'}
      BY <1>2, <1>3, <1>5, <2>3
    <2> QED
      BY <1>3, <1>5, <2>3, <2>5, <2>6
  <1> QED
    BY <1>7, <1>8


\* What is appended has the form of an event.
LEMMA NextOfType ==
    ASSUME StoreInv, NEW c \in Checkouts, Enabled(c)
    PROVE  /\ Cardinality(Of(c)) + 1 \in DOMAIN History[c]
           /\ NextOf(c) \in [type : EventTypes, units : [Skus -> Nat]]
           /\ [id |-> lastId + 1, checkout |-> c, type |-> NextOf(c).type,
               units |-> NextOf(c).units] \in Event
  <1>1. Of(c) \in SUBSET events /\ IsFiniteSet(events)
    BY DEF Of, StoreInv
  <1>2. IsFiniteSet(Of(c))
    BY <1>1, FS_Subset
  <1>3. Cardinality(Of(c)) \in Nat
    BY <1>2, FS_CardinalityType
  <1>4. History[c] \in Seq([type : EventTypes, units : [Skus -> Nat]])
    BY HistoryAssumption
  <1>5. Cardinality(Of(c)) < Len(History[c])
    BY DEF Enabled
  <1>6. Cardinality(Of(c)) + 1 \in DOMAIN History[c]
    BY <1>3, <1>4, <1>5
  <1>7. NextOf(c) \in [type : EventTypes, units : [Skus -> Nat]]
    <2>1. ASSUME NEW T, NEW h \in Seq(T), NEW n \in DOMAIN h PROVE h[n] \in T
      OBVIOUS
    <2>2. PICK n : n = Cardinality(Of(c)) + 1
      OBVIOUS
    <2>3. n \in DOMAIN History[c] /\ NextOf(c) = History[c][n]
      BY <1>6, <2>2 DEF NextOf
    <2>4. History[c][n] \in [type : EventTypes, units : [Skus -> Nat]]
      BY <1>4, <2>1, <2>3, Zenon
    <2> QED
      BY <2>3, <2>4
  <1>8. lastId + 1 \in Nat \ {0}
    BY DEF StoreInv
  <1> QED
    BY <1>6, <1>7, <1>8 DEF Event

\* Appends keep the invariant of the store, and what is projected.
LEMMA AppendsKeepStore ==
    ASSUME StoreInv, \/ \E c \in Checkouts : DrawId(c)
                     \/ \E e \in inFlight : Commit(e) \/ Rollback(e)
    PROVE  /\ StoreInv' /\ Projected' = Projected
           /\ rows' = rows /\ checkpoint' = checkpoint /\ batches' = batches
           /\ events \subseteq events'
           /\ \A e \in events' \ events : e.id <= checkpoint => e \in late'
           /\ late \subseteq late'
  <1>1. ASSUME NEW c \in Checkouts, DrawId(c)
        PROVE  StoreInv' /\ UNCHANGED <<events, late, rows, checkpoint, batches>>
    <2>1. PICK new : new = [id |-> lastId + 1, checkout |-> c, type |-> NextOf(c).type,
                            units |-> NextOf(c).units]
      OBVIOUS
    <2>2. new \in Event /\ new.id = lastId + 1
      BY <1>1, <2>1, NextOfType DEF DrawId
    <2>3. /\ lastId' = lastId + 1 /\ inFlight' = inFlight \cup {new}
          /\ UNCHANGED <<events, late, failures, rows, checkpoint, batches>>
      BY <1>1, <2>1 DEF DrawId, projection
    <2>4. Appended' = Appended \cup {new}
      BY <2>3 DEF Appended
    <2>5. \A e \in Appended : e.id \in Nat /\ e.id <= lastId
      BY DEF StoreInv, Event
    <2>6. lastId \in Nat /\ checkpoint \in Nat
      BY DEF StoreInv
    <2>7. \A e \in Appended : e.id # new.id /\ e.id <= lastId'
      BY <2>2, <2>3, <2>5, <2>6
    <2>8. DistinctIds(Appended') /\ \A e \in Appended' : e.id <= lastId'
      BY <2>2, <2>3, <2>4, <2>6, <2>7 DEF StoreInv, DistinctIds
    <2>9. events' \cap inFlight' = {}
      BY <2>3, <2>7 DEF StoreInv, Appended
    <2>10. checkpoint' <= lastId'
      BY <2>3, <2>6 DEF StoreInv
    <2> QED
      BY <2>2, <2>3, <2>4, <2>6, <2>8, <2>9, <2>10 DEF StoreInv
  <1>2. ASSUME NEW e \in inFlight, Commit(e)
        PROVE  /\ StoreInv' /\ Projected' = Projected
               /\ events' = events \cup {e} /\ UNCHANGED <<rows, checkpoint, batches>>
               /\ late \subseteq late' /\ (e.id <= checkpoint => e \in late')
    <2>1. /\ inFlight' = inFlight \ {e} /\ events' = events \cup {e}
          /\ late' = IF e.id <= checkpoint THEN late \cup {e} ELSE late
          /\ UNCHANGED <<lastId, failures, rows, checkpoint, batches>>
      BY <1>2 DEF Commit, projection
    <2>2. Appended' = Appended /\ events' \cap inFlight' = {} /\ e \notin events
      BY <2>1 DEF Appended, StoreInv
    <2>3. IsFiniteSet(events')
      BY <2>1, FS_AddElement DEF StoreInv
    <2>4. late' \subseteq {x \in events' : x.id <= checkpoint'}
      BY <2>1 DEF StoreInv
    <2>5. StoreInv'
      BY <2>1, <2>2, <2>3, <2>4 DEF StoreInv
    <2>6. Projected' = Projected
      BY <2>1, <2>2 DEF Projected
    <2> QED
      BY <2>1, <2>5, <2>6
  <1>3. ASSUME NEW e \in inFlight, Rollback(e)
        PROVE  StoreInv' /\ UNCHANGED <<events, late, rows, checkpoint, batches>>
    <2>1. /\ inFlight' = inFlight \ {e} /\ failures' = failures + 1 /\ failures < MaxFailures
          /\ UNCHANGED <<lastId, events, late, rows, checkpoint, batches>>
      BY <1>3 DEF Rollback, projection
    <2>2. Appended' \subseteq Appended
      BY <2>1 DEF Appended
    <2>3. failures' \in 0 .. MaxFailures
      BY <2>1, HistoryAssumption DEF StoreInv
    <2>4. DistinctIds(Appended')
      BY <2>2 DEF StoreInv, DistinctIds
    <2> QED
      BY <2>1, <2>2, <2>3, <2>4 DEF StoreInv
  <1>4. ASSUME UNCHANGED <<events, late, checkpoint>> PROVE Projected' = Projected
    BY <1>4 DEF Projected
  <1>5. CASE \E c \in Checkouts : DrawId(c)
    BY <1>1, <1>4, <1>5
  <1>6. CASE \E e \in inFlight : Commit(e) \/ Rollback(e)
    <2>1. PICK e \in inFlight : Commit(e) \/ Rollback(e)
      BY <1>6
    <2>2. CASE Commit(e)
      BY <1>2, <2>2
    <2>3. CASE Rollback(e)
      BY <1>3, <1>4, <2>3
    <2> QED
      BY <2>1, <2>2, <2>3
  <1> QED
    BY <1>5, <1>6

\* The invariant holds at first.
LEMMA ProjectionInvInit == ProjectionInit => ProjectionInv
  <1> SUFFICES ASSUME ProjectionInit PROVE ProjectionInv
    OBVIOUS
  <1>1. IsFiniteSet({})
    BY FS_EmptySet
  <1>2. StoreInv
    BY <1>1, HistoryAssumption DEF ProjectionInit, StoreInv, Appended, DistinctIds
  <1>3. Projected = {}
    BY DEF ProjectionInit, Projected
  <1>4. ASSUME NEW s \in Skus
        PROVE  /\ OnHand[s] \in Nat
               /\ rows.sku[s].reserved = 0 /\ rows.sku[s].sold = 0
               /\ rows.sku[s].available = OnHand[s]
    <2>1. rows.sku[s] = [reserved |-> 0, sold |-> 0, available |-> OnHand[s]]
      BY DEF ProjectionInit
    <2> QED
      BY <2>1, HistoryAssumption
  <1>5. Account(rows.sku, {})
    <2> SUFFICES ASSUME NEW s \in Skus
                 PROVE  /\ rows.sku[s].reserved = ReservedAfter(s, {})
                        /\ rows.sku[s].sold = UnitsIn("OrderConfirmed", s, {})
                        /\ rows.sku[s].available = AvailableAfter(s, {})
      BY DEF Account
    <2>1. /\ UnitsIn("InventoryReserved", s, {}) = 0
          /\ UnitsIn("InventoryReservationReleased", s, {}) = 0
          /\ UnitsIn("OrderConfirmed", s, {}) = 0
      BY UnitsInNone
    <2> QED
      BY <1>4, <2>1 DEF ReservedAfter, AvailableAfter
  <1>6. Consistent(rows.sku)
    BY <1>4 DEF Consistent
  <1>7. rows \in Rows /\ rows.ok
    BY HistoryAssumption DEF ProjectionInit, Rows, Counters, Statuses
  <1> QED
    BY <1>2, <1>3, <1>5, <1>6, <1>7 DEF ProjectionInv, BatchInv, RowsInv, ProjectionInit

\* Every step keeps it.
LEMMA ProjectionInvStep == ProjectionInv /\ [ProjectionNext]_projectionVars => ProjectionInv'
  <1> SUFFICES ASSUME ProjectionInv, [ProjectionNext]_projectionVars PROVE ProjectionInv'
    OBVIOUS
  <1> USE DEF ProjectionInv
  <1>1. CASE \/ \E c \in Checkouts : DrawId(c)
             \/ \E e \in inFlight : Commit(e) \/ Rollback(e)
    <2>1. /\ StoreInv' /\ Projected' = Projected
          /\ rows' = rows /\ checkpoint' = checkpoint /\ batches' = batches
          /\ events \subseteq events'
          /\ \A e \in events' \ events : e.id <= checkpoint => e \in late'
          /\ late \subseteq late'
      BY <1>1, AppendsKeepStore
    <2>2. \A batch : BatchOfStore(batch) => BatchOfStore(batch)'
      BY <2>1 DEF BatchOfStore
    <2>3. BatchInv'
      BY <2>1, <2>2 DEF BatchInv
    <2>4. RowsInv'
      BY <2>1 DEF RowsInv, Consistent, Account
    <2> QED
      BY <2>1, <2>3, <2>4
  <1>2. CASE BeginBatch
    <2>1. /\ batches = <<>> /\ batches' = <<[read |-> NextBatch, store |-> events]>>
          /\ UNCHANGED <<lastId, inFlight, events, late, rows, checkpoint, failures>>
      BY <1>2 DEF BeginBatch, LockIsFree, store
    <2>2. StoreInv' /\ RowsInv'
      BY <2>1 DEF StoreInv, Appended, RowsInv, Projected, Account, Consistent
    <2>3. /\ After(checkpoint) = {e \in events : e.id > checkpoint}
          /\ After(checkpoint) \in SUBSET events /\ events \in SUBSET Event /\ IsFiniteSet(events)
          /\ DistinctIds(events)
      BY DEF After, StoreInv, Appended, DistinctIds
    <2>4. IsFiniteSet(After(checkpoint)) /\ DistinctIds(After(checkpoint))
      BY <2>3, FS_Subset DEF DistinctIds
    <2>5. FirstOf(NextBatch, After(checkpoint))
      BY <2>3, <2>4, NextBatchIsFirst
    <2>6. PICK batch : batch = [read |-> NextBatch, store |-> events]
      OBVIOUS
    <2>7. BatchOfStore(batch)'
      BY <2>1, <2>3, <2>5, <2>6 DEF BatchOfStore
    <2>8. BatchInv'
      BY <2>1, <2>6, <2>7 DEF BatchInv
    <2> QED
      BY <2>2, <2>8
  <1>3. ASSUME NEW i \in DOMAIN batches, CommitBatch(i) PROVE ProjectionInv'
    <2>1. PICK es : es = batches[i].read
      OBVIOUS
    <2>2. /\ checkpoint' \in Nat /\ checkpoint' <= lastId
          /\ late' \subseteq {e \in events : e.id <= checkpoint'}
          /\ Projected' = Projected \cup Taken(es, Len(es))
      BY <1>3, <2>1, CommitProjects
    <2>3. /\ Applied(es).ok /\ rows' = Applied(es)
          /\ batches' = RemoveAt(batches, i)
          /\ UNCHANGED <<lastId, inFlight, events, failures>>
      BY <1>3, <2>1 DEF CommitBatch, store
    <2>4. BatchOfStore(batches[i]) /\ batches' = <<>>
      BY <2>3, TheBatch
    <2>5. /\ es \in Seq(Event) /\ Increasing(es) /\ \A j \in DOMAIN es : es[j] \notin Projected
          /\ Projected \in SUBSET Event /\ IsFiniteSet(Projected)
      BY <2>1, <2>4, ReadIsBeyond, ProjectedFinite
    <2>6. /\ Applied(es) \in Rows
          /\ Account(Applied(es).sku, Projected \cup Taken(es, Len(es)))
          /\ Applied(es).ok => Consistent(Applied(es).sku)
      BY <2>5, AppliedIsAccounted DEF RowsInv
    <2>7. PICK after : after = Applied(es)
      OBVIOUS
    <2>8. PICK projected : projected = Projected'
      OBVIOUS
    <2>9. Account(after.sku, projected) /\ Consistent(after.sku) /\ after \in Rows /\ after.ok
      BY <2>2, <2>3, <2>6, <2>7, <2>8
    <2>10. rows' = after
      BY <2>3, <2>7
    <2>11. RowsInv'
      BY <2>8, <2>9, <2>10 DEF RowsInv, Account, Consistent
    <2>12. StoreInv'
      BY <2>2, <2>3 DEF StoreInv, Appended
    <2> QED
      BY <2>4, <2>11, <2>12 DEF BatchInv
  <1>4. ASSUME NEW i \in DOMAIN batches, BatchFails(i) \/ Crash(i) PROVE ProjectionInv'
    <2>1. /\ batches' = RemoveAt(batches, i)
          /\ UNCHANGED <<lastId, inFlight, events, late, rows, checkpoint>>
          /\ failures' = failures \/ (failures' = failures + 1 /\ failures < MaxFailures)
      BY <1>4 DEF BatchFails, Crash, store
    <2>2. batches' = <<>>
      BY <2>1, TheBatch
    <2>3. failures' \in 0 .. MaxFailures
      BY <2>1, HistoryAssumption DEF StoreInv
    <2>4. StoreInv' /\ RowsInv'
      BY <2>1, <2>3 DEF StoreInv, Appended, RowsInv, Projected, Account, Consistent
    <2> QED
      BY <2>2, <2>4 DEF BatchInv
  <1>5. CASE UNCHANGED projectionVars
    <2>1. UNCHANGED <<lastId, inFlight, events, rows, checkpoint, batches, late, failures>>
      BY <1>5 DEF projectionVars
    <2>2. StoreInv' /\ RowsInv'
      BY <2>1 DEF StoreInv, Appended, RowsInv, Projected, Account, Consistent
    <2>3. \A batch : BatchOfStore(batch) => BatchOfStore(batch)'
      BY <2>1 DEF BatchOfStore
    <2>4. BatchInv'
      BY <2>1, <2>3 DEF BatchInv
    <2> QED
      BY <2>2, <2>4
  <1> QED
    BY <1>1, <1>2, <1>3, <1>4, <1>5 DEF ProjectionNext

\* The invariant of the projection: through batches that are cut short, repeated and
\* contended for, the counters account for the events that are projected.
THEOREM ProjectionInvariant == ProjectionSpec => []ProjectionInv
  <1> QED
    BY ProjectionInvInit, ProjectionInvStep, PTL DEF ProjectionSpec

\* Every variable keeps its type, and the counters the CHECK constraints of their table.
THEOREM ProjectionTypeCorrect == ProjectionSpec => []ProjectionTypeOK
  <1>1. ASSUME ProjectionInv PROVE ProjectionTypeOK
    <2> USE <1>1 DEF ProjectionInv
    <2>1. /\ lastId \in Nat /\ inFlight \cup events \subseteq Event
          /\ checkpoint \in 0 .. lastId /\ late \subseteq events /\ failures \in 0 .. MaxFailures
      BY DEF StoreInv, Appended
    <2>2. /\ DOMAIN rows.sku = Skus /\ Consistent(rows.sku)
          /\ rows.status \in [Checkouts -> Statuses]
          /\ rows.payment \in [Checkouts -> {"none", "requested", "succeeded"}]
      BY DEF RowsInv, Rows, Counters
    <2>3. batches \in Seq([read : Seq(events), store : SUBSET events]) /\ Len(batches) <= Processors
      <3>1. CASE batches = <<>>
        BY <3>1, HistoryAssumption
      <3>2. ASSUME NEW batch, batches = <<batch>>, BatchOfStore(batch)
            PROVE  batches \in Seq([read : Seq(events), store : SUBSET events]) /\ Len(batches) <= Processors
        <4>1. ASSUME NEW A, NEW B, A \subseteq B, NEW q \in Seq(A) PROVE q \in Seq(B)
          BY <4>1
        <4>2. {e \in batch.store : e.id > checkpoint} \subseteq events
          BY <3>2 DEF BatchOfStore
        <4>3. batch.read \in Seq(events)
          BY <3>2, <4>1, <4>2 DEF BatchOfStore, FirstOf
        <4>4. batch \in [read : Seq(events), store : SUBSET events]
          BY <3>2, <4>3 DEF BatchOfStore
        <4>5. Len(batches) = 1
          BY <3>2
        <4> QED
          BY <3>2, <4>4, <4>5, HistoryAssumption
      <3> QED
        BY <3>1, <3>2 DEF BatchInv
    <2> QED
      BY <2>1, <2>2, <2>3 DEF ProjectionTypeOK
  <1> QED
    BY <1>1, ProjectionInvariant, PTL

\* Through batches that are cut short, repeated and contended for, every event is
\* applied once: what a buyer sees as available is what a replay of the SKU's events up to
\* the checkpoint gives, without those that became visible late.
THEOREM AvailableFollowsReplay == ProjectionSpec => []AvailableIsReplay
  <1>1. ProjectionInv => AvailableIsReplay
    BY DEF ProjectionInv, RowsInv, Account, AvailableIsReplay
  <1> QED
    BY <1>1, ProjectionInvariant, PTL

------------------------------------------------------------------------------
(* The events of a checkout are appended in the order of its history *)

OfCheckout(c, S) == {e \in S : e.checkout = c}

\* The place of an event among those of its checkout in S.
Place(e, S) == Cardinality(Before(e, OfCheckout(e.checkout, S))) + 1

InPlace(e, S) ==
    /\ Place(e, S) \in DOMAIN History[e.checkout]
    /\ History[e.checkout][Place(e, S)].type = e.type
    /\ History[e.checkout][Place(e, S)].units = e.units

\* What is reserved was there to be reserved, as the events before it have it.
Enough(e, S) ==
    e.type = "InventoryReserved" =>
        \A s \in Skus : e.units[s] > 0 => e.units[s] <= AvailableAfter(s, Before(e, S))

Legal(S) == \A e \in S : InPlace(e, S) /\ Enough(e, S)

\* An event that is not visible yet comes after all of its checkout and of its stream.
LastInv ==
    \A e \in Appended : \A f \in inFlight :
        f.id < e.id => f.checkout # e.checkout /\ ~SameStream(f, e)

\* A checkout whose completion has begun is shown.
StartedInv ==
    \A e \in Appended : e.type # "CheckoutIntentCreated" => rows.status[e.checkout] # "none"

LegalInv ==
    /\ \A e \in Appended : InPlace(e, events) /\ Enough(e, events)
    /\ \A i \in DOMAIN batches : Legal(batches[i].store)

HistoryInv == LastInv /\ StartedInv /\ LegalInv

\* How an event moves the status of its checkout, and of the order's payment.
StatusAfter(type, old) ==
    CASE type = "CheckoutIntentCreated" -> "queued"
      [] type # "CheckoutIntentCreated" /\ old = "none" -> "none"
      [] old # "none" /\ type = "InventoryReservationRejected" -> "rejected"
      [] old # "none" /\ type = "PaymentRequested" -> "pending_payment"
      [] old # "none" /\ type = "OrderConfirmed" -> "confirmed"
      [] old \notin {"none", "rejected", "confirmed"} /\ type = "InventoryReservationRequested" -> "reserving"
      [] old \notin {"none", "rejected", "confirmed"} /\ type = "InventoryReserved" -> "reserved"
      [] OTHER -> old

PaymentAfter(type, old) ==
    CASE type = "OrderConfirmed" -> "succeeded"
      [] type = "PaymentRequested" /\ old # "none" -> "requested"
      [] OTHER -> old

\* Every event moves the status of its own checkout only.
LEMMA EventMovesStatus ==
    ASSUME NEW r \in Rows, NEW e \in Event, NEW n, n = ApplyEvent(r, e), NEW d \in Checkouts
    PROVE  /\ n.status[d] = IF d = e.checkout THEN StatusAfter(e.type, r.status[d]) ELSE r.status[d]
           /\ n.payment[d] = IF d = e.checkout THEN PaymentAfter(e.type, r.payment[d]) ELSE r.payment[d]
  <1> DEFINE c == e.checkout
             Set(x, y, status, payment) ==
                /\ y.status[d] = IF d = c THEN status ELSE x.status[d]
                /\ y.payment[d] = IF d = c THEN payment ELSE x.payment[d]
  <1>1. c \in Checkouts /\ e.type \in EventTypes
    BY DEF Event
  <1>2. ASSUME NEW x \in Rows, NEW status \in Statuses
        PROVE  /\ Set(x, [x EXCEPT !.status[c] = status], status, x.payment[c])
               /\ [x EXCEPT !.status[c] = status] \in Rows
    BY <1>1 DEF Rows
  <1>3. ASSUME NEW x \in Rows, NEW payment \in {"none", "requested", "succeeded"}
        PROVE  Set(x, [x EXCEPT !.payment[c] = payment], x.status[c], payment)
    BY <1>1 DEF Rows
  <1>4. ASSUME NEW x \in Rows, NEW reserved \in [Skus -> Int], NEW sold \in [Skus -> Int]
        PROVE  Set(x, WithSku(x, reserved, sold), x.status[c], x.payment[c]) /\ WithSku(x, reserved, sold) \in Rows
    <2>1. PICK m : m = Moved(x.sku, reserved, sold)
      OBVIOUS
    <2>2. m \in Counters
      BY <2>1 DEF Moved, Counters, Rows
    <2>3. PICK okay : okay = Consistent(m)
      OBVIOUS
    <2>4. okay \in BOOLEAN
      BY <2>3 DEF Consistent
    <2>5. WithSku(x, reserved, sold) = [x EXCEPT !.sku = m, !.ok = @ /\ okay]
      BY <2>1, <2>3 DEF WithSku
    <2> QED
      BY <2>2, <2>4, <2>5 DEF Rows
  <1>5. ASSUME NEW x \in Rows
        PROVE  /\ x.status[d] \in Statuses /\ x.status[c] \in Statuses
               /\ x.payment[d] \in {"none", "requested", "succeeded"}
               /\ x.payment[c] \in {"none", "requested", "succeeded"}
               /\ Set(x, x, x.status[c], x.payment[c])
    BY <1>1 DEF Rows
  <1> HIDE DEF c, Set
  <1>6. ASSUME NEW x \in Rows, NEW status \in Statuses
        PROVE  /\ Set(x, WithStatus(x, c, status),
                       IF x.status[c] = "none" THEN "none" ELSE status, x.payment[c])
               /\ WithStatus(x, c, status) \in Rows
    <2>1. CASE x.status[c] = "none"
      BY <1>5, <2>1 DEF WithStatus
    <2>2. CASE x.status[c] # "none"
      BY <1>2, <2>2 DEF WithStatus
    <2> QED
      BY <2>1, <2>2
  <1>7. ASSUME NEW x \in Rows, NEW status \in Statuses
        PROVE  Set(x, WithProgress(x, c, status),
                   IF x.status[c] \in {"none", "rejected", "confirmed"} THEN x.status[c] ELSE status,
                   x.payment[c])
    <2>1. CASE x.status[c] \in {"rejected", "confirmed"}
      BY <1>5, <2>1 DEF WithProgress
    <2>2. CASE x.status[c] \notin {"rejected", "confirmed"}
      <3>1. WithProgress(x, c, status) = WithStatus(x, c, status)
        BY <2>2 DEF WithProgress
      <3>2. CASE x.status[c] = "none"
        BY <1>6, <3>1, <3>2
      <3>3. CASE x.status[c] # "none"
        BY <1>6, <2>2, <3>1, <3>3
      <3> QED
        BY <3>2, <3>3
    <2> QED
      BY <2>1, <2>2
  <1>8. /\ e.units \in [Skus -> Int] /\ NoUnits \in [Skus -> Int] /\ Minus(e.units) \in [Skus -> Int]
    BY DEF Event, NoUnits, Minus
  <1>9. r.status[c] \in Statuses /\ r.payment[c] \in {"none", "requested", "succeeded"}
    BY <1>5
  <1>10. Set(r, n, StatusAfter(e.type, r.status[c]), PaymentAfter(e.type, r.payment[c]))
    <2>1. CASE e.type = "CheckoutIntentCreated"
      <3>1. n = [r EXCEPT !.status[c] = "queued"] /\ "queued" \in Statuses
        BY <2>1 DEF ApplyEvent, CheckoutIntentCreated, Statuses, c
      <3>2. StatusAfter(e.type, r.status[c]) = "queued" /\ PaymentAfter(e.type, r.payment[c]) = r.payment[c]
        BY <2>1 DEF StatusAfter, PaymentAfter
      <3> QED
        BY <1>2, <3>1, <3>2
    <2>2. CASE e.type \in {"InventoryReservationRequested", "InventoryReserved"}
      <3> PICK status \in Statuses : status = IF e.type = "InventoryReserved" THEN "reserved" ELSE "reserving"
        BY DEF Statuses
      <3> PICK x \in Rows : /\ n = WithProgress(x, c, status)
                            /\ x.status[d] = r.status[d] /\ x.payment[d] = r.payment[d]
                            /\ x.status[c] = r.status[c] /\ x.payment[c] = r.payment[c]
        <4>1. CASE e.type = "InventoryReservationRequested"
          BY <4>1 DEF ApplyEvent, c
        <4>2. CASE e.type = "InventoryReserved"
          <5>1. n = WithProgress(WithSku(r, e.units, NoUnits), c, "reserved")
            BY <4>2 DEF ApplyEvent, InventoryReserved, c
          <5>2. /\ WithSku(r, e.units, NoUnits).status = r.status
                /\ WithSku(r, e.units, NoUnits).payment = r.payment
            BY DEF WithSku, Rows
          <5> QED
            BY <1>4, <1>8, <4>2, <5>1, <5>2
        <4> QED
          BY <2>2, <4>1, <4>2
      <3>1. /\ PaymentAfter(e.type, r.payment[c]) = r.payment[c]
            /\ StatusAfter(e.type, r.status[c])
                 = IF r.status[c] \in {"none", "rejected", "confirmed"} THEN r.status[c] ELSE status
        BY <2>2 DEF StatusAfter, PaymentAfter
      <3>2. Set(x, n, StatusAfter(e.type, r.status[c]), PaymentAfter(e.type, r.payment[c]))
        BY <1>7, <3>1
      <3> QED
        BY <3>2 DEF Set
    <2>3. CASE e.type = "InventoryReservationRejected"
      <3>1. n = WithStatus(r, c, "rejected") /\ "rejected" \in Statuses
        BY <2>3 DEF ApplyEvent, InventoryReservationRejected, Statuses, c
      <3>2. /\ PaymentAfter(e.type, r.payment[c]) = r.payment[c]
            /\ StatusAfter(e.type, r.status[c]) = IF r.status[c] = "none" THEN "none" ELSE "rejected"
        BY <2>3 DEF StatusAfter, PaymentAfter
      <3> QED
        BY <1>6, <3>1, <3>2
    <2>4. CASE e.type = "InventoryReservationReleased"
      <3>1. n = WithSku(r, Minus(e.units), NoUnits)
        BY <2>4 DEF ApplyEvent, InventoryReservationReleased
      <3>2. PaymentAfter(e.type, r.payment[c]) = r.payment[c] /\ StatusAfter(e.type, r.status[c]) = r.status[c]
        BY <2>4 DEF StatusAfter, PaymentAfter
      <3> QED
        BY <1>4, <1>8, <3>1, <3>2
    <2>5. CASE e.type = "PaymentRequested"
      <3> PICK x : x = WithStatus(r, c, "pending_payment")
        OBVIOUS
      <3>1. n = WithPayment(x, c, "requested") /\ "pending_payment" \in Statuses
        BY <2>5 DEF ApplyEvent, PaymentRequested, Statuses, c
      <3>2. /\ x \in Rows
            /\ Set(r, x, IF r.status[c] = "none" THEN "none" ELSE "pending_payment", r.payment[c])
        BY <1>6, <3>1
      <3>3. x.payment = r.payment
        BY DEF WithStatus, Rows
      <3>4. /\ PaymentAfter(e.type, r.payment[c]) = IF r.payment[c] = "none" THEN "none" ELSE "requested"
            /\ StatusAfter(e.type, r.status[c]) = IF r.status[c] = "none" THEN "none" ELSE "pending_payment"
        BY <2>5 DEF StatusAfter, PaymentAfter
      <3>5. Set(x, n, x.status[c], IF r.payment[c] = "none" THEN "none" ELSE "requested")
        <4>1. CASE r.payment[c] = "none"
          BY <1>5, <3>1, <3>2, <3>3, <4>1 DEF WithPayment
        <4>2. CASE r.payment[c] # "none"
          BY <1>3, <3>1, <3>2, <3>3, <4>2 DEF WithPayment
        <4> QED
          BY <4>1, <4>2
      <3>6. x.status[c] = IF r.status[c] = "none" THEN "none" ELSE "pending_payment"
        BY <1>1, <3>1 DEF WithStatus, Rows
      <3> QED
        BY <3>2, <3>3, <3>4, <3>5, <3>6 DEF Set
    <2>6. CASE e.type = "OrderConfirmed"
      <3> PICK x : x = WithStatus(r, c, "confirmed")
        OBVIOUS
      <3> PICK y : y = WithSku(x, Minus(e.units), e.units)
        OBVIOUS
      <3>1. n = [y EXCEPT !.payment[c] = "succeeded"] /\ "confirmed" \in Statuses
        BY <2>6 DEF ApplyEvent, OrderConfirmed, Sold, Statuses, c
      <3>2. /\ x \in Rows
            /\ Set(r, x, IF r.status[c] = "none" THEN "none" ELSE "confirmed", r.payment[c])
        BY <1>6, <3>1
      <3>3. x.status[c] = IF r.status[c] = "none" THEN "none" ELSE "confirmed"
        BY <1>1, <3>1 DEF WithStatus, Rows
      <3>4. y \in Rows /\ Set(x, y, x.status[c], x.payment[c]) /\ y.status = x.status
        BY <1>4, <1>8, <3>2 DEF WithSku, Rows
      <3>5. Set(y, n, y.status[c], "succeeded")
        BY <1>3, <3>1, <3>4
      <3>6. /\ PaymentAfter(e.type, r.payment[c]) = "succeeded"
            /\ StatusAfter(e.type, r.status[c]) = IF r.status[c] = "none" THEN "none" ELSE "confirmed"
        BY <2>6 DEF StatusAfter, PaymentAfter
      <3> QED
        BY <3>2, <3>3, <3>4, <3>5, <3>6 DEF Set
    <2> QED
      BY <1>1, <2>1, <2>2, <2>3, <2>4, <2>5, <2>6 DEF EventTypes
  <1>11. c = e.checkout
    BY DEF c
  <1>12. d # c => n.status[d] = r.status[d] /\ n.payment[d] = r.payment[d]
    BY <1>10 DEF Set
  <1>13. d = c => /\ n.status[d] = StatusAfter(e.type, r.status[d])
                  /\ n.payment[d] = PaymentAfter(e.type, r.payment[d])
    BY <1>10 DEF Set
  <1> QED
    BY <1>11, <1>12, <1>13


\* The events of a checkout in a set that has ids.
LEMMA CheckoutNumbered ==
    ASSUME NEW S \in SUBSET Event, IsFiniteSet(S), DistinctIds(S), NEW c
    PROVE  /\ OfCheckout(c, S) \in SUBSET Event /\ IsFiniteSet(OfCheckout(c, S))
           /\ DistinctIds(OfCheckout(c, S)) /\ Cardinality(OfCheckout(c, S)) \in Nat
           /\ \A e \in OfCheckout(c, S) : Place(e, S) \in 1 .. Cardinality(OfCheckout(c, S))
           /\ \A e, f \in OfCheckout(c, S) : e.id < f.id => Place(e, S) < Place(f, S)
           /\ \A n \in 1 .. Cardinality(OfCheckout(c, S)) : \E e \in OfCheckout(c, S) : Place(e, S) = n
  <1> DEFINE T == OfCheckout(c, S)
  <1>1. T \in SUBSET S /\ T \in SUBSET Event /\ DistinctIds(T)
    BY DEF OfCheckout, DistinctIds
  <1>2. IsFiniteSet(T)
    BY <1>1, FS_Subset
  <1>3. \A e \in T : Place(e, S) = Cardinality(Before(e, T)) + 1
    BY DEF Place, OfCheckout
  <1> HIDE DEF T
  <1>4. /\ Cardinality(T) \in Nat
        /\ \A e \in T : Cardinality(Before(e, T)) \in 0 .. Cardinality(T) - 1
        /\ \A e, f \in T : e.id < f.id => Cardinality(Before(e, T)) < Cardinality(Before(f, T))
        /\ \A n \in 0 .. Cardinality(T) - 1 : \E e \in T : Cardinality(Before(e, T)) = n
    BY <1>1, <1>2, Numbered
  <1>5. \A e \in T : Place(e, S) \in 1 .. Cardinality(T)
    BY <1>3, <1>4
  <1>6. \A e, f \in T : e.id < f.id => Place(e, S) < Place(f, S)
    BY <1>3, <1>4
  <1>7. ASSUME NEW n \in 1 .. Cardinality(T) PROVE \E e \in T : Place(e, S) = n
    <2>1. n - 1 \in 0 .. Cardinality(T) - 1
      BY <1>4
    <2>2. PICK e \in T : Cardinality(Before(e, T)) = n - 1
      BY <1>4, <2>1
    <2> QED
      BY <1>3, <2>2
  <1> QED
    BY <1>1, <1>2, <1>4, <1>5, <1>6, <1>7 DEF T

\* The store holds finitely many events with ids of their own.
LEMMA EventsNumbered ==
    ASSUME StoreInv
    PROVE  events \in SUBSET Event /\ IsFiniteSet(events) /\ DistinctIds(events)
  <1> QED
    BY DEF StoreInv, Appended, DistinctIds

\* An append that begins keeps the places: its event comes after all the others.
LEMMA DrawIdKeepsHistory ==
    ASSUME StoreInv, BatchInv, HistoryInv, NEW c \in Checkouts, DrawId(c)
    PROVE  HistoryInv'
  <1> USE DEF HistoryInv
  <1>1. PICK new : new = [id |-> lastId + 1, checkout |-> c, type |-> NextOf(c).type,
                          units |-> NextOf(c).units]
    OBVIOUS
  <1>2. /\ new \in Event /\ new.id = lastId + 1 /\ new.checkout = c
        /\ new.type = NextOf(c).type /\ new.units = NextOf(c).units
        /\ Cardinality(Of(c)) + 1 \in DOMAIN History[c]
    BY <1>1, NextOfType DEF DrawId
  <1>3. /\ lastId' = lastId + 1 /\ inFlight' = inFlight \cup {new}
        /\ UNCHANGED <<events, late, failures, rows, checkpoint, batches>>
    BY <1>1 DEF DrawId, projection
  <1>4. Appended' = Appended \cup {new}
    BY <1>3 DEF Appended
  <1>5. \A e \in Appended : e.id \in Nat /\ e.id < new.id
    BY <1>2 DEF StoreInv, Event
  <1>6. LastInv'
    <2>1. ASSUME NEW e \in Appended \cup {new}, NEW f \in inFlight \cup {new}, f.id < e.id
          PROVE  f.checkout # e.checkout /\ ~SameStream(f, e)
      <3>1. f \in Appended /\ f \in inFlight
        <4>1. new.id \in Nat /\ f # new
          BY <1>2, <1>5, <2>1 DEF Event
        <4> QED
          BY <4>1 DEF Appended
      <3>2. CASE e = new
        <4>1. f.checkout # c /\ ~SameStream(f, NextOf(c))
          BY <3>1 DEF DrawId, Enabled
        <4> QED
          BY <1>2, <3>2, <4>1 DEF SameStream
      <3>3. CASE e # new
        BY <2>1, <3>1, <3>3 DEF LastInv
      <3> QED
        BY <3>2, <3>3
    <2> QED
      BY <1>3, <1>4, <2>1 DEF LastInv, SameStream
  <1>7. StartedInv'
    BY <1>2, <1>3, <1>4 DEF StartedInv, DrawId, Enabled
  <1>8. InPlace(new, events) /\ Enough(new, events)
    <2>1. OfCheckout(c, events) = Of(c) /\ Before(new, Of(c)) = Of(c) /\ Before(new, events) = events
      BY <1>5 DEF OfCheckout, Of, Before, Appended
    <2>2. Place(new, events) = Cardinality(Of(c)) + 1
      BY <1>2, <2>1 DEF Place
    <2>3. InPlace(new, events)
      BY <1>2, <2>2 DEF InPlace, NextOf
    <2>4. Enough(new, events)
      BY <1>2, <2>1 DEF Enough, DrawId, Enabled
    <2> QED
      BY <2>3, <2>4
  <1>9. LegalInv'
    <2>1. \A e \in Appended' : InPlace(e, events) /\ Enough(e, events)
      BY <1>4, <1>8 DEF LegalInv
    <2> QED
      BY <1>3, <2>1 DEF LegalInv
  <1> QED
    BY <1>6, <1>7, <1>9

\* An event that becomes visible changes nothing for those that come after it.
LEMMA CommitKeepsHistory ==
    ASSUME StoreInv, BatchInv, HistoryInv, NEW e \in inFlight, Commit(e)
    PROVE  HistoryInv'
  <1> USE DEF HistoryInv
  <1>1. /\ inFlight' = inFlight \ {e} /\ events' = events \cup {e}
        /\ UNCHANGED <<lastId, failures, rows, checkpoint, batches>>
    BY DEF Commit, projection
  <1>2. Appended' = Appended /\ e \in Appended /\ e \in Event /\ e \notin events
    BY <1>1 DEF Appended, StoreInv
  <1>3. LastInv' /\ StartedInv'
    BY <1>1, <1>2 DEF LastInv, StartedInv, SameStream
  <1>4. ASSUME NEW x \in Appended PROVE InPlace(x, events \cup {e})
    <2>1. Before(x, OfCheckout(x.checkout, events \cup {e})) = Before(x, OfCheckout(x.checkout, events))
      <3>1. e.id < x.id => e.checkout # x.checkout
        BY DEF LastInv
      <3> QED
        BY <3>1 DEF Before, OfCheckout
    <2>2. Place(x, events \cup {e}) = Place(x, events)
      BY <2>1 DEF Place
    <2> QED
      BY <2>2 DEF LegalInv, InPlace
  <1>5. ASSUME NEW x \in Appended PROVE Enough(x, events \cup {e})
    <2> SUFFICES ASSUME x.type = "InventoryReserved", NEW s \in Skus, x.units[s] > 0
                 PROVE  x.units[s] <= AvailableAfter(s, Before(x, events \cup {e}))
      BY DEF Enough
    <2> DEFINE S == Before(x, events)
    <2>1. x.units[s] <= AvailableAfter(s, S)
      BY DEF LegalInv, Enough
    <2>2. CASE ~ (e.id < x.id)
      <3>1. Before(x, events \cup {e}) = S
        BY <2>2 DEF Before
      <3> QED
        BY <2>1, <3>1
    <2>3. CASE e.id < x.id
      <3>1. Before(x, events \cup {e}) = S \cup {e}
        BY <2>3 DEF Before
      <3>2. S \in SUBSET events /\ S \in SUBSET Event /\ e \notin S /\ IsFiniteSet(events)
        BY <1>2, EventsNumbered DEF Before
      <3>3. IsFiniteSet(S)
        BY <3>2, FS_Subset
      <3>4. ~SameStream(e, x)
        BY <2>3 DEF LastInv
      <3>5. e.type \in SkuEvents => e.units[s] = 0
        <4>1. e.units[s] \in Nat
          BY <1>2 DEF Event
        <4> QED
          BY <3>4, <4>1 DEF SameStream, SkuEvents
      <3> HIDE DEF S
      <3>6. ASSUME NEW type \in SkuEvents PROVE UnitsIn(type, s, S \cup {e}) = UnitsIn(type, s, S)
        <4>1. /\ UnitsIn(type, s, S) \in Nat
              /\ UnitsIn(type, s, S \cup {e})
                   = UnitsIn(type, s, S) + (IF e.type = type THEN e.units[s] ELSE 0)
          BY <1>2, <3>2, <3>3, UnitsInOneMore
        <4> QED
          BY <3>5, <4>1
      <3>7. AvailableAfter(s, S \cup {e}) = AvailableAfter(s, S)
        <4>1. /\ UnitsIn("InventoryReserved", s, S \cup {e}) = UnitsIn("InventoryReserved", s, S)
              /\ UnitsIn("InventoryReservationReleased", s, S \cup {e})
                   = UnitsIn("InventoryReservationReleased", s, S)
          BY <3>6 DEF SkuEvents
        <4> QED
          BY <4>1 DEF AvailableAfter
      <3> QED
        BY <2>1, <3>1, <3>7
    <2> QED
      BY <2>2, <2>3
  <1>6. LegalInv'
    BY <1>1, <1>2, <1>4, <1>5 DEF LegalInv
  <1> QED
    BY <1>3, <1>6

\* A checkout that is shown stays so through a batch.
LEMMA StaysShown ==
    ASSUME NEW es, Len(es) \in Nat, \A n \in 1 .. Len(es) : es[n] \in Event,
           NEW upTo, AppliedUpTo(es, upTo), \A n \in 0 .. Len(es) : upTo[n] \in Rows,
           NEW d \in Checkouts, rows.status[d] # "none"
    PROVE  \A n \in 0 .. Len(es) : upTo[n].status[d] # "none"
  <1> DEFINE Good == {n \in 0 .. Len(es) : upTo[n].status[d] # "none"}
  <1>1. 0 \in Good
    BY DEF AppliedUpTo
  <1>2. ASSUME NEW n \in 1 .. Len(es), n - 1 \in Good PROVE n \in Good
    <2>1. n - 1 \in 0 .. Len(es) /\ n \in 0 .. Len(es) /\ upTo[n - 1].status[d] # "none"
      BY <1>2
    <2> PICK e \in Event : e = es[n]
      OBVIOUS
    <2> PICK r \in Rows : r = upTo[n - 1]
      BY <2>1
    <2> PICK m : m = upTo[n]
      OBVIOUS
    <2>2. m = ApplyEvent(r, e)
      BY DEF AppliedUpTo
    <2>3. m.status[d] = IF d = e.checkout THEN StatusAfter(e.type, r.status[d]) ELSE r.status[d]
      BY <2>2, EventMovesStatus
    <2>4. \A type : StatusAfter(type, r.status[d]) # "none"
      BY <2>1 DEF StatusAfter
    <2> QED
      BY <2>1, <2>3, <2>4
  <1> HIDE DEF Good
  <1>3. \A n \in 0 .. Len(es) : n \in Good
    BY <1>1, <1>2, UpToEvery
  <1> QED
    BY <1>3 DEF Good

\* The batches of the projection, in the terms of the lemmas about batches.
LEMMA BatchApplies ==
    ASSUME StoreInv, BatchInv, RowsInv, NEW i \in DOMAIN batches, NEW es, es = batches[i].read
    PROVE  /\ es \in Seq(Event) /\ Len(es) \in Nat /\ \A n \in 1 .. Len(es) : es[n] \in Event
           /\ \E upTo : /\ AppliedUpTo(es, upTo) /\ Applied(es) = upTo[Len(es)]
                        /\ \A n \in 0 .. Len(es) :
                              /\ upTo[n] \in Rows
                              /\ Account(upTo[n].sku, Projected \cup Taken(es, n))
                              /\ upTo[n].ok <=> \A m \in 0 .. n : Consistent(upTo[m].sku)
  <1>1. BatchOfStore(batches[i])
    BY TheBatch
  <1>2. /\ es \in Seq(Event) /\ Increasing(es) /\ \A j \in DOMAIN es : es[j] \notin Projected
        /\ Projected \in SUBSET Event /\ IsFiniteSet(Projected)
    BY <1>1, ReadIsBeyond, ProjectedFinite
  <1>3. Len(es) \in Nat /\ \A n \in 1 .. Len(es) : es[n] \in Event
    BY <1>2
  <1>4. PICK upTo : AppliedUpTo(es, upTo) /\ Applied(es) = upTo[Len(es)]
    BY <1>3, AppliedEventByEvent
  <1>5. \A n \in 0 .. Len(es) :
              /\ upTo[n] \in Rows
              /\ Account(upTo[n].sku, Projected \cup Taken(es, n))
              /\ upTo[n].ok <=> \A m \in 0 .. n : Consistent(upTo[m].sku)
    <2>1. rows \in Rows /\ Account(rows.sku, Projected) /\ rows.ok /\ Consistent(rows.sku)
      BY DEF RowsInv
    <2>2. PICK S : S = Projected
      OBVIOUS
    <2>3. \A n \in 0 .. Len(es) :
              /\ upTo[n] \in Rows
              /\ Account(upTo[n].sku, S \cup Taken(es, n))
              /\ upTo[n].ok <=> \A m \in 0 .. n : Consistent(upTo[m].sku)
      <3>1. /\ S \in SUBSET Event /\ IsFiniteSet(S) /\ es \in Seq(Event) /\ Increasing(es)
            /\ \A j \in DOMAIN es : es[j] \notin S
            /\ Account(rows.sku, S) /\ AppliedUpTo(es, upTo)
        BY <1>2, <1>4, <2>1, <2>2
      <3> QED
        BY <2>1, <3>1, BatchIsAccounted
    <2> QED
      BY <2>2, <2>3
  <1> QED
    BY <1>2, <1>3, <1>4, <1>5

\* Every step keeps the histories.
LEMMA HistoryStep ==
    ASSUME ProjectionInv, HistoryInv, [ProjectionNext]_projectionVars
    PROVE  HistoryInv'
  <1> USE DEF ProjectionInv
  <1>1. ASSUME NEW e \in inFlight, Rollback(e) PROVE HistoryInv'
    <2>1. inFlight' \subseteq inFlight /\ UNCHANGED <<events, rows, batches>>
      BY <1>1 DEF Rollback, projection
    <2>2. Appended' \subseteq Appended
      BY <2>1 DEF Appended
    <2>3. LastInv' /\ StartedInv'
      BY <2>1, <2>2 DEF HistoryInv, LastInv, StartedInv, SameStream
    <2>4. LegalInv'
      BY <2>1, <2>2 DEF HistoryInv, LegalInv
    <2> QED
      BY <2>3, <2>4 DEF HistoryInv
  <1>2. ASSUME BeginBatch PROVE HistoryInv'
    <2>1. /\ batches = <<>> /\ batches' = <<[read |-> NextBatch, store |-> events]>>
          /\ UNCHANGED <<events, inFlight, rows>>
      BY <1>2 DEF BeginBatch, LockIsFree, store
    <2>2. Appended' = Appended /\ LastInv' /\ StartedInv'
      BY <2>1 DEF HistoryInv, Appended, LastInv, StartedInv, SameStream
    <2>3. \A i \in DOMAIN batches' : batches'[i].store = events
      BY <2>1
    <2>4. Legal(events)
      BY DEF HistoryInv, LegalInv, Legal, Appended
    <2>5. LegalInv'
      BY <2>1, <2>2, <2>3, <2>4 DEF HistoryInv, LegalInv
    <2> QED
      BY <2>2, <2>5 DEF HistoryInv
  <1>3. ASSUME NEW i \in DOMAIN batches, CommitBatch(i) PROVE HistoryInv'
    <2>1. PICK es : es = batches[i].read
      OBVIOUS
    <2>2. /\ rows' = Applied(es) /\ batches' = RemoveAt(batches, i)
          /\ UNCHANGED <<events, inFlight>>
      BY <1>3, <2>1 DEF CommitBatch, store
    <2>3. batches' = <<>>
      BY <2>2, TheBatch
    <2>4. Appended' = Appended /\ LastInv' /\ LegalInv'
      BY <2>2, <2>3 DEF HistoryInv, Appended, LastInv, LegalInv, SameStream
    <2>5. ASSUME NEW d \in Checkouts, rows.status[d] # "none" PROVE rows'.status[d] # "none"
      <3>1. /\ Len(es) \in Nat /\ \A n \in 1 .. Len(es) : es[n] \in Event
            /\ \E upTo : /\ AppliedUpTo(es, upTo) /\ Applied(es) = upTo[Len(es)]
                         /\ \A n \in 0 .. Len(es) : upTo[n] \in Rows
        BY <2>1, BatchApplies
      <3>2. PICK upTo : /\ AppliedUpTo(es, upTo) /\ Applied(es) = upTo[Len(es)]
                        /\ \A n \in 0 .. Len(es) : upTo[n] \in Rows
        BY <3>1
      <3>3. \A n \in 0 .. Len(es) : upTo[n].status[d] # "none"
        BY <2>5, <3>1, <3>2, StaysShown
      <3>4. Len(es) \in 0 .. Len(es)
        BY <3>1
      <3> QED
        BY <2>2, <3>2, <3>3, <3>4
    <2>6. \A e \in Appended : e.checkout \in Checkouts
      BY DEF StoreInv, Event
    <2>7. StartedInv'
      BY <2>4, <2>5, <2>6 DEF HistoryInv, StartedInv
    <2> QED
      BY <2>4, <2>7 DEF HistoryInv
  <1>4. ASSUME NEW i \in DOMAIN batches, BatchFails(i) \/ Crash(i) PROVE HistoryInv'
    <2>1. batches' = RemoveAt(batches, i) /\ UNCHANGED <<events, inFlight, rows>>
      BY <1>4 DEF BatchFails, Crash, store
    <2>2. batches' = <<>>
      BY <2>1, TheBatch
    <2> QED
      BY <2>1, <2>2 DEF HistoryInv, Appended, LastInv, StartedInv, LegalInv, SameStream
  <1>5. CASE UNCHANGED projectionVars
    BY <1>5 DEF projectionVars, HistoryInv, Appended, LastInv, StartedInv, LegalInv, SameStream
  <1> QED
    BY <1>1, <1>2, <1>3, <1>4, <1>5, DrawIdKeepsHistory, CommitKeepsHistory DEF ProjectionNext

\* Checkouts append their histories: the invariant holds in every state.
LEMMA HistoryAlways == ProjectionSpec => [](ProjectionInv /\ HistoryInv)
  <1>1. ProjectionInit => ProjectionInv /\ HistoryInv
    <2>1. ProjectionInit => HistoryInv
      BY DEF ProjectionInit, HistoryInv, LastInv, StartedInv, LegalInv, Appended
    <2> QED
      BY <2>1, ProjectionInvInit
  <1>2. ProjectionInv /\ HistoryInv /\ [ProjectionNext]_projectionVars => (ProjectionInv /\ HistoryInv)'
    BY ProjectionInvStep, HistoryStep
  <1> QED
    BY <1>1, <1>2, PTL DEF ProjectionSpec

------------------------------------------------------------------------------
(* What is shown of a checkout that has ended *)

RecordsLast(r, S) ==
    \A e \in S :
        /\ e.type = "InventoryReservationRejected" => r.status[e.checkout] = "rejected"
        /\ e.type = "OrderConfirmed" => /\ r.status[e.checkout] = "confirmed"
                                        /\ r.payment[e.checkout] = "succeeded"

\* Two events of a checkout have the order of their ids in its history.
LEMMA OrderOfHistory ==
    ASSUME StoreInv, LegalInv, NEW e \in events, NEW f \in events, e.checkout = f.checkout, e.id < f.id
    PROVE  \E i, j \in DOMAIN History[e.checkout] :
              /\ i < j
              /\ History[e.checkout][i].type = e.type
              /\ History[e.checkout][j].type = f.type
  <1> DEFINE c == e.checkout
  <1>1. e \in OfCheckout(c, events) /\ f \in OfCheckout(c, events)
    BY DEF OfCheckout
  <1>2. Place(e, events) < Place(f, events)
    BY <1>1, EventsNumbered, CheckoutNumbered
  <1>3. InPlace(e, events) /\ InPlace(f, events)
    BY DEF LegalInv, Appended
  <1> QED
    BY <1>2, <1>3 DEF InPlace

\* An event keeps what is shown of the checkouts that ended before it, and shows the
\* outcome if it is one.
LEMMA EventKeepsShown ==
    ASSUME OutcomeIsLast, StoreInv, LegalInv,
           NEW S \in SUBSET events, NEW e \in events, \A f \in S : f.id < e.id,
           NEW r \in Rows, RecordsLast(r, S),
           e.type # "CheckoutIntentCreated" => r.status[e.checkout] # "none"
    PROVE  RecordsLast(ApplyEvent(r, e), S \cup {e})
  <1> PICK n : n = ApplyEvent(r, e)
    OBVIOUS
  <1>1. events \in SUBSET Event /\ e \in Event /\ e.checkout \in Checkouts
    BY EventsNumbered DEF Event
  <1>2. ASSUME NEW d \in Checkouts
        PROVE  /\ n.status[d] = IF d = e.checkout THEN StatusAfter(e.type, r.status[d]) ELSE r.status[d]
               /\ n.payment[d] = IF d = e.checkout THEN PaymentAfter(e.type, r.payment[d]) ELSE r.payment[d]
    BY <1>1, EventMovesStatus
  <1>3. /\ e.type = "InventoryReservationRejected" => n.status[e.checkout] = "rejected"
        /\ e.type = "OrderConfirmed" => /\ n.status[e.checkout] = "confirmed"
                                        /\ n.payment[e.checkout] = "succeeded"
    <2>1. /\ n.status[e.checkout] = StatusAfter(e.type, r.status[e.checkout])
          /\ n.payment[e.checkout] = PaymentAfter(e.type, r.payment[e.checkout])
      BY <1>1, <1>2
    <2> QED
      BY <2>1 DEF StatusAfter, PaymentAfter
  <1>4. ASSUME NEW f \in S
        PROVE  /\ f.type = "InventoryReservationRejected" => n.status[f.checkout] = "rejected"
               /\ f.type = "OrderConfirmed" => /\ n.status[f.checkout] = "confirmed"
                                               /\ n.payment[f.checkout] = "succeeded"
    <2>1. /\ f.type = "InventoryReservationRejected" => r.status[f.checkout] = "rejected"
          /\ f.type = "OrderConfirmed" => /\ r.status[f.checkout] = "confirmed"
                                          /\ r.payment[f.checkout] = "succeeded"
      BY DEF RecordsLast
    <2>2. f.checkout \in Checkouts
      BY <1>1 DEF Event
    <2>3. CASE f.checkout # e.checkout
      BY <1>2, <2>1, <2>2, <2>3
    <2>4. CASE f.checkout = e.checkout
      <3>1. PICK i \in DOMAIN History[f.checkout], j \in DOMAIN History[f.checkout] :
                   i < j /\ History[f.checkout][i].type = f.type /\ History[f.checkout][j].type = e.type
        BY <2>4, OrderOfHistory
      <3>2. /\ f.type = "InventoryReservationRejected" =>
                  e.type \notin {"CheckoutIntentCreated", "PaymentRequested", "OrderConfirmed"}
            /\ f.type = "OrderConfirmed" =>
                  e.type \notin {"CheckoutIntentCreated", "PaymentRequested",
                                 "InventoryReservationRejected"}
        BY <2>2, <3>1 DEF OutcomeIsLast
      <3>3. /\ n.status[f.checkout] = StatusAfter(e.type, r.status[f.checkout])
            /\ n.payment[f.checkout] = PaymentAfter(e.type, r.payment[f.checkout])
        BY <1>2, <2>2, <2>4
      <3>4. /\ e.type \notin {"CheckoutIntentCreated", "PaymentRequested", "OrderConfirmed"} =>
                  StatusAfter(e.type, "rejected") = "rejected"
            /\ e.type \notin {"CheckoutIntentCreated", "PaymentRequested", "InventoryReservationRejected"} =>
                  /\ StatusAfter(e.type, "confirmed") = "confirmed"
                  /\ PaymentAfter(e.type, "succeeded") = "succeeded"
        BY DEF StatusAfter, PaymentAfter
      <3> QED
        BY <2>1, <3>2, <3>3, <3>4
    <2> QED
      BY <2>3, <2>4
  <1> QED
    BY <1>3, <1>4 DEF RecordsLast

\* A batch that commits shows the outcomes it has read, and keeps those shown before.
LEMMA CommitKeepsShown ==
    ASSUME OutcomeIsLast, ProjectionInv, HistoryInv, RecordsLast(rows, Projected),
           NEW i \in DOMAIN batches, NEW es, es = batches[i].read
    PROVE  RecordsLast(Applied(es), Projected \cup Taken(es, Len(es)))
  <1> PICK S : S = Projected
    OBVIOUS
  <1>1. /\ es \in Seq(Event) /\ Len(es) \in Nat /\ \A n \in 1 .. Len(es) : es[n] \in Event
        /\ \E upTo : /\ AppliedUpTo(es, upTo) /\ Applied(es) = upTo[Len(es)]
                     /\ \A n \in 0 .. Len(es) : upTo[n] \in Rows
    BY BatchApplies DEF ProjectionInv
  <1>2. PICK upTo : /\ AppliedUpTo(es, upTo) /\ Applied(es) = upTo[Len(es)]
                    /\ \A n \in 0 .. Len(es) : upTo[n] \in Rows
    BY <1>1
  <1>3. /\ Increasing(es) /\ DOMAIN es = 1 .. Len(es)
        /\ \A j \in DOMAIN es : es[j] \in events /\ es[j].id > checkpoint
    BY <1>1, TheBatch, ReadIsBeyond DEF ProjectionInv
  <1>4. S \in SUBSET events /\ \A e \in S : e.id <= checkpoint
    BY DEF Projected
  <1>5. \A e \in events : e.id \in Nat
    BY EventsNumbered DEF ProjectionInv, Event
  <1> DEFINE Good == {n \in 0 .. Len(es) : RecordsLast(upTo[n], S \cup Taken(es, n))}
  <1>6. 0 \in Good
    <2>1. S \cup Taken(es, 0) = Projected
      BY DEF Taken
    <2>2. upTo[0] = rows /\ 0 \in 0 .. Len(es)
      BY <1>1, <1>2 DEF AppliedUpTo
    <2> QED
      BY <2>1, <2>2
  <1>7. ASSUME NEW n \in 1 .. Len(es), n - 1 \in Good PROVE n \in Good
    <2>1. n - 1 \in 0 .. Len(es) /\ n \in 0 .. Len(es) /\ RecordsLast(upTo[n - 1], S \cup Taken(es, n - 1))
      BY <1>7
    <2> PICK e \in events : e = es[n] /\ e.id > checkpoint
      BY <1>3
    <2> PICK r \in Rows : r = upTo[n - 1]
      BY <1>2, <2>1
    <2> PICK T : T = S \cup Taken(es, n - 1)
      OBVIOUS
    <2>2. S \cup Taken(es, n) = T \cup {e}
      <3>1. 1 .. n = (1 .. n - 1) \cup {n}
        OBVIOUS
      <3> QED
        BY <3>1 DEF Taken
    <2>3. T \in SUBSET events /\ \A f \in T : f.id < e.id
      <3>1. ASSUME NEW f \in S PROVE f \in events /\ f.id < e.id
        BY <1>4, <1>5 DEF ProjectionInv, StoreInv
      <3>2. ASSUME NEW f \in Taken(es, n - 1) PROVE f \in events /\ f.id < e.id
        <4>1. PICK j \in 1 .. n - 1 : f = es[j]
          BY DEF Taken
        <4>2. j \in DOMAIN es /\ n \in DOMAIN es /\ j < n
          BY <1>1, <1>3
        <4> QED
          BY <1>3, <4>1, <4>2 DEF Increasing
      <3> QED
        BY <3>1, <3>2
    <2>4. e.type # "CheckoutIntentCreated" => r.status[e.checkout] # "none"
      <3>1. e.checkout \in Checkouts
        BY EventsNumbered DEF ProjectionInv, Event
      <3>2. ASSUME rows.status[e.checkout] # "none" PROVE r.status[e.checkout] # "none"
        BY <1>1, <1>2, <2>1, <3>1, <3>2, StaysShown
      <3> QED
        BY <3>2 DEF HistoryInv, StartedInv, Appended
    <2>5. upTo[n] = ApplyEvent(r, e)
      BY <1>2 DEF AppliedUpTo
    <2>6. RecordsLast(r, T)
      BY <2>1
    <2>7. RecordsLast(ApplyEvent(r, e), T \cup {e})
      BY <2>3, <2>4, <2>6, EventKeepsShown DEF ProjectionInv, HistoryInv
    <2> QED
      BY <2>1, <2>2, <2>5, <2>7
  <1> HIDE DEF Good
  <1>8. \A n \in 0 .. Len(es) : n \in Good
    BY <1>1, <1>6, <1>7, UpToEvery
  <1>9. Len(es) \in 0 .. Len(es)
    BY <1>1
  <1> QED
    BY <1>2, <1>8, <1>9 DEF Good

\* A checkout that was rejected or confirmed is shown so as soon as that event is
\* projected, whatever else of the checkout is projected before or after it, if the calls
\* that complete a checkout leave one outcome.
THEOREM OutcomesStayShown ==
    ASSUME OutcomeIsLast
    PROVE  ProjectionSpec => []StatusIsOutcome
  <1>1. StatusIsOutcome <=> RecordsLast(rows, Projected)
    BY DEF StatusIsOutcome, RecordsLast
  <1>2. ProjectionInit => StatusIsOutcome
    BY DEF ProjectionInit, StatusIsOutcome, Projected
  <1>3. ASSUME ProjectionInv, HistoryInv, StatusIsOutcome, [ProjectionNext]_projectionVars
        PROVE  StatusIsOutcome'
    <2> USE <1>3
    <2>1. CASE \/ \E c \in Checkouts : DrawId(c)
               \/ \E e \in inFlight : Commit(e) \/ Rollback(e)
      <3>1. Projected' = Projected /\ rows' = rows
        BY <2>1, AppendsKeepStore DEF ProjectionInv
      <3> QED
        BY <3>1 DEF StatusIsOutcome
    <2>2. ASSUME NEW i \in DOMAIN batches, CommitBatch(i) PROVE StatusIsOutcome'
      <3> PICK es : es = batches[i].read
        OBVIOUS
      <3>1. Projected' = Projected \cup Taken(es, Len(es))
        BY <2>2, CommitProjects DEF ProjectionInv
      <3>2. rows' = Applied(es)
        BY <2>2 DEF CommitBatch
      <3>3. RecordsLast(Applied(es), Projected \cup Taken(es, Len(es)))
        BY <1>1, CommitKeepsShown
      <3> QED
        BY <3>1, <3>2, <3>3 DEF StatusIsOutcome, RecordsLast
    <2>3. CASE \/ BeginBatch \/ (\E i \in DOMAIN batches : BatchFails(i) \/ Crash(i))
               \/ UNCHANGED projectionVars
      <3>1. UNCHANGED <<events, late, rows, checkpoint>>
        BY <2>3 DEF BeginBatch, BatchFails, Crash, projectionVars, store
      <3> QED
        BY <3>1 DEF StatusIsOutcome, Projected
    <2> QED
      BY <2>1, <2>2, <2>3 DEF ProjectionNext
  <1> QED
    BY <1>2, <1>3, HistoryAlways, PTL DEF ProjectionSpec

------------------------------------------------------------------------------
(* Legal events never lead to inconsistent counters *)

\* The units of the events of a history, as weights of their places.
UnitsAt(c, s) == [i \in DOMAIN History[c] |-> History[c][i].units[s]]

PlacesOf(types, c, n) == {i \in 1 .. n : History[c][i].type \in types}

\* The units a history has moved are the tokens of the places of those events.
LEMMA HistoryUnitsAreCounted ==
    ASSUME NEW types, NEW c \in Checkouts, NEW s \in Skus, NEW n \in 0 .. Len(History[c])
    PROVE  /\ UnitsAppended(types, c, s, n) = Count(UnitsAt(c, s), PlacesOf(types, c, n))
           /\ IsFiniteSet(PlacesOf(types, c, n))
           /\ \A i \in PlacesOf(types, c, n) : UnitsAt(c, s)[i] \in Nat
  <1> DEFINE T == PlacesOf(types, c, n)
             w == UnitsAt(c, s)
             Rec(g) == g = [U \in SUBSET T |-> IF U = {} THEN 0
                  ELSE History[c][CHOOSE x \in U : TRUE].units[s] + g[U \ {CHOOSE x \in U : TRUE}]]
             i == CHOOSE g : Rec(g)
  <1>1. History[c] \in Seq([type : EventTypes, units : [Skus -> Nat]])
    BY HistoryAssumption
  <1>2. Len(History[c]) \in Nat /\ DOMAIN History[c] = 1 .. Len(History[c]) /\ n \in Nat
    BY <1>1
  <1>3. T \in SUBSET (1 .. n) /\ IsFiniteSet(1 .. n)
    BY <1>2, FS_Interval DEF PlacesOf
  <1>4. IsFiniteSet(T)
    BY <1>3, FS_Subset
  <1>5. \A x \in T : w[x] \in Nat /\ w[x] = History[c][x].units[s]
    <2>1. \A x \in DOMAIN History[c] : History[c][x] \in [type : EventTypes, units : [Skus -> Nat]]
      <3>1. ASSUME NEW A, NEW h \in Seq(A) PROVE \A x \in DOMAIN h : h[x] \in A
        OBVIOUS
      <3> QED
        BY <1>1, <3>1, Zenon
    <2>2. \A x \in DOMAIN History[c] : History[c][x].units[s] \in Nat
      BY <2>1
    <2>3. T \subseteq DOMAIN History[c]
      BY <1>2, <1>3
    <2> QED
      BY <2>2, <2>3 DEF UnitsAt
  <1>6. UnitsAppended(types, c, s, n) = i[T]
    BY DEF UnitsAppended, MapThenSumSet, MapThenFoldSet, PlacesOf
  <1> HIDE DEF T, w
  <1>7. \A g : Rec(g) <=> Sums(g, w, T)
    BY <1>5 DEF Sums
  <1>8. \E g : Rec(g)
    BY <1>4, <1>5, <1>7, CountSums
  <1>9. Rec(i)
    BY <1>8
  <1> HIDE DEF i, Rec
  <1>10. i[T] = Count(w, T)
    BY <1>4, <1>5, <1>7, <1>9, SumsCount
  <1> QED
    BY <1>4, <1>5, <1>6, <1>10 DEF T, w

\* The events up to an id.
UpTo(k, S) == {e \in S : e.id <= k}

\* The events of a checkout of these types.
Kind(types, c, S) == {e \in S : e.checkout = c /\ e.type \in types}

\* The events of a checkout up to an id are the first events of its history.
LEMMA PrefixOfHistory ==
    ASSUME NEW S \in SUBSET Event, IsFiniteSet(S), DistinctIds(S), Legal(S), NEW k \in Nat,
           NEW P, P = UpTo(k, S), NEW c \in Checkouts, NEW s \in Skus, NEW types,
           NEW n, n = Cardinality(OfCheckout(c, P))
    PROVE  /\ n \in 0 .. Len(History[c])
           /\ Count(UnitsOf(s), Kind(types, c, P)) = UnitsAppended(types, c, s, n)
  <1> DEFINE D == OfCheckout(c, P)
             K == Kind(types, c, P)
             T == PlacesOf(types, c, n)
             f == [e \in K |-> Place(e, P)]
  <1>1. P \in SUBSET S /\ P \in SUBSET Event /\ DistinctIds(P) /\ IsFiniteSet(P)
    <2>1. P \in SUBSET S
      BY DEF UpTo
    <2> QED
      BY <2>1, FS_Subset DEF DistinctIds
  <1>2. /\ D \in SUBSET Event /\ IsFiniteSet(D) /\ DistinctIds(D) /\ n \in Nat
        /\ \A e \in D : Place(e, P) \in 1 .. n
        /\ \A e, g \in D : e.id < g.id => Place(e, P) < Place(g, P)
        /\ \A m \in 1 .. n : \E e \in D : Place(e, P) = m
    BY <1>1, CheckoutNumbered
  <1>3. ASSUME NEW e \in D
        PROVE  /\ e \in Event /\ e \in P /\ e.checkout = c
               /\ Place(e, P) \in DOMAIN History[c]
               /\ History[c][Place(e, P)].type = e.type
               /\ History[c][Place(e, P)].units = e.units
    <2>1. e \in S /\ e \in P /\ e.checkout = c /\ e.id <= k /\ \A g \in S : g.id \in Nat
      BY DEF OfCheckout, UpTo, Event
    <2>2. Before(e, OfCheckout(c, P)) = Before(e, OfCheckout(c, S))
      BY <2>1 DEF Before, OfCheckout, UpTo
    <2>3. Place(e, P) = Place(e, S)
      BY <2>1, <2>2 DEF Place
    <2> QED
      BY <2>1, <2>3 DEF Legal, InPlace
  <1>4. Len(History[c]) \in Nat /\ DOMAIN History[c] = 1 .. Len(History[c])
    <2>1. History[c] \in Seq([type : EventTypes, units : [Skus -> Nat]])
      BY HistoryAssumption
    <2> QED
      BY <2>1
  <1>5. n \in 0 .. Len(History[c])
    <2>1. CASE n = 0
      BY <1>4, <2>1
    <2>2. CASE n # 0
      <3>1. n \in 1 .. n
        BY <1>2, <2>2
      <3>2. PICK e \in D : Place(e, P) = n
        BY <1>2, <3>1
      <3> QED
        BY <1>2, <1>3, <1>4, <3>2
    <2> QED
      BY <2>1, <2>2
  <1>6. K \in SUBSET D /\ IsFiniteSet(K)
    <2>1. K \in SUBSET D
      BY DEF Kind, OfCheckout
    <2> QED
      BY <1>2, <2>1, FS_Subset
  <1>7. \A e \in D : e \in K <=> e.type \in types
    BY <1>3 DEF Kind
  <1>8. T = {i \in 1 .. n : History[c][i].type \in types}
    BY DEF PlacesOf
  <1> HIDE DEF D, K, T
  <1>9. \A e, g \in K : f[e] = f[g] => e = g
    <2> SUFFICES ASSUME NEW e \in K, NEW g \in K, Place(e, P) = Place(g, P) PROVE e = g
      OBVIOUS
    <2>1. e \in D /\ g \in D /\ Place(e, P) \in Nat /\ Place(g, P) \in Nat
      BY <1>2, <1>6
    <2>2. ~ (e.id < g.id) /\ ~ (g.id < e.id) /\ e.id \in Nat /\ g.id \in Nat
      BY <1>2, <2>1 DEF Event
    <2> QED
      BY <1>2, <2>1, <2>2 DEF DistinctIds
  <1>10. f \in [K -> T]
    <2> SUFFICES ASSUME NEW e \in K PROVE Place(e, P) \in T
      OBVIOUS
    <2> QED
      BY <1>2, <1>3, <1>6, <1>7, <1>8
  <1>11. ASSUME NEW i \in T PROVE \E e \in K : f[e] = i
    <2>1. i \in 1 .. n /\ History[c][i].type \in types
      BY <1>8
    <2>2. PICK e \in D : Place(e, P) = i
      BY <1>2, <2>1
    <2>3. e \in K
      BY <1>3, <1>7, <2>1, <2>2
    <2> QED
      BY <2>2, <2>3
  <1>12. \A e \in K : UnitsAt(c, s)[f[e]] = UnitsOf(s)[e] /\ UnitsOf(s)[e] \in Nat
    <2> SUFFICES ASSUME NEW e \in K
                 PROVE  UnitsAt(c, s)[Place(e, P)] = UnitsOf(s)[e] /\ UnitsOf(s)[e] \in Nat
      OBVIOUS
    <2>1. e \in D
      BY <1>6
    <2>2. UnitsOf(s)[e] = e.units[s] /\ e.units[s] \in Nat
      BY <1>3, <2>1 DEF UnitsOf, Event
    <2>3. UnitsAt(c, s)[Place(e, P)] = History[c][Place(e, P)].units[s]
      BY <1>3, <2>1 DEF UnitsAt
    <2> QED
      BY <1>3, <2>1, <2>2, <2>3
  <1> HIDE DEF f
  <1>13. f \in Bijection(K, T)
    <2>1. f \in Injection(K, T)
      BY <1>9, <1>10, Fun_IsInj
    <2>2. f \in Surjection(K, T)
      BY <1>10, <1>11 DEF Surjection
    <2> QED
      BY <2>1, <2>2 DEF Bijection
  <1>14. Count(UnitsAt(c, s), T) = Count(UnitsOf(s), K)
    BY <1>6, <1>12, <1>13, CountBijection
  <1>15. UnitsAppended(types, c, s, n) = Count(UnitsAt(c, s), T)
    BY <1>5, HistoryUnitsAreCounted DEF T
  <1> QED
    BY <1>5, <1>14, <1>15 DEF K

\* What legal events up to an id leave reserved is never less than nothing, since every
\* checkout has reserved before what it gives back or sells.
LEMMA ReservedIsNatural ==
    ASSUME ReservedBeforeReturned,
           NEW S \in SUBSET Event, IsFiniteSet(S), DistinctIds(S), Legal(S), NEW k \in Nat,
           NEW P, P = UpTo(k, S), NEW s \in Skus
    PROVE  ReservedAfter(s, P) \in Nat /\ UnitsIn("OrderConfirmed", s, P) \in Nat
  <1> DEFINE w == UnitsOf(s)
             back == {"InventoryReservationReleased", "OrderConfirmed"}
             group == [e \in Event |-> e.checkout]
             Back == {e \in P : e.type \in back}
             Res == OfType("InventoryReserved", P)
             Rel == OfType("InventoryReservationReleased", P)
             Con == OfType("OrderConfirmed", P)
  <1>1. P \in SUBSET Event /\ P \in SUBSET S
    BY DEF UpTo
  <1>2. /\ Back \in SUBSET P /\ Res \in SUBSET P /\ Rel \in SUBSET P /\ Con \in SUBSET P
        /\ Back = Rel \cup Con /\ Rel \cap Con = {}
    BY DEF OfType
  <1>3. IsFiniteSet(P)
    BY <1>1, FS_Subset
  <1>4. IsFiniteSet(Back) /\ IsFiniteSet(Res) /\ IsFiniteSet(Rel) /\ IsFiniteSet(Con)
    <2> HIDE DEF Back, Res, Rel, Con
    <2> QED
      BY <1>2, <1>3, FS_Subset
  <1>5. \A x \in Event : w[x] \in Nat /\ group[x] = x.checkout
    BY DEF UnitsOf, Event
  <1>6. ASSUME NEW c
        PROVE  Count(w, {x \in Back : group[x] = c}) <= Count(w, {x \in Res : group[x] = c})
    <2>1. {x \in Back : group[x] = c} = Kind(back, c, P)
      BY <1>1, <1>5 DEF Kind
    <2>2. {x \in Res : group[x] = c} = Kind({"InventoryReserved"}, c, P)
      BY <1>1, <1>5 DEF Kind, OfType
    <2>3. CASE c \notin Checkouts
      <3>1. Kind(back, c, P) = {} /\ Kind({"InventoryReserved"}, c, P) = {}
        BY <1>1, <2>3 DEF Kind, Event
      <3>2. Count(w, {}) = 0
        BY CountEmpty
      <3>3. /\ Count(w, {x \in Back : group[x] = c}) = 0
            /\ Count(w, {x \in Res : group[x] = c}) = 0
        <4> HIDE DEF w, group, Back, Res
        <4> QED
          BY <2>1, <2>2, <3>1, <3>2
      <3> QED
        BY <3>3
    <2>4. CASE c \in Checkouts
      <3>1. PICK n : n = Cardinality(OfCheckout(c, P))
        OBVIOUS
      <3>2. /\ n \in 0 .. Len(History[c])
            /\ Count(w, Kind(back, c, P)) = UnitsAppended(back, c, s, n)
            /\ Count(w, Kind({"InventoryReserved"}, c, P)) = UnitsAppended({"InventoryReserved"}, c, s, n)
        BY <2>4, <3>1, PrefixOfHistory
      <3> QED
        BY <2>1, <2>2, <2>4, <3>2 DEF ReservedBeforeReturned
    <2> QED
      BY <2>3, <2>4
  <1>7. /\ UnitsIn("InventoryReserved", s, P) = Count(w, Res)
        /\ UnitsIn("InventoryReservationReleased", s, P) = Count(w, Rel)
        /\ UnitsIn("OrderConfirmed", s, P) = Count(w, Con)
    BY <1>1, <1>3, EventUnitsAreCounted
  <1> HIDE DEF w, group, Back, Res, Rel, Con
  <1>8. /\ \A x \in Back \cup Res : w[x] \in Nat
        /\ \A x \in Rel \cup Con : w[x] \in Nat
        /\ \A x \in Res : w[x] \in Nat
    BY <1>1, <1>2, <1>5
  <1>9. Count(w, Back) <= Count(w, Res)
    BY <1>4, <1>6, <1>8, CountGroupwise
  <1>10. Count(w, Back) = Count(w, Rel) + Count(w, Con)
    BY <1>2, <1>4, <1>8, CountUnion
  <1>11. Count(w, Rel) \in Nat /\ Count(w, Con) \in Nat /\ Count(w, Res) \in Nat
    BY <1>4, <1>8, TokensFinite
  <1> QED
    BY <1>7, <1>9, <1>10, <1>11 DEF ReservedAfter

\* Nor is what they leave available: at the least id where it were, an event would have
\* reserved more than there was.
LEMMA AvailableIsNatural ==
    ASSUME NEW S \in SUBSET Event, IsFiniteSet(S), DistinctIds(S), Legal(S), NEW s \in Skus
    PROVE  \A k \in Nat : AvailableAfter(s, UpTo(k, S)) \in Nat
  <1> DEFINE Bad == {k \in Nat : AvailableAfter(s, UpTo(k, S)) \notin Nat}
  <1>1. SUFFICES ASSUME Bad # {} PROVE FALSE
    OBVIOUS
  <1>2. PICK k \in Bad : \A m \in Bad : k <= m
    <2>1. Bad \subseteq Nat
      OBVIOUS
    <2> HIDE DEF Bad
    <2> QED
      BY <1>1, <2>1, LeastElement
  <1>3. k \in Nat /\ AvailableAfter(s, UpTo(k, S)) \notin Nat
    BY <1>2
  <1>4. \A e \in S : e.id \in Nat \ {0} /\ e \in Event /\ e.units[s] \in Nat
    BY DEF Event
  <1>5. CASE k = 0
    <2>1. UpTo(k, S) = {}
      BY <1>4, <1>5 DEF UpTo
    <2>2. /\ UnitsIn("InventoryReserved", s, {}) = 0
          /\ UnitsIn("InventoryReservationReleased", s, {}) = 0
      BY UnitsInNone
    <2>3. OnHand[s] \in Nat
      BY HistoryAssumption
    <2> QED
      BY <1>3, <2>1, <2>2, <2>3 DEF AvailableAfter
  <1>6. CASE k # 0
    <2> DEFINE P == UpTo(k - 1, S)
    <2>1. k - 1 \in Nat /\ AvailableAfter(s, P) \in Nat
      <3>1. k - 1 \in Nat /\ ~ (k <= k - 1)
        BY <1>3, <1>6
      <3> QED
        BY <1>2, <3>1
    <2>2. P \in SUBSET S /\ P \in SUBSET Event
      BY DEF UpTo
    <2>3. IsFiniteSet(P)
      BY <2>2, FS_Subset
    <2>4. CASE \A e \in S : e.id # k
      <3>1. UpTo(k, S) = P
        BY <1>3, <1>4, <2>1, <2>4 DEF UpTo
      <3> QED
        BY <1>3, <2>1, <3>1
    <2>5. CASE \E e \in S : e.id = k
      <3> PICK e \in S : e.id = k
        BY <2>5
      <3>1. UpTo(k, S) = P \cup {e} /\ e \notin P /\ Before(e, S) = P
        <4>1. \A f \in S : f.id = k => f = e
          BY DEF DistinctIds
        <4>2. \A f \in S : (f.id <= k <=> f.id <= k - 1 \/ f.id = k) /\ (f.id < k <=> f.id <= k - 1)
          BY <1>3, <1>4, <2>1
        <4>3. ~ (k <= k - 1)
          BY <1>3
        <4> QED
          BY <4>1, <4>2, <4>3 DEF UpTo, Before
      <3>2. e.type = "InventoryReserved" /\ e.units[s] > 0 => e.units[s] <= AvailableAfter(s, P)
        BY <3>1 DEF Legal, Enough
      <3> HIDE DEF P
      <3>3. /\ UnitsIn("InventoryReserved", s, P) \in Nat
            /\ UnitsIn("InventoryReserved", s, P \cup {e})
                 = UnitsIn("InventoryReserved", s, P)
                     + (IF e.type = "InventoryReserved" THEN e.units[s] ELSE 0)
            /\ UnitsIn("InventoryReservationReleased", s, P) \in Nat
            /\ UnitsIn("InventoryReservationReleased", s, P \cup {e})
                 = UnitsIn("InventoryReservationReleased", s, P)
                     + (IF e.type = "InventoryReservationReleased" THEN e.units[s] ELSE 0)
        BY <1>4, <2>2, <2>3, <3>1, UnitsInOneMore
      <3>4. AvailableAfter(s, P \cup {e}) \in Nat
        <4>1. OnHand[s] \in Nat /\ e.units[s] \in Nat
          BY <1>4, HistoryAssumption
        <4>2. CASE e.type = "InventoryReserved"
          BY <2>1, <3>2, <3>3, <4>1, <4>2 DEF AvailableAfter
        <4>3. CASE e.type # "InventoryReserved"
          BY <2>1, <3>3, <4>1, <4>3 DEF AvailableAfter
        <4> QED
          BY <4>2, <4>3
      <3> QED
        BY <1>3, <3>1, <3>4
    <2> QED
      BY <2>4, <2>5
  <1> QED
    BY <1>5, <1>6

\* So the counters that account for legal events up to an id satisfy the constraints.
LEMMA LegalIsConsistent ==
    ASSUME ReservedBeforeReturned,
           NEW S \in SUBSET Event, IsFiniteSet(S), DistinctIds(S), Legal(S), NEW k \in Nat,
           NEW sku, Account(sku, UpTo(k, S))
    PROVE  Consistent(sku)
  <1> SUFFICES ASSUME NEW s \in Skus
               PROVE  /\ {sku[s].reserved, sku[s].sold, sku[s].available} \subseteq Nat
                      /\ sku[s].available = OnHand[s] - sku[s].reserved - sku[s].sold
    BY DEF Consistent
  <1> PICK P : P = UpTo(k, S)
    OBVIOUS
  <1>1. /\ sku[s].reserved = ReservedAfter(s, P)
        /\ sku[s].sold = UnitsIn("OrderConfirmed", s, P)
        /\ sku[s].available = AvailableAfter(s, P)
    BY DEF Account
  <1>2. ReservedAfter(s, P) \in Nat /\ UnitsIn("OrderConfirmed", s, P) \in Nat
    BY ReservedIsNatural
  <1>3. AvailableAfter(s, P) \in Nat
    BY AvailableIsNatural
  <1>4. P \in SUBSET S /\ P \in SUBSET Event
    BY DEF UpTo
  <1>5. IsFiniteSet(P) /\ IsFiniteSet({}) /\ OnHand[s] \in Nat
    BY <1>4, FS_Subset, FS_EmptySet, HistoryAssumption
  <1>6. /\ UnitsIn("InventoryReserved", s, P) \in Nat
        /\ UnitsIn("InventoryReservationReleased", s, P) \in Nat
    <2>1. ASSUME NEW type PROVE UnitsIn(type, s, P) \in Nat
      <3>1. UnitsIn(type, s, P) = Count(UnitsOf(s), OfType(type, P))
        BY <1>4, <1>5, EventUnitsAreCounted
      <3>2. OfType(type, P) \in SUBSET P /\ \A x \in OfType(type, P) : UnitsOf(s)[x] \in Nat
        BY <1>4 DEF OfType, UnitsOf, Event
      <3>3. IsFiniteSet(OfType(type, P))
        BY <1>5, <3>2, FS_Subset
      <3> QED
        BY <3>1, <3>2, <3>3, TokensFinite
    <2> QED
      BY <2>1
  <1>7. AvailableAfter(s, P) = OnHand[s] - ReservedAfter(s, P) - UnitsIn("OrderConfirmed", s, P)
    BY <1>2, <1>5, <1>6 DEF AvailableAfter, ReservedAfter
  <1> QED
    BY <1>1, <1>2, <1>3, <1>7

\* Without late events a batch is, at each of its events, at an id up to which the store
\* it read is applied.
LEMMA BatchIsPrefix ==
    ASSUME StoreInv, BatchInv, late = {}, NEW i \in DOMAIN batches,
           NEW batch, batch = batches[i], NEW n \in 0 .. Len(batch.read)
    PROVE  \E k \in Nat : Projected \cup Taken(batch.read, n) = UpTo(k, batch.store)
  <1> PICK es : es = batch.read
    OBVIOUS
  <1> DEFINE S == {e \in batch.store : e.id > checkpoint}
  <1>1. /\ BatchOfStore(batch) /\ S \in SUBSET Event /\ FirstOf(es, S)
        /\ es \in Seq(Event) /\ Increasing(es)
        /\ \A j \in DOMAIN es : es[j] \in batch.store /\ es[j].id > checkpoint
    BY TheBatch, ReadIsBeyond DEF BatchOfStore
  <1>2. Len(es) \in Nat /\ DOMAIN es = 1 .. Len(es) /\ n \in Nat
    BY <1>1
  <1>3. batch.store \subseteq events /\ checkpoint \in Nat /\ \A e \in events : e.id \in Nat
    BY <1>1, EventsNumbered DEF BatchOfStore, StoreInv, Event
  <1>4. Projected = UpTo(checkpoint, batch.store)
    BY <1>1, <1>3 DEF BatchOfStore, Projected, UpTo
  <1>5. CASE n = 0
    <2>1. Taken(es, n) = {}
      BY <1>5 DEF Taken
    <2> QED
      BY <1>3, <1>4, <2>1
  <1>6. CASE n # 0
    <2>1. n \in DOMAIN es /\ Len(es) \in DOMAIN es /\ es # <<>>
      BY <1>2, <1>6
    <2> PICK k : k = es[n].id
      OBVIOUS
    <2>2. k \in Nat /\ k > checkpoint
      BY <1>1, <1>3, <2>1
    <2>3. Taken(es, n) = {e \in batch.store : e.id > checkpoint /\ e.id <= k}
      <3>1. ASSUME NEW j \in 1 .. n PROVE es[j] \in batch.store /\ es[j].id > checkpoint /\ es[j].id <= k
        <4>1. j \in DOMAIN es /\ (j = n \/ j < n)
          BY <1>2, <2>1
        <4>2. es[j].id \in Nat /\ (j < n => es[j].id < es[n].id)
          BY <1>1, <1>3, <2>1, <4>1 DEF Increasing
        <4> QED
          BY <1>1, <2>2, <4>1, <4>2
      <3>2. ASSUME NEW e \in batch.store, e.id > checkpoint, e.id <= k PROVE \E j \in 1 .. n : e = es[j]
        <4>1. k <= es[Len(es)].id /\ es[Len(es)].id \in Nat
          <5>1. es[n].id <= es[Len(es)].id /\ es[Len(es)] \in S
            BY <1>1, <2>1, LastIsLargest
          <5> QED
            BY <1>3, <5>1
        <4>2. e \in S /\ e.id <= es[Len(es)].id
          BY <1>3, <2>2, <3>2, <4>1
        <4>3. PICK j \in DOMAIN es : es[j] = e
          BY <1>1, <2>1, <4>2 DEF FirstOf
        <4>4. ~ (n < j)
          <5>1. n < j => es[n].id < es[j].id
            BY <1>1, <2>1 DEF Increasing
          <5> QED
            BY <1>3, <2>2, <3>2, <4>3, <5>1
        <4> QED
          BY <1>2, <4>3, <4>4
      <3> QED
        BY <3>1, <3>2 DEF Taken
    <2>4. Projected \cup Taken(es, n) = UpTo(k, batch.store)
      BY <1>3, <1>4, <2>2, <2>3 DEF UpTo
    <2> QED
      BY <2>2, <2>4
  <1> QED
    BY <1>5, <1>6

\* The CHECK constraints never stop the projection, unless an event was late, if the calls
\* that complete a checkout give back and sell only what was reserved for it before.
THEOREM OnlyLateEventsStop ==
    ASSUME ReservedBeforeReturned
    PROVE  ProjectionSpec => []StopsOnlyAfterLateEvent
  <1>1. ASSUME ProjectionInv, HistoryInv, NEW i \in DOMAIN batches, late = {}
        PROVE  Applied(batches[i].read).ok
    <2> PICK batch : batch = batches[i]
      OBVIOUS
    <2> PICK es : es = batch.read
      OBVIOUS
    <2> PICK S : S = batch.store
      OBVIOUS
    <2>1. /\ Len(es) \in Nat
          /\ \E upTo : /\ Applied(es) = upTo[Len(es)]
                       /\ \A n \in 0 .. Len(es) :
                             /\ Account(upTo[n].sku, Projected \cup Taken(es, n))
                             /\ upTo[n].ok <=> \A m \in 0 .. n : Consistent(upTo[m].sku)
      BY <1>1, BatchApplies DEF ProjectionInv
    <2> PICK upTo : /\ Applied(es) = upTo[Len(es)]
                    /\ \A n \in 0 .. Len(es) :
                          /\ Account(upTo[n].sku, Projected \cup Taken(es, n))
                          /\ upTo[n].ok <=> \A m \in 0 .. n : Consistent(upTo[m].sku)
      BY <2>1
    <2>2. S \in SUBSET events /\ events \in SUBSET Event /\ IsFiniteSet(events) /\ DistinctIds(events)
      BY <1>1, TheBatch, EventsNumbered DEF BatchOfStore, ProjectionInv
    <2>3. S \in SUBSET Event /\ IsFiniteSet(S) /\ DistinctIds(S)
      BY <2>2, FS_Subset DEF DistinctIds
    <2>4. Legal(S)
      BY <1>1 DEF HistoryInv, LegalInv
    <2>5. ASSUME NEW n \in 0 .. Len(es) PROVE Consistent(upTo[n].sku)
      <3>1. PICK k \in Nat : Projected \cup Taken(es, n) = UpTo(k, S)
        BY <1>1, BatchIsPrefix DEF ProjectionInv
      <3> PICK sku : sku = upTo[n].sku
        OBVIOUS
      <3>2. Account(sku, UpTo(k, S))
        BY <3>1
      <3>3. Consistent(sku)
        BY <2>3, <2>4, <3>2, LegalIsConsistent
      <3> QED
        BY <3>3
    <2>6. Len(es) \in 0 .. Len(es)
      BY <2>1
    <2>7. upTo[Len(es)].ok
      BY <2>5, <2>6
    <2> QED
      BY <2>7
  <1>2. ProjectionInv /\ HistoryInv => StopsOnlyAfterLateEvent
    BY <1>1 DEF StopsOnlyAfterLateEvent
  <1> QED
    BY <1>2, HistoryAlways, PTL

=============================================================================
