---------------------------- MODULE CheckoutProofs ----------------------------
(***************************************************************************)
(* Proofs about the two ends of a checkout: the calls that complete one    *)
(* (DemoCheckout), and the harnesses that create them under load and judge *)
(* the result (Benchmark).  The two do not share state, and the theorems   *)
(* of one say nothing about the other; the names of Benchmark that a       *)
(* specification usually has carry the component's name, so that both can  *)
(* be extended here.                                                       *)
(*                                                                         *)
(* DemoCheckout: any checkouts, SKUs, carts, stock and calls, if           *)
(* go-backend is asked to complete a checkout at most once: it goes on     *)
(* with the event it meant to append, which after a replay is not the one  *)
(* that is stored.  The Next.js backend may be asked any number of times,  *)
(* and both may be asked for carts that want the same SKUs.  Benchmark:    *)
(* any configurations, any number of requests and workers, any sizes of    *)
(* batches.                                                                *)
(***************************************************************************)
EXTENDS DemoCheckout, Benchmark, SumLemmas, SequenceTheorems

(***************************************************************************)
(* The calls that complete a checkout                                      *)
(***************************************************************************)

SingleGoCalls == \A c \in Checkouts : Backend[c] = "go" => Calls[c] <= 1

Outcomes == {"InventoryReserved", "InventoryReservationRejected"}

ReserveKey(c, i) == [kind |-> "reserve", checkout |-> c, item |-> i, call |-> 0]

CallRecord(c) == [step : Steps, item : DOMAIN Items[c], outcomes : Seq(Event),
                  seen : [available : Nat, version : Nat]]

------------------------------------------------------------------------------
(* The invariant *)

\* What an event of the store says, by the kind of its key.
EventOK(e) ==
    LET c == e.key.checkout
        i == e.key.item
    IN
    /\ e.type \in Outcomes <=> e.key.kind = "reserve"
    /\ e.type = "InventoryReservationReleased" <=> e.key.kind = "release"
    /\ e.type = "OrderConfirmed" <=> e.key.kind = "order"
    /\ e.key.kind = "reserve" =>
          /\ i \in DOMAIN Items[c] /\ e.key = ReserveKey(c, i)
          /\ e.reservation.checkout = c /\ e.reservation.item = i
          /\ e.sku = Items[c][i].sku /\ e.quantity = Items[c][i].quantity
    /\ e.key.kind = "release" =>
          /\ i \in DOMAIN Items[c] /\ e.sku = Items[c][i].sku
          /\ e.reservation = [checkout |-> c, call |-> e.key.call, item |-> i]
          /\ \E f \in events : f.type = "InventoryReservationRejected" /\ f.key.checkout = c
    /\ e.key.kind = "order" =>
          \A j \in DOMAIN Items[c] :
             \E f \in events : f.type = "InventoryReserved" /\ f.key = ReserveKey(c, j)

\* The versions of a stream are 1 .. Cardinality(Stream(s)): an append that is not
\* refused is the next one, or none has happened since the stream was read.
StreamInv ==
    /\ IsFiniteSet(events)
    /\ \A e, f \in events : e.key = f.key => e = f
    /\ \A s \in Skus : \A v \in 1 .. Cardinality(Stream(s)) : \E e \in Stream(s) : e.version = v

GivenBack(o) == o.type = "InventoryReserved" => o.reservation \in Released(o.sku)

\* What a call has in hand is stored under the keys of its items.
CallOK(c, r) ==
    /\ \A i \in DOMAIN r.outcomes : r.outcomes[i] \in events /\ r.outcomes[i].key = ReserveKey(c, i)
    /\ r.step \in {"read", "request", "reserve"} => Len(r.outcomes) = r.item - 1
    /\ r.step \in {"pay", "confirm", "confirmed"} =>
          Len(r.outcomes) = Len(Items[c]) /\ ~Rejects(r.outcomes)
    /\ r.step \in {"readRelease", "release", "rejected"} =>
          Len(r.outcomes) = Len(Items[c]) /\ Rejects(r.outcomes)
    /\ r.step \in {"readRelease", "release"} =>
          /\ r.outcomes[r.item].type = "InventoryReserved"
          /\ \A j \in 1 .. r.item - 1 : GivenBack(r.outcomes[j])
    /\ r.step = "rejected" => \A j \in DOMAIN r.outcomes : GivenBack(r.outcomes[j])

\* The version under which the last event before the decision was appended or read.
Base(c, r) == r.seen.version + (IF r.step = "reserve" /\ Backend[c] = "go" THEN 1 ELSE 0)

\* If nobody has appended since, what was read is what there is.
SeenOK(c, r) ==
    /\ r.step = "request" => Backend[c] = "go"
    /\ r.step \in {"request", "reserve"} =>
          LET s == Items[c][r.item].sku IN
          /\ Base(c, r) <= Cardinality(Stream(s))
          /\ Base(c, r) = Cardinality(Stream(s)) => r.seen.available = OnHand[s] - UnitsOf(Held(s))
    /\ r.step = "release" => r.seen.version <= Cardinality(Stream(r.outcomes[r.item].sku))

\* The only call of go-backend for a checkout finds no event for what it has not done yet.
FreshOK(c, r) ==
    Backend[c] = "go" =>
        \A e \in events : e.key.checkout = c /\ e.key.item >= r.item =>
            /\ e.key.kind = "reserve" => r.step \notin {"read", "request", "reserve"}
            /\ e.key.kind = "requested" =>
                  /\ r.step \notin {"read", "request"}
                  /\ r.step = "reserve" => e.key.item = r.item

CallsInv ==
    \A c \in Checkouts :
        /\ Len(call[c]) <= Calls[c]
        /\ call[c] = <<>> => \A e \in events : e.key.checkout # c
        /\ \A n \in DOMAIN call[c] :
              CallOK(c, call[c][n]) /\ SeenOK(c, call[c][n]) /\ FreshOK(c, call[c][n])

EventsInv == \A e \in events : EventOK(e)

IInv == TypeOK /\ StreamInv /\ EventsInv /\ CallsInv /\ NoOversell

------------------------------------------------------------------------------
(* Carts and sums *)

\* A cart has items, and each of them a SKU and a quantity.
LEMMA CartType ==
    ASSUME NEW c \in Checkouts
    PROVE  /\ DOMAIN Items[c] = 1 .. Len(Items[c]) /\ Len(Items[c]) \in Nat \ {0}
           /\ \A i \in DOMAIN Items[c] : Items[c][i].sku \in Skus /\ Items[c][i].quantity \in Nat
  <1> DEFINE Lines == [sku : Skus, quantity : Nat \ {0}]
  <1>1. Items[c] \in Seq(Lines) /\ Items[c] # <<>>
    BY CartAssumption
  <1>2. \A l \in Lines : l.sku \in Skus /\ l.quantity \in Nat
    OBVIOUS
  <1> HIDE DEF Lines
  <1>3. DOMAIN Items[c] = 1 .. Len(Items[c]) /\ Len(Items[c]) \in Nat \ {0}
    BY <1>1
  <1>4. \A i \in DOMAIN Items[c] : Items[c][i] \in Lines
    BY <1>1
  <1> QED
    BY <1>2, <1>3, <1>4

QuantityOf == [e \in Event |-> e.quantity]

\* The units of a set of events are its tokens.
LEMMA UnitsAreTokens ==
    ASSUME NEW S \in SUBSET Event, IsFiniteSet(S)
    PROVE  UnitsOf(S) = Count(QuantityOf, S) /\ UnitsOf(S) \in Nat
  <1> DEFINE Rec(g) == g = [T \in SUBSET S |-> IF T = {} THEN 0
                  ELSE (CHOOSE x \in T : TRUE).quantity + g[T \ {CHOOSE x \in T : TRUE}]]
             i == CHOOSE g : Rec(g)
  <1>1. \A x \in S : QuantityOf[x] \in Nat /\ QuantityOf[x] = x.quantity
    BY DEF QuantityOf, Event
  <1>2. \A g : Rec(g) <=> Sums(g, QuantityOf, S)
    BY <1>1 DEF Sums
  <1>3. \E g : Rec(g)
    BY <1>1, <1>2, CountSums
  <1>4. Rec(i)
    BY <1>3
  <1>5. UnitsOf(S) = i[S]
    BY DEF UnitsOf, MapThenSumSet, MapThenFoldSet
  <1> HIDE DEF i, Rec
  <1>6. UnitsOf(S) = Count(QuantityOf, S)
    BY <1>1, <1>2, <1>4, <1>5, SumsCount
  <1> QED
    BY <1>1, <1>6, TokensFinite

\* Streams and what is held of them are finite sets of events, of a size that is a number.
LEMMA StreamType ==
    ASSUME TypeOK, IsFiniteSet(events), NEW s
    PROVE  /\ Stream(s) \in SUBSET Event /\ IsFiniteSet(Stream(s)) /\ Cardinality(Stream(s)) \in Nat
           /\ Held(s) \in SUBSET Event /\ IsFiniteSet(Held(s)) /\ UnitsOf(Held(s)) \in Nat
  <1>1. Stream(s) \subseteq events /\ Held(s) \subseteq events
    BY DEF Stream, Held
  <1>2. IsFiniteSet(Stream(s)) /\ IsFiniteSet(Held(s))
    BY <1>1, FS_Subset
  <1>3. Stream(s) \in SUBSET Event /\ Held(s) \in SUBSET Event
    BY <1>1 DEF TypeOK
  <1> QED
    BY <1>2, <1>3, FS_CardinalityType, UnitsAreTokens

\* From position i on nothing is reserved if there is nothing to be released next.
LEMMA NothingToRelease ==
    ASSUME NEW o, NEW i \in Nat, Len(o) \in Nat, NextReserved(o, i) = {}
    PROVE  \A j \in i .. Len(o) : o[j].type # "InventoryReserved"
  <1> SUFFICES ASSUME NEW j \in i .. Len(o), o[j].type = "InventoryReserved" PROVE FALSE
    OBVIOUS
  <1> DEFINE S == {k \in i .. Len(o) : o[k].type = "InventoryReserved"}
  <1>1. S \subseteq Nat /\ S # {}
    OBVIOUS
  <1>2. PICK m \in S : \A k \in S : m <= k
    <2> HIDE DEF S
    <2> QED
      BY <1>1, LeastElement
  <1>3. \A k \in i .. m - 1 : k \in i .. Len(o) /\ k \notin S
    BY <1>2
  <1> QED
    BY <1>2, <1>3 DEF NextReserved

------------------------------------------------------------------------------
(* What an append changes *)

\* A call of checkout c appends e: the next event of its stream, or the first one of a
\* stream of its own.
Adds(c, e) ==
    /\ e \in Event /\ e.key.checkout = c
    /\ ~KeyTaken(e) /\ events' = events \cup {e}
    /\ EventOK(e)
    /\ e.sku = Null \/ (e.sku \in Skus /\ e.version = Cardinality(Stream(e.sku)) + 1)
    /\ e.type = "InventoryReserved" => e.sku \in Skus /\ e.quantity <= OnHand[e.sku] - UnitsOf(Held(e.sku))

\* The event becomes part of its own stream and of no other.
LEMMA StreamAfter ==
    ASSUME TypeOK, IsFiniteSet(events), NEW c, NEW e, Adds(c, e), NEW s
    PROVE  /\ Stream(s)' = IF e.sku = s THEN Stream(s) \cup {e} ELSE Stream(s)
           /\ e.sku = s => Cardinality(Stream(s)') = Cardinality(Stream(s)) + 1
           /\ Cardinality(Stream(s)') \in Nat
  <1>1. Stream(s)' = IF e.sku = s THEN Stream(s) \cup {e} ELSE Stream(s)
    BY DEF Adds, Stream
  <1>2. e \notin Stream(s)
    BY DEF Adds, KeyTaken, Stream
  <1>3. IsFiniteSet(Stream(s)) /\ Cardinality(Stream(s)) \in Nat
    BY StreamType
  <1>4. CASE e.sku = s
    <2>1. Cardinality(Stream(s) \cup {e}) = Cardinality(Stream(s)) + 1
      BY <1>2, <1>3, FS_AddElement
    <2> QED
      BY <1>1, <1>3, <1>4, <2>1
  <1>5. CASE e.sku # s
    BY <1>1, <1>3, <1>5
  <1> QED
    BY <1>4, <1>5

\* Only a reservation adds to what is held, and only a release takes from it.
LEMMA HeldAfter ==
    ASSUME NEW c, NEW e, Adds(c, e), NEW s
    PROVE  /\ Held(s)' \subseteq Held(s) \cup {e}
           /\ e.type # "InventoryReserved" \/ e.sku # s => Held(s)' \subseteq Held(s)
           /\ e.sku # s \/ e.type \notin {"InventoryReserved", "InventoryReservationReleased"} =>
                 Held(s)' = Held(s)
           /\ Released(s) \subseteq Released(s)'
           /\ e.type = "InventoryReservationReleased" /\ e.sku = s => e.reservation \in Released(s)'
  <1>1. \A f : f \in Stream(s)' <=> f \in Stream(s) \/ (f = e /\ e.sku = s)
    BY DEF Adds, Stream
  <1>2. \A x : x \in Released(s)' <=> \/ x \in Released(s)
                                      \/ /\ x = e.reservation /\ e.sku = s
                                         /\ e.type = "InventoryReservationReleased"
    BY <1>1 DEF Released
  <1>3. \A f : f \in Held(s)' <=> /\ f \in Stream(s)' /\ f.type = "InventoryReserved"
                                  /\ f.reservation \notin Released(s)'
    BY DEF Held
  <1>4. \A f : f \in Held(s) <=> /\ f \in Stream(s) /\ f.type = "InventoryReserved"
                                 /\ f.reservation \notin Released(s)
    BY DEF Held
  <1>5. /\ Held(s)' \subseteq Held(s) \cup {e}
        /\ e.type # "InventoryReserved" \/ e.sku # s => Held(s)' \subseteq Held(s)
    BY <1>1, <1>2, <1>3, <1>4
  <1>6. ASSUME e.sku # s \/ e.type \notin {"InventoryReserved", "InventoryReservationReleased"}
        PROVE  Held(s)' = Held(s)
    BY <1>1, <1>2, <1>3, <1>4, <1>6
  <1> QED
    BY <1>2, <1>5, <1>6

\* Keys stay unique and versions stay without gaps.
LEMMA AppendKeepsStreams ==
    ASSUME TypeOK, StreamInv, NEW c, NEW e, Adds(c, e)
    PROVE  StreamInv'
  <1>1. IsFiniteSet(events')
    BY FS_AddElement DEF StreamInv, Adds
  <1>2. \A f, g \in events' : f.key = g.key => f = g
    BY DEF StreamInv, Adds, KeyTaken
  <1>3. ASSUME NEW s \in Skus, NEW v \in 1 .. Cardinality(Stream(s)')
        PROVE  \E f \in Stream(s)' : f.version = v
    <2>1. /\ Stream(s)' = IF e.sku = s THEN Stream(s) \cup {e} ELSE Stream(s)
          /\ e.sku = s => Cardinality(Stream(s)') = Cardinality(Stream(s)) + 1
      BY StreamAfter DEF StreamInv
    <2>2. Cardinality(Stream(s)) \in Nat
      BY StreamType DEF StreamInv
    <2>3. CASE v \in 1 .. Cardinality(Stream(s))
      BY <2>1, <2>3 DEF StreamInv
    <2>4. CASE v \notin 1 .. Cardinality(Stream(s))
      <3>1. e.sku = s /\ v = Cardinality(Stream(s)) + 1
        BY <2>1, <2>2, <2>4
      <3>2. e.version = v
        BY <3>1, NullAssumption DEF Adds
      <3> QED
        BY <2>1, <3>1, <3>2
    <2> QED
      BY <2>3, <2>4
  <1> QED
    BY <1>1, <1>2, <1>3 DEF StreamInv

\* An event means what it meant when more events follow.
LEMMA AppendKeepsEvents ==
    ASSUME EventsInv, NEW c, NEW e, Adds(c, e)
    PROVE  EventsInv'
  <1>1. events \subseteq events' /\ \A f \in events' : f \in events \/ f = e
    BY DEF Adds
  <1>2. ASSUME NEW f \in events' PROVE EventOK(f)'
    <2>1. EventOK(f)
      BY <1>1 DEF EventsInv, Adds
    <2> QED
      BY <1>1, <2>1 DEF EventOK
  <1> QED
    BY <1>2 DEF EventsInv

\* What is held stays within the stock.
LEMMA AppendKeepsStock ==
    ASSUME TypeOK, StreamInv, NoOversell, NEW c, NEW e, Adds(c, e)
    PROVE  NoOversell'
  <1> SUFFICES ASSUME NEW s \in Skus PROVE UnitsOf(Held(s)') <= OnHand[s]
    BY DEF NoOversell
  <1>1. Held(s) \in SUBSET Event /\ IsFiniteSet(Held(s)) /\ UnitsOf(Held(s)) \in Nat
    BY StreamType DEF StreamInv
  <1>2. UnitsOf(Held(s)) = Count(QuantityOf, Held(s))
    BY <1>1, UnitsAreTokens
  <1>3. \A x \in Event : QuantityOf[x] \in Nat /\ QuantityOf[x] = x.quantity
    BY DEF QuantityOf, Event
  <1>4. OnHand[s] \in Nat /\ UnitsOf(Held(s)) <= OnHand[s]
    BY CartAssumption DEF NoOversell
  <1>5. CASE Held(s)' \subseteq Held(s)
    <2>1. UnitsOf(Held(s)') = Count(QuantityOf, Held(s)')
      BY <1>1, <1>5, FS_Subset, UnitsAreTokens
    <2>2. /\ Count(QuantityOf, Held(s)') <= Count(QuantityOf, Held(s))
          /\ Count(QuantityOf, Held(s)') \in Nat
      BY <1>1, <1>3, <1>5, CountMonotone
    <2> QED
      BY <1>1, <1>2, <1>4, <2>1, <2>2
  <1>6. CASE ~ (Held(s)' \subseteq Held(s))
    <2>1. e.type = "InventoryReserved" /\ e.sku = s /\ e \in Event /\ e \notin events
      BY <1>6, HeldAfter DEF Adds, KeyTaken
    <2>2. e.quantity <= OnHand[s] - UnitsOf(Held(s))
      BY <2>1 DEF Adds
    <2> DEFINE S == Held(s) \cup {e}
    <2>3. Held(s)' \subseteq S
      BY HeldAfter
    <2>4. S \in SUBSET Event /\ IsFiniteSet(S) /\ e \notin Held(s)
      BY <1>1, <2>1, FS_AddElement DEF Held, Stream
    <2>5. Count(QuantityOf, S) = Count(QuantityOf, Held(s)) + e.quantity
      <3>1. \A x \in Held(s) \cup {e} : QuantityOf[x] \in Nat
        BY <1>3, <2>4
      <3>2. QuantityOf[e] = e.quantity
        BY <1>3, <2>1
      <3> QED
        BY <1>1, <2>4, <3>1, <3>2, CountAdd
    <2> HIDE DEF S
    <2>6. UnitsOf(Held(s)') = Count(QuantityOf, Held(s)')
      BY <2>3, <2>4, FS_Subset, UnitsAreTokens
    <2>7. /\ Count(QuantityOf, Held(s)') <= Count(QuantityOf, S)
          /\ Count(QuantityOf, Held(s)') \in Nat /\ Count(QuantityOf, S) \in Nat
      BY <1>3, <2>3, <2>4, CountMonotone, TokensFinite
    <2>8. e.quantity \in Nat
      BY <2>1 DEF Event
    <2> QED
      BY <1>1, <1>2, <1>4, <2>2, <2>5, <2>6, <2>7, <2>8
  <1> QED
    BY <1>5, <1>6

\* What another call has in hand and has seen survives the append.
LEMMA RecordKept ==
    ASSUME TypeOK, StreamInv, NEW c, NEW e, Adds(c, e), NEW d \in Checkouts, NEW r \in CallRecord(d)
    PROVE  /\ CallOK(d, r) => CallOK(d, r)'
           /\ SeenOK(d, r) => SeenOK(d, r)'
           /\ FreshOK(d, r) /\ (d # c \/ Backend[d] = "ts") => FreshOK(d, r)'
  <1>1. \A o : GivenBack(o) => GivenBack(o)'
    <2> SUFFICES ASSUME NEW o, GivenBack(o) PROVE GivenBack(o)'
      OBVIOUS
    <2>1. Released(o.sku) \subseteq Released(o.sku)'
      BY HeldAfter
    <2> QED
      BY <2>1 DEF GivenBack
  <1>2. events \subseteq events'
    BY DEF Adds
  <1>3. CallOK(d, r) => CallOK(d, r)'
    BY <1>1, <1>2 DEF CallOK
  <1>4. ASSUME NEW s
        PROVE  /\ Cardinality(Stream(s)) \in Nat /\ Cardinality(Stream(s)') \in Nat
               /\ \/ Stream(s)' = Stream(s) /\ Held(s)' = Held(s)
                  \/ Cardinality(Stream(s)') = Cardinality(Stream(s)) + 1
    <2>1. Cardinality(Stream(s)) \in Nat
      BY StreamType DEF StreamInv
    <2>2. /\ Cardinality(Stream(s)') \in Nat
          /\ Stream(s)' = Stream(s) \/ Cardinality(Stream(s)') = Cardinality(Stream(s)) + 1
          /\ e.sku = s => Cardinality(Stream(s)') = Cardinality(Stream(s)) + 1
      BY StreamAfter DEF StreamInv
    <2>3. e.sku # s => Held(s)' = Held(s)
      BY HeldAfter
    <2> QED
      BY <2>1, <2>2, <2>3, StreamAfter DEF StreamInv
  <1>5. SeenOK(d, r) => SeenOK(d, r)'
    <2> SUFFICES ASSUME SeenOK(d, r) PROVE SeenOK(d, r)'
      OBVIOUS
    <2>1. Base(d, r) \in Nat /\ r.seen.version \in Nat /\ Base(d, r)' = Base(d, r)
      BY DEF Base, CallRecord
    <2>2. ASSUME r.step \in {"request", "reserve"}
          PROVE  LET s == Items[d][r.item].sku IN
                 /\ Base(d, r) <= Cardinality(Stream(s)')
                 /\ Base(d, r) = Cardinality(Stream(s)') =>
                       r.seen.available = OnHand[s] - UnitsOf(Held(s)')
      <3> DEFINE s == Items[d][r.item].sku
      <3>1. /\ Base(d, r) <= Cardinality(Stream(s))
            /\ Base(d, r) = Cardinality(Stream(s)) => r.seen.available = OnHand[s] - UnitsOf(Held(s))
        BY <2>2 DEF SeenOK
      <3> HIDE DEF s
      <3>2. CASE Stream(s)' = Stream(s) /\ Held(s)' = Held(s)
        BY <3>1, <3>2 DEF s
      <3>3. CASE Cardinality(Stream(s)') = Cardinality(Stream(s)) + 1
        <4>1. Base(d, r) <= Cardinality(Stream(s)') /\ Base(d, r) # Cardinality(Stream(s)')
          BY <1>4, <2>1, <3>1, <3>3
        <4> QED
          BY <4>1 DEF s
      <3> QED
        BY <1>4, <3>2, <3>3
    <2>3. ASSUME r.step = "release"
          PROVE  r.seen.version <= Cardinality(Stream(r.outcomes[r.item].sku)')
      <3> DEFINE s == r.outcomes[r.item].sku
      <3>1. r.seen.version <= Cardinality(Stream(s))
        BY <2>3 DEF SeenOK
      <3> HIDE DEF s
      <3>2. r.seen.version <= Cardinality(Stream(s)')
        BY <1>4, <2>1, <3>1
      <3> QED
        BY <3>2 DEF s
    <2> QED
      BY <2>1, <2>2, <2>3 DEF SeenOK
  <1>6. FreshOK(d, r) /\ (d # c \/ Backend[d] = "ts") => FreshOK(d, r)'
    BY DEF FreshOK, Adds
  <1> QED
    BY <1>3, <1>5, <1>6

\* Nothing about the calls changes with the step of one of them other than its own record.
LEMMA GotoCalls ==
    ASSUME TypeOK, NEW c \in Checkouts, NEW n \in DOMAIN call[c], NEW r \in CallRecord(c), Goto(c, n, r)
    PROVE  /\ DOMAIN call' = Checkouts
           /\ \A d \in Checkouts :
                 /\ call'[d] \in Seq(CallRecord(d)) /\ Len(call'[d]) = Len(call[d])
                 /\ DOMAIN call'[d] = DOMAIN call[d]
                 /\ \A m \in DOMAIN call[d] :
                       call'[d][m] = IF d = c /\ m = n THEN r ELSE call[d][m]
  <1>1. \A d \in Checkouts : call[d] \in Seq(CallRecord(d)) /\ DOMAIN call[d] = 1 .. Len(call[d])
    BY DEF TypeOK, CallRecord
  <1>2. /\ DOMAIN call' = Checkouts
        /\ \A d \in Checkouts : call'[d] = IF d = c THEN [call[c] EXCEPT ![n] = r] ELSE call[d]
    BY DEF TypeOK, Goto
  <1> DEFINE one == [call[c] EXCEPT ![n] = r]
  <1>3. /\ one \in Seq(CallRecord(c)) /\ Len(one) = Len(call[c])
        /\ \A m \in 1 .. Len(call[c]) : one[m] = IF m = n THEN r ELSE call[c][m]
    BY <1>1, ExceptSeq
  <1>4. DOMAIN one = DOMAIN call[c]
    OBVIOUS
  <1> HIDE DEF one
  <1> QED
    BY <1>1, <1>2, <1>3, <1>4 DEF one

\* If nothing is appended, what was true of a record still is.
LEMMA RecordSame ==
    ASSUME events' = events, NEW d, NEW r
    PROVE  /\ CallOK(d, r)' <=> CallOK(d, r)
           /\ SeenOK(d, r)' <=> SeenOK(d, r)
           /\ FreshOK(d, r)' <=> FreshOK(d, r)
  <1>1. \A s : Stream(s)' = Stream(s)
    BY DEF Stream
  <1>2. \A s : Released(s)' = Released(s)
    BY <1>1 DEF Released
  <1>3. \A s : Held(s)' = Held(s)
    BY <1>1, <1>2 DEF Held
  <1>4. CallOK(d, r)' <=> CallOK(d, r)
    BY <1>2 DEF CallOK, GivenBack
  <1>5. SeenOK(d, r)' <=> SeenOK(d, r)
    <2>1. Base(d, r)' = Base(d, r)
      BY DEF Base
    <2> QED
      BY <1>1, <1>3, <2>1 DEF SeenOK
  <1>6. FreshOK(d, r)' <=> FreshOK(d, r)
    BY DEF FreshOK
  <1> QED
    BY <1>4, <1>5, <1>6

\* Nor does the store change.
LEMMA StoreSame ==
    ASSUME events' = events
    PROVE  /\ StreamInv => StreamInv'
           /\ EventsInv => EventsInv'
           /\ NoOversell => NoOversell'
  <1>1. \A s : Stream(s)' = Stream(s)
    BY DEF Stream
  <1>2. \A s : Released(s)' = Released(s)
    BY <1>1 DEF Released
  <1>3. \A s : Held(s)' = Held(s)
    BY <1>1, <1>2 DEF Held
  <1>4. NoOversell => NoOversell'
    BY <1>3 DEF NoOversell
  <1>5. EventsInv => EventsInv'
    BY DEF EventsInv, EventOK
  <1>6. StreamInv => StreamInv'
    BY <1>1 DEF StreamInv
  <1> QED
    BY <1>4, <1>5, <1>6

\* A step of a call keeps the invariant if it appends at most an event of its checkout,
\* and if what it has in hand and has seen afterwards is right.
LEMMA StepKeepsInvariant ==
    ASSUME SingleGoCalls, IInv, NEW c \in Checkouts, NEW n \in DOMAIN call[c],
           NEW r \in CallRecord(c), Goto(c, n, r),
           events' = events \/ \E e : Adds(c, e),
           CallOK(c, r)', SeenOK(c, r)', FreshOK(c, r)'
    PROVE  IInv'
  <1>1. TypeOK /\ StreamInv /\ EventsInv /\ CallsInv /\ NoOversell
    BY DEF IInv
  <1>2. TypeOK'
    <2>1. events' \subseteq Event
      BY <1>1 DEF TypeOK, Adds
    <2> QED
      BY <1>1, <2>1, GotoCalls DEF TypeOK, CallRecord
  <1>3. StreamInv' /\ EventsInv' /\ NoOversell'
    <2>1. CASE events' = events
      BY <1>1, <2>1, StoreSame
    <2>2. ASSUME NEW e, Adds(c, e) PROVE StreamInv' /\ EventsInv' /\ NoOversell'
      BY <1>1, <2>2, AppendKeepsStreams, AppendKeepsEvents, AppendKeepsStock
    <2> QED
      BY <2>1, <2>2
  <1>4. ASSUME NEW d \in Checkouts, NEW m \in DOMAIN call[d], ~(d = c /\ m = n)
        PROVE  /\ CallOK(d, call[d][m])' /\ SeenOK(d, call[d][m])' /\ FreshOK(d, call[d][m])'
    <2>1. call'[d][m] = call[d][m]
      BY <1>1, <1>4, GotoCalls
    <2> DEFINE q == call[d][m]
    <2>2. q \in CallRecord(d)
      <3>1. call[d] \in Seq(CallRecord(d))
        BY <1>1 DEF TypeOK, CallRecord
      <3> QED
        BY <3>1
    <2>3. CallOK(d, q) /\ SeenOK(d, q) /\ FreshOK(d, q)
      BY <1>1 DEF CallsInv
    <2>4. d # c \/ Backend[d] = "ts"
      <3>1. DOMAIN call[d] = 1 .. Len(call[d]) /\ Len(call[d]) \in Nat
        BY <1>1 DEF TypeOK
      <3>2. Len(call[d]) <= Calls[d] /\ Calls[d] \in Nat
        BY <1>1, CartAssumption DEF CallsInv
      <3>3. Backend[d] \in {"ts", "go"}
        BY CartAssumption
      <3> QED
        BY <1>4, <3>1, <3>2, <3>3 DEF SingleGoCalls
    <2> SUFFICES ASSUME NEW q0, q0 = q PROVE CallOK(d, q0)' /\ SeenOK(d, q0)' /\ FreshOK(d, q0)'
      BY <2>1
    <2> QED
      BY <1>1, <2>2, <2>3, <2>4, RecordKept, RecordSame
  <1>5. ASSUME NEW d \in Checkouts
        PROVE  /\ Len(call'[d]) <= Calls[d]
               /\ call'[d] = <<>> => \A e \in events' : e.key.checkout # d
    <2>1. Len(call'[d]) = Len(call[d]) /\ DOMAIN call'[d] = DOMAIN call[d]
      BY <1>1, GotoCalls
    <2>2. Len(call[d]) <= Calls[d] /\ (call[d] = <<>> => \A e \in events : e.key.checkout # d)
      BY <1>1 DEF CallsInv
    <2>3. ASSUME call'[d] = <<>> PROVE call[d] = <<>> /\ d # c
      <3>1. call[d] \in Seq(CallRecord(d))
        BY <1>1 DEF TypeOK, CallRecord
      <3>2. DOMAIN call[d] = {} /\ Len(call[d]) = 0
        BY <2>1, <2>3
      <3>3. \A S : \A q \in Seq(S) : Len(q) = 0 => q = <<>>
        OBVIOUS
      <3>4. call[d] = <<>>
        BY <3>1, <3>2, <3>3
      <3> QED
        BY <3>2, <3>4
    <2> QED
      BY <2>1, <2>2, <2>3 DEF Adds
  <1>6. ASSUME NEW d \in Checkouts, NEW m \in DOMAIN call'[d]
        PROVE  CallOK(d, call[d][m])' /\ SeenOK(d, call[d][m])' /\ FreshOK(d, call[d][m])'
    <2>1. m \in DOMAIN call[d] /\ (d = c /\ m = n => call'[d][m] = r)
      BY <1>1, GotoCalls
    <2>2. CASE d = c /\ m = n
      <3> SUFFICES ASSUME NEW q, q = r PROVE CallOK(c, q)' /\ SeenOK(c, q)' /\ FreshOK(c, q)'
        BY <2>1, <2>2
      <3> QED
        OBVIOUS
    <2> QED
      BY <1>4, <2>1, <2>2
  <1> QED
    BY <1>2, <1>3, <1>5, <1>6 DEF IInv, CallsInv

------------------------------------------------------------------------------
(* The steps of a call *)

\* What the invariant says of a call.
LEMMA CallFacts ==
    ASSUME IInv, NEW c \in Checkouts, NEW n \in DOMAIN call[c]
    PROVE  /\ Here(c, n) \in CallRecord(c) /\ n \in Nat
           /\ CallOK(c, Here(c, n)) /\ SeenOK(c, Here(c, n)) /\ FreshOK(c, Here(c, n))
           /\ Item(c, n) = Items[c][Here(c, n).item]
           /\ Item(c, n).sku \in Skus /\ Item(c, n).quantity \in Nat
           /\ Here(c, n).item \in 1 .. Len(Items[c]) /\ Len(Items[c]) \in Nat
  <1>1. call[c] \in Seq(CallRecord(c))
    BY DEF IInv, TypeOK, CallRecord
  <1>2. Here(c, n) \in CallRecord(c) /\ n \in Nat
    BY <1>1 DEF Here
  <1>3. Here(c, n).item \in DOMAIN Items[c]
    BY <1>2 DEF CallRecord
  <1> QED
    BY <1>2, <1>3, CartType DEF IInv, CallsInv, Here, Item

\* What a read returns is natural: nothing is oversold.
LEMMA ReplayType ==
    ASSUME IInv, NEW s \in Skus
    PROVE  /\ Replay(s) \in [available : Nat, version : Nat]
           /\ Replay(s).available = OnHand[s] - UnitsOf(Held(s))
           /\ Replay(s).version = Cardinality(Stream(s))
  <1>1. UnitsOf(Held(s)) \in Nat /\ Cardinality(Stream(s)) \in Nat
    BY StreamType DEF IInv, StreamInv
  <1>2. OnHand[s] \in Nat /\ UnitsOf(Held(s)) <= OnHand[s]
    BY CartAssumption DEF IInv, NoOversell
  <1> QED
    BY <1>1, <1>2 DEF Replay

\* A version that is not taken follows the last one.
LEMMA NextVersion ==
    ASSUME IInv, NEW e, e.sku \in Skus, NEW b \in Nat, b <= Cardinality(Stream(e.sku)),
           e.version = b + 1, ~VersionTaken(e)
    PROVE  e.version = Cardinality(Stream(e.sku)) + 1 /\ b = Cardinality(Stream(e.sku))
  <1>1. Cardinality(Stream(e.sku)) \in Nat
    BY StreamType DEF IInv, StreamInv
  <1>2. e.sku # Null
    BY NullAssumption
  <1>3. ~ (b + 1 \in 1 .. Cardinality(Stream(e.sku)))
    BY <1>2 DEF IInv, StreamInv, VersionTaken
  <1> QED
    BY <1>1, <1>3

\* The fields of InventoryReservationRequested.
LEMMA RequestedType ==
    ASSUME IInv, NEW c \in Checkouts, NEW n \in DOMAIN call[c], NEW e, e = Requested(c, n)
    PROVE  /\ e \in Event /\ e.type = "InventoryReservationRequested"
           /\ e.version = Here(c, n).seen.version + 1 /\ e.sku = Item(c, n).sku
           /\ e.key = [kind |-> "requested", checkout |-> c, item |-> Here(c, n).item, call |-> 0]
  <1> DEFINE reservation == MintedBy(c, n, Here(c, n).item)
             version == Here(c, n).seen.version + 1
             key == [kind |-> "requested", checkout |-> c, item |-> Here(c, n).item, call |-> 0]
  <1>1. /\ Item(c, n).sku \in Skus /\ Item(c, n).quantity \in Nat
        /\ Here(c, n).item \in Nat /\ n \in Nat /\ Here(c, n) \in CallRecord(c)
    BY CallFacts
  <1>2. reservation \in Reservation /\ version \in Nat /\ key \in Keys
    BY <1>1 DEF MintedBy, Reservation, CallRecord, Keys
  <1>3. e = [type |-> "InventoryReservationRequested", sku |-> Item(c, n).sku, version |-> version,
             reservation |-> reservation, quantity |-> Item(c, n).quantity, key |-> key]
    BY DEF Requested, SkuEvent
  <1> HIDE DEF reservation, key, version
  <1> QED
    BY <1>1, <1>2, <1>3 DEF Event, key, version

\* The fields of the decision about an item: InventoryReserved only if it fits in what was
\* read, under the version that follows the last one read or appended.
LEMMA DecisionType ==
    ASSUME IInv, NEW c \in Checkouts, NEW n \in DOMAIN call[c], NEW e, e = Decision(c, n),
           Here(c, n).step = "reserve"
    PROVE  /\ e \in Event /\ e.type \in Outcomes
           /\ e.type = "InventoryReserved" => e.quantity <= Here(c, n).seen.available
           /\ e.version = Base(c, Here(c, n)) + 1
           /\ e.sku = Item(c, n).sku /\ e.quantity = Item(c, n).quantity
           /\ e.reservation.checkout = c /\ e.reservation.item = Here(c, n).item
           /\ e.key = ReserveKey(c, Here(c, n).item)
  <1> DEFINE r == Here(c, n)
             reservation == MintedBy(c, n, r.item)
             type == IF r.seen.available < Item(c, n).quantity
                     THEN "InventoryReservationRejected" ELSE "InventoryReserved"
             version == r.seen.version + (IF Backend[c] = "go" THEN 2 ELSE 1)
             key == [kind |-> "reserve", checkout |-> c, item |-> r.item, call |-> 0]
  <1>1. /\ Item(c, n).sku \in Skus /\ Item(c, n).quantity \in Nat
        /\ r.item \in Nat /\ n \in Nat /\ r \in CallRecord(c)
    BY CallFacts
  <1>2. r.seen.version \in Nat /\ r.seen.available \in Nat
    BY <1>1 DEF CallRecord
  <1>3. e = [type |-> type, sku |-> Item(c, n).sku, version |-> version,
             reservation |-> reservation, quantity |-> Item(c, n).quantity, key |-> key]
    BY DEF Decision, SkuEvent
  <1>4. /\ reservation \in Reservation /\ key \in Keys
        /\ reservation.checkout = c /\ reservation.item = r.item /\ key = ReserveKey(c, r.item)
    BY <1>1 DEF MintedBy, Reservation, Keys, ReserveKey
  <1>5. version = Base(c, r) + 1 /\ version \in Nat
    BY <1>2 DEF Base
  <1>6. /\ type \in Outcomes
        /\ type = "InventoryReserved" => Item(c, n).quantity <= r.seen.available
    BY <1>1, <1>2 DEF Outcomes
  <1> HIDE DEF reservation, key, version, type, r
  <1>7. e \in Event
    BY <1>1, <1>3, <1>4, <1>5, <1>6 DEF Event, Outcomes
  <1> QED
    BY <1>3, <1>4, <1>5, <1>6, <1>7 DEF r

\* Reading a stream.
LEMMA ReadSkuKeeps ==
    ASSUME SingleGoCalls, IInv, NEW c \in Checkouts, NEW n \in DOMAIN call[c], ReadSku(c, n)
    PROVE  IInv'
  <1> DEFINE r == Here(c, n)
             s == Item(c, n).sku
             step == IF Backend[c] = "go" THEN "request" ELSE "reserve"
             q == [r EXCEPT !.step = step, !.seen = Replay(s)]
  <1>1. r.step = "read" /\ Goto(c, n, q) /\ events' = events
    BY DEF ReadSku, At
  <1>2. /\ r \in CallRecord(c) /\ CallOK(c, r) /\ FreshOK(c, r)
        /\ s = Items[c][r.item].sku /\ s \in Skus
    BY CallFacts
  <1>3. /\ Replay(s) \in [available : Nat, version : Nat]
        /\ Replay(s).available = OnHand[s] - UnitsOf(Held(s))
        /\ Replay(s).version = Cardinality(Stream(s))
    BY <1>2, ReplayType
  <1>4. Cardinality(Stream(s)) \in Nat
    BY StreamType DEF IInv, StreamInv
  <1> HIDE DEF r, s
  <1>5. /\ q \in CallRecord(c) /\ q.step = step /\ q.seen = Replay(s)
        /\ q.item = r.item /\ q.outcomes = r.outcomes
    BY <1>2, <1>3 DEF CallRecord, Steps
  <1> HIDE DEF q
  <1>6. CallOK(c, q)
    BY <1>1, <1>2, <1>5 DEF CallOK
  <1>7. SeenOK(c, q)
    <2>1. Base(c, q) = Cardinality(Stream(s))
      BY <1>3, <1>4, <1>5 DEF Base
    <2> QED
      BY <1>2, <1>3, <1>4, <1>5, <2>1 DEF SeenOK
  <1>8. FreshOK(c, q)
    BY <1>1, <1>2, <1>5 DEF FreshOK
  <1> QED
    BY <1>1, <1>5, <1>6, <1>7, <1>8, RecordSame, StepKeepsInvariant

\* go-backend appends the request first: the stream grows by an event that holds nothing.
LEMMA RequestReservationKeeps ==
    ASSUME SingleGoCalls, IInv, NEW c \in Checkouts, NEW n \in DOMAIN call[c],
           RequestReservation(c, n)
    PROVE  IInv'
  <1> PICK r : r = Here(c, n)
    OBVIOUS
  <1> PICK s : s = Item(c, n).sku
    OBVIOUS
  <1> PICK e : e = Requested(c, n)
    OBVIOUS
  <1> PICK q : q = [r EXCEPT !.step = "reserve"]
    OBVIOUS
  <1>1. r.step = "request" /\ Goto(c, n, q) /\ Append1(e)
    BY DEF RequestReservation, At
  <1>2. /\ r \in CallRecord(c) /\ CallOK(c, r) /\ SeenOK(c, r) /\ FreshOK(c, r)
        /\ s = Items[c][r.item].sku /\ s \in Skus /\ r.item \in Nat
    BY CallFacts
  <1>3. r.seen.version \in Nat /\ r.seen.available \in Nat
    BY <1>2 DEF CallRecord
  <1>4. /\ e \in Event /\ e.type = "InventoryReservationRequested" /\ e.sku = s
        /\ e.version = r.seen.version + 1
        /\ e.key = [kind |-> "requested", checkout |-> c, item |-> r.item, call |-> 0]
    BY RequestedType
  <1>5. Cardinality(Stream(s)) \in Nat
    BY StreamType DEF IInv, StreamInv
  <1>6. Backend[c] = "go"
    BY <1>1, <1>2 DEF SeenOK
  <1>7. ~KeyTaken(e)
    <2>1. e.key.kind = "requested" /\ e.key.checkout = c /\ e.key.item = r.item
      BY <1>4
    <2>2. ASSUME NEW f \in events, f.key = e.key PROVE FALSE
      BY <1>1, <1>2, <1>6, <2>1, <2>2 DEF FreshOK
    <2> QED
      BY <2>2 DEF KeyTaken
  <1>8. ~VersionTaken(e) /\ events' = events \cup {e}
    BY <1>1, <1>7 DEF Append1, AppendThrows
  <1>9. /\ r.seen.version <= Cardinality(Stream(s))
        /\ r.seen.version = Cardinality(Stream(s)) => r.seen.available = OnHand[s] - UnitsOf(Held(s))
    <2>1. Base(c, r) = r.seen.version
      BY <1>1, <1>3 DEF Base
    <2> QED
      BY <1>1, <1>2, <2>1 DEF SeenOK
  <1>10. e.version = Cardinality(Stream(s)) + 1 /\ r.seen.version = Cardinality(Stream(s))
    BY <1>2, <1>3, <1>4, <1>8, <1>9, NextVersion
  <1>11. Adds(c, e)
    <2>1. EventOK(e)
      BY <1>4 DEF EventOK, Outcomes
    <2> QED
      BY <1>2, <1>4, <1>7, <1>8, <1>10, <2>1 DEF Adds
  <1>12. /\ q \in CallRecord(c) /\ q.step = "reserve" /\ q.seen = r.seen
         /\ q.item = r.item /\ q.outcomes = r.outcomes
    BY <1>2 DEF CallRecord, Steps
  <1>13. CallOK(c, q)'
    <2>1. CallOK(c, q)
      BY <1>1, <1>2, <1>12 DEF CallOK
    <2> QED
      BY <1>11, <1>12, <2>1, RecordKept DEF IInv
  <1>14. SeenOK(c, q)'
    <2>1. Held(s)' = Held(s)
      BY <1>4, <1>11, HeldAfter
    <2>2. Cardinality(Stream(s)') = Cardinality(Stream(s)) + 1
      BY <1>4, <1>11, StreamAfter DEF IInv, StreamInv
    <2>3. Base(c, q) = Cardinality(Stream(s)')
      BY <1>5, <1>6, <1>10, <1>12, <2>2 DEF Base
    <2>4. Base(c, q)' = Base(c, q)
      BY DEF Base
    <2>5. q.seen.available = OnHand[s] - UnitsOf(Held(s)')
      BY <1>9, <1>10, <1>12, <2>1
    <2>6. Cardinality(Stream(s)') \in Nat
      BY <1>5, <2>2
    <2> QED
      BY <1>2, <1>12, <2>3, <2>4, <2>5, <2>6 DEF SeenOK
  <1>15. FreshOK(c, q)'
    <2> SUFFICES ASSUME NEW f \in events', f.key.checkout = c, f.key.item >= q.item
                 PROVE  /\ f.key.kind # "reserve"
                        /\ f.key.kind = "requested" => f.key.item = q.item
      BY <1>12 DEF FreshOK
    <2>1. CASE f = e
      BY <1>4, <1>12, <2>1
    <2>2. CASE f \in events
      BY <1>1, <1>2, <1>6, <1>12, <2>2 DEF FreshOK
    <2> QED
      BY <1>8, <2>1, <2>2
  <1> QED
    BY <1>1, <1>11, <1>12, <1>13, <1>14, <1>15, StepKeepsInvariant

\* Where a call goes on that has looked for reservations to release from position i on.
LEMMA ReleaseFromOK ==
    ASSUME NEW c \in Checkouts, NEW r \in CallRecord(c), NEW i \in Nat \ {0},
           \A j \in DOMAIN r.outcomes : r.outcomes[j] \in events' /\ r.outcomes[j].key = ReserveKey(c, j),
           Len(r.outcomes) = Len(Items[c]), Rejects(r.outcomes),
           \A j \in DOMAIN r.outcomes : j < i => GivenBack(r.outcomes[j])',
           NEW q, q = ReleaseFrom(r, i)
    PROVE  /\ q \in CallRecord(c) /\ CallOK(c, q)' /\ q.step \in {"readRelease", "rejected"}
  <1> DEFINE L == Len(Items[c])
  <1>1. L \in Nat /\ DOMAIN Items[c] = 1 .. L
    BY CartType
  <1>2. DOMAIN r.outcomes = 1 .. L /\ r.outcomes \in Seq(Event)
    BY <1>1 DEF CallRecord
  <1>3. CASE NextReserved(r.outcomes, i) = {}
    <2>1. q = [r EXCEPT !.step = "rejected"]
      BY <1>3 DEF ReleaseFrom
    <2>2. q \in CallRecord(c) /\ q.step = "rejected" /\ q.outcomes = r.outcomes
      BY <2>1 DEF CallRecord, Steps
    <2>3. \A j \in i .. L : r.outcomes[j].type # "InventoryReserved"
      BY <1>1, <1>3, NothingToRelease
    <2>4. \A j \in DOMAIN r.outcomes : GivenBack(r.outcomes[j])'
      BY <1>1, <1>2, <2>3 DEF GivenBack
    <2>5. CallOK(c, q)'
      BY <2>2, <2>4 DEF CallOK
    <2> QED
      BY <2>2, <2>5
  <1>4. CASE NextReserved(r.outcomes, i) # {}
    <2> DEFINE k == CHOOSE j \in NextReserved(r.outcomes, i) : TRUE
    <2>1. q = [r EXCEPT !.step = "readRelease", !.item = k]
      BY <1>4 DEF ReleaseFrom
    <2>2. k \in NextReserved(r.outcomes, i)
      BY <1>4
    <2> HIDE DEF k
    <2>3. /\ k \in i .. L /\ r.outcomes[k].type = "InventoryReserved"
          /\ \A j \in i .. k - 1 : r.outcomes[j].type # "InventoryReserved"
      BY <2>2 DEF NextReserved
    <2>4. k \in 1 .. L
      BY <1>1, <2>3
    <2>5. /\ q \in CallRecord(c) /\ q.step = "readRelease" /\ q.outcomes = r.outcomes /\ q.item = k
      BY <1>1, <2>1, <2>4 DEF CallRecord, Steps
    <2>6. \A j \in 1 .. k - 1 : GivenBack(r.outcomes[j])'
      BY <1>1, <1>2, <2>3, <2>4 DEF GivenBack
    <2>7. CallOK(c, q)'
      BY <2>3, <2>5, <2>6 DEF CallOK
    <2> QED
      BY <2>5, <2>7
  <1> QED
    BY <1>3, <1>4

\* The decision about an item.
LEMMA ReserveInventoryKeeps ==
    ASSUME SingleGoCalls, IInv, NEW c \in Checkouts, NEW n \in DOMAIN call[c],
           ReserveInventory(c, n)
    PROVE  IInv'
  <1> PICK r : r = Here(c, n)
    OBVIOUS
  <1> PICK s : s = Item(c, n).sku
    OBVIOUS
  <1> PICK e : e = Decision(c, n)
    OBVIOUS
  <1> PICK o : o = OutcomeOf(c, e)
    OBVIOUS
  <1> PICK p : p = [r EXCEPT !.outcomes = Append(@, o)]
    OBVIOUS
  <1> PICK q : q = IF p.item < Len(Items[c]) THEN [p EXCEPT !.step = "read", !.item = @ + 1]
                   ELSE IF Rejects(p.outcomes) THEN ReleaseFrom(p, 1)
                   ELSE [p EXCEPT !.step = "pay"]
    OBVIOUS
  <1>1. r.step = "reserve" /\ Append1(e) /\ Goto(c, n, q)
    BY DEF ReserveInventory, At
  <1>2. /\ r \in CallRecord(c) /\ CallOK(c, r) /\ SeenOK(c, r) /\ FreshOK(c, r)
        /\ s = Items[c][r.item].sku /\ s \in Skus
        /\ r.item \in 1 .. Len(Items[c]) /\ Len(Items[c]) \in Nat
        /\ Item(c, n) = Items[c][r.item] /\ Item(c, n).quantity \in Nat
    BY CallFacts
  <1>3. r.seen.version \in Nat /\ r.seen.available \in Nat /\ r.outcomes \in Seq(Event)
    BY <1>2 DEF CallRecord
  <1>4. /\ e \in Event /\ e.type \in Outcomes
        /\ e.type = "InventoryReserved" => e.quantity <= r.seen.available
        /\ e.version = Base(c, r) + 1
        /\ e.sku = s /\ e.quantity = Items[c][r.item].quantity
        /\ e.reservation.checkout = c /\ e.reservation.item = r.item
        /\ e.key = ReserveKey(c, r.item)
    BY <1>1, <1>2, DecisionType
  <1>5. e.key.kind = "reserve" /\ e.key.checkout = c /\ e.key.item = r.item
    BY <1>4 DEF ReserveKey
  <1>6. Backend[c] = "go" => ~KeyTaken(e)
    <2>1. ASSUME Backend[c] = "go", NEW f \in events, f.key = e.key PROVE FALSE
      BY <1>1, <1>2, <1>5, <2>1 DEF FreshOK
    <2> QED
      BY <2>1 DEF KeyTaken
  <1>7. /\ o \in Event /\ o \in events' /\ o.key = ReserveKey(c, r.item)
        /\ events' = IF KeyTaken(e) THEN events ELSE events \cup {e}
    <2>1. events' = IF KeyTaken(e) THEN events ELSE events \cup {e}
      BY <1>1 DEF Append1
    <2>2. CASE KeyTaken(e)
      <3>1. o = Stored(e)
        BY <1>6, <2>2, CartAssumption DEF OutcomeOf
      <3>2. Stored(e) \in events /\ Stored(e).key = e.key
        BY <2>2 DEF KeyTaken, Stored
      <3> QED
        BY <1>4, <2>1, <2>2, <3>1, <3>2 DEF IInv, TypeOK
    <2>3. CASE ~KeyTaken(e)
      <3>1. o = e
        BY <2>3 DEF OutcomeOf
      <3> QED
        BY <1>4, <2>1, <2>3, <3>1
    <2> QED
      BY <2>1, <2>2, <2>3
  <1>8. events' = events \/ Adds(c, e)
    <2>1. CASE KeyTaken(e)
      BY <1>7, <2>1
    <2>2. CASE ~KeyTaken(e)
      <3>1. ~VersionTaken(e)
        BY <1>1, <2>2 DEF Append1, AppendThrows
      <3>2. /\ Base(c, r) <= Cardinality(Stream(s))
            /\ Base(c, r) = Cardinality(Stream(s)) => r.seen.available = OnHand[s] - UnitsOf(Held(s))
        BY <1>1, <1>2 DEF SeenOK
      <3>3. Base(c, r) \in Nat
        BY <1>3 DEF Base
      <3>4. e.version = Cardinality(Stream(s)) + 1 /\ Base(c, r) = Cardinality(Stream(s))
        BY <1>2, <1>4, <3>1, <3>2, <3>3, NextVersion
      <3>5. EventOK(e)
        BY <1>2, <1>4, <1>5, CartType DEF EventOK, Outcomes
      <3> QED
        BY <1>2, <1>4, <1>5, <1>7, <2>2, <3>2, <3>4, <3>5 DEF Adds
    <2> QED
      BY <2>1, <2>2
  <1>9. /\ p \in CallRecord(c) /\ p.item = r.item /\ p.seen = r.seen
        /\ p.outcomes = Append(r.outcomes, o) /\ p.outcomes \in Seq(Event)
    <2>1. Append(r.outcomes, o) \in Seq(Event)
      BY <1>3, <1>7
    <2>2. p = [r EXCEPT !.outcomes = Append(r.outcomes, o)]
      OBVIOUS
    <2> QED
      BY <1>2, <2>1, <2>2 DEF CallRecord
  <1>10. /\ Len(p.outcomes) = r.item /\ DOMAIN p.outcomes = 1 .. r.item
         /\ \A j \in DOMAIN p.outcomes :
               p.outcomes[j] \in events' /\ p.outcomes[j].key = ReserveKey(c, j)
    <2>1. Len(r.outcomes) = r.item - 1
      BY <1>1, <1>2 DEF CallOK
    <2>2. /\ Len(p.outcomes) = r.item
          /\ \A j \in 1 .. r.item : p.outcomes[j] = IF j = r.item THEN o ELSE r.outcomes[j]
      BY <1>2, <1>3, <1>7, <1>9, <2>1
    <2>3. \A j \in 1 .. r.item - 1 : r.outcomes[j] \in events' /\ r.outcomes[j].key = ReserveKey(c, j)
      BY <1>2, <1>3, <1>7, <2>1 DEF CallOK
    <2> QED
      BY <1>2, <1>7, <1>9, <2>2, <2>3
  <1>11. CASE r.item < Len(Items[c])
    <2>1. /\ q \in CallRecord(c) /\ q.step = "read" /\ q.item = r.item + 1 /\ q.outcomes = p.outcomes
      <3>1. q = [p EXCEPT !.step = "read", !.item = r.item + 1]
        BY <1>9, <1>11
      <3>2. r.item + 1 \in DOMAIN Items[c]
        BY <1>2, <1>11, CartType
      <3> QED
        BY <1>9, <3>1, <3>2 DEF CallRecord, Steps
    <2>2. CallOK(c, q)'
      <3>1. Len(q.outcomes) = q.item - 1
        BY <1>2, <1>10, <2>1
      <3>2. \A j \in DOMAIN q.outcomes :
               q.outcomes[j] \in events' /\ q.outcomes[j].key = ReserveKey(c, j)
        BY <1>10, <2>1
      <3> QED
        BY <2>1, <3>1, <3>2 DEF CallOK
    <2>3. SeenOK(c, q)'
      BY <2>1 DEF SeenOK
    <2>4. FreshOK(c, q)'
      <3> SUFFICES ASSUME Backend[c] = "go", NEW f \in events', f.key.checkout = c,
                          f.key.item >= r.item + 1
                   PROVE  f.key.kind # "reserve" /\ f.key.kind # "requested"
        BY <2>1 DEF FreshOK
      <3>1. f \in events /\ f.key.item \in Nat
        <4>1. f # e
          BY <1>2, <1>5
        <4>2. f \in events
          BY <1>7, <4>1
        <4> QED
          BY <4>2 DEF IInv, TypeOK, Event, Keys
      <3>2. f.key.item >= r.item /\ f.key.item # r.item
        BY <1>2, <3>1
      <3> QED
        BY <1>1, <1>2, <3>1, <3>2 DEF FreshOK
    <2> QED
      BY <1>1, <1>8, <2>1, <2>2, <2>3, <2>4, StepKeepsInvariant
  <1>12. CASE r.item = Len(Items[c]) /\ Rejects(p.outcomes)
    <2>1. q = ReleaseFrom(p, 1)
      BY <1>2, <1>9, <1>12
    <2>2. q \in CallRecord(c) /\ CallOK(c, q)' /\ q.step \in {"readRelease", "rejected"}
      <3>1. \A j \in DOMAIN p.outcomes : j < 1 => GivenBack(p.outcomes[j])'
        BY <1>2, <1>10
      <3>2. Len(p.outcomes) = Len(Items[c]) /\ Rejects(p.outcomes)
        BY <1>10, <1>12
      <3>3. 1 \in Nat \ {0}
        OBVIOUS
      <3> QED
        BY <1>9, <1>10, <2>1, <3>1, <3>2, <3>3, ReleaseFromOK
    <2>3. SeenOK(c, q)' /\ FreshOK(c, q)'
      BY <2>2 DEF SeenOK, FreshOK
    <2> QED
      BY <1>1, <1>8, <2>2, <2>3, StepKeepsInvariant
  <1>13. CASE r.item = Len(Items[c]) /\ ~Rejects(p.outcomes)
    <2>1. q \in CallRecord(c) /\ q.step = "pay" /\ q.outcomes = p.outcomes
      <3>1. q = [p EXCEPT !.step = "pay"]
        BY <1>2, <1>9, <1>13
      <3> QED
        BY <1>9, <3>1 DEF CallRecord, Steps
    <2>2. CallOK(c, q)'
      BY <1>10, <1>13, <2>1 DEF CallOK
    <2>3. SeenOK(c, q)' /\ FreshOK(c, q)'
      BY <2>1 DEF SeenOK, FreshOK
    <2> QED
      BY <1>1, <1>8, <2>1, <2>2, <2>3, StepKeepsInvariant
  <1> QED
    BY <1>2, <1>11, <1>12, <1>13

\* The outcome at the cursor of a call that gives back: a reservation that is stored.
LEMMA ReservationToRelease ==
    ASSUME IInv, NEW c \in Checkouts, NEW n \in DOMAIN call[c],
           Here(c, n).step \in {"readRelease", "release"},
           NEW o, o = Here(c, n).outcomes[Here(c, n).item]
    PROVE  /\ o \in events /\ o.type = "InventoryReserved" /\ o.key = ReserveKey(c, Here(c, n).item)
           /\ o.sku \in Skus /\ o.sku = Items[c][Here(c, n).item].sku
           /\ o.reservation = [checkout |-> c, call |-> o.reservation.call, item |-> Here(c, n).item]
  <1> PICK r : r = Here(c, n)
    OBVIOUS
  <1>1. /\ r \in CallRecord(c) /\ CallOK(c, r)
        /\ r.item \in 1 .. Len(Items[c]) /\ Len(Items[c]) \in Nat
    BY CallFacts
  <1>2. /\ DOMAIN r.outcomes = 1 .. Len(Items[c])
        /\ r.outcomes[r.item].type = "InventoryReserved"
        /\ \A j \in DOMAIN r.outcomes : r.outcomes[j] \in events /\ r.outcomes[j].key = ReserveKey(c, j)
    BY <1>1 DEF CallOK, CallRecord
  <1>3. o \in events /\ o.key = ReserveKey(c, r.item) /\ o.type = "InventoryReserved"
    BY <1>1, <1>2
  <1>4. o \in Event /\ EventOK(o)
    BY <1>3 DEF IInv, TypeOK, EventsInv
  <1>5. o.key.kind = "reserve" /\ o.key.checkout = c /\ o.key.item = r.item
    BY <1>3 DEF ReserveKey
  <1>6. /\ r.item \in DOMAIN Items[c] /\ o.sku = Items[c][r.item].sku
        /\ o.reservation.checkout = c /\ o.reservation.item = r.item
    BY <1>4, <1>5 DEF EventOK
  <1>7. o.sku \in Skus
    BY <1>6, CartType
  <1>8. o.reservation \in Reservation
    BY <1>4 DEF Event
  <1>9. o.reservation = [checkout |-> c, call |-> o.reservation.call, item |-> r.item]
    BY <1>6, <1>8 DEF Reservation
  <1> QED
    BY <1>3, <1>6, <1>7, <1>9

\* The fields of InventoryReservationReleased for it, in a checkout with a rejected item.
LEMMA ReleaseType ==
    ASSUME IInv, NEW c \in Checkouts, NEW n \in DOMAIN call[c],
           Here(c, n).step = "release",
           NEW o, o = Here(c, n).outcomes[Here(c, n).item], NEW e, e = Release(c, n)
    PROVE  /\ e \in Event /\ e.type = "InventoryReservationReleased"
           /\ e.version = Here(c, n).seen.version + 1 /\ e.sku = o.sku
           /\ e.reservation = o.reservation
           /\ e.key = [kind |-> "release", checkout |-> c, item |-> Here(c, n).item,
                       call |-> o.reservation.call]
           /\ \E f \in events : f.type = "InventoryReservationRejected" /\ f.key.checkout = c
  <1> PICK r : r = Here(c, n)
    OBVIOUS
  <1>1. r \in CallRecord(c) /\ CallOK(c, r) /\ r.item \in Nat
    BY CallFacts
  <1>2. o \in events /\ o.reservation = [checkout |-> c, call |-> o.reservation.call, item |-> r.item]
    BY ReservationToRelease
  <1>3. o \in Event /\ o.reservation \in Reservation /\ o.reservation.item = r.item
    BY <1>2 DEF IInv, TypeOK, Event
  <1> PICK key : key = [kind |-> "release", checkout |-> c, item |-> r.item, call |-> o.reservation.call]
    OBVIOUS
  <1>4. key \in Keys
    BY <1>1, <1>3 DEF Reservation, Keys
  <1>5. e = [o EXCEPT !.type = "InventoryReservationReleased", !.version = r.seen.version + 1, !.key = key]
    BY <1>3 DEF Release
  <1>6. r.seen.version + 1 \in Nat
    BY <1>1 DEF CallRecord
  <1>7. /\ e \in Event /\ e.type = "InventoryReservationReleased" /\ e.version = r.seen.version + 1
        /\ e.sku = o.sku /\ e.reservation = o.reservation /\ e.key = key
    BY <1>3, <1>4, <1>5, <1>6 DEF Event
  <1>8. \E f \in events : f.type = "InventoryReservationRejected" /\ f.key.checkout = c
    <2>1. Rejects(r.outcomes)
      BY <1>1 DEF CallOK
    <2>2. PICK j \in DOMAIN r.outcomes : r.outcomes[j].type = "InventoryReservationRejected"
      BY <2>1 DEF Rejects
    <2>3. r.outcomes[j] \in events /\ r.outcomes[j].key = ReserveKey(c, j)
      BY <1>1 DEF CallOK
    <2>4. ReserveKey(c, j).checkout = c
      BY DEF ReserveKey
    <2> QED
      BY <2>2, <2>3, <2>4
  <1> QED
    BY <1>7, <1>8

\* Reading the stream of a reservation to be released.
LEMMA ReadSkuForReleaseKeeps ==
    ASSUME SingleGoCalls, IInv, NEW c \in Checkouts, NEW n \in DOMAIN call[c],
           ReadSkuForRelease(c, n)
    PROVE  IInv'
  <1> PICK r : r = Here(c, n)
    OBVIOUS
  <1> PICK s : s = r.outcomes[r.item].sku
    OBVIOUS
  <1> PICK seen : seen = Replay(s)
    OBVIOUS
  <1> PICK q : q = [r EXCEPT !.step = "release", !.seen = seen]
    OBVIOUS
  <1>1. r.step = "readRelease" /\ Goto(c, n, q) /\ events' = events
    BY DEF ReadSkuForRelease, At
  <1>2. r \in CallRecord(c) /\ CallOK(c, r)
    BY CallFacts
  <1>3. s \in Skus
    <2> PICK o : o = r.outcomes[r.item]
      OBVIOUS
    <2>1. o.sku \in Skus
      BY <1>1, ReservationToRelease
    <2> QED
      BY <2>1
  <1>4. seen \in [available : Nat, version : Nat] /\ seen.version = Cardinality(Stream(s))
    BY <1>3, ReplayType
  <1>5. /\ q \in CallRecord(c) /\ q.step = "release" /\ q.seen = seen
        /\ q.item = r.item /\ q.outcomes = r.outcomes
    BY <1>2, <1>4 DEF CallRecord, Steps
  <1>6. CallOK(c, q)
    BY <1>1, <1>2, <1>5 DEF CallOK
  <1>7. SeenOK(c, q)
    <2>1. Cardinality(Stream(s)) \in Nat
      BY StreamType DEF IInv, StreamInv
    <2> QED
      BY <1>4, <1>5, <2>1 DEF SeenOK
  <1>8. FreshOK(c, q)
    BY <1>5 DEF FreshOK
  <1> QED
    BY <1>1, <1>5, <1>6, <1>7, <1>8, RecordSame, StepKeepsInvariant

\* The release of a reservation, by this call or found done.
LEMMA ReleaseReservationKeeps ==
    ASSUME SingleGoCalls, IInv, NEW c \in Checkouts, NEW n \in DOMAIN call[c],
           ReleaseReservation(c, n)
    PROVE  IInv'
  <1> PICK r : r = Here(c, n)
    OBVIOUS
  <1> PICK o : o = r.outcomes[r.item]
    OBVIOUS
  <1> PICK e : e = Release(c, n)
    OBVIOUS
  <1> PICK q : q = ReleaseFrom(r, r.item + 1)
    OBVIOUS
  <1>1. r.step = "release" /\ Append1(e) /\ Goto(c, n, q)
    BY DEF ReleaseReservation, At
  <1>2. /\ r \in CallRecord(c) /\ CallOK(c, r) /\ SeenOK(c, r)
        /\ r.item \in 1 .. Len(Items[c]) /\ Len(Items[c]) \in Nat
    BY CallFacts
  <1>3. /\ o \in events /\ o.type = "InventoryReserved" /\ o.key = ReserveKey(c, r.item)
        /\ o.sku \in Skus /\ o.sku = Items[c][r.item].sku
        /\ e \in Event /\ e.type = "InventoryReservationReleased"
        /\ e.version = r.seen.version + 1 /\ e.sku = o.sku
        /\ e.reservation = o.reservation
        /\ e.key = [kind |-> "release", checkout |-> c, item |-> r.item, call |-> o.reservation.call]
        /\ e.reservation = [checkout |-> c, call |-> e.key.call, item |-> r.item]
        /\ \E f \in events : f.type = "InventoryReservationRejected" /\ f.key.checkout = c
    <2>1. /\ o \in events /\ o.type = "InventoryReserved" /\ o.key = ReserveKey(c, r.item)
          /\ o.sku \in Skus /\ o.sku = Items[c][r.item].sku
          /\ o.reservation = [checkout |-> c, call |-> o.reservation.call, item |-> r.item]
      BY <1>1, ReservationToRelease
    <2>2. /\ e \in Event /\ e.type = "InventoryReservationReleased"
          /\ e.version = r.seen.version + 1 /\ e.sku = o.sku
          /\ e.reservation = o.reservation
          /\ e.key = [kind |-> "release", checkout |-> c, item |-> r.item,
                      call |-> o.reservation.call]
          /\ \E f \in events : f.type = "InventoryReservationRejected" /\ f.key.checkout = c
      BY <1>1, ReleaseType
    <2>3. e.key.call = o.reservation.call
      BY <2>2
    <2> QED
      BY <2>1, <2>2, <2>3
  <1>4. events' = IF KeyTaken(e) THEN events ELSE events \cup {e}
    BY <1>1 DEF Append1
  <1>5. ~KeyTaken(e) => Adds(c, e)
    <2> SUFFICES ASSUME ~KeyTaken(e) PROVE Adds(c, e)
      OBVIOUS
    <2>1. ~VersionTaken(e)
      BY <1>1 DEF Append1, AppendThrows
    <2>2. r.seen.version \in Nat /\ r.seen.version <= Cardinality(Stream(o.sku))
      BY <1>1, <1>2 DEF SeenOK, CallRecord
    <2>3. e.version = Cardinality(Stream(o.sku)) + 1
      BY <1>3, <2>1, <2>2, NextVersion
    <2>4. e.key.kind = "release" /\ e.key.checkout = c /\ e.key.item = r.item
      BY <1>3
    <2>5. r.item \in DOMAIN Items[c]
      BY <1>2, CartType
    <2>6. EventOK(e)
      BY <1>3, <2>4, <2>5 DEF EventOK, Outcomes
    <2> QED
      BY <1>3, <1>4, <2>3, <2>4, <2>6 DEF Adds
  <1>6. events' = events \/ Adds(c, e)
    BY <1>4, <1>5
  <1>7. \A x : GivenBack(x) => GivenBack(x)'
    <2>1. CASE events' = events
      <3>1. \A s : Stream(s)' = Stream(s)
        BY <2>1 DEF Stream
      <3>2. \A s : Released(s)' = Released(s)
        BY <3>1 DEF Released
      <3> QED
        BY <3>2 DEF GivenBack
    <2>2. CASE Adds(c, e)
      <3> SUFFICES ASSUME NEW x, GivenBack(x) PROVE GivenBack(x)'
        OBVIOUS
      <3>1. Released(x.sku) \subseteq Released(x.sku)'
        BY <2>2, HeldAfter
      <3> QED
        BY <3>1 DEF GivenBack
    <2> QED
      BY <1>6, <2>1, <2>2
  <1>8. GivenBack(o)'
    <2>1. CASE KeyTaken(e)
      <3>1. PICK f \in events : f.key = e.key
        BY <2>1 DEF KeyTaken
      <3>2. EventOK(f)
        BY DEF IInv, EventsInv
      <3>3. f.key.kind = "release" /\ f.key.checkout = c /\ f.key.item = r.item
        BY <1>3, <3>1
      <3>4. f.type = "InventoryReservationReleased" /\ f.sku = o.sku
        BY <1>3, <3>2, <3>3 DEF EventOK
      <3>5. f.reservation = [checkout |-> c, call |-> f.key.call, item |-> r.item]
        BY <3>2, <3>3 DEF EventOK
      <3>6. f.reservation = o.reservation
        BY <1>3, <3>1, <3>5
      <3>7. o.reservation \in Released(o.sku)
        BY <3>4, <3>6 DEF Released, Stream
      <3> QED
        BY <1>7, <3>7 DEF GivenBack
    <2>2. CASE ~KeyTaken(e)
      <3>1. o.reservation \in Released(o.sku)'
        BY <1>3, <1>5, <2>2, HeldAfter
      <3> QED
        BY <3>1 DEF GivenBack
    <2> QED
      BY <2>1, <2>2
  <1>9. /\ Len(r.outcomes) = Len(Items[c]) /\ Rejects(r.outcomes)
        /\ DOMAIN r.outcomes = 1 .. Len(Items[c])
        /\ \A j \in 1 .. r.item - 1 : GivenBack(r.outcomes[j])
    BY <1>1, <1>2 DEF CallOK, CallRecord
  <1>10. \A j \in DOMAIN r.outcomes : j < r.item + 1 => GivenBack(r.outcomes[j])'
    <2> SUFFICES ASSUME NEW j \in DOMAIN r.outcomes, j < r.item + 1 PROVE GivenBack(r.outcomes[j])'
      OBVIOUS
    <2> PICK x : x = r.outcomes[j]
      OBVIOUS
    <2>1. j \in 1 .. r.item - 1 \/ j = r.item
      BY <1>2, <1>9
    <2>2. GivenBack(x)'
      BY <1>7, <1>8, <1>9, <2>1
    <2> QED
      BY <2>2
  <1>11. \A j \in DOMAIN r.outcomes :
            r.outcomes[j] \in events' /\ r.outcomes[j].key = ReserveKey(c, j)
    BY <1>2, <1>4 DEF CallOK
  <1>12. q \in CallRecord(c) /\ CallOK(c, q)' /\ q.step \in {"readRelease", "rejected"}
    <2>1. r.item + 1 \in Nat \ {0}
      BY <1>2
    <2> QED
      BY <1>2, <1>9, <1>10, <1>11, <2>1, ReleaseFromOK
  <1>13. SeenOK(c, q)' /\ FreshOK(c, q)'
    BY <1>12 DEF SeenOK, FreshOK
  <1> QED
    BY <1>1, <1>6, <1>12, <1>13, StepKeepsInvariant

\* The payment request or the confirmation of a checkout whose items are all reserved.
LEMMA CheckoutEventKeeps ==
    ASSUME SingleGoCalls, IInv, NEW c \in Checkouts, NEW n \in DOMAIN call[c],
           NEW e,
           \/ e = CheckoutEvent(c, n, "PaymentRequested", "payment")
           \/ e = CheckoutEvent(c, n, "OrderConfirmed", "order"),
           Here(c, n).step \in {"pay", "confirm"}, Append1(e),
           NEW step \in {"confirm", "confirmed"},
           Goto(c, n, [Here(c, n) EXCEPT !.step = step])
    PROVE  IInv'
  <1> PICK r : r = Here(c, n)
    OBVIOUS
  <1> PICK q : q = [r EXCEPT !.step = step]
    OBVIOUS
  <1>1. /\ r \in CallRecord(c) /\ CallOK(c, r) /\ n \in Nat
        /\ Len(Items[c]) \in Nat
    BY CallFacts
  <1>2. /\ DOMAIN r.outcomes = 1 .. Len(Items[c]) /\ Len(r.outcomes) = Len(Items[c])
        /\ ~Rejects(r.outcomes)
        /\ \A j \in DOMAIN r.outcomes : r.outcomes[j] \in events /\ r.outcomes[j].key = ReserveKey(c, j)
    BY <1>1 DEF CallOK, CallRecord
  <1>3. /\ e \in Event /\ e.sku = Null /\ e.key.checkout = c
        /\ \/ e.type = "PaymentRequested" /\ e.key.kind = "payment"
           \/ e.type = "OrderConfirmed" /\ e.key.kind = "order"
    <2> PICK reservation : reservation = MintedBy(c, n, 0)
      OBVIOUS
    <2> PICK pay : pay = [kind |-> "payment", checkout |-> c, item |-> 0, call |-> 0]
      OBVIOUS
    <2> PICK order : order = [kind |-> "order", checkout |-> c, item |-> 0, call |-> 0]
      OBVIOUS
    <2>1. reservation \in Reservation /\ pay \in Keys /\ order \in Keys
      BY <1>1 DEF MintedBy, Reservation, Keys
    <2>2. pay.kind = "payment" /\ pay.checkout = c /\ order.kind = "order" /\ order.checkout = c
      OBVIOUS
    <2>3. \/ e = [type |-> "PaymentRequested", sku |-> Null, version |-> 1,
                  reservation |-> reservation, quantity |-> 0, key |-> pay]
          \/ e = [type |-> "OrderConfirmed", sku |-> Null, version |-> 1,
                  reservation |-> reservation, quantity |-> 0, key |-> order]
      BY DEF CheckoutEvent
    <2> QED
      BY <2>1, <2>2, <2>3 DEF Event
  <1>4. events' = IF KeyTaken(e) THEN events ELSE events \cup {e}
    BY DEF Append1
  <1>5. \A j \in DOMAIN Items[c] :
           \E f \in events : f.type = "InventoryReserved" /\ f.key = ReserveKey(c, j)
    <2> SUFFICES ASSUME NEW j \in DOMAIN Items[c]
                 PROVE  \E f \in events : f.type = "InventoryReserved" /\ f.key = ReserveKey(c, j)
      OBVIOUS
    <2> PICK f : f = r.outcomes[j]
      OBVIOUS
    <2>1. j \in DOMAIN r.outcomes
      BY <1>2, CartType
    <2>2. f \in events /\ f.key = ReserveKey(c, j) /\ f.type # "InventoryReservationRejected"
      BY <1>2, <2>1 DEF Rejects
    <2>3. EventOK(f) /\ f.key.kind = "reserve"
      BY <2>2 DEF IInv, EventsInv, ReserveKey
    <2>4. f.type \in Outcomes
      BY <2>3 DEF EventOK
    <2> QED
      BY <2>2, <2>4 DEF Outcomes
  <1>6. events' = events \/ Adds(c, e)
    <2>1. CASE KeyTaken(e)
      BY <1>4, <2>1
    <2>2. CASE ~KeyTaken(e)
      <3>1. EventOK(e)
        BY <1>3, <1>5 DEF EventOK, Outcomes
      <3> QED
        BY <1>3, <1>4, <2>2, <3>1 DEF Adds
    <2> QED
      BY <2>1, <2>2
  <1>7. q \in CallRecord(c) /\ q.step = step /\ q.outcomes = r.outcomes
    BY <1>1 DEF CallRecord, Steps
  <1>8. CallOK(c, q)'
    <2>1. \A j \in DOMAIN q.outcomes : q.outcomes[j] \in events' /\ q.outcomes[j].key = ReserveKey(c, j)
      BY <1>2, <1>4, <1>7
    <2> QED
      BY <1>2, <1>7, <2>1 DEF CallOK
  <1>9. SeenOK(c, q)' /\ FreshOK(c, q)'
    BY <1>7 DEF SeenOK, FreshOK
  <1> QED
    BY <1>6, <1>7, <1>8, <1>9, StepKeepsInvariant

\* The payment is requested, the order is confirmed.
LEMMA PayAndConfirmKeep ==
    ASSUME SingleGoCalls, IInv, NEW c \in Checkouts, NEW n \in DOMAIN call[c],
           RequestPayment(c, n) \/ ConfirmOrder(c, n)
    PROVE  IInv'
  <1>1. CASE RequestPayment(c, n)
    BY <1>1, CheckoutEventKeeps DEF RequestPayment, At
  <1>2. CASE ConfirmOrder(c, n)
    BY <1>2, CheckoutEventKeeps DEF ConfirmOrder, At
  <1> QED
    BY <1>1, <1>2

\* A call that throws keeps what it has in hand.
LEMMA VersionConflictKeeps ==
    ASSUME SingleGoCalls, IInv, NEW c \in Checkouts, NEW n \in DOMAIN call[c],
           VersionConflict(c, n)
    PROVE  IInv'
  <1> PICK r : r = Here(c, n)
    OBVIOUS
  <1> PICK q : q = [r EXCEPT !.step = "threw"]
    OBVIOUS
  <1>1. Goto(c, n, q) /\ events' = events
    BY DEF VersionConflict
  <1>2. r \in CallRecord(c) /\ CallOK(c, r)
    BY CallFacts
  <1>3. q \in CallRecord(c) /\ q.step = "threw" /\ q.outcomes = r.outcomes
    BY <1>2 DEF CallRecord, Steps
  <1>4. CallOK(c, q) /\ SeenOK(c, q) /\ FreshOK(c, q)
    BY <1>2, <1>3 DEF CallOK, SeenOK, FreshOK
  <1> QED
    BY <1>1, <1>3, <1>4, RecordSame, StepKeepsInvariant

\* A call is made, for go-backend the first one.
LEMMA CompleteKeeps ==
    ASSUME SingleGoCalls, IInv, NEW c \in Checkouts, CompleteDemoCheckout(c)
    PROVE  IInv'
  <1> PICK q : q = [step |-> "read", item |-> 1, outcomes |-> <<>>,
                    seen |-> [available |-> 0, version |-> 0]]
    OBVIOUS
  <1>1. /\ Len(call[c]) < Calls[c] /\ events' = events
        /\ call' = [call EXCEPT ![c] = Append(call[c], q)]
    BY DEF CompleteDemoCheckout
  <1>2. TypeOK /\ StreamInv /\ EventsInv /\ CallsInv /\ NoOversell
    BY DEF IInv
  <1>3. q \in CallRecord(c)
    <2>1. 1 \in DOMAIN Items[c]
      BY CartType
    <2> QED
      BY <2>1 DEF CallRecord, Steps
  <1>4. \A d \in Checkouts : call[d] \in Seq(CallRecord(d)) /\ DOMAIN call[d] = 1 .. Len(call[d])
    BY <1>2 DEF TypeOK, CallRecord
  <1>5. Len(call[c]) \in Nat
    BY <1>4
  <1>6. /\ DOMAIN call' = Checkouts
        /\ \A d \in Checkouts : call'[d] = IF d = c THEN Append(call[c], q) ELSE call[d]
    BY <1>1, <1>2 DEF TypeOK
  <1>7. /\ Append(call[c], q) \in Seq(CallRecord(c)) /\ Len(Append(call[c], q)) = Len(call[c]) + 1
        /\ DOMAIN Append(call[c], q) = 1 .. Len(call[c]) + 1
        /\ \A m \in 1 .. Len(call[c]) + 1 :
              Append(call[c], q)[m] = IF m = Len(call[c]) + 1 THEN q ELSE call[c][m]
    BY <1>3, <1>4
  <1> PICK more : more = Append(call[c], q)
    OBVIOUS
  <1>8. TypeOK'
    <2>1. \A d \in Checkouts : call'[d] \in Seq(CallRecord(d))
      BY <1>4, <1>6, <1>7
    <2> QED
      BY <1>1, <1>2, <1>6, <2>1 DEF TypeOK, CallRecord
  <1>9. Calls[c] \in Nat /\ Backend[c] \in {"ts", "go"}
    BY CartAssumption
  <1>10. CallOK(c, q) /\ SeenOK(c, q) /\ FreshOK(c, q)
    <2>1. q.step = "read" /\ q.item = 1 /\ q.outcomes = <<>>
      OBVIOUS
    <2>2. CallOK(c, q) /\ SeenOK(c, q)
      BY <2>1 DEF CallOK, SeenOK
    <2>3. ASSUME Backend[c] = "go" PROVE \A e \in events : e.key.checkout # c
      <3>1. Len(call[c]) = 0
        BY <1>1, <1>5, <1>9, <2>3 DEF SingleGoCalls
      <3>2. \A S : \A x \in Seq(S) : Len(x) = 0 => x = <<>>
        OBVIOUS
      <3>3. call[c] = <<>>
        BY <1>4, <3>1, <3>2
      <3> QED
        BY <1>2, <3>3 DEF CallsInv
    <2>4. FreshOK(c, q)
      BY <2>3 DEF FreshOK
    <2> QED
      BY <2>2, <2>4
  <1>11. CallsInv'
    <2>1. ASSUME NEW d \in Checkouts
          PROVE  /\ Len(call'[d]) <= Calls[d]
                 /\ call'[d] = <<>> => \A e \in events' : e.key.checkout # d
      <3>1. CASE d = c
        <4>1. Len(call'[c]) = Len(call[c]) + 1
          BY <1>6, <1>7
        <4>2. call'[c] # <<>>
          BY <1>5, <4>1
        <4> QED
          BY <1>1, <1>5, <1>9, <3>1, <4>1, <4>2
      <3>2. CASE d # c
        <4>1. call'[d] = call[d]
          BY <1>6, <3>2
        <4> QED
          BY <1>1, <1>2, <4>1 DEF CallsInv
      <3> QED
        BY <3>1, <3>2
    <2>2. ASSUME NEW d \in Checkouts, NEW m \in DOMAIN call'[d], NEW p, p = call'[d][m]
          PROVE  CallOK(d, p) /\ SeenOK(d, p) /\ FreshOK(d, p)
      <3>1. CASE d = c /\ m = Len(call[c]) + 1
        <4>1. p = q
          BY <1>5, <1>6, <1>7, <2>2, <3>1
        <4> QED
          BY <1>10, <3>1, <4>1
      <3>2. CASE ~ (d = c /\ m = Len(call[c]) + 1)
        <4>1. m \in DOMAIN call[d] /\ p = call[d][m]
          BY <1>4, <1>5, <1>6, <1>7, <2>2, <3>2
        <4> QED
          BY <1>2, <4>1 DEF CallsInv
      <3> QED
        BY <3>1, <3>2
    <2>3. ASSUME NEW d \in Checkouts, NEW m \in DOMAIN call'[d]
          PROVE  CallOK(d, call[d][m])' /\ SeenOK(d, call[d][m])' /\ FreshOK(d, call[d][m])'
      <3> PICK p : p = call'[d][m]
        OBVIOUS
      <3>1. CallOK(d, p)' /\ SeenOK(d, p)' /\ FreshOK(d, p)'
        BY <1>1, <2>2, RecordSame
      <3> QED
        BY <3>1
    <2> QED
      BY <2>1, <2>3 DEF CallsInv
  <1>12. StreamInv' /\ EventsInv' /\ NoOversell'
    BY <1>1, <1>2, StoreSame
  <1> QED
    BY <1>8, <1>11, <1>12 DEF IInv

\* One step of any call.
LEMMA ProceedKeeps ==
    ASSUME SingleGoCalls, IInv, NEW c \in Checkouts, NEW n \in DOMAIN call[c], Proceed(c, n)
    PROVE  IInv'
  <1>1. CASE ReadSku(c, n)
    BY <1>1, ReadSkuKeeps
  <1>2. CASE RequestReservation(c, n)
    BY <1>2, RequestReservationKeeps
  <1>3. CASE ReserveInventory(c, n)
    BY <1>3, ReserveInventoryKeeps
  <1>4. CASE ReadSkuForRelease(c, n)
    BY <1>4, ReadSkuForReleaseKeeps
  <1>5. CASE ReleaseReservation(c, n)
    BY <1>5, ReleaseReservationKeeps
  <1>6. CASE RequestPayment(c, n) \/ ConfirmOrder(c, n)
    BY <1>6, PayAndConfirmKeep
  <1>7. CASE VersionConflict(c, n)
    BY <1>7, VersionConflictKeeps
  <1> QED
    BY <1>1, <1>2, <1>3, <1>4, <1>5, <1>6, <1>7 DEF Proceed

\* Before the first call nothing is stored.
LEMMA InitInvariant == Init => IInv
  <1> SUFFICES ASSUME Init PROVE IInv
    OBVIOUS
  <1>1. events = {} /\ DOMAIN call = Checkouts /\ \A c \in Checkouts : call[c] = <<>>
    BY DEF Init
  <1>2. \A s : Stream(s) = {} /\ Held(s) = {}
    BY <1>1 DEF Stream, Held
  <1>3. TypeOK
    <2>1. \A S : <<>> \in Seq(S)
      OBVIOUS
    <2> QED
      BY <1>1, <2>1 DEF TypeOK
  <1>4. StreamInv
    <2>1. IsFiniteSet(events)
      BY <1>1, FS_EmptySet
    <2>2. \A s : Cardinality(Stream(s)) = 0
      BY <1>2, FS_EmptySet
    <2> QED
      BY <1>1, <2>1, <2>2 DEF StreamInv
  <1>5. EventsInv
    BY <1>1 DEF EventsInv
  <1>6. CallsInv
    BY <1>1, CartAssumption DEF CallsInv
  <1>7. NoOversell
    <2>1. \A x \in {} : QuantityOf[x] \in Nat
      OBVIOUS
    <2>2. UnitsOf({}) = 0
      BY FS_EmptySet, UnitsAreTokens, CountEmpty
    <2>3. \A s : UnitsOf(Held(s)) = 0
      BY <1>2, <2>2
    <2>4. \A s \in Skus : OnHand[s] \in Nat
      BY CartAssumption
    <2> QED
      BY <2>3, <2>4 DEF NoOversell
  <1> QED
    BY <1>3, <1>4, <1>5, <1>6, <1>7 DEF IInv

\* However the reads and appends of the calls interleave, and wherever a call throws or
\* stops, the invariant holds if go-backend is asked at most once for a checkout.
THEOREM Invariant == SingleGoCalls => (Spec => []IInv)
  <1>1. ASSUME SingleGoCalls PROVE IInv /\ [Next]_vars => IInv'
    <2> SUFFICES ASSUME IInv, [Next]_vars PROVE IInv'
      OBVIOUS
    <2>1. CASE Next
      <3>1. PICK c \in Checkouts : \/ CompleteDemoCheckout(c)
                                   \/ \E n \in 1 .. Len(call[c]) : Proceed(c, n)
        BY <2>1 DEF Next
      <3>2. CASE CompleteDemoCheckout(c)
        BY <1>1, <3>2, CompleteKeeps
      <3>3. CASE \E n \in 1 .. Len(call[c]) : Proceed(c, n)
        <4>1. DOMAIN call[c] = 1 .. Len(call[c])
          BY DEF IInv, TypeOK
        <4> QED
          BY <1>1, <3>3, <4>1, ProceedKeeps
      <3> QED
        BY <3>1, <3>2, <3>3
    <2>2. CASE UNCHANGED vars
      <3>1. events' = events /\ call' = call
        BY <2>2 DEF vars
      <3>2. StreamInv' /\ EventsInv' /\ NoOversell'
        BY <3>1, StoreSame DEF IInv
      <3>3. TypeOK'
        BY <3>1 DEF IInv, TypeOK
      <3>4. ASSUME NEW d \in Checkouts, NEW m \in DOMAIN call'[d]
            PROVE  CallOK(d, call[d][m])' /\ SeenOK(d, call[d][m])' /\ FreshOK(d, call[d][m])'
        <4> PICK p : p = call[d][m]
          OBVIOUS
        <4>1. CallOK(d, p) /\ SeenOK(d, p) /\ FreshOK(d, p)
          BY <3>1 DEF IInv, CallsInv
        <4>2. CallOK(d, p)' /\ SeenOK(d, p)' /\ FreshOK(d, p)'
          BY <3>1, <4>1, RecordSame
        <4> QED
          BY <3>1, <4>2
      <3>5. CallsInv'
        BY <3>1, <3>4 DEF IInv, CallsInv
      <3> QED
        BY <3>2, <3>3, <3>5 DEF IInv
    <2> QED
      BY <2>1, <2>2
  <1>2. CASE SingleGoCalls
    <2>1. IInv /\ [Next]_vars => IInv'
      BY <1>1, <1>2
    <2> QED
      BY <2>1, InitInvariant, PTL DEF Spec
  <1> QED
    BY <1>2

------------------------------------------------------------------------------
(* What follows from it *)

\* The type invariant: in particular every read of a stream finds at least nothing
\* available, what assertInventoryInvariant wants.
THEOREM TypeCorrect == SingleGoCalls => (Spec => []TypeOK)
  <1>1. IInv => TypeOK
    BY DEF IInv
  <1> QED
    BY <1>1, Invariant, PTL

\* Never is more of a SKU held than there is on hand: the unique version lets a decision
\* be appended only if nobody has appended since the stream was read.
THEOREM NeverOversold == SingleGoCalls => (Spec => []NoOversell)
  <1>1. IInv => NoOversell
    BY DEF IInv
  <1> QED
    BY <1>1, Invariant, PTL

\* What is stored under the key of an item is what every call has in hand for it.
LEMMA OutcomeStored ==
    ASSUME IInv, NEW c \in Checkouts, NEW n \in DOMAIN call[c],
           Len(call[c][n].outcomes) = Len(Items[c]),
           NEW e \in events, NEW i \in DOMAIN Items[c], e.key = ReserveKey(c, i)
    PROVE  i \in DOMAIN call[c][n].outcomes /\ call[c][n].outcomes[i] = e
  <1> PICK r : r = Here(c, n)
    OBVIOUS
  <1>1. r \in CallRecord(c) /\ CallOK(c, r) /\ r = call[c][n]
    BY CallFacts DEF Here
  <1>2. i \in DOMAIN r.outcomes
    BY <1>1, CartType DEF CallRecord
  <1>3. r.outcomes[i] \in events /\ r.outcomes[i].key = e.key
    BY <1>1, <1>2 DEF CallOK
  <1> QED
    BY <1>1, <1>2, <1>3 DEF IInv, StreamInv

\* A checkout that was answered rejected holds nothing, whichever of its calls reserved:
\* a call takes over what is stored under the keys of the items, and gives that back.
THEOREM RejectedHoldNothing == SingleGoCalls => (Spec => []RejectedHoldsNothing)
  <1>1. ASSUME IInv, NEW c \in Checkouts, NEW n \in DOMAIN call[c], call[c][n].step = "rejected",
               NEW s \in Skus, NEW e \in HeldBy(c, s)
        PROVE  FALSE
    <2>1. /\ e \in events /\ e.sku = s /\ e.type = "InventoryReserved"
          /\ e.reservation \notin Released(s) /\ e.reservation.checkout = c
      BY DEF HeldBy, Held, Stream
    <2>2. EventOK(e)
      BY <1>1, <2>1 DEF IInv, EventsInv
    <2>3. e.key.kind = "reserve"
      BY <2>1, <2>2 DEF EventOK, Outcomes
    <2>4. PICK i : i = e.key.item
      OBVIOUS
    <2>5. i \in DOMAIN Items[c] /\ e.key = ReserveKey(c, i)
      BY <2>1, <2>2, <2>3, <2>4 DEF EventOK
    <2> PICK r : r = call[c][n]
      OBVIOUS
    <2>6. CallOK(c, r) /\ r.step = "rejected"
      BY <1>1 DEF IInv, CallsInv
    <2>7. /\ Len(r.outcomes) = Len(Items[c])
          /\ \A j \in DOMAIN r.outcomes : GivenBack(r.outcomes[j])
      BY <2>6 DEF CallOK
    <2>8. i \in DOMAIN r.outcomes /\ r.outcomes[i] = e
      BY <1>1, <2>1, <2>5, <2>7, OutcomeStored
    <2> QED
      BY <2>1, <2>7, <2>8 DEF GivenBack
  <1>2. IInv => RejectedHoldsNothing
    BY <1>1 DEF RejectedHoldsNothing
  <1> QED
    BY <1>2, Invariant, PTL

\* Calls for a checkout that end give the same answer, since they have the same outcomes.
THEOREM AnswersNeverDiffer == SingleGoCalls => (Spec => []AnswersAgree)
  <1>1. ASSUME IInv, NEW c \in Checkouts, NEW m \in DOMAIN call[c], NEW n \in DOMAIN call[c],
               call[c][m].step = "confirmed", call[c][n].step = "rejected"
        PROVE  FALSE
    <2> PICK p : p = call[c][m]
      OBVIOUS
    <2> PICK r : r = Here(c, n)
      OBVIOUS
    <2>1. CallOK(c, p) /\ p.step = "confirmed"
      BY <1>1 DEF IInv, CallsInv
    <2>2. CallOK(c, r) /\ r.step = "rejected" /\ r \in CallRecord(c)
      BY <1>1, CallFacts DEF Here
    <2>3. Len(p.outcomes) = Len(Items[c]) /\ ~Rejects(p.outcomes)
      BY <2>1 DEF CallOK
    <2>4. Len(r.outcomes) = Len(Items[c]) /\ Rejects(r.outcomes)
      BY <2>2 DEF CallOK
    <2>5. PICK j \in DOMAIN r.outcomes : r.outcomes[j].type = "InventoryReservationRejected"
      BY <2>4 DEF Rejects
    <2>6. r.outcomes[j] \in events /\ r.outcomes[j].key = ReserveKey(c, j)
      BY <2>2 DEF CallOK
    <2>7. j \in DOMAIN Items[c]
      BY <2>2, <2>4, CartType DEF CallRecord
    <2> PICK e : e = r.outcomes[j]
      OBVIOUS
    <2>8. j \in DOMAIN p.outcomes /\ p.outcomes[j] = e
      BY <1>1, <2>3, <2>6, <2>7, OutcomeStored
    <2> QED
      BY <2>3, <2>5, <2>8 DEF Rejects
  <1>2. IInv => AnswersAgree
    BY <1>1 DEF AnswersAgree
  <1> QED
    BY <1>2, Invariant, PTL

\* The lines of a cart that want the SKU, with their quantities as tokens.
LinesOf(c, s) == {i \in DOMAIN Items[c] : Items[c][i].sku = s}
WantedAt(c) == [i \in DOMAIN Items[c] |-> Items[c][i].quantity]

\* What a cart wants is the tokens of its lines.
LEMMA WantedAreTokens ==
    ASSUME NEW c \in Checkouts, NEW s
    PROVE  IsFiniteSet(LinesOf(c, s)) /\ Wanted(c, s) = Count(WantedAt(c), LinesOf(c, s))
  <1> DEFINE S == LinesOf(c, s)
             Rec(g) == g = [T \in SUBSET S |-> IF T = {} THEN 0
                  ELSE Items[c][CHOOSE x \in T : TRUE].quantity + g[T \ {CHOOSE x \in T : TRUE}]]
             i == CHOOSE g : Rec(g)
  <1>1. \A x \in S : WantedAt(c)[x] \in Nat /\ WantedAt(c)[x] = Items[c][x].quantity
    BY CartType DEF WantedAt, LinesOf
  <1>2. IsFiniteSet(S)
    <2>1. S \subseteq 1 .. Len(Items[c]) /\ Len(Items[c]) \in Nat
      BY CartType DEF LinesOf
    <2>2. IsFiniteSet(1 .. Len(Items[c]))
      BY <2>1, FS_Interval
    <2> QED
      BY <2>1, <2>2, FS_Subset
  <1>3. \A g : Rec(g) <=> Sums(g, WantedAt(c), S)
    BY <1>1 DEF Sums
  <1>4. \E g : Rec(g)
    BY <1>1, <1>2, <1>3, CountSums
  <1>5. Rec(i)
    BY <1>4
  <1>6. Wanted(c, s) = i[S]
    BY DEF Wanted, MapThenSumSet, MapThenFoldSet, LinesOf
  <1> HIDE DEF i, Rec
  <1> QED
    BY <1>1, <1>2, <1>3, <1>5, <1>6, SumsCount

\* What a confirmed checkout holds is what its cart wants.
LEMMA ConfirmedHoldsCart ==
    ASSUME IInv, NEW c \in Checkouts, NEW x \in events, x.type = "OrderConfirmed", x.key.checkout = c,
           NEW s \in Skus
    PROVE  UnitsOf(HeldBy(c, s)) = Wanted(c, s)
  <1>1. TypeOK /\ StreamInv /\ EventsInv
    BY DEF IInv
  <1>2. \A j \in DOMAIN Items[c] :
           \E f \in events : f.type = "InventoryReserved" /\ f.key = ReserveKey(c, j)
    <2>1. EventOK(x)
      BY <1>1 DEF EventsInv
    <2> QED
      BY <2>1 DEF EventOK
  <1>3. ASSUME NEW f \in events, f.type \in Outcomes, f.key.checkout = c
        PROVE  /\ f.type = "InventoryReserved" /\ f.reservation.checkout = c
               /\ f.key.item \in DOMAIN Items[c] /\ f.key = ReserveKey(c, f.key.item)
               /\ f.sku = Items[c][f.key.item].sku /\ f.quantity = Items[c][f.key.item].quantity
    <2>1. EventOK(f)
      BY <1>1 DEF EventsInv
    <2>2. /\ f.key.item \in DOMAIN Items[c] /\ f.key = ReserveKey(c, f.key.item)
          /\ f.reservation.checkout = c
          /\ f.sku = Items[c][f.key.item].sku /\ f.quantity = Items[c][f.key.item].quantity
      BY <1>3, <2>1 DEF EventOK
    <2>3. PICK g \in events : g.type = "InventoryReserved" /\ g.key = ReserveKey(c, f.key.item)
      BY <1>2, <2>2
    <2>4. g = f
      BY <1>1, <2>2, <2>3 DEF StreamInv
    <2> QED
      BY <2>2, <2>3, <2>4
  <1>4. \A y \in Released(s) : y.checkout # c
    <2> SUFFICES ASSUME NEW e \in events, e.type = "InventoryReservationReleased",
                        e.reservation.checkout = c
                 PROVE  FALSE
      BY DEF Released, Stream
    <2>1. EventOK(e)
      BY <1>1 DEF EventsInv
    <2>2. e.key.kind = "release"
      BY <2>1 DEF EventOK
    <2>3. e.reservation = [checkout |-> e.key.checkout, call |-> e.key.call, item |-> e.key.item]
      BY <2>1, <2>2 DEF EventOK
    <2>4. e.key.checkout = c
      BY <2>3
    <2>5. PICK f \in events : f.type = "InventoryReservationRejected" /\ f.key.checkout = c
      BY <2>1, <2>2, <2>4 DEF EventOK
    <2> QED
      BY <1>3, <2>5 DEF Outcomes
  <1> DEFINE H == HeldBy(c, s)
             L == LinesOf(c, s)
             f == [e \in H |-> e.key.item]
  <1>5. \A e \in H : /\ e \in events /\ e.sku = s /\ e.type = "InventoryReserved"
                     /\ e.key.checkout = c
    <2> SUFFICES ASSUME NEW e \in H PROVE e \in events /\ e.sku = s /\ e.type = "InventoryReserved"
                                          /\ e.key.checkout = c
      OBVIOUS
    <2>1. e \in events /\ e.sku = s /\ e.type = "InventoryReserved" /\ e.reservation.checkout = c
      BY DEF HeldBy, Held, Stream
    <2>2. EventOK(e)
      BY <1>1, <2>1 DEF EventsInv
    <2>3. e.reservation.checkout = e.key.checkout
      BY <2>1, <2>2 DEF EventOK, Outcomes
    <2> QED
      BY <2>1, <2>3
  <1>6. \A e \in H : /\ e.key.item \in L /\ e.key = ReserveKey(c, e.key.item)
                     /\ e.quantity = WantedAt(c)[e.key.item]
    BY <1>3, <1>5 DEF LinesOf, WantedAt, Outcomes
  <1>7. ASSUME NEW i \in L PROVE \E e \in H : e.key.item = i
    <2>1. i \in DOMAIN Items[c] /\ Items[c][i].sku = s
      BY DEF LinesOf
    <2>2. PICK e \in events : e.type = "InventoryReserved" /\ e.key = ReserveKey(c, i)
      BY <1>2, <2>1
    <2>3. e.key.item = i /\ e.key.checkout = c
      BY <2>2 DEF ReserveKey
    <2>4. e.sku = s /\ e.reservation.checkout = c
      BY <1>3, <2>1, <2>2, <2>3 DEF Outcomes
    <2>5. e \in H
      BY <1>4, <2>2, <2>4 DEF HeldBy, Held, Stream
    <2> QED
      BY <2>3, <2>5
  <1>8. \A e, g \in H : e.key.item = g.key.item => e = g
    BY <1>1, <1>5, <1>6 DEF StreamInv
  <1>9. H \in SUBSET Event /\ IsFiniteSet(H)
    <2>1. H \subseteq events
      BY <1>5
    <2> QED
      BY <1>1, <2>1, FS_Subset DEF StreamInv, TypeOK
  <1> HIDE DEF H, L
  <1>10. f \in Bijection(H, L)
    <2>1. f \in [H -> L]
      BY <1>6
    <2>2. \A y \in L : \E e \in H : f[e] = y
      BY <1>7
    <2>3. \A e, g \in H : f[e] = f[g] => e = g
      BY <1>8
    <2> HIDE DEF f
    <2> QED
      BY <2>1, <2>2, <2>3, Fun_IsBij
  <1>11. \A e \in H : QuantityOf[e] \in Nat /\ WantedAt(c)[f[e]] = QuantityOf[e]
    BY <1>6, <1>9 DEF QuantityOf, Event
  <1> HIDE DEF f
  <1>12. Count(WantedAt(c), L) = Count(QuantityOf, H)
    BY <1>9, <1>10, <1>11, CountBijection
  <1>13. UnitsOf(H) = Count(QuantityOf, H)
    BY <1>9, UnitsAreTokens
  <1>14. Wanted(c, s) = Count(WantedAt(c), L)
    BY WantedAreTokens DEF L
  <1> QED
    BY <1>12, <1>13, <1>14 DEF H

\* A confirmed order has every item of its cart reserved and keeps it: a release needs a
\* rejected outcome under the key where this checkout has a reserved one.
THEOREM ConfirmedStayReserved == SingleGoCalls => (Spec => []ConfirmedIsReserved)
  <1>1. IInv => ConfirmedIsReserved
    BY ConfirmedHoldsCart DEF ConfirmedIsReserved
  <1> QED
    BY <1>1, Invariant, PTL

------------------------------------------------------------------------------
(* What the projections assume of the history of a checkout *)

\* An outcome ends the history of its checkout (OutcomeIsLast of Projections): after a
\* rejection nothing is paid or ordered, after the order nothing is paid or rejected.
OutcomeEnds ==
    \A e \in events' \ events : \A f \in events :
        f.key.checkout = e.key.checkout =>
            /\ f.type = "InventoryReservationRejected" =>
                   e.type \notin {"PaymentRequested", "OrderConfirmed"}
            /\ f.type = "OrderConfirmed" =>
                   e.type \notin {"PaymentRequested", "InventoryReservationRejected"}

\* Events of one type of a checkout in the stream of a SKU.
EventsOf(type, c, s) == {e \in Stream(s) : e.type = type /\ e.key.checkout = c}

\* An order sells the cart.
Ordered(c) == \E e \in events : e.type = "OrderConfirmed" /\ e.key.checkout = c
Sold(c, s) == IF Ordered(c) THEN Wanted(c, s) ELSE 0

\* What a checkout has given back or sold was reserved for it before
\* (ReservedBeforeReturned of Projections).
ReturnedWasReserved ==
    \A c \in Checkouts : \A s \in Skus :
        UnitsOf(EventsOf("InventoryReservationReleased", c, s)) + Sold(c, s)
            <= UnitsOf(EventsOf("InventoryReserved", c, s))

PaymentKey(c) == [kind |-> "payment", checkout |-> c, item |-> 0, call |-> 0]

\* The payment is requested before the order is confirmed.
PaidInv ==
    \A c \in Checkouts :
        \/ \E e \in events : e.key = PaymentKey(c)
        \/ ~Ordered(c) /\ \A n \in DOMAIN call[c] : call[c][n].step \notin {"confirm", "confirmed"}

\* A release gives back the units of one reservation.
Backs(f, e) ==
    /\ f.type = "InventoryReserved" /\ f.key.checkout = e.key.checkout
    /\ f.reservation = e.reservation /\ f.sku = e.sku /\ f.quantity = e.quantity

BackedInv ==
    \A e \in events : e.type = "InventoryReservationReleased" => \E f \in events : Backs(f, e)

LedgerInv == PaidInv /\ BackedInv

\* What the n-th call of checkout c appends, if anything.
Appends(c, n, e) ==
    /\ ~KeyTaken(e) /\ events' = events \cup {e} /\ e.key.checkout = c
    /\ \/ e.type = "InventoryReservationRequested"
       \/ e.type \in Outcomes /\ \E i \in DOMAIN Items[c] : e.key = ReserveKey(c, i)
       \/ e.type = "InventoryReservationReleased" /\ \E f \in events : Backs(f, e)
       \/ At(c, n, "pay") /\ e.type = "PaymentRequested" /\ e.key = PaymentKey(c)
       \/ At(c, n, "confirm") /\ e.type = "OrderConfirmed"

\* A step appends nothing, or one of these.
LEMMA StepAppends ==
    ASSUME IInv, NEW c \in Checkouts, NEW n \in DOMAIN call[c], Proceed(c, n)
    PROVE  events' = events \/ \E e : Appends(c, n, e)
  <1>1. ASSUME NEW e, Append1(e)
        PROVE  events' = events \/ (~KeyTaken(e) /\ events' = events \cup {e})
    BY <1>1 DEF Append1
  <1>2. CASE RequestReservation(c, n)
    <2> PICK e : e = Requested(c, n)
      OBVIOUS
    <2>1. Append1(e)
      BY <1>2 DEF RequestReservation
    <2>2. /\ e.type = "InventoryReservationRequested"
          /\ e.key = [kind |-> "requested", checkout |-> c, item |-> Here(c, n).item, call |-> 0]
      BY RequestedType
    <2>3. e.key.checkout = c
      BY <2>2
    <2> QED
      BY <1>1, <2>1, <2>2, <2>3 DEF Appends
  <1>3. CASE ReserveInventory(c, n)
    <2> PICK e : e = Decision(c, n)
      OBVIOUS
    <2>1. Append1(e) /\ Here(c, n).step = "reserve"
      BY <1>3 DEF ReserveInventory, At
    <2>2. e.type \in Outcomes /\ e.key = ReserveKey(c, Here(c, n).item)
      BY <2>1, DecisionType
    <2>3. Here(c, n).item \in DOMAIN Items[c]
      BY CallFacts, CartType
    <2>4. e.key.checkout = c
      BY <2>2 DEF ReserveKey
    <2> QED
      BY <1>1, <2>1, <2>2, <2>3, <2>4 DEF Appends
  <1>4. CASE ReleaseReservation(c, n)
    <2> PICK e : e = Release(c, n)
      OBVIOUS
    <2> PICK o : o = Here(c, n).outcomes[Here(c, n).item]
      OBVIOUS
    <2>1. Append1(e) /\ Here(c, n).step = "release"
      BY <1>4 DEF ReleaseReservation, At
    <2>2. o \in events /\ o.type = "InventoryReserved" /\ o.key = ReserveKey(c, Here(c, n).item)
      BY <2>1, ReservationToRelease
    <2>3. /\ e.type = "InventoryReservationReleased" /\ e.sku = o.sku
          /\ e.reservation = o.reservation
          /\ e.key = [kind |-> "release", checkout |-> c, item |-> Here(c, n).item,
                      call |-> o.reservation.call]
      BY <2>1, ReleaseType
    <2>6. e.key.checkout = c
      BY <2>3
    <2>4. e.quantity = o.quantity
      <3>1. o \in Event
        BY <2>2 DEF IInv, TypeOK
      <3> QED
        BY <3>1 DEF Release, Event
    <2>5. Backs(o, e)
      BY <2>2, <2>3, <2>4, <2>6 DEF Backs, ReserveKey
    <2> QED
      BY <1>1, <2>1, <2>2, <2>3, <2>5, <2>6 DEF Appends
  <1>5. CASE RequestPayment(c, n)
    <2> PICK e : e = CheckoutEvent(c, n, "PaymentRequested", "payment")
      OBVIOUS
    <2>1. Append1(e) /\ At(c, n, "pay")
      BY <1>5 DEF RequestPayment
    <2>2. e.type = "PaymentRequested" /\ e.key = PaymentKey(c)
      BY DEF CheckoutEvent, PaymentKey
    <2>3. e.key.checkout = c
      BY <2>2 DEF PaymentKey
    <2> QED
      BY <1>1, <2>1, <2>2, <2>3 DEF Appends
  <1>6. CASE ConfirmOrder(c, n)
    <2> PICK e : e = CheckoutEvent(c, n, "OrderConfirmed", "order")
      OBVIOUS
    <2>1. Append1(e) /\ At(c, n, "confirm")
      BY <1>6 DEF ConfirmOrder
    <2>2. e.type = "OrderConfirmed" /\ e.key.checkout = c
      BY DEF CheckoutEvent
    <2> QED
      BY <1>1, <2>1, <2>2 DEF Appends
  <1>7. CASE ReadSku(c, n) \/ ReadSkuForRelease(c, n) \/ VersionConflict(c, n)
    BY <1>7 DEF ReadSku, ReadSkuForRelease, VersionConflict
  <1> QED
    BY <1>2, <1>3, <1>4, <1>5, <1>6, <1>7 DEF Proceed

\* The steps of the other calls stay, and a call gets to the payment's side only by
\* requesting the payment.
LEMMA StepsOfCalls ==
    ASSUME IInv, NEW c \in Checkouts,
           \/ CompleteDemoCheckout(c)
           \/ \E n \in DOMAIN call[c] : Proceed(c, n),
           NEW d \in Checkouts, NEW m \in DOMAIN call'[d],
           call'[d][m].step \in {"confirm", "confirmed"}
    PROVE  \/ m \in DOMAIN call[d] /\ call[d][m].step \in {"confirm", "confirmed"}
           \/ \E e \in events' : e.key = PaymentKey(d)
  <1>1. CASE CompleteDemoCheckout(c)
    <2>1. call[d] \in Seq(CallRecord(d)) /\ DOMAIN call = Checkouts
      BY DEF IInv, TypeOK, CallRecord
    <2>2. CASE d = c
      <3> PICK q : q = [step |-> "read", item |-> 1, outcomes |-> <<>>,
                        seen |-> [available |-> 0, version |-> 0]]
        OBVIOUS
      <3>1. call'[d] = Append(call[d], q) /\ q.step = "read"
        BY <1>1, <2>1, <2>2 DEF CompleteDemoCheckout
      <3>2. \/ m \in DOMAIN call[d] /\ call'[d][m] = call[d][m]
            \/ call'[d][m] = q
        BY <2>1, <3>1
      <3> QED
        BY <3>1, <3>2
    <2>3. CASE d # c
      <3>1. call'[d] = call[d]
        BY <1>1, <2>1, <2>3 DEF CompleteDemoCheckout
      <3> QED
        BY <3>1
    <2> QED
      BY <2>2, <2>3
  <1>2. CASE \E n \in DOMAIN call[c] : Proceed(c, n)
    <2> PICK n \in DOMAIN call[c] : Proceed(c, n)
      BY <1>2
    <2>1. call[d] \in Seq(CallRecord(d)) /\ DOMAIN call = Checkouts /\ call[c] \in Seq(CallRecord(c))
      BY DEF IInv, TypeOK, CallRecord
    <2>2. ASSUME NEW r, Goto(c, n, r)
          PROVE  m \in DOMAIN call[d] /\ call'[d][m] = IF d = c /\ m = n THEN r ELSE call[d][m]
      <3>1. call' = [call EXCEPT ![c][n] = r]
        BY <2>2 DEF Goto
      <3> QED
        BY <2>1, <3>1
    <2>3. CASE ~ (d = c /\ m = n)
      <3>1. \E r : Goto(c, n, r)
        <4>1. CASE ReserveInventory(c, n)
          BY <4>1, Zenon DEF ReserveInventory
        <4>2. CASE ReadSku(c, n) \/ RequestReservation(c, n) \/ ReadSkuForRelease(c, n)
          BY <4>2, Zenon DEF ReadSku, RequestReservation, ReadSkuForRelease
        <4>3. CASE ReleaseReservation(c, n) \/ RequestPayment(c, n) \/ ConfirmOrder(c, n) \/ VersionConflict(c, n)
          BY <4>3, Zenon DEF ReleaseReservation, RequestPayment, ConfirmOrder, VersionConflict
        <4> QED
          BY <4>1, <4>2, <4>3 DEF Proceed
      <3> QED
        BY <2>2, <2>3, <3>1
    <2>4. CASE d = c /\ m = n
      <3> PICK r : r = Here(c, n)
        OBVIOUS
      <3>1. r \in CallRecord(c) /\ r = call[c][n]
        BY CallFacts DEF Here
      <3>2. ASSUME NEW q, Goto(c, n, q), q.step \notin {"confirm", "confirmed"} PROVE FALSE
        BY <2>2, <2>4, <3>2
      <3>3. CASE RequestPayment(c, n)
        <4> PICK e : e = CheckoutEvent(c, n, "PaymentRequested", "payment")
          OBVIOUS
        <4>1. Append1(e) /\ e.key = PaymentKey(c)
          BY <3>3 DEF RequestPayment, CheckoutEvent, PaymentKey
        <4>2. \E f \in events' : f.key = e.key
          BY <4>1 DEF Append1, KeyTaken
        <4> QED
          BY <2>4, <4>1, <4>2
      <3>4. CASE ConfirmOrder(c, n)
        BY <2>4, <3>1, <3>4 DEF ConfirmOrder, At, Here
      <3>5. CASE \/ ReadSku(c, n) \/ RequestReservation(c, n) \/ ReadSkuForRelease(c, n)
                 \/ VersionConflict(c, n)
        <4>1. CASE ReadSku(c, n)
          <5> PICK q : q = [Here(c, n) EXCEPT
                              !.step = IF Backend[c] = "go" THEN "request" ELSE "reserve",
                              !.seen = Replay(Item(c, n).sku)]
            OBVIOUS
          <5>1. Goto(c, n, q)
            BY <4>1 DEF ReadSku
          <5>2. q.step \in {"request", "reserve"}
            BY <3>1 DEF CallRecord
          <5> QED
            BY <3>2, <5>1, <5>2
        <4>2. CASE ReadSkuForRelease(c, n)
          <5> PICK q : q = [Here(c, n) EXCEPT
                              !.step = "release",
                              !.seen = Replay(Here(c, n).outcomes[Here(c, n).item].sku)]
            OBVIOUS
          <5>1. Goto(c, n, q)
            BY <4>2 DEF ReadSkuForRelease
          <5>2. q.step = "release"
            BY <3>1 DEF CallRecord
          <5> QED
            BY <3>2, <5>1, <5>2
        <4>3. ASSUME NEW step, Goto(c, n, [Here(c, n) EXCEPT !.step = step]),
                     step \notin {"confirm", "confirmed"}
              PROVE  FALSE
          <5>1. [Here(c, n) EXCEPT !.step = step].step = step
            BY <3>1 DEF CallRecord
          <5> QED
            BY <3>2, <4>3, <5>1
        <4>4. CASE RequestReservation(c, n) \/ VersionConflict(c, n)
          BY <4>3, <4>4 DEF RequestReservation, VersionConflict
        <4> QED
          BY <3>5, <4>1, <4>2, <4>4
      <3>6. CASE ReserveInventory(c, n)
        <4> PICK q : q = [r EXCEPT !.outcomes = Append(@, OutcomeOf(c, Decision(c, n)))]
          OBVIOUS
        <4>1. \/ Goto(c, n, [q EXCEPT !.step = "read", !.item = @ + 1])
              \/ Goto(c, n, ReleaseFrom(q, 1))
              \/ Goto(c, n, [q EXCEPT !.step = "pay"])
          BY <3>6 DEF ReserveInventory
        <4>2. q.step = "reserve" /\ DOMAIN q = {"step", "item", "outcomes", "seen"}
          BY <3>1, <3>6 DEF ReserveInventory, At, CallRecord
        <4>3. CASE Goto(c, n, [q EXCEPT !.step = "read", !.item = @ + 1])
          <5>1. [q EXCEPT !.step = "read", !.item = @ + 1].step = "read"
            BY <4>2
          <5> QED
            BY <3>2, <4>3, <5>1
        <4>4. CASE Goto(c, n, ReleaseFrom(q, 1))
          <5>1. ReleaseFrom(q, 1).step \in {"readRelease", "rejected"}
            BY <4>2 DEF ReleaseFrom
          <5> QED
            BY <3>2, <4>4, <5>1
        <4>5. CASE Goto(c, n, [q EXCEPT !.step = "pay"])
          <5>1. [q EXCEPT !.step = "pay"].step = "pay"
            BY <4>2
          <5> QED
            BY <3>2, <4>5, <5>1
        <4> QED
          BY <4>1, <4>3, <4>4, <4>5
      <3>7. CASE ReleaseReservation(c, n)
        <4>1. Goto(c, n, ReleaseFrom(r, r.item + 1))
          BY <3>7 DEF ReleaseReservation
        <4>2. ReleaseFrom(r, r.item + 1).step \in {"readRelease", "rejected"}
          BY <3>1 DEF ReleaseFrom, CallRecord
        <4> QED
          BY <3>2, <4>1, <4>2
      <3> QED
        BY <3>3, <3>4, <3>5, <3>6, <3>7 DEF Proceed
    <2> QED
      BY <2>3, <2>4
  <1> QED
    BY <1>1, <1>2

\* Payments are requested before orders are confirmed, releases have their reservations.
LEMMA LedgerStep == IInv /\ LedgerInv /\ [Next]_vars => LedgerInv'
  <1> SUFFICES ASSUME IInv, LedgerInv, [Next]_vars PROVE LedgerInv'
    OBVIOUS
  <1>1. CASE UNCHANGED vars
    BY <1>1 DEF LedgerInv, PaidInv, BackedInv, Backs, Ordered, vars
  <1>2. CASE Next
    <2>1. PICK c \in Checkouts : \/ CompleteDemoCheckout(c)
                                 \/ \E n \in DOMAIN call[c] : Proceed(c, n)
      BY <1>2 DEF Next, IInv, TypeOK
    <2>2. \/ events' = events
          \/ \E n \in DOMAIN call[c] : \E e : Appends(c, n, e)
      BY <2>1, StepAppends DEF CompleteDemoCheckout
    <2>3. events \subseteq events'
      BY <2>2 DEF Appends
    <2>4. BackedInv'
      <3> SUFFICES ASSUME NEW e \in events', e.type = "InventoryReservationReleased"
                   PROVE  \E f \in events' : Backs(f, e)
        BY DEF BackedInv, Backs
      <3>1. \E f \in events : Backs(f, e)
        BY <2>2 DEF Appends, LedgerInv, BackedInv, Outcomes
      <3> QED
        BY <2>3, <3>1
    <2>5. ASSUME NEW d \in Checkouts, \A e \in events' : e.key # PaymentKey(d)
          PROVE  ~Ordered(d)' /\ \A m \in DOMAIN call'[d] : call'[d][m].step \notin {"confirm", "confirmed"}
      <3>1. /\ ~Ordered(d)
            /\ \A n \in DOMAIN call[d] : call[d][n].step \notin {"confirm", "confirmed"}
        BY <2>3, <2>5 DEF LedgerInv, PaidInv
      <3>2. ~Ordered(d)'
        BY <2>2, <3>1 DEF Appends, Ordered, At, Here, Outcomes
      <3>3. \A m \in DOMAIN call'[d] : call'[d][m].step \notin {"confirm", "confirmed"}
        BY <2>1, <2>5, <3>1, StepsOfCalls
      <3> QED
        BY <3>2, <3>3
    <2>6. PaidInv'
      BY <2>5 DEF PaidInv, PaymentKey
    <2> QED
      BY <2>4, <2>6 DEF LedgerInv
  <1> QED
    BY <1>1, <1>2

\* The ledger of every reachable state is in order.
LEMMA LedgerAlways == SingleGoCalls => (Spec => [](IInv /\ LedgerInv))
  <1>1. Init => LedgerInv
    BY DEF Init, LedgerInv, PaidInv, BackedInv, Ordered
  <1> QED
    BY <1>1, LedgerStep, Invariant, PTL DEF Spec

\* Only a call whose outcomes are all reserved gets to the payment.
LEMMA NothingPaidAfterRejection ==
    ASSUME IInv, NEW c \in Checkouts, NEW n \in DOMAIN call[c],
           At(c, n, "pay") \/ At(c, n, "confirm"),
           NEW f \in events, f.type = "InventoryReservationRejected", f.key.checkout = c
    PROVE  FALSE
  <1> PICK r : r = Here(c, n)
    OBVIOUS
  <1>1. r = call[c][n] /\ r \in CallRecord(c) /\ CallOK(c, r) /\ r.step \in {"pay", "confirm"}
    BY CallFacts DEF Here, At
  <1>2. Len(r.outcomes) = Len(Items[c]) /\ ~Rejects(r.outcomes)
    BY <1>1 DEF CallOK
  <1>3. EventOK(f)
    BY DEF IInv, EventsInv
  <1>4. f.key.item \in DOMAIN Items[c] /\ f.key = ReserveKey(c, f.key.item)
    BY <1>3 DEF EventOK, Outcomes
  <1>5. f.key.item \in DOMAIN r.outcomes /\ r.outcomes[f.key.item] = f
    BY <1>1, <1>2, <1>4, OutcomeStored
  <1> QED
    BY <1>2, <1>5 DEF Rejects

\* However its calls interleave and wherever they stop, an outcome ends the history of its
\* checkout: what OutcomesStayShown assumes of the events the projections are given.
THEOREM OutcomeEndsHistory == SingleGoCalls => (Spec => [][OutcomeEnds]_vars)
  <1>1. IInv /\ LedgerInv /\ [Next]_vars => [OutcomeEnds]_vars
    <2> SUFFICES ASSUME IInv, LedgerInv, Next, NEW e \in events' \ events, NEW f \in events,
                        f.key.checkout = e.key.checkout
                 PROVE  /\ f.type = "InventoryReservationRejected" =>
                               e.type \notin {"PaymentRequested", "OrderConfirmed"}
                        /\ f.type = "OrderConfirmed" =>
                               e.type \notin {"PaymentRequested", "InventoryReservationRejected"}
      BY DEF OutcomeEnds
    <2>1. PICK c \in Checkouts : \/ CompleteDemoCheckout(c)
                                 \/ \E n \in DOMAIN call[c] : Proceed(c, n)
      BY DEF Next, IInv, TypeOK
    <2>2. PICK n \in DOMAIN call[c] : Appends(c, n, e)
      BY <2>1, StepAppends DEF CompleteDemoCheckout, Appends
    <2>3. f.key.checkout = c /\ e \notin events
      BY <2>2 DEF Appends
    <2>4. ASSUME f.type = "InventoryReservationRejected", e.type \in {"PaymentRequested", "OrderConfirmed"}
          PROVE  FALSE
      <3>1. At(c, n, "pay") \/ At(c, n, "confirm")
        BY <2>2, <2>4 DEF Appends, Outcomes
      <3> QED
        BY <2>3, <2>4, <3>1, NothingPaidAfterRejection
    <2>5. ASSUME f.type = "OrderConfirmed", e.type = "PaymentRequested"
          PROVE  FALSE
      <3>1. e.key = PaymentKey(c)
        BY <2>2, <2>5 DEF Appends, Outcomes
      <3>2. \E g \in events : g.key = PaymentKey(c)
        BY <2>3, <2>5 DEF LedgerInv, PaidInv, Ordered
      <3> QED
        BY <2>2, <3>1, <3>2 DEF Appends, KeyTaken
    <2>6. ASSUME f.type = "OrderConfirmed", e.type = "InventoryReservationRejected"
          PROVE  FALSE
      <3>1. PICK i \in DOMAIN Items[c] : e.key = ReserveKey(c, i)
        BY <2>2, <2>6 DEF Appends, Outcomes
      <3>2. EventOK(f)
        BY DEF IInv, EventsInv
      <3>3. \E g \in events : g.key = ReserveKey(c, i)
        BY <2>3, <2>6, <3>2 DEF EventOK
      <3> QED
        BY <2>2, <3>1, <3>3 DEF Appends, KeyTaken
    <2> QED
      BY <2>4, <2>5, <2>6
  <1> QED
    BY <1>1, LedgerAlways, PTL DEF Spec

\* Releases and reservations of a checkout are finite sets of events.
LEMMA EventsOfType ==
    ASSUME IInv, NEW type, NEW c, NEW s
    PROVE  /\ EventsOf(type, c, s) \in SUBSET Event /\ IsFiniteSet(EventsOf(type, c, s))
           /\ UnitsOf(EventsOf(type, c, s)) = Count(QuantityOf, EventsOf(type, c, s))
  <1>1. EventsOf(type, c, s) \subseteq events
    BY DEF EventsOf, Stream
  <1>2. EventsOf(type, c, s) \in SUBSET Event /\ IsFiniteSet(EventsOf(type, c, s))
    BY <1>1, FS_Subset DEF IInv, TypeOK, StreamInv
  <1> QED
    BY <1>2, UnitsAreTokens

\* Each release gives back a reservation of its own.
LEMMA ReleasesAreBacked ==
    ASSUME IInv, BackedInv, NEW c \in Checkouts, NEW s \in Skus
    PROVE  UnitsOf(EventsOf("InventoryReservationReleased", c, s))
               <= UnitsOf(EventsOf("InventoryReserved", c, s))
  <1> DEFINE given == EventsOf("InventoryReservationReleased", c, s)
             taken == EventsOf("InventoryReserved", c, s)
             back == [e \in given |-> CHOOSE f \in taken : Backs(f, e)]
             used == {back[e] : e \in given}
  <1>1. \A e \in given : back[e] \in taken /\ Backs(back[e], e)
    <2> SUFFICES ASSUME NEW e \in given PROVE \E f \in taken : Backs(f, e)
      OBVIOUS
    <2>1. /\ e \in events /\ e.sku = s /\ e.key.checkout = c
          /\ e.type = "InventoryReservationReleased"
      BY DEF EventsOf, Stream
    <2>2. PICK f \in events : Backs(f, e)
      BY <2>1 DEF BackedInv
    <2> QED
      BY <2>1, <2>2 DEF Backs, EventsOf, Stream
  <1>2. ASSUME NEW e \in given, NEW g \in given, e.reservation = g.reservation PROVE e = g
    <2>1. /\ e \in events /\ e.key.checkout = c /\ e.type = "InventoryReservationReleased"
          /\ g \in events /\ g.key.checkout = c /\ g.type = "InventoryReservationReleased"
      BY DEF EventsOf, Stream
    <2>2. EventOK(e) /\ EventOK(g)
      BY <2>1 DEF IInv, EventsInv
    <2>3. /\ e.key.kind = "release" /\ e.reservation = [checkout |-> c, call |-> e.key.call, item |-> e.key.item]
          /\ g.key.kind = "release" /\ g.reservation = [checkout |-> c, call |-> g.key.call, item |-> g.key.item]
      BY <2>1, <2>2 DEF EventOK
    <2>4. e.key.call = g.key.call /\ e.key.item = g.key.item
      <3>1. e.reservation.call = e.key.call /\ e.reservation.item = e.key.item
        BY <2>3
      <3>2. g.reservation.call = g.key.call /\ g.reservation.item = g.key.item
        BY <2>3
      <3> QED
        BY <1>2, <3>1, <3>2
    <2>5. e.key \in Keys /\ g.key \in Keys
      BY <2>1 DEF IInv, TypeOK, Event
    <2>6. e.key = g.key
      BY <2>1, <2>3, <2>4, <2>5 DEF Keys
    <2> QED
      BY <2>1, <2>6 DEF IInv, StreamInv
  <1>3. /\ given \in SUBSET Event /\ IsFiniteSet(given) /\ UnitsOf(given) = Count(QuantityOf, given)
        /\ taken \in SUBSET Event /\ IsFiniteSet(taken) /\ UnitsOf(taken) = Count(QuantityOf, taken)
    BY EventsOfType
  <1>4. \A e \in given, g \in given : back[e] = back[g] => e = g
    BY <1>1, <1>2 DEF Backs
  <1>5. \A e \in Event : QuantityOf[e] \in Nat /\ QuantityOf[e] = e.quantity
    BY DEF QuantityOf, Event
  <1>6. \A e \in given : QuantityOf[e] \in Nat /\ QuantityOf[back[e]] = QuantityOf[e]
    BY <1>1, <1>3, <1>5 DEF Backs
  <1>7. back \in Bijection(given, used)
    <2>1. back \in [given -> used]
      OBVIOUS
    <2>2. \A f \in used : \E e \in given : back[e] = f
      OBVIOUS
    <2> HIDE DEF back
    <2> QED
      BY <1>4, <2>1, <2>2, Fun_IsBij
  <1>8. used \subseteq taken
    BY <1>1
  <1>9. \A f \in taken : QuantityOf[f] \in Nat
    BY <1>3, <1>5
  <1> HIDE DEF given, taken, back, used
  <1>10. Count(QuantityOf, used) = Count(QuantityOf, given)
    BY <1>3, <1>6, <1>7, CountBijection
  <1>11. Count(QuantityOf, used) <= Count(QuantityOf, taken)
    BY <1>3, <1>8, <1>9, CountMonotone
  <1> QED
    BY <1>3, <1>10, <1>11 DEF given, taken

\* A checkout with an order has released nothing, and has its cart reserved.
LEMMA OrderIsReserved ==
    ASSUME IInv, NEW c \in Checkouts, Ordered(c), NEW s \in Skus
    PROVE  /\ EventsOf("InventoryReservationReleased", c, s) = {}
           /\ Wanted(c, s) <= UnitsOf(EventsOf("InventoryReserved", c, s))
  <1> PICK x \in events : x.type = "OrderConfirmed" /\ x.key.checkout = c
    BY DEF Ordered
  <1>1. TypeOK /\ StreamInv /\ EventsInv /\ EventOK(x)
    BY DEF IInv, EventsInv
  <1>2. ASSUME NEW e \in EventsOf("InventoryReservationReleased", c, s) PROVE FALSE
    <2>1. e \in events /\ EventOK(e) /\ e.type = "InventoryReservationReleased" /\ e.key.checkout = c
      BY <1>1 DEF EventsOf, Stream, EventsInv
    <2>2. PICK f \in events : f.type = "InventoryReservationRejected" /\ f.key.checkout = c
      BY <2>1 DEF EventOK
    <2>3. EventOK(f)
      BY <1>1 DEF EventsInv
    <2>4. f.key.item \in DOMAIN Items[c] /\ f.key = ReserveKey(c, f.key.item)
      BY <2>2, <2>3 DEF EventOK, Outcomes
    <2>5. PICK g \in events : g.type = "InventoryReserved" /\ g.key = ReserveKey(c, f.key.item)
      BY <1>1, <2>4 DEF EventOK
    <2>6. g = f
      BY <1>1, <2>4, <2>5 DEF StreamInv
    <2> QED
      BY <2>2, <2>5, <2>6
  <1> DEFINE taken == EventsOf("InventoryReserved", c, s)
  <1>3. HeldBy(c, s) \subseteq taken
    <2> SUFFICES ASSUME NEW e \in HeldBy(c, s) PROVE e \in taken
      OBVIOUS
    <2>1. e \in Stream(s) /\ e \in events /\ e.type = "InventoryReserved" /\ e.reservation.checkout = c
      BY DEF HeldBy, Held, Stream
    <2>2. EventOK(e)
      BY <1>1, <2>1 DEF EventsInv
    <2>3. e.key.checkout = c
      BY <2>1, <2>2 DEF EventOK, Outcomes
    <2> QED
      BY <2>1, <2>3 DEF EventsOf
  <1>4. taken \in SUBSET Event /\ IsFiniteSet(taken) /\ UnitsOf(taken) = Count(QuantityOf, taken)
    BY EventsOfType
  <1>5. \A e \in taken : QuantityOf[e] \in Nat
    BY <1>4 DEF QuantityOf, Event
  <1> HIDE DEF taken
  <1>6. /\ HeldBy(c, s) \in SUBSET Event /\ IsFiniteSet(HeldBy(c, s))
        /\ Count(QuantityOf, HeldBy(c, s)) <= Count(QuantityOf, taken)
    BY <1>3, <1>4, <1>5, FS_Subset, CountMonotone
  <1>7. UnitsOf(HeldBy(c, s)) = Count(QuantityOf, HeldBy(c, s))
    BY <1>6, UnitsAreTokens
  <1>8. UnitsOf(HeldBy(c, s)) = Wanted(c, s)
    BY ConfirmedHoldsCart
  <1> QED
    BY <1>2, <1>4, <1>6, <1>7, <1>8 DEF taken

\* A checkout gives back and sells only what was reserved for it before: what
\* OnlyLateEventsStop assumes of the events the projections are given.
THEOREM NothingReturnedUnreserved == SingleGoCalls => (Spec => []ReturnedWasReserved)
  <1>1. IInv /\ LedgerInv => ReturnedWasReserved
    <2> SUFFICES ASSUME IInv, LedgerInv, NEW c \in Checkouts, NEW s \in Skus
                 PROVE  UnitsOf(EventsOf("InventoryReservationReleased", c, s)) + Sold(c, s)
                            <= UnitsOf(EventsOf("InventoryReserved", c, s))
      BY DEF ReturnedWasReserved
    <2>1. /\ UnitsOf(EventsOf("InventoryReservationReleased", c, s)) \in Nat
          /\ UnitsOf(EventsOf("InventoryReserved", c, s)) \in Nat
      BY EventsOfType, UnitsAreTokens
    <2>2. CASE Ordered(c)
      <3>1. UnitsOf(EventsOf("InventoryReservationReleased", c, s)) = 0
        <4>1. IsFiniteSet({}) /\ UnitsOf({}) = Count(QuantityOf, {})
          BY FS_EmptySet, UnitsAreTokens
        <4> QED
          BY <2>2, <4>1, OrderIsReserved, CountEmpty
      <3>2. UnitsOf(HeldBy(c, s)) = Wanted(c, s) /\ HeldBy(c, s) \subseteq events
        BY <2>2, ConfirmedHoldsCart DEF Ordered, HeldBy, Held, Stream
      <3>3. HeldBy(c, s) \in SUBSET Event /\ IsFiniteSet(HeldBy(c, s))
        BY <3>2, FS_Subset DEF IInv, TypeOK, StreamInv
      <3>4. Wanted(c, s) \in Nat
        BY <3>2, <3>3, UnitsAreTokens
      <3>5. Wanted(c, s) <= UnitsOf(EventsOf("InventoryReserved", c, s)) /\ Sold(c, s) = Wanted(c, s)
        BY <2>2, OrderIsReserved DEF Sold
      <3> QED
        BY <2>1, <3>1, <3>4, <3>5
    <2>3. CASE ~Ordered(c)
      <3>1. Sold(c, s) = 0
        BY <2>3 DEF Sold
      <3>2. UnitsOf(EventsOf("InventoryReservationReleased", c, s))
               <= UnitsOf(EventsOf("InventoryReserved", c, s))
        BY ReleasesAreBacked DEF LedgerInv
      <3> QED
        BY <2>1, <3>1, <3>2
    <2> QED
      BY <2>2, <2>3
  <1> QED
    BY <1>1, LedgerAlways, PTL

(***************************************************************************)
(* The load harnesses                                                      *)
(***************************************************************************)

------------------------------------------------------------------------------
(* The inductive invariant of the load harnesses *)

\* Requests have not all been taken yet, or have not been sent twice.
Loading == {"off", "setup", "accepting"}

\* The load is over, and the run has not failed.
Loaded == {"waiting", "replaying", "projecting", "batch", "measuring", "reporting"}

\* The keys that have been used are those below the next one; the window measures its own.
WindowInv ==
    /\ NextKey <= MaxKeys
    /\ config.style = "burst" => ~pool.warmup /\ pool.base = 0 /\ pool.next <= Requests
    /\ pool.closed => pool.next > 0
    /\ \A i \in RequestKeys :
          /\ request[i].sent = (IF i < NextKey THEN 1 ELSE 0)
          /\ ~pool.warmup /\ pool.base <= i /\ i < NextKey => request[i].measured

\* Requests are sent once, and then replayed.
SentInv ==
    /\ phase \in Loading => WindowInv
    /\ phase = "replaying" =>
          /\ config.program = "checkout" /\ request[0].answer # "none"
          /\ \A i \in RequestKeys : request[i].sent <= 1
    /\ KeysAreFresh

\* A request that has been sent is answered, or a worker waits for the answer; a checkout
\* intent that was accepted is stored; the collector has seen decisions only.
AnswerInv ==
    /\ \A i \in RequestKeys :
          request[i].sent > 0 /\ i \notin pool.inFlight => request[i].answer # "none"
    /\ \A i \in RequestKeys : request[i].measured => request[i].sent > 0
    /\ \A i \in RequestKeys :
          config.program = "checkout" /\ request[i].answer = "accepted" => request[i].outcome # "none"
    /\ \A i \in collector.seen : request[i].outcome # "none"

\* After the load every accepted command is decided, or pending.
PendingInv ==
    phase \in Loaded =>
        /\ pool.inFlight = {} /\ Measured # {}
        /\ \A i \in Accepted \ pending : request[i].outcome # "none"

\* Ids are drawn before they are used.
IdsInv ==
    /\ IsFiniteSet(store.ids) /\ store.nextId > 0
    /\ \A e \in store.ids : e \in Nat \ {0} /\ e < store.nextId

\* A run has a verdict when it is over, and goes on only as long as nothing has failed.
VerdictInv ==
    /\ report.failed => phase \in {"failing", "stopping", "ended"}
    /\ report.artifact # "none" => phase \in {"stopping", "ended"}
    /\ PassIsEarned

BenchmarkInv ==
    BenchmarkTypeOK /\ SentInv /\ AnswerInv /\ PendingInv /\ IdsInv /\ VerdictInv

\* What the parameters allow.
LEMMA BenchmarkParameters ==
    ASSUME BenchmarkTypeOK
    PROVE  /\ config.program \in {"buy_intent", "checkout"}
           /\ config.style \in {"burst", "steady_state"}
           /\ config.program = "checkout" => config.style = "burst" /\ ~Direct
           /\ Requests \in Nat \ {0} /\ Requests <= MaxKeys
           /\ 0 \in RequestKeys
  <1>1. config \in Configuration /\ config.program = "checkout" => config.style = "burst" /\ ~Direct
    BY BenchmarkAssumption DEF BenchmarkTypeOK, Direct
  <1>2. config \in Configuration
    BY BenchmarkAssumption DEF BenchmarkTypeOK
  <1>3. Requests \in Nat \ {0} /\ MaxKeys \in Nat /\ Requests <= MaxKeys
    BY BenchmarkAssumption
  <1> QED
    BY <1>1, <1>2, <1>3 DEF Configuration, RequestKeys

\* A worker takes keys that are there, and a burst no more than there are requests.
LEMMA KeysTaken ==
    ASSUME BenchmarkTypeOK, SentInv, phase = "accepting", MayIssue
    PROVE  /\ Take \in Nat \ {0}
           /\ NextKey \in Nat /\ NextKey + Take <= MaxKeys
           /\ NextKey .. NextKey + Take - 1 \in SUBSET RequestKeys
           /\ config.style = "burst" => pool.next + Take <= Requests
  <1>1. pool.next \in Nat /\ pool.base \in Nat /\ NextKey \in Nat /\ NextKey = pool.base + pool.next
    BY DEF BenchmarkTypeOK, NextKey
  <1>2. BatchSize \in Nat \ {0} /\ MaxKeys \in Nat
    BY BenchmarkAssumption
  <1>3. Requests \in Nat \ {0} /\ Requests <= MaxKeys
    BY BenchmarkParameters
  <1>4. WindowInv
    BY DEF SentInv, Loading
  <1>5. CASE config.style = "burst"
    <2>1. pool.next < Requests /\ pool.base = 0
      BY <1>4, <1>5 DEF MayIssue, WindowInv
    <2>2. Requests - pool.next \in Nat \ {0}
      BY <1>1, <1>3, <2>1
    <2>3. Min({BatchSize, Requests - pool.next}) \in Nat \ {0}
          /\ Min({BatchSize, Requests - pool.next}) <= Requests - pool.next
      BY <1>2, <2>2, MinOfTwo
    <2>4. Take \in Nat \ {0} /\ Take <= Requests - pool.next
      BY <1>5, <2>2, <2>3 DEF Take
    <2>5. pool.next + Take <= Requests
      BY <1>1, <1>3, <2>4
    <2> QED
      BY <1>1, <1>2, <1>3, <2>1, <2>4, <2>5 DEF RequestKeys
  <1>6. CASE config.style # "burst"
    <2>1. Take \in Nat \ {0}
      BY <1>2, <1>6 DEF Take
    <2>2. NextKey + Take <= (IF pool.warmup THEN MaxKeys - Take ELSE MaxKeys)
      BY <1>6 DEF MayIssue
    <2>3. NextKey + Take <= MaxKeys
      BY <1>1, <1>2, <2>1, <2>2
    <2> QED
      BY <1>1, <1>2, <1>6, <2>1, <2>3 DEF RequestKeys
  <1> QED
    BY <1>5, <1>6

RequestRecord == [sent : Nat, measured : BOOLEAN, answer : {"none", "accepted", "refused"},
                  outcome : {"none", "created", "failed"}]

\* What taking keys does to the requests.
LEMMA KeysSent ==
    ASSUME BenchmarkTypeOK, SentInv, Issue
    PROVE  /\ phase = "accepting"
           /\ request' \in [RequestKeys -> RequestRecord]
           /\ \A i \in RequestKeys :
                 /\ request'[i].answer = request[i].answer /\ request'[i].outcome = request[i].outcome
                 /\ i \in NextKey .. NextKey + Take - 1 =>
                        request'[i].sent = request[i].sent + 1 /\ request'[i].measured = ~pool.warmup
                 /\ i \notin NextKey .. NextKey + Take - 1 => request'[i] = request[i]
           /\ pool' = [pool EXCEPT !.next = @ + Take,
                                   !.inFlight = @ \cup (NextKey .. NextKey + Take - 1)]
           /\ UNCHANGED <<config, phase, collector, publisher, pending, report, store>>
  <1> PICK keys : keys = NextKey .. NextKey + Take - 1
    OBVIOUS
  <1>1. request' = [i \in RequestKeys |-> IF i \in keys
                       THEN [request[i] EXCEPT !.sent = @ + 1, !.measured = ~pool.warmup]
                       ELSE request[i]]
    BY DEF Issue, Send
  <1>2. request \in [RequestKeys -> RequestRecord] /\ pool.warmup \in BOOLEAN
    BY DEF BenchmarkTypeOK, RequestRecord
  <1>3. ASSUME NEW i \in RequestKeys
        PROVE  /\ request'[i] \in RequestRecord
               /\ request'[i].answer = request[i].answer /\ request'[i].outcome = request[i].outcome
               /\ i \in keys => request'[i].sent = request[i].sent + 1
               /\ i \in keys => request'[i].measured = ~pool.warmup
               /\ i \notin keys => request'[i] = request[i]
    <2> PICK r : r = request[i]
      OBVIOUS
    <2> PICK m : m = ~pool.warmup
      OBVIOUS
    <2> PICK s : s = [r EXCEPT !.sent = @ + 1, !.measured = m]
      OBVIOUS
    <2>1. r \in RequestRecord
      BY <1>2
    <2>2. m \in BOOLEAN
      BY <1>2
    <2> PICK q : q = [r EXCEPT !.sent = @ + 1]
      OBVIOUS
    <2>3. q \in RequestRecord /\ q.answer = r.answer /\ q.outcome = r.outcome /\ q.sent = r.sent + 1
      BY <2>1 DEF RequestRecord
    <2>4. s = [q EXCEPT !.measured = m]
      OBVIOUS
    <2>6. s \in RequestRecord /\ s.answer = q.answer /\ s.outcome = q.outcome /\ s.sent = q.sent
          /\ s.measured = m
      BY <2>2, <2>3, <2>4 DEF RequestRecord
    <2>5. request'[i] = IF i \in keys THEN s ELSE r
      BY <1>1
    <2> QED
      BY <2>1, <2>3, <2>5, <2>6
  <1>4. request' \in [RequestKeys -> RequestRecord]
    BY <1>1, <1>3
  <1>5. phase = "accepting" /\ pool' = [pool EXCEPT !.next = @ + Take, !.inFlight = @ \cup keys]
        /\ UNCHANGED <<config, phase, collector, publisher, pending, report, store>>
    BY DEF Issue
  <1> QED
    BY <1>3, <1>4, <1>5

\* What an answer does to the requests.
LEMMA RequestsAnswered ==
    ASSUME BenchmarkTypeOK, NEW keys, NEW answer \in {"accepted", "refused"}, Answer(keys, answer)
    PROVE  /\ phase = "accepting" /\ keys \subseteq pool.inFlight
           /\ request' \in [RequestKeys -> RequestRecord]
           /\ \A i \in RequestKeys :
                 /\ request'[i].sent = request[i].sent /\ request'[i].measured = request[i].measured
                 /\ request'[i].outcome = request[i].outcome
                 /\ request'[i].answer = (IF i \in keys THEN answer ELSE request[i].answer)
                 /\ config.program = "checkout" /\ answer = "accepted" /\ i \in keys =>
                        request[i].outcome # "none"
           /\ pool' = [pool EXCEPT !.inFlight = @ \ keys]
           /\ UNCHANGED <<config, phase, collector, publisher, pending, report, store>>
  <1>1. request' = [i \in RequestKeys |-> IF i \in keys THEN [request[i] EXCEPT !.answer = answer]
                                          ELSE request[i]]
    BY DEF Answer
  <1>2. request \in [RequestKeys -> RequestRecord]
    BY DEF BenchmarkTypeOK, RequestRecord
  <1>3. ASSUME NEW i \in RequestKeys
        PROVE  /\ request'[i] \in RequestRecord
               /\ request'[i].sent = request[i].sent /\ request'[i].measured = request[i].measured
               /\ request'[i].outcome = request[i].outcome
               /\ request'[i].answer = (IF i \in keys THEN answer ELSE request[i].answer)
    <2> PICK r : r = request[i]
      OBVIOUS
    <2> PICK s : s = [r EXCEPT !.answer = answer]
      OBVIOUS
    <2>1. r \in RequestRecord
      BY <1>2
    <2>2. s \in RequestRecord /\ s.sent = r.sent /\ s.measured = r.measured /\ s.outcome = r.outcome
          /\ s.answer = answer
      BY <2>1 DEF RequestRecord
    <2>3. request'[i] = IF i \in keys THEN s ELSE r
      BY <1>1
    <2> QED
      BY <2>1, <2>2, <2>3
  <1>4. request' \in [RequestKeys -> RequestRecord]
    BY <1>1, <1>3
  <1>5. /\ phase = "accepting" /\ keys \subseteq pool.inFlight
        /\ pool' = [pool EXCEPT !.inFlight = @ \ keys]
        /\ UNCHANGED <<config, phase, collector, publisher, pending, report, store>>
        /\ \A i \in RequestKeys : config.program = "checkout" /\ answer = "accepted" /\ i \in keys =>
               request[i].outcome # "none"
    BY DEF Answer
  <1> QED
    BY <1>3, <1>4, <1>5

\* What a decision does to the requests.
LEMMA RequestDecided ==
    ASSUME BenchmarkTypeOK, NEW k \in RequestKeys, NEW outcome \in {"created", "failed"},
           request' = Outcome(k, outcome)
    PROVE  /\ request' \in [RequestKeys -> RequestRecord]
           /\ \A i \in RequestKeys :
                 /\ request'[i].sent = request[i].sent /\ request'[i].measured = request[i].measured
                 /\ request'[i].answer = request[i].answer
                 /\ request'[i].outcome = (IF i = k THEN outcome ELSE request[i].outcome)
  <1>1. request \in [RequestKeys -> RequestRecord]
    BY DEF BenchmarkTypeOK, RequestRecord
  <1>2. request' = [request EXCEPT ![k].outcome = outcome]
    BY DEF Outcome
  <1> PICK r : r = request[k]
    OBVIOUS
  <1> PICK s : s = [r EXCEPT !.outcome = outcome]
    OBVIOUS
  <1>3. s \in RequestRecord /\ s.sent = r.sent /\ s.measured = r.measured /\ s.answer = r.answer
        /\ s.outcome = outcome
    BY <1>1 DEF RequestRecord
  <1>4. request' = [request EXCEPT ![k] = s]
    BY <1>2
  <1> QED
    BY <1>1, <1>3, <1>4

\* What the replay does to the requests.
LEMMA FirstReplayed ==
    ASSUME BenchmarkTypeOK, ReplayFirst
    PROVE  /\ request' \in [RequestKeys -> RequestRecord]
           /\ \A i \in RequestKeys :
                 /\ request'[i].sent = (IF i = 0 THEN request[i].sent + 1 ELSE request[i].sent)
                 /\ request'[i].measured = request[i].measured
                 /\ request'[i].answer = request[i].answer
                 /\ request'[i].outcome = (IF i = 0 THEN "created" ELSE request[i].outcome)
           /\ phase = "replaying" /\ phase' = "projecting"
           /\ UNCHANGED <<config, pool, collector, publisher, pending, report>>
  <1>1. request \in [RequestKeys -> RequestRecord] /\ 0 \in RequestKeys
    BY BenchmarkParameters DEF BenchmarkTypeOK, RequestRecord
  <1>2. request' = [request EXCEPT ![0].sent = @ + 1, ![0].outcome = "created"]
    BY DEF ReplayFirst
  <1> PICK r : r = request[0]
    OBVIOUS
  <1> PICK q : q = [r EXCEPT !.sent = @ + 1]
    OBVIOUS
  <1> PICK s : s = [q EXCEPT !.outcome = "created"]
    OBVIOUS
  <1>3. r \in RequestRecord
    BY <1>1
  <1>4. q \in RequestRecord /\ q.sent = r.sent + 1 /\ q.measured = r.measured /\ q.answer = r.answer
    BY <1>3 DEF RequestRecord
  <1>5. s \in RequestRecord /\ s.sent = q.sent /\ s.measured = q.measured /\ s.answer = q.answer
        /\ s.outcome = "created"
    BY <1>4 DEF RequestRecord
  <1>6. request' = [request EXCEPT ![0] = s]
    <2> PICK p : p = [request EXCEPT ![0] = q]
      OBVIOUS
    <2>1. request' = [[request EXCEPT ![0].sent = @ + 1] EXCEPT ![0].outcome = "created"]
      BY <1>2
    <2>2. p = [request EXCEPT ![0].sent = @ + 1]
      OBVIOUS
    <2>3. p[0] = q /\ p \in [RequestKeys -> RequestRecord]
      BY <1>1, <1>4
    <2>4. request' = [p EXCEPT ![0] = s]
      BY <2>1, <2>2, <2>3
    <2> QED
      BY <1>1, <1>5, <2>3, <2>4
  <1>7. /\ phase = "replaying" /\ phase' = "projecting"
        /\ UNCHANGED <<config, pool, collector, publisher, pending, report>>
    BY DEF ReplayFirst
  <1> QED
    BY <1>1, <1>3, <1>4, <1>5, <1>6, <1>7

\* The steps that neither send nor answer nor decide a request.
Others ==
    \/ Setup \/ HelperErrors \/ Join \/ OtherWorker
    \/ Poll \/ WaitTimesOut \/ PollFails \/ CompareCheckpoint \/ ProcessBatch
    \/ Finish
    \/ UNCHANGED benchmarkVars

\* They leave the requests alone, and no phase is entered twice.
LEMMA OthersGoOn ==
    ASSUME Others
    PROVE  /\ UNCHANGED <<config, pool, request>>
           /\ phase' \in Loading => phase \in Loading
           /\ phase' \in Loaded => phase \in Loaded
           /\ phase' = "replaying" => phase = "replaying"
  <1>1. CASE Setup
    BY <1>1 DEF Setup, Start, AppUnreachable, StartFails, Prepare, Throw, Loading, Loaded
  <1>2. CASE HelperErrors
    BY <1>2 DEF HelperErrors, GoHTTPLoadgenFails, FranzGoPublisherFails, HelperFails, Throw, Loading, Loaded
  <1>3. CASE Join \/ OtherWorker
    BY <1>3 DEF Join, OtherWorker
  <1>4. CASE Poll \/ WaitTimesOut \/ PollFails
    BY <1>4 DEF Poll, WaitTimesOut, PollFails, Throw, Loading, Loaded
  <1>5. CASE CompareCheckpoint \/ ProcessBatch
    BY <1>5 DEF CompareCheckpoint, ProcessBatch, Throw, Loading, Loaded
  <1>6. CASE Finish
    BY <1>6 DEF Finish, ReadFigures, ReadFiguresFails, Report, CheckoutReport, ReportFails, WriteFailure,
                Stop, Throw, AfterError, Loading, Loaded
  <1>7. CASE UNCHANGED benchmarkVars
    BY <1>7 DEF benchmarkVars
  <1> QED
    BY <1>1, <1>2, <1>3, <1>4, <1>5, <1>6, <1>7 DEF Others

\* The steps of the harness.
LEMMA StepsOfHarness ==
    ASSUME [BenchmarkNext]_benchmarkVars
    PROVE  \/ Issue \/ EndWarmup \/ EndAccepting \/ DeadlinePasses \/ ReplayFirst
           \/ \E keys : \E answer \in {"accepted", "refused"} : Answer(keys, answer)
           \/ \E i \in RequestKeys, outcome \in {"created", "failed"} : Decide(i, outcome)
           \/ \E i \in RequestKeys : StoreIntent(i)
           \/ Others
  BY DEF BenchmarkNext, Accepting, Answers, Drain, System, Others

\* Every step sends unused keys, but for the replay.
LEMMA SentStep ==
    ASSUME BenchmarkTypeOK, SentInv, AnswerInv, [BenchmarkNext]_benchmarkVars
    PROVE  SentInv'
  <1>1. /\ pool.base \in Nat /\ pool.next \in Nat /\ MaxKeys \in Nat /\ Requests \in Nat \ {0}
        /\ Requests <= MaxKeys /\ 0 \in RequestKeys
        /\ \A i \in RequestKeys : i \in Nat /\ i < MaxKeys /\ request[i].sent \in Nat
    BY BenchmarkParameters, BenchmarkAssumption DEF BenchmarkTypeOK, RequestKeys
  <1>3. CASE Issue
    <2> PICK n : n = Take
      OBVIOUS
    <2> DEFINE keys == NextKey .. NextKey + n - 1
    <2>1. /\ phase = "accepting" /\ phase' = phase /\ config' = config
          /\ \A i \in RequestKeys :
                /\ request'[i].answer = request[i].answer
                /\ i \in keys => request'[i].sent = request[i].sent + 1 /\ request'[i].measured = ~pool.warmup
                /\ i \notin keys => request'[i] = request[i]
          /\ pool' = [pool EXCEPT !.next = @ + n, !.inFlight = @ \cup keys]
      BY <1>3, KeysSent
    <2>2. /\ n \in Nat \ {0} /\ NextKey \in Nat /\ NextKey + n <= MaxKeys /\ keys \in SUBSET RequestKeys
          /\ config.style = "burst" => pool.next + n <= Requests
      BY <1>3, <2>1, KeysTaken DEF Issue
    <2>3. /\ pool'.next = pool.next + n /\ pool'.base = pool.base /\ pool'.warmup = pool.warmup
          /\ pool'.closed = pool.closed
      BY <2>1 DEF BenchmarkTypeOK
    <2>4. NextKey' = NextKey + n /\ NextKey = pool.base + pool.next
      BY <1>1, <2>2, <2>3 DEF NextKey
    <2>5. WindowInv
      BY <2>1 DEF SentInv, Loading
    <2>6. ASSUME NEW i \in RequestKeys
          PROVE  request'[i].sent = (IF i < NextKey' THEN 1 ELSE 0)
      <3>1. request[i].sent = (IF i < NextKey THEN 1 ELSE 0)
        BY <2>5 DEF WindowInv
      <3>2. CASE i \in keys
        BY <1>1, <2>1, <2>2, <2>4, <3>1, <3>2
      <3>3. CASE i \notin keys
        BY <1>1, <2>1, <2>2, <2>4, <3>1, <3>3
      <3> QED
        BY <3>2, <3>3
    <2>7. ASSUME NEW i \in RequestKeys, ~pool.warmup, pool.base <= i, i < NextKey'
          PROVE  request'[i].measured
      <3>1. CASE i \in keys
        <4>1. request'[i].measured = ~pool.warmup
          BY <2>1, <3>1
        <4> QED
          BY <2>7, <4>1, Zenon
      <3>2. CASE i \notin keys
        <4>1. i < NextKey
          BY <1>1, <2>2, <2>4, <2>7, <3>2
        <4> QED
          BY <2>1, <2>5, <2>7, <3>2, <4>1 DEF WindowInv
      <3> QED
        BY <3>1, <3>2
    <2> HIDE DEF keys
    <2>8. WindowInv'
      BY <1>1, <2>1, <2>2, <2>3, <2>4, <2>5, <2>6, <2>7 DEF WindowInv
    <2>9. KeysAreFresh'
      BY <2>6 DEF KeysAreFresh
    <2> QED
      BY <2>1, <2>5, <2>8, <2>9 DEF SentInv
  <1>4. ASSUME NEW keys, NEW answer \in {"accepted", "refused"}, Answer(keys, answer)
        PROVE  SentInv'
    <2>1. /\ phase = "accepting" /\ phase' = phase /\ config' = config
          /\ \A i \in RequestKeys :
                /\ request'[i].sent = request[i].sent /\ request'[i].measured = request[i].measured
                /\ request'[i].answer = (IF i \in keys THEN answer ELSE request[i].answer)
          /\ pool' = [pool EXCEPT !.inFlight = @ \ keys]
      BY <1>4, RequestsAnswered
    <2>2. /\ pool'.next = pool.next /\ pool'.base = pool.base /\ pool'.warmup = pool.warmup
          /\ pool'.closed = pool.closed
      BY <2>1 DEF BenchmarkTypeOK
    <2>3. WindowInv'
      BY <2>1, <2>2 DEF SentInv, Loading, WindowInv, NextKey
    <2>4. KeysAreFresh'
      BY <2>1 DEF SentInv, Loading, WindowInv, KeysAreFresh
    <2> QED
      BY <2>1, <2>3, <2>4 DEF SentInv
  <1>5. CASE DeadlinePasses
    <2>1. /\ phase = "accepting" /\ pool.next > 0 /\ config.style = "steady_state"
          /\ pool' = [pool EXCEPT !.closed = TRUE] /\ UNCHANGED <<config, phase, request>>
      BY <1>5 DEF DeadlinePasses
    <2>2. /\ pool'.next = pool.next /\ pool'.base = pool.base /\ pool'.warmup = pool.warmup
      BY <2>1 DEF BenchmarkTypeOK
    <2>3. WindowInv'
      BY <2>1, <2>2 DEF SentInv, Loading, WindowInv, NextKey
    <2> QED
      BY <2>1, <2>3 DEF SentInv, KeysAreFresh
  <1>6. CASE EndWarmup
    <2>1. /\ phase = "accepting" /\ pool.warmup
          /\ pool' = [pool EXCEPT !.warmup = FALSE, !.closed = FALSE, !.next = 0, !.base = NextKey]
          /\ UNCHANGED <<config, phase, request>>
      BY <1>6 DEF EndWarmup, SendingDone
    <2>2. /\ pool'.next = 0 /\ pool'.base = NextKey /\ pool'.warmup = FALSE /\ pool'.closed = FALSE
      BY <2>1 DEF BenchmarkTypeOK
    <2>3. NextKey' = NextKey /\ NextKey \in Nat
      BY <1>1, <2>2 DEF NextKey
    <2>4. WindowInv
      BY <2>1 DEF SentInv, Loading
    <2>5. config.style # "burst"
      BY <2>1, <2>4 DEF WindowInv
    <2>6. WindowInv'
      BY <1>1, <2>1, <2>2, <2>3, <2>4, <2>5 DEF WindowInv
    <2> QED
      BY <2>1, <2>6 DEF SentInv, KeysAreFresh
  <1>7. CASE EndAccepting
    <2>1. /\ phase = "accepting" /\ pool.inFlight = {} /\ ~pool.warmup
          /\ config.style = "burst" => pool.next = Requests
          /\ phase' \in {"replaying", "failing", "waiting"}
          /\ phase' = "replaying" => config.program = "checkout"
          /\ UNCHANGED <<config, pool, request>>
      BY <1>7 DEF EndAccepting, SendingDone, Throw
    <2>2. WindowInv
      BY <2>1 DEF SentInv, Loading
    <2>3. \A i \in RequestKeys : request[i].sent <= 1
      BY <2>2 DEF WindowInv
    <2>4. ASSUME phase' = "replaying" PROVE request[0].answer # "none"
      <3>1. NextKey = Requests
        BY <1>1, <2>1, <2>2, <2>4, BenchmarkParameters DEF WindowInv, NextKey
      <3>2. request[0].sent = 1
        BY <1>1, <2>2, <3>1 DEF WindowInv
      <3> QED
        BY <1>1, <2>1, <3>2 DEF AnswerInv
    <2> QED
      BY <2>1, <2>3, <2>4 DEF SentInv, Loading, KeysAreFresh
  <1>8. CASE ReplayFirst
    <2>1. /\ \A i \in RequestKeys :
                /\ request'[i].sent = (IF i = 0 THEN request[i].sent + 1 ELSE request[i].sent)
                /\ request'[i].answer = request[i].answer
          /\ phase = "replaying" /\ phase' = "projecting" /\ config' = config
      BY <1>8, FirstReplayed
    <2>2. request[0].answer # "none" /\ \A i \in RequestKeys : request[i].sent <= 1
      BY <2>1 DEF SentInv
    <2>3. config.program = "checkout"
      BY <2>1 DEF SentInv
    <2>4. KeysAreFresh'
      BY <1>1, <2>1, <2>2, <2>3 DEF KeysAreFresh
    <2> QED
      BY <2>1, <2>4 DEF SentInv, Loading
  <1>9. ASSUME NEW i \in RequestKeys, NEW outcome \in {"created", "failed"},
               Decide(i, outcome) \/ StoreIntent(i)
        PROVE  SentInv'
    <2>1. /\ \/ request' = Outcome(i, outcome)
             \/ request' = Outcome(i, "created")
          /\ UNCHANGED <<config, phase, pool>>
      BY <1>9 DEF Decide, StoreIntent
    <2>2. \A k \in RequestKeys : /\ request'[k].sent = request[k].sent
                                 /\ request'[k].measured = request[k].measured
                                 /\ request'[k].answer = request[k].answer
      BY <2>1, RequestDecided
    <2>3. WindowInv => WindowInv'
      BY <2>1, <2>2 DEF WindowInv, NextKey
    <2> QED
      BY <1>1, <2>1, <2>2, <2>3 DEF SentInv, KeysAreFresh
  <1>10. CASE Others
    <2>1. /\ UNCHANGED <<config, pool, request>>
          /\ phase' \in Loading => phase \in Loading
          /\ phase' = "replaying" => phase = "replaying"
      BY <1>10, OthersGoOn
    <2>2. WindowInv => WindowInv'
      BY <2>1 DEF WindowInv, NextKey
    <2> QED
      BY <2>1, <2>2 DEF SentInv, KeysAreFresh
  <1> QED
    BY <1>3, <1>4, <1>5, <1>6, <1>7, <1>8, <1>9, <1>10, StepsOfHarness

\* What the other steps leave to the collector is decided.
LEMMA OthersSeeDecisions ==
    ASSUME BenchmarkTypeOK, Others
    PROVE  \A i \in collector'.seen : i \in collector.seen \/ request[i].outcome # "none"
  <1>1. collector \in [state : {"off", "joining", "running"}, seen : SUBSET RequestKeys]
    BY DEF BenchmarkTypeOK
  <1>2. CASE Setup
    BY <1>1, <1>2 DEF Setup, Start, AppUnreachable, StartFails, Prepare
  <1>3. CASE Join
    BY <1>1, <1>3 DEF Join
  <1>4. CASE Stop
    BY <1>1, <1>4 DEF Stop
  <1>5. CASE UNCHANGED collector
    BY <1>5
  <1>6. HelperErrors \/ OtherWorker \/ Poll \/ WaitTimesOut \/ PollFails \/ CompareCheckpoint
        \/ ProcessBatch \/ (Finish /\ ~Stop) \/ UNCHANGED benchmarkVars => UNCHANGED collector
    BY DEF HelperErrors, GoHTTPLoadgenFails, FranzGoPublisherFails, HelperFails, OtherWorker, Poll,
           WaitTimesOut, PollFails, CompareCheckpoint, ProcessBatch, Finish, ReadFigures, ReadFiguresFails,
           Report, CheckoutReport, ReportFails, WriteFailure, benchmarkVars
  <1> QED
    BY <1>2, <1>3, <1>4, <1>5, <1>6 DEF Others, Finish

\* Every step leaves a request answered, or somebody waiting for the answer.
LEMMA AnswerStep ==
    ASSUME BenchmarkTypeOK, SentInv, AnswerInv, [BenchmarkNext]_benchmarkVars
    PROVE  AnswerInv'
  <1>1. /\ pool.inFlight \in SUBSET RequestKeys /\ collector.seen \in SUBSET RequestKeys
        /\ \A i \in RequestKeys : request[i].sent \in Nat /\ request[i] \in RequestRecord
    BY DEF BenchmarkTypeOK, RequestRecord
  <1>2. CASE Issue
    <2> PICK keys : keys = NextKey .. NextKey + Take - 1
      OBVIOUS
    <2>1. /\ \A i \in RequestKeys :
                /\ request'[i].answer = request[i].answer /\ request'[i].outcome = request[i].outcome
                /\ i \in keys => request'[i].sent = request[i].sent + 1
                /\ i \notin keys => request'[i] = request[i]
          /\ pool' = [pool EXCEPT !.next = @ + Take, !.inFlight = @ \cup keys]
          /\ UNCHANGED <<config, collector>>
      BY <1>2, KeysSent
    <2>2. pool'.inFlight = pool.inFlight \cup keys
      BY <2>1 DEF BenchmarkTypeOK
    <2> QED
      BY <1>1, <2>1, <2>2 DEF AnswerInv
  <1>3. ASSUME NEW keys, NEW answer \in {"accepted", "refused"}, Answer(keys, answer)
        PROVE  AnswerInv'
    <2>1. /\ \A i \in RequestKeys :
                /\ request'[i].sent = request[i].sent /\ request'[i].measured = request[i].measured
                /\ request'[i].outcome = request[i].outcome
                /\ request'[i].answer = (IF i \in keys THEN answer ELSE request[i].answer)
                /\ config.program = "checkout" /\ answer = "accepted" /\ i \in keys =>
                       request[i].outcome # "none"
          /\ pool' = [pool EXCEPT !.inFlight = @ \ keys]
          /\ UNCHANGED <<config, collector>>
      BY <1>3, RequestsAnswered
    <2>2. pool'.inFlight = pool.inFlight \ keys
      BY <2>1 DEF BenchmarkTypeOK
    <2> QED
      BY <1>1, <2>1, <2>2 DEF AnswerInv
  <1>4. CASE DeadlinePasses \/ EndWarmup \/ EndAccepting
    <2>1. /\ pool' = [pool EXCEPT !.closed = TRUE] \/ UNCHANGED pool
             \/ pool' = [pool EXCEPT !.warmup = FALSE, !.closed = FALSE, !.next = 0, !.base = NextKey]
          /\ UNCHANGED <<config, request, collector>>
      BY <1>4 DEF DeadlinePasses, EndWarmup, EndAccepting
    <2>2. pool'.inFlight = pool.inFlight
      BY <2>1 DEF BenchmarkTypeOK
    <2> QED
      BY <2>1, <2>2 DEF AnswerInv
  <1>5. CASE ReplayFirst
    <2>1. /\ \A i \in RequestKeys :
                /\ request'[i].sent = (IF i = 0 THEN request[i].sent + 1 ELSE request[i].sent)
                /\ request'[i].measured = request[i].measured
                /\ request'[i].answer = request[i].answer
                /\ request'[i].outcome = (IF i = 0 THEN "created" ELSE request[i].outcome)
          /\ phase = "replaying"
          /\ UNCHANGED <<config, pool, collector>>
      BY <1>5, FirstReplayed
    <2>2. request[0].answer # "none"
      BY <2>1 DEF SentInv
    <2> QED
      BY <1>1, <2>1, <2>2 DEF AnswerInv
  <1>6. ASSUME NEW k \in RequestKeys, NEW outcome \in {"created", "failed"},
               Decide(k, outcome) \/ StoreIntent(k)
        PROVE  AnswerInv'
    <2> PICK o \in {"created", "failed"} : request' = Outcome(k, o)
      BY <1>6 DEF Decide, StoreIntent
    <2>1. \A i \in RequestKeys : /\ request'[i].sent = request[i].sent
                                 /\ request'[i].measured = request[i].measured
                                 /\ request'[i].answer = request[i].answer
                                 /\ request'[i].outcome = (IF i = k THEN o ELSE request[i].outcome)
      BY RequestDecided
    <2>2. /\ UNCHANGED <<config, pool>>
          /\ \/ UNCHANGED collector
             \/ collector' = [collector EXCEPT !.seen = IF collector.state = "running" THEN @ \cup {k} ELSE @]
      BY <1>6 DEF Decide, StoreIntent
    <2>3. collector'.seen \subseteq collector.seen \cup {k}
      BY <2>2 DEF BenchmarkTypeOK
    <2> QED
      BY <1>1, <2>1, <2>2, <2>3 DEF AnswerInv
  <1>7. CASE Others
    <2>1. UNCHANGED <<config, pool, request>>
      BY <1>7, OthersGoOn
    <2>2. \A i \in collector'.seen : i \in collector.seen \/ request[i].outcome # "none"
      BY <1>7, OthersSeeDecisions
    <2> QED
      BY <2>1, <2>2 DEF AnswerInv
  <1> QED
    BY <1>2, <1>3, <1>4, <1>5, <1>6, <1>7, StepsOfHarness

\* What is no longer pending has an outcome.
LEMMA OthersDrop ==
    ASSUME BenchmarkTypeOK, AnswerInv, Others
    PROVE  \A i \in pending \ pending' : request[i].outcome # "none"
  <1>1. pending \in SUBSET RequestKeys
    BY DEF BenchmarkTypeOK
  <1>2. CASE Poll
    <2>1. pending' = {i \in pending : ~Visible(i)}
      BY <1>2 DEF Poll
    <2>2. ASSUME NEW i \in pending, Visible(i) PROVE request[i].outcome # "none"
      BY <2>2 DEF Visible, AnswerInv
    <2> QED
      BY <2>1, <2>2
  <1>3. CASE UNCHANGED pending
    BY <1>3
  <1>4. Setup \/ Join \/ OtherWorker \/ HelperErrors \/ CompareCheckpoint \/ ProcessBatch => UNCHANGED pending
    BY DEF Setup, Start, AppUnreachable, StartFails, Prepare, Join, OtherWorker, HelperErrors,
           GoHTTPLoadgenFails, FranzGoPublisherFails, HelperFails, CompareCheckpoint, ProcessBatch
  <1>5. WaitTimesOut \/ PollFails \/ Finish \/ UNCHANGED benchmarkVars => UNCHANGED pending
    BY DEF WaitTimesOut, PollFails, Finish, ReadFigures, ReadFiguresFails, Report, CheckoutReport,
           ReportFails, WriteFailure, Stop, benchmarkVars
  <1> QED
    BY <1>2, <1>3, <1>4, <1>5 DEF Others

\* Every step leaves an accepted command decided or pending, once the load is over.
LEMMA PendingStep ==
    ASSUME BenchmarkTypeOK, SentInv, AnswerInv, PendingInv, [BenchmarkNext]_benchmarkVars
    PROVE  PendingInv'
  <1>1. /\ pool.base \in Nat /\ pool.next \in Nat /\ MaxKeys \in Nat /\ Requests \in Nat \ {0}
        /\ \A i \in RequestKeys : request[i].sent \in Nat
    BY BenchmarkParameters, BenchmarkAssumption DEF BenchmarkTypeOK
  <1>2. CASE Issue \/ DeadlinePasses \/ EndWarmup \/ (\E i \in RequestKeys : StoreIntent(i))
             \/ (\E keys : \E answer \in {"accepted", "refused"} : Answer(keys, answer))
    <2>1. phase' = "accepting"
      BY <1>2 DEF Issue, DeadlinePasses, EndWarmup, SendingDone, StoreIntent, Answer
    <2> QED
      BY <2>1 DEF PendingInv, Loaded
  <1>3. CASE EndAccepting
    <2>1. /\ phase = "accepting" /\ pool.inFlight = {} /\ ~pool.warmup
          /\ IF config.style = "burst" THEN pool.next = Requests ELSE pool.closed
          /\ pending' = IF BuyIntent THEN Accepted ELSE {}
          /\ UNCHANGED <<config, pool, request>>
      BY <1>3 DEF EndAccepting, SendingDone
    <2>2. WindowInv
      BY <2>1 DEF SentInv, Loading
    <2>3. pool.next > 0
      BY <1>1, <2>1, <2>2 DEF WindowInv
    <2>4. pool.base \in RequestKeys /\ pool.base < NextKey
      BY <1>1, <2>2, <2>3 DEF WindowInv, NextKey, RequestKeys
    <2>5. request[pool.base].measured
      BY <1>1, <2>1, <2>2, <2>4 DEF WindowInv
    <2>6. Measured' # {} /\ Accepted' = Accepted
      BY <2>1, <2>4, <2>5 DEF Measured, Accepted
    <2>7. ASSUME NEW i \in Accepted \ pending' PROVE request[i].outcome # "none"
      <3>1. ~BuyIntent
        BY <2>1, <2>7
      <3>2. config.program = "checkout"
        BY <3>1, BenchmarkParameters DEF BuyIntent
      <3> QED
        BY <3>2 DEF AnswerInv, Accepted, Measured
    <2> QED
      BY <2>1, <2>6, <2>7 DEF PendingInv
  <1>4. ASSUME NEW k \in RequestKeys, NEW outcome \in {"created", "failed"}, Decide(k, outcome)
        PROVE  PendingInv'
    <2>1. \A i \in RequestKeys : /\ request'[i].measured = request[i].measured
                                 /\ request'[i].answer = request[i].answer
                                 /\ request'[i].outcome = (IF i = k THEN outcome ELSE request[i].outcome)
      BY <1>4, RequestDecided DEF Decide
    <2>2. Measured' = Measured /\ Accepted' = Accepted
      BY <2>1 DEF Measured, Accepted
    <2>3. UNCHANGED <<phase, pool, pending>>
      BY <1>4 DEF Decide
    <2> QED
      BY <2>1, <2>2, <2>3 DEF PendingInv, Accepted, Measured
  <1>5. CASE ReplayFirst
    <2>1. /\ \A i \in RequestKeys : /\ request'[i].measured = request[i].measured
                                    /\ request'[i].answer = request[i].answer
                                    /\ request'[i].outcome = (IF i = 0 THEN "created" ELSE request[i].outcome)
          /\ phase = "replaying"
          /\ UNCHANGED <<pool, pending>>
      BY <1>5, FirstReplayed
    <2>2. Measured' = Measured /\ Accepted' = Accepted
      BY <2>1 DEF Measured, Accepted
    <2> QED
      BY <2>1, <2>2 DEF PendingInv, Loaded, Accepted, Measured
  <1>6. CASE Others
    <2>1. phase' \in Loaded => phase \in Loaded
      BY <1>6, OthersGoOn
    <2>2. UNCHANGED <<pool, request>>
      BY <1>6, OthersGoOn
    <2>3. \A i \in pending \ pending' : request[i].outcome # "none"
      BY <1>6, OthersDrop
    <2>4. Measured' = Measured /\ Accepted' = Accepted
      BY <2>2 DEF Measured, Accepted
    <2> QED
      BY <2>1, <2>2, <2>3, <2>4 DEF PendingInv
  <1> QED
    BY <1>2, <1>3, <1>4, <1>5, <1>6, StepsOfHarness

\* Every step draws a new id for what it stores.
LEMMA IdsStep ==
    ASSUME BenchmarkTypeOK, IdsInv, [BenchmarkNext]_benchmarkVars
    PROVE  IdsInv'
  <1>1. store \in [ids : SUBSET Nat, nextId : Nat, checkpoint : Nat]
    BY DEF BenchmarkTypeOK
  <1>2. CASE \E stored \in BOOLEAN : AppendEvent(stored)
    <2> PICK stored \in BOOLEAN : AppendEvent(stored)
      BY <1>2
    <2> PICK ids : ids = IF stored THEN store.ids \cup {store.nextId} ELSE store.ids
      OBVIOUS
    <2>1. store' = [store EXCEPT !.nextId = @ + 1, !.ids = ids]
      BY DEF AppendEvent
    <2>2. store'.ids = ids /\ store'.nextId = store.nextId + 1
      BY <1>1, <2>1
    <2>3. IsFiniteSet(ids)
      BY FS_AddElement DEF IdsInv
    <2> QED
      BY <1>1, <2>2, <2>3 DEF IdsInv
  <1>3. CASE store'.ids = store.ids /\ store'.nextId = store.nextId
    BY <1>3 DEF IdsInv
  <1>4. ASSUME NEW c, store' = [store EXCEPT !.checkpoint = c]
        PROVE  store'.ids = store.ids /\ store'.nextId = store.nextId
    BY <1>1, <1>4
  <1>5. (\E i \in RequestKeys : StoreIntent(i)) \/ ReplayFirst => \E stored \in BOOLEAN : AppendEvent(stored)
    BY DEF StoreIntent, ReplayFirst
  <1>6. OtherWorker \/ ProcessBatch => UNCHANGED store \/ \E c : store' = [store EXCEPT !.checkpoint = c]
    BY DEF OtherWorker, ProcessBatch
  <1>7. ASSUME Others, ~OtherWorker, ~ProcessBatch PROVE UNCHANGED store
    BY <1>7 DEF Others, Setup, Start, AppUnreachable, StartFails, Prepare, HelperErrors,
           GoHTTPLoadgenFails, FranzGoPublisherFails, HelperFails, Join, Poll, WaitTimesOut, PollFails,
           CompareCheckpoint, Finish, ReadFigures, ReadFiguresFails, Report, CheckoutReport,
           ReportFails, WriteFailure, Stop, benchmarkVars
  <1>8. Issue \/ EndWarmup \/ EndAccepting \/ DeadlinePasses => UNCHANGED store
    BY DEF Issue, EndWarmup, EndAccepting, DeadlinePasses
  <1>9. ASSUME \/ \E keys : \E answer \in {"accepted", "refused"} : Answer(keys, answer)
               \/ \E i \in RequestKeys, outcome \in {"created", "failed"} : Decide(i, outcome)
        PROVE  UNCHANGED store
    BY <1>9 DEF Answer, Decide
  <1> QED
    BY <1>2, <1>3, <1>4, <1>5, <1>6, <1>7, <1>8, <1>9, StepsOfHarness

\* There is an event up to which a pass applies as many as it may.
LEMMA BatchHasLast ==
    ASSUME NEW waiting, waiting \subseteq Nat, waiting # {}, IsFiniteSet(waiting),
           NEW bound \in Nat, \A e \in waiting : e <= bound
    PROVE  \E c \in waiting : Cardinality({e \in waiting : e <= c})
                                  = Min({ProjectionBatch, Cardinality(waiting)})
  <1> DEFINE UpTo(c) == {e \in waiting : e <= c}
             Below(c) == {e \in waiting : e < c}
             k == Min({ProjectionBatch, Cardinality(waiting)})
             Enough == {c \in waiting : Cardinality(UpTo(c)) >= k}
  <1>1. Cardinality(waiting) \in Nat \ {0} /\ ProjectionBatch \in Nat \ {0}
    BY FS_CardinalityType, FS_EmptySet, BenchmarkAssumption
  <1>2. k \in Nat \ {0} /\ k <= Cardinality(waiting)
    BY <1>1, MinOfTwo
  <1> HIDE DEF k
  <1>3. PICK last \in waiting : \A e \in waiting : e <= last
    BY GreatestElement
  <1>4. last \in Enough
    <2>1. UpTo(last) = waiting
      BY <1>3
    <2> QED
      BY <1>1, <1>2, <2>1
  <1>5. PICK c \in Enough : \A d \in Enough : c <= d
    <2>1. Enough \subseteq Nat /\ Enough # {}
      BY <1>4
    <2> HIDE DEF Enough
    <2> QED
      BY <2>1, LeastElement
  <1>6. c \in waiting /\ c \in Nat /\ Cardinality(UpTo(c)) >= k
    BY <1>5
  <1>7. /\ Below(c) \in SUBSET waiting /\ c \notin Below(c) /\ UpTo(c) = Below(c) \cup {c}
    <2>1. \A e \in waiting : e <= c <=> e < c \/ e = c
      BY <1>6
    <2>2. ~ (c < c)
      BY <1>6
    <2> QED
      BY <1>6, <2>1, <2>2
  <1>8. IsFiniteSet(Below(c))
    BY <1>7, FS_Subset
  <1>9. Cardinality(UpTo(c)) = Cardinality(Below(c)) + 1 /\ Cardinality(Below(c)) \in Nat
    <2> HIDE DEF Below, UpTo
    <2>1. Cardinality(Below(c)) \in Nat
      BY <1>8, FS_CardinalityType
    <2>2. Cardinality(Below(c) \cup {c}) = Cardinality(Below(c)) + 1
      BY <1>7, <1>8, FS_AddElement
    <2> QED
      BY <1>7, <2>1, <2>2
  <1>10. SUFFICES ASSUME Cardinality(UpTo(c)) # k PROVE FALSE
    BY <1>6 DEF k
  <1>11. Cardinality(Below(c)) >= k
    <2> HIDE DEF UpTo, Below
    <2> QED
      BY <1>2, <1>6, <1>9, <1>10
  <1>12. Below(c) # {}
    <2> HIDE DEF Below
    <2> QED
      BY <1>2, <1>11, FS_EmptySet
  <1>13. PICK d \in Below(c) : \A e \in Below(c) : e <= d
    <2>1. Below(c) \subseteq Nat /\ \A e \in Below(c) : e <= bound
      BY <1>7
    <2> HIDE DEF Below
    <2> QED
      BY <1>12, <2>1, GreatestElement
  <1>14. UpTo(d) = Below(c) /\ d \in waiting /\ d < c /\ d \in Nat
    <2>1. d \in waiting /\ d < c /\ d \in Nat
      BY <1>13
    <2>2. \A e \in waiting : e <= d <=> e < c
      BY <1>6, <1>13, <2>1
    <2> QED
      BY <2>1, <2>2
  <1>15. d \in Enough
    BY <1>11, <1>14
  <1> QED
    BY <1>5, <1>6, <1>14, <1>15

\* A pass moves the checkpoint on.
LEMMA PassMovesOn ==
    ASSUME BenchmarkTypeOK, IdsInv, OtherWorker \/ ProcessBatch
    PROVE  UNCHANGED store \/ \E c \in Nat : c > store.checkpoint /\ store' = [store EXCEPT !.checkpoint = c]
  <1>1. store \in [ids : SUBSET Nat, nextId : Nat, checkpoint : Nat]
    BY DEF BenchmarkTypeOK
  <1>2. CASE OtherWorker
    <2> PICK c \in store.ids : Applied(c) /\ store' = [store EXCEPT !.checkpoint = c]
      BY <1>2 DEF OtherWorker
    <2>1. c > store.checkpoint /\ c \in Nat
      BY <1>1 DEF Applied
    <2> QED
      BY <2>1
  <1>3. CASE ProcessBatch
    <2> PICK waiting : waiting = {e \in store.ids : e > store.checkpoint}
      OBVIOUS
    <2>1. \/ UNCHANGED store
          \/ store' = [store EXCEPT !.checkpoint =
                          IF waiting = {} THEN @ ELSE CHOOSE c \in waiting : Applied(c)]
      BY <1>3 DEF ProcessBatch
    <2>2. CASE waiting = {}
      <3>1. UNCHANGED store
        BY <1>1, <2>1, <2>2
      <3> QED
        BY <3>1
    <2>3. CASE waiting # {}
      <3>1. waiting \subseteq Nat /\ IsFiniteSet(waiting) /\ \A e \in waiting : e <= store.nextId
        <4>1. waiting \in SUBSET store.ids
          OBVIOUS
        <4>2. IsFiniteSet(waiting)
          BY <4>1, FS_Subset DEF IdsInv
        <4> QED
          BY <1>1, <4>1, <4>2 DEF IdsInv
      <3>2. store.nextId \in Nat
        BY <1>1
      <3>3. \E c \in waiting : Applied(c)
        BY <2>3, <3>1, <3>2, BatchHasLast DEF Applied
      <3> PICK c : c = CHOOSE x \in waiting : Applied(x)
        OBVIOUS
      <3>4. c \in waiting
        BY <3>3
      <3>5. \A e \in waiting : e \in Nat /\ e > store.checkpoint
        BY <3>1
      <3>6. c \in Nat /\ c > store.checkpoint
        BY <3>4, <3>5
      <3> QED
        BY <2>1, <2>3, <3>6
    <2> QED
      BY <2>2, <2>3
  <1> QED
    BY <1>2, <1>3

ReportRecord == [artifact : {"none", "pass", "fail"}, complete : BOOLEAN, failed : BOOLEAN]

\* What writing the artifact does to the report.
LEMMA VerdictWritten ==
    ASSUME BenchmarkTypeOK, NEW pass, NEW exitCode, WriteArtifact(pass, exitCode)
    PROVE  /\ report' \in ReportRecord
           /\ report'.artifact = (IF pass THEN "pass" ELSE "fail")
           /\ report'.failed <=> exitCode = 1
  <1> PICK failed : failed = (exitCode = 1)
    BY Zenon
  <1> PICK artifact : artifact = IF pass THEN "pass" ELSE "fail"
    OBVIOUS
  <1> PICK q : q = [report EXCEPT !.artifact = artifact]
    OBVIOUS
  <1>1. report' = [report EXCEPT !.artifact = artifact, !.failed = failed]
    BY Zenon DEF WriteArtifact
  <1>2. failed \in BOOLEAN
    BY Zenon
  <1>3. artifact \in {"pass", "fail"}
    OBVIOUS
  <1>4. q \in ReportRecord /\ q.artifact = artifact
    BY <1>3 DEF BenchmarkTypeOK, ReportRecord
  <1>5. report' = [q EXCEPT !.failed = failed]
    BY <1>1
  <1>6. report' \in ReportRecord /\ report'.artifact = artifact /\ report'.failed = failed
    BY <1>2, <1>4, <1>5 DEF ReportRecord
  <1>7. report'.failed <=> exitCode = 1
    BY <1>6, Zenon
  <1> QED
    BY <1>6, <1>7

\* Every step leaves the state well typed.
LEMMA BenchmarkTypeStep ==
    ASSUME BenchmarkTypeOK, SentInv, IdsInv, [BenchmarkNext]_benchmarkVars
    PROVE  BenchmarkTypeOK'
  <1>1. Others => UNCHANGED <<config, pool, request>>
    BY OthersGoOn
  <1>2. config' \in Configs
    <2>1. UNCHANGED config
      BY <1>1, StepsOfHarness DEF Issue, EndWarmup, EndAccepting, DeadlinePasses, ReplayFirst, Answer,
                                  Decide, StoreIntent
    <2> QED
      BY <2>1 DEF BenchmarkTypeOK
  <1>3. phase' \in Phases
    <2>1. Issue \/ EndWarmup \/ EndAccepting \/ DeadlinePasses \/ ReplayFirst => phase' \in Phases
      BY DEF BenchmarkTypeOK, Phases, Issue, EndWarmup, EndAccepting, DeadlinePasses, ReplayFirst, Throw
    <2>2. ASSUME \/ \E keys : \E answer \in {"accepted", "refused"} : Answer(keys, answer)
                 \/ \E i \in RequestKeys, outcome \in {"created", "failed"} : Decide(i, outcome)
                 \/ \E i \in RequestKeys : StoreIntent(i)
          PROVE  phase' \in Phases
      BY <2>2 DEF BenchmarkTypeOK, Answer, Decide, StoreIntent
    <2>3. Setup \/ HelperErrors \/ Join \/ OtherWorker => phase' \in Phases
      BY DEF BenchmarkTypeOK, Phases, Setup, Start, AppUnreachable, StartFails, Prepare, HelperErrors,
             GoHTTPLoadgenFails, FranzGoPublisherFails, HelperFails, Join, OtherWorker, Throw
    <2>4. Poll \/ WaitTimesOut \/ PollFails \/ CompareCheckpoint \/ ProcessBatch \/ UNCHANGED benchmarkVars
              => phase' \in Phases
      BY DEF BenchmarkTypeOK, Phases, Poll, WaitTimesOut, PollFails, CompareCheckpoint, ProcessBatch,
             benchmarkVars, Throw
    <2>5. Finish => phase' \in Phases
      BY DEF BenchmarkTypeOK, Phases, Finish, ReadFigures, ReadFiguresFails, Report, CheckoutReport,
             ReportFails, WriteFailure, Stop, Throw, AfterError
    <2> QED
      BY <2>1, <2>2, <2>3, <2>4, <2>5, StepsOfHarness DEF Others
  <1>4. pool' \in [warmup : BOOLEAN, base : Nat, next : Nat, closed : BOOLEAN, inFlight : SUBSET RequestKeys]
    <2>1. CASE Issue
      <3> PICK keys : keys = NextKey .. NextKey + Take - 1
        OBVIOUS
      <3>1. phase = "accepting" /\ pool' = [pool EXCEPT !.next = @ + Take, !.inFlight = @ \cup keys]
        BY <2>1, KeysSent
      <3>2. Take \in Nat /\ keys \in SUBSET RequestKeys
        BY <2>1, <3>1, KeysTaken DEF Issue
      <3> PICK n : n = pool.next + Take
        OBVIOUS
      <3> PICK q : q = [pool EXCEPT !.next = n]
        OBVIOUS
      <3>3. n \in Nat
        BY <3>2 DEF BenchmarkTypeOK
      <3>4. q \in [warmup : BOOLEAN, base : Nat, next : Nat, closed : BOOLEAN, inFlight : SUBSET RequestKeys]
        BY <3>3 DEF BenchmarkTypeOK
      <3>5. pool' = [q EXCEPT !.inFlight = @ \cup keys]
        BY <3>1
      <3> QED
        BY <3>2, <3>4, <3>5
    <2>2. ASSUME NEW keys, NEW answer \in {"accepted", "refused"}, Answer(keys, answer)
          PROVE  pool' = [pool EXCEPT !.inFlight = @ \ keys]
      BY <2>2 DEF Answer
    <2>3. CASE \E keys : \E answer \in {"accepted", "refused"} : Answer(keys, answer)
      BY <2>2, <2>3 DEF BenchmarkTypeOK
    <2>4. CASE DeadlinePasses
      BY <2>4 DEF DeadlinePasses, BenchmarkTypeOK
    <2>5. CASE EndWarmup
      <3>1. NextKey \in Nat
        BY DEF NextKey, BenchmarkTypeOK
      <3> PICK q : q = [pool EXCEPT !.warmup = FALSE, !.closed = FALSE]
        OBVIOUS
      <3>2. q \in [warmup : BOOLEAN, base : Nat, next : Nat, closed : BOOLEAN, inFlight : SUBSET RequestKeys]
        BY DEF BenchmarkTypeOK
      <3>3. pool' = [q EXCEPT !.next = 0, !.base = NextKey]
        BY <2>5 DEF EndWarmup
      <3> QED
        BY <3>1, <3>2, <3>3
    <2>6. ASSUME UNCHANGED pool
          PROVE  pool' \in [warmup : BOOLEAN, base : Nat, next : Nat, closed : BOOLEAN,
                            inFlight : SUBSET RequestKeys]
      BY <2>6 DEF BenchmarkTypeOK
    <2>7. EndAccepting \/ ReplayFirst => UNCHANGED pool
      BY DEF EndAccepting, ReplayFirst
    <2>8. ASSUME NEW i, NEW outcome, Decide(i, outcome) \/ StoreIntent(i) PROVE UNCHANGED pool
      BY <2>8 DEF Decide, StoreIntent
    <2> QED
      BY <1>1, <2>1, <2>3, <2>4, <2>5, <2>6, <2>7, <2>8, StepsOfHarness
  <1>5. request' \in [RequestKeys -> RequestRecord]
    <2>1. Issue \/ ReplayFirst => request' \in [RequestKeys -> RequestRecord]
      BY KeysSent, FirstReplayed
    <2>2. ASSUME NEW keys, NEW answer \in {"accepted", "refused"}, Answer(keys, answer)
          PROVE  request' \in [RequestKeys -> RequestRecord]
      BY <2>2, RequestsAnswered
    <2>3. ASSUME NEW i \in RequestKeys, NEW outcome \in {"created", "failed"},
                 Decide(i, outcome) \/ StoreIntent(i)
          PROVE  request' \in [RequestKeys -> RequestRecord]
      <3> PICK o \in {"created", "failed"} : request' = Outcome(i, o)
        BY <2>3 DEF Decide, StoreIntent
      <3> QED
        BY RequestDecided
    <2>4. EndWarmup \/ EndAccepting \/ DeadlinePasses => UNCHANGED request
      BY DEF EndWarmup, EndAccepting, DeadlinePasses
    <2>5. UNCHANGED request => request' \in [RequestKeys -> RequestRecord]
      BY DEF BenchmarkTypeOK, RequestRecord
    <2> QED
      BY <1>1, <2>1, <2>2, <2>3, <2>4, <2>5, StepsOfHarness
  <1>6. collector' \in [state : {"off", "joining", "running"}, seen : SUBSET RequestKeys]
    <2>1. collector \in [state : {"off", "joining", "running"}, seen : SUBSET RequestKeys]
      BY DEF BenchmarkTypeOK
    <2>2. CASE Start \/ StartFails \/ Stop
      BY <2>1, <2>2 DEF Start, StartFails, Stop
    <2>3. CASE Join
      BY <2>1, <2>3 DEF Join
    <2>4. ASSUME NEW i \in RequestKeys, NEW outcome, Decide(i, outcome)
          PROVE  collector' \in [state : {"off", "joining", "running"}, seen : SUBSET RequestKeys]
      BY <2>1, <2>4 DEF Decide
    <2>5. ASSUME Others, ~ (Start \/ StartFails \/ Stop \/ Join) PROVE UNCHANGED collector
      BY <2>5 DEF Others, Setup, AppUnreachable, Prepare, HelperErrors,
             GoHTTPLoadgenFails, FranzGoPublisherFails, HelperFails, OtherWorker, Poll, WaitTimesOut,
             PollFails, CompareCheckpoint, ProcessBatch, Finish, ReadFigures, ReadFiguresFails, Report,
             CheckoutReport, ReportFails, WriteFailure, benchmarkVars
    <2>6. ASSUME \/ Issue \/ EndWarmup \/ EndAccepting \/ DeadlinePasses \/ ReplayFirst
                 \/ \E keys : \E answer \in {"accepted", "refused"} : Answer(keys, answer)
                 \/ \E i \in RequestKeys : StoreIntent(i)
          PROVE  UNCHANGED collector
      BY <2>6 DEF Issue, EndWarmup, EndAccepting, DeadlinePasses, ReplayFirst, Answer, StoreIntent
    <2> QED
      BY <2>1, <2>2, <2>3, <2>4, <2>5, <2>6, StepsOfHarness
  <1>7. publisher' \in BOOLEAN
    <2>1. publisher \in BOOLEAN
      BY DEF BenchmarkTypeOK
    <2>2. CASE Start \/ StartFails
      <3>1. publisher' = (config.ingress = "direct_kafka") \/ UNCHANGED publisher
        BY <2>2, Zenon DEF Start, StartFails, StartPublisher
      <3> QED
        BY <2>1, <3>1, Zenon
    <2>3. CASE Stop
      BY <2>3 DEF Stop
    <2>4. ASSUME Others, ~ (Start \/ StartFails \/ Stop) PROVE UNCHANGED publisher
      BY <2>4 DEF Others, Setup, AppUnreachable, Prepare, HelperErrors,
             GoHTTPLoadgenFails, FranzGoPublisherFails, HelperFails, Join, OtherWorker, Poll, WaitTimesOut,
             PollFails, CompareCheckpoint, ProcessBatch, Finish, ReadFigures, ReadFiguresFails, Report,
             CheckoutReport, ReportFails, WriteFailure, benchmarkVars
    <2>5. ASSUME \/ Issue \/ EndWarmup \/ EndAccepting \/ DeadlinePasses \/ ReplayFirst
                 \/ \E keys : \E answer \in {"accepted", "refused"} : Answer(keys, answer)
                 \/ \E i \in RequestKeys, outcome \in {"created", "failed"} : Decide(i, outcome)
                 \/ \E i \in RequestKeys : StoreIntent(i)
          PROVE  UNCHANGED publisher
      BY <2>5 DEF Issue, EndWarmup, EndAccepting, DeadlinePasses, ReplayFirst, Answer, Decide, StoreIntent
    <2> QED
      BY <2>1, <2>2, <2>3, <2>4, <2>5, StepsOfHarness, Zenon
  <1>8. pending' \in SUBSET RequestKeys
    <2>1. pending \in SUBSET RequestKeys
      BY DEF BenchmarkTypeOK
    <2>2. CASE EndAccepting
      BY <2>2 DEF EndAccepting, Accepted, Measured
    <2>3. CASE Poll
      BY <2>1, <2>3 DEF Poll
    <2>4. ASSUME Others, ~Poll PROVE UNCHANGED pending
      BY <2>4 DEF Others, Setup, Start, AppUnreachable, StartFails, Prepare, HelperErrors,
             GoHTTPLoadgenFails, FranzGoPublisherFails, HelperFails, Join, OtherWorker, WaitTimesOut,
             PollFails, CompareCheckpoint, ProcessBatch, Finish, ReadFigures, ReadFiguresFails, Report,
             CheckoutReport, ReportFails, WriteFailure, Stop, benchmarkVars
    <2>5. ASSUME \/ Issue \/ EndWarmup \/ DeadlinePasses \/ ReplayFirst
                 \/ \E keys : \E answer \in {"accepted", "refused"} : Answer(keys, answer)
                 \/ \E i \in RequestKeys, outcome \in {"created", "failed"} : Decide(i, outcome)
                 \/ \E i \in RequestKeys : StoreIntent(i)
          PROVE  UNCHANGED pending
      BY <2>5 DEF Issue, EndWarmup, DeadlinePasses, ReplayFirst, Answer, Decide, StoreIntent
    <2> QED
      BY <2>1, <2>2, <2>3, <2>4, <2>5, StepsOfHarness
  <1>9. report' \in ReportRecord
    <2>1. report \in ReportRecord
      BY DEF BenchmarkTypeOK, ReportRecord
    <2>2. ASSUME NEW next, Throw(next) PROVE report' \in ReportRecord
      BY <2>1, <2>2 DEF Throw, ReportRecord
    <2>3. CASE ReadFigures
      BY <2>1, <2>3 DEF ReadFigures, ReportRecord
    <2>4. CASE Report \/ CheckoutReport
      <3>1. \E pass, exitCode : WriteArtifact(pass, exitCode)
        BY <2>4, Zenon DEF Report, CheckoutReport
      <3> QED
        BY <3>1, VerdictWritten
    <2>5. CASE WriteFailure
      <3> PICK artifact \in {"none", "pass", "fail"} : report' = [report EXCEPT !.artifact = artifact]
        BY <2>1, <2>5 DEF WriteFailure, ReportRecord
      <3> QED
        BY <2>1 DEF ReportRecord
    <2>6. CASE UNCHANGED report
      BY <2>1, <2>6
    <2>7. CASE \/ Issue \/ EndWarmup \/ EndAccepting \/ DeadlinePasses \/ ReplayFirst
               \/ \E keys : \E answer \in {"accepted", "refused"} : Answer(keys, answer)
               \/ \E i \in RequestKeys, outcome \in {"created", "failed"} : Decide(i, outcome)
               \/ \E i \in RequestKeys : StoreIntent(i)
      <3>1. UNCHANGED report \/ \E next : Throw(next)
        BY <2>7, Zenon DEF Issue, EndWarmup, EndAccepting, DeadlinePasses, ReplayFirst, Answer, Decide, StoreIntent
      <3> QED
        BY <2>2, <2>6, <3>1
    <2>8. CASE Others
      <3>1. \/ UNCHANGED report \/ (\E next : Throw(next))
            \/ ReadFigures \/ Report \/ CheckoutReport \/ WriteFailure
        <4>1. Setup \/ HelperErrors \/ Join \/ OtherWorker => UNCHANGED report \/ \E next : Throw(next)
          BY Zenon DEF Setup, Start, AppUnreachable, StartFails, Prepare, HelperErrors,
             GoHTTPLoadgenFails, FranzGoPublisherFails, HelperFails, Join, OtherWorker
        <4>2. Poll \/ WaitTimesOut \/ PollFails \/ CompareCheckpoint \/ ProcessBatch
                  => UNCHANGED report \/ \E next : Throw(next)
          BY Zenon DEF Poll, WaitTimesOut, PollFails, CompareCheckpoint, ProcessBatch
        <4>3. ReadFiguresFails \/ ReportFails \/ Stop => UNCHANGED report \/ \E next : Throw(next)
          BY Zenon DEF ReadFiguresFails, ReportFails, Stop
        <4>4. UNCHANGED benchmarkVars => UNCHANGED report
          BY DEF benchmarkVars
        <4> QED
          BY <2>8, <4>1, <4>2, <4>3, <4>4 DEF Others, Finish
      <3> QED
        BY <2>2, <2>3, <2>4, <2>5, <2>6, <3>1
    <2> QED
      BY <2>7, <2>8, StepsOfHarness
  <1>10. store' \in [ids : SUBSET Nat, nextId : Nat, checkpoint : Nat]
    <2>1. store \in [ids : SUBSET Nat, nextId : Nat, checkpoint : Nat]
      BY DEF BenchmarkTypeOK
    <2>2. CASE \E stored \in BOOLEAN : AppendEvent(stored)
      <3> PICK stored \in BOOLEAN : AppendEvent(stored)
        BY <2>2
      <3> PICK ids : ids = IF stored THEN store.ids \cup {store.nextId} ELSE store.ids
        OBVIOUS
      <3> PICK q : q = [store EXCEPT !.nextId = @ + 1]
        OBVIOUS
      <3>1. store' = [q EXCEPT !.ids = ids]
        BY DEF AppendEvent
      <3>2. ids \in SUBSET Nat
        BY <2>1
      <3>3. q \in [ids : SUBSET Nat, nextId : Nat, checkpoint : Nat]
        BY <2>1
      <3> QED
        BY <3>1, <3>2, <3>3
    <2>3. CASE UNCHANGED store
      BY <2>1, <2>3
    <2>4. CASE OtherWorker \/ ProcessBatch
      BY <2>1, <2>4, PassMovesOn
    <2>5. (\E i \in RequestKeys : StoreIntent(i)) \/ ReplayFirst => \E stored \in BOOLEAN : AppendEvent(stored)
      BY DEF StoreIntent, ReplayFirst
    <2>6. ASSUME Others, ~OtherWorker, ~ProcessBatch PROVE UNCHANGED store
      BY <2>6 DEF Others, Setup, Start, AppUnreachable, StartFails, Prepare, HelperErrors,
             GoHTTPLoadgenFails, FranzGoPublisherFails, HelperFails, Join, Poll, WaitTimesOut, PollFails,
             CompareCheckpoint, Finish, ReadFigures, ReadFiguresFails, Report, CheckoutReport,
             ReportFails, WriteFailure, Stop, benchmarkVars
    <2>7. ASSUME \/ Issue \/ EndWarmup \/ EndAccepting \/ DeadlinePasses
                 \/ \E keys : \E answer \in {"accepted", "refused"} : Answer(keys, answer)
                 \/ \E i \in RequestKeys, outcome \in {"created", "failed"} : Decide(i, outcome)
          PROVE  UNCHANGED store
      BY <2>7 DEF Issue, EndWarmup, EndAccepting, DeadlinePasses, Answer, Decide
    <2> QED
      BY <2>2, <2>3, <2>4, <2>5, <2>6, <2>7, StepsOfHarness
  <1> QED
    BY <1>2, <1>3, <1>4, <1>5, <1>6, <1>7, <1>8, <1>9, <1>10
       DEF BenchmarkTypeOK, RequestRecord, ReportRecord

\* No more events can wait behind a checkpoint that has reached their number than ids were
\* skipped.
LEMMA FewUnapplied ==
    ASSUME BenchmarkTypeOK, IdsInv, Cardinality(store.ids) <= store.checkpoint
    PROVE  Cardinality(Unapplied) <= Cardinality(SkippedIds)
  <1> DEFINE last == store.nextId - 1
             drawn == 1 .. last
             behind == store.checkpoint + 1 .. last
  <1>1. last \in Nat /\ store.checkpoint \in Nat /\ store.ids \subseteq drawn
    BY DEF BenchmarkTypeOK, IdsInv
  <1>2. Cardinality(store.ids) \in Nat
    BY FS_CardinalityType DEF IdsInv
  <1>3. IsFiniteSet(drawn) /\ Cardinality(drawn) = last
    <2> HIDE DEF last
    <2> QED
      BY <1>1, FS_Interval
  <1>4. IsFiniteSet(SkippedIds) /\ Cardinality(SkippedIds) = last - Cardinality(store.ids)
    <2>1. drawn \cap store.ids = store.ids
      BY <1>1
    <2>2. SkippedIds = drawn \ store.ids
      BY DEF SkippedIds
    <2> HIDE DEF drawn, last
    <2> QED
      BY <1>3, <2>1, <2>2, FS_Difference
  <1>5. Unapplied \in SUBSET behind
    BY <1>1 DEF Unapplied
  <1>6. IsFiniteSet(behind)
        /\ Cardinality(behind) = (IF store.checkpoint + 1 > last THEN 0 ELSE last - (store.checkpoint + 1) + 1)
    <2>1. store.checkpoint + 1 \in Int /\ last \in Int
      BY <1>1
    <2> HIDE DEF last
    <2> QED
      BY <2>1, FS_Interval
  <1>7. Cardinality(Unapplied) <= Cardinality(behind) /\ Cardinality(Unapplied) \in Nat
    <2> HIDE DEF behind
    <2> QED
      BY <1>5, <1>6, FS_Subset, FS_CardinalityType
  <1>8. Cardinality(SkippedIds) \in Nat
    BY <1>4, FS_CardinalityType
  <1> HIDE DEF last, drawn, behind
  <1> QED
    BY <1>1, <1>2, <1>4, <1>6, <1>7, <1>8

\* A verdict that has been written stays earned.
LEMMA VerdictKept ==
    ASSUME BenchmarkTypeOK, PassIsEarned, UNCHANGED <<config, pool, request, report>>,
           store'.ids = store.ids, store'.nextId = store.nextId,
           store'.checkpoint \in Nat, store'.checkpoint >= store.checkpoint,
           IsFiniteSet(store.ids)
    PROVE  PassIsEarned'
  <1>1. Cardinality(store.ids) \in Nat /\ store.checkpoint \in Nat /\ store.ids \subseteq Nat
    BY FS_CardinalityType DEF BenchmarkTypeOK
  <1>2. Measured' = Measured /\ SkippedIds' = SkippedIds /\ NeedsCollector' = NeedsCollector
    BY DEF Measured, SkippedIds, NeedsCollector, BuyIntent
  <1>3. /\ IsFiniteSet(Unapplied) /\ IsFiniteSet(Unapplied')
        /\ Cardinality(Unapplied') <= Cardinality(Unapplied)
    <2>1. Unapplied' \in SUBSET Unapplied /\ Unapplied \in SUBSET store.ids
      BY <1>1 DEF Unapplied
    <2>2. IsFiniteSet(Unapplied)
      BY <2>1, FS_Subset
    <2> QED
      BY <2>1, <2>2, FS_Subset
  <1>4. IsFiniteSet(SkippedIds)
    <2>1. store.nextId - 1 \in Int
      BY DEF BenchmarkTypeOK
    <2>2. IsFiniteSet(1 .. store.nextId - 1)
      BY <2>1, FS_Interval
    <2> QED
      BY <2>2, FS_Difference DEF SkippedIds
  <1>5. /\ Cardinality(Unapplied) \in Nat /\ Cardinality(Unapplied') \in Nat
        /\ Cardinality(SkippedIds) \in Nat
    BY <1>3, <1>4, FS_CardinalityType
  <1>6. Cardinality(Unapplied) <= Cardinality(SkippedIds) =>
           Cardinality(Unapplied') <= Cardinality(SkippedIds')
    BY <1>2, <1>3, <1>5
  <1> QED
    BY <1>2, <1>6 DEF PassIsEarned

\* A verdict of pass is earned when it is written.
LEMMA VerdictEarned ==
    ASSUME BenchmarkTypeOK, AnswerInv, PendingInv, IdsInv, phase = "reporting",
           Report \/ CheckoutReport
    PROVE  PassIsEarned'
  <1>1. pool.inFlight = {} /\ Measured # {} /\ \A i \in Accepted \ pending : request[i].outcome # "none"
    BY DEF PendingInv, Loaded
  <1>2. UNCHANGED <<config, pool, request, pending, store>>
    BY DEF Report, CheckoutReport
  <1>3. /\ Measured' = Measured /\ SkippedIds' = SkippedIds /\ Unapplied' = Unapplied
        /\ NeedsCollector' = NeedsCollector
    BY <1>2 DEF Measured, SkippedIds, Unapplied, NeedsCollector, BuyIntent
  <1>4. CASE Report
    <2>1. report'.artifact = (IF Pass THEN "pass" ELSE "fail") /\ ~report'.failed /\ BuyIntent
      <3>1. WriteArtifact(Pass, 0) /\ BuyIntent
        BY <1>4 DEF Report
      <3> QED
        BY <3>1, VerdictWritten
    <2>2. ASSUME Pass, NEW i \in Measured
          PROVE  request[i].answer = "accepted" /\ request[i].outcome # "none"
      BY <1>1, <2>2 DEF Pass, Accepted
    <2>3. config.program # "checkout"
      BY <2>1 DEF BuyIntent
    <2>4. ASSUME Pass, NeedsCollector, config.asserted, config.stock >= Cardinality(Measured)
          PROVE  \E i \in Measured : request[i].outcome = "created"
      <3>1. Accepted \ pending = Measured /\ {request[i].outcome : i \in Measured} # {"failed"}
        BY <2>4 DEF Pass, SemanticFailure
      <3>2. \A i \in Measured : request[i].outcome \in {"none", "created", "failed"}
        BY DEF BenchmarkTypeOK, Measured
      <3>3. \A i \in Measured : request[i].outcome # "none"
        BY <2>2, <2>4
      <3>4. SUFFICES ASSUME \A i \in Measured : request[i].outcome = "failed" PROVE FALSE
        BY <3>2, <3>3
      <3> QED
        BY <1>1, <3>1, <3>4
    <2> QED
      BY <1>1, <1>2, <1>3, <2>1, <2>2, <2>3, <2>4 DEF PassIsEarned
  <1>5. CASE CheckoutReport
    <2>1. /\ report'.artifact = (IF CheckoutPass THEN "pass" ELSE "fail")
          /\ CheckoutPass => ~report'.failed
          /\ config.program = "checkout"
      <3>1. WriteArtifact(CheckoutPass, IF CheckoutPass THEN 0 ELSE 1) /\ ~BuyIntent
        BY <1>5 DEF CheckoutReport
      <3>2. config.program = "checkout"
        BY <3>1, BenchmarkParameters DEF BuyIntent
      <3> QED
        BY <3>1, <3>2, VerdictWritten
    <2>2. ASSUME CheckoutPass
          PROVE  /\ Cardinality(store.ids) = Cardinality(Measured)
                 /\ Cardinality(Unapplied) <= Cardinality(SkippedIds)
      BY <2>2, FewUnapplied DEF CheckoutPass
    <2>4. ~NeedsCollector
      BY <2>1 DEF NeedsCollector, BuyIntent
    <2>3. ASSUME CheckoutPass, NEW i \in Measured
          PROVE  request[i].answer = "accepted" /\ request[i].outcome # "none"
      BY <2>1, <2>3 DEF CheckoutPass, Accepted, Measured, AnswerInv
    <2> QED
      BY <1>1, <1>2, <1>3, <2>1, <2>2, <2>3, <2>4 DEF PassIsEarned
  <1> QED
    BY <1>4, <1>5

\* Every step but the reports leaves no verdict of pass that was not there.
LEMMA VerdictStep ==
    ASSUME BenchmarkTypeOK, AnswerInv, PendingInv, IdsInv, VerdictInv, [BenchmarkNext]_benchmarkVars
    PROVE  VerdictInv'
  <1>1. report \in ReportRecord /\ store \in [ids : SUBSET Nat, nextId : Nat, checkpoint : Nat]
    BY DEF BenchmarkTypeOK, ReportRecord
  <1>2. CASE Report \/ CheckoutReport
    <2>1. phase = "reporting" /\ phase' = "stopping"
      BY <1>2 DEF Report, CheckoutReport
    <2> QED
      BY <1>2, <2>1, VerdictEarned DEF VerdictInv
  <1>3. CASE WriteFailure
    <2>1. /\ phase = "failing" /\ phase' = "stopping"
          /\ \E written \in BOOLEAN : report' = [report EXCEPT !.artifact = IF written THEN "fail" ELSE @]
      BY <1>3 DEF WriteFailure
    <2>2. report.artifact = "none"
      BY <2>1 DEF VerdictInv
    <2>3. report'.artifact # "pass"
      BY <1>1, <2>1, <2>2 DEF ReportRecord
    <2> QED
      BY <2>1, <2>3 DEF VerdictInv, PassIsEarned
  <1>4. CASE Stop
    <2>1. phase = "stopping" /\ phase' = "ended" /\ UNCHANGED <<config, pool, request, report, store>>
      BY <1>4 DEF Stop
    <2>2. PassIsEarned'
      BY <1>1, <2>1, VerdictKept DEF VerdictInv, IdsInv
    <2> QED
      BY <2>1, <2>2 DEF VerdictInv
  <1>5. CASE OtherWorker
    <2>1. UNCHANGED <<config, phase, pool, request, report>>
      BY <1>5 DEF OtherWorker
    <2>2. UNCHANGED store \/ \E c \in Nat : c > store.checkpoint /\ store' = [store EXCEPT !.checkpoint = c]
      BY <1>5, PassMovesOn
    <2>3. /\ store'.ids = store.ids /\ store'.nextId = store.nextId
          /\ store'.checkpoint \in Nat /\ store'.checkpoint >= store.checkpoint
      BY <1>1, <2>2
    <2>4. PassIsEarned'
      BY <2>1, <2>3, VerdictKept DEF VerdictInv, IdsInv
    <2> QED
      BY <2>1, <2>4 DEF VerdictInv
  <1>6. CASE UNCHANGED benchmarkVars
    BY <1>6 DEF benchmarkVars, VerdictInv, PassIsEarned, Measured, Unapplied, SkippedIds, NeedsCollector, BuyIntent
  <1>7. ASSUME phase \notin {"stopping", "ended"},
               \/ Throw("failing") \/ Throw("stopping") \/ Throw("ended")
               \/ /\ report'.artifact = report.artifact /\ report'.failed = report.failed
                  /\ report.failed => phase' \in {"failing", "stopping", "ended"}
        PROVE  VerdictInv'
    <2>1. report.artifact = "none"
      BY <1>7 DEF VerdictInv
    <2>2. report'.artifact = "none"
      BY <1>1, <1>7, <2>1 DEF Throw, ReportRecord
    <2>3. report'.failed => phase' \in {"failing", "stopping", "ended"}
      BY <1>7 DEF Throw
    <2> QED
      BY <2>2, <2>3 DEF VerdictInv, PassIsEarned
  <1>8. ASSUME \/ Issue \/ EndWarmup \/ EndAccepting \/ DeadlinePasses \/ ReplayFirst
               \/ \E keys : \E answer \in {"accepted", "refused"} : Answer(keys, answer)
               \/ \E i \in RequestKeys, outcome \in {"created", "failed"} : Decide(i, outcome)
               \/ \E i \in RequestKeys : StoreIntent(i)
        PROVE  VerdictInv'
    <2>1. phase \in {"accepting", "waiting", "replaying"}
      BY <1>8 DEF Issue, EndWarmup, EndAccepting, DeadlinePasses, SendingDone, ReplayFirst, Answer, Decide,
                  StoreIntent
    <2>2. Throw("failing") \/ UNCHANGED report
      BY <1>8, Zenon DEF Issue, EndWarmup, EndAccepting, DeadlinePasses, ReplayFirst, Answer, Decide, StoreIntent
    <2> QED
      BY <1>7, <2>1, <2>2 DEF VerdictInv
  <1>9. CASE Setup \/ HelperErrors \/ Join
    <2>1. phase \notin {"stopping", "ended"}
      BY <1>9 DEF Setup, Start, AppUnreachable, StartFails, Prepare, HelperErrors, GoHTTPLoadgenFails,
                  FranzGoPublisherFails, HelperFails, Join
    <2>2. \/ Throw("failing") \/ Throw("stopping") \/ Throw("ended")
          \/ UNCHANGED report /\ (phase' = phase \/ phase \in {"off", "setup"})
      BY <1>9, Zenon DEF Setup, Start, AppUnreachable, StartFails, Prepare, HelperErrors,
                  GoHTTPLoadgenFails, FranzGoPublisherFails, HelperFails, Join
    <2> QED
      BY <1>7, <2>1, <2>2 DEF VerdictInv
  <1>10. CASE Poll \/ WaitTimesOut \/ PollFails \/ CompareCheckpoint \/ ProcessBatch
    <2>1. phase \in {"waiting", "projecting", "batch"}
      BY <1>10 DEF Poll, WaitTimesOut, PollFails, CompareCheckpoint, ProcessBatch
    <2>2. Throw("failing") \/ Throw("stopping") \/ UNCHANGED report
      BY <1>10, Zenon DEF Poll, WaitTimesOut, PollFails, CompareCheckpoint, ProcessBatch
    <2> QED
      BY <1>7, <2>1, <2>2 DEF VerdictInv
  <1>11. CASE ReadFigures \/ ReadFiguresFails \/ ReportFails
    <2>1. phase \in {"measuring", "reporting"}
      BY <1>11 DEF ReadFigures, ReadFiguresFails, ReportFails
    <2>2. AfterError \in {"failing", "stopping"}
      BY DEF AfterError
    <2>3. (\E next \in {"failing", "stopping"} : Throw(next)) \/ UNCHANGED report
             \/ report' = [report EXCEPT !.complete = TRUE]
      BY <1>11, <2>2, Zenon DEF ReadFigures, ReadFiguresFails, ReportFails
    <2>4. report' = [report EXCEPT !.complete = TRUE] =>
             report'.artifact = report.artifact /\ report'.failed = report.failed
      BY <1>1 DEF ReportRecord
    <2> QED
      BY <1>7, <2>1, <2>3, <2>4 DEF VerdictInv
  <1> QED
    BY <1>2, <1>3, <1>4, <1>5, <1>6, <1>8, <1>9, <1>10, <1>11, StepsOfHarness DEF Others, Finish

\* The invariant holds in every state of the harnesses.
THEOREM BenchmarkInvariant == BenchmarkSpec => []BenchmarkInv
  <1>1. BenchmarkInit => BenchmarkInv
    <2> SUFFICES ASSUME BenchmarkInit PROVE BenchmarkInv
      OBVIOUS
    <2>1. config \in Configs /\ MaxKeys \in Nat /\ UsedIds \subseteq Nat
      BY BenchmarkAssumption DEF BenchmarkInit
    <2> PICK used \in Nat : store = [ids |-> {}, nextId |-> used + 1, checkpoint |-> 0]
      BY <2>1 DEF BenchmarkInit
    <2>2. pool.warmup \in BOOLEAN
      <3>1. pool.warmup = (config.style = "steady_state")
        BY Zenon DEF BenchmarkInit
      <3> QED
        BY <3>1, Zenon
    <2>3. pool = [warmup |-> pool.warmup, base |-> 0, next |-> 0, closed |-> FALSE, inFlight |-> {}]
      BY DEF BenchmarkInit
    <2>4. BenchmarkTypeOK
      <3>1. pool \in [warmup : BOOLEAN, base : Nat, next : Nat, closed : BOOLEAN, inFlight : SUBSET RequestKeys]
        <4> PICK warmup \in BOOLEAN : pool = [warmup |-> warmup, base |-> 0, next |-> 0, closed |-> FALSE,
                                              inFlight |-> {}]
          BY <2>2, <2>3
        <4> QED
          OBVIOUS
      <3>2. store \in [ids : SUBSET Nat, nextId : Nat, checkpoint : Nat]
        OBVIOUS
      <3> QED
        BY <2>1, <3>1, <3>2 DEF BenchmarkInit, BenchmarkTypeOK, Phases
    <2>5. WindowInv
      <3>1. config.style = "burst" => ~pool.warmup
        <4>1. pool.warmup = (config.style = "steady_state")
          BY Zenon DEF BenchmarkInit
        <4> QED
          BY <4>1, Zenon
      <3>2. Requests \in Nat
        BY BenchmarkAssumption
      <3>3. NextKey = 0
        BY <2>3 DEF NextKey
      <3> QED
        BY <2>1, <2>3, <3>1, <3>2, <3>3 DEF BenchmarkInit, WindowInv, RequestKeys
    <2>6. SentInv /\ AnswerInv
      BY <2>5 DEF BenchmarkInit, SentInv, KeysAreFresh, AnswerInv
    <2>7. PendingInv /\ VerdictInv
      BY DEF BenchmarkInit, PendingInv, Loaded, VerdictInv, PassIsEarned
    <2>8. IdsInv
      BY FS_EmptySet DEF IdsInv
    <2> QED
      BY <2>4, <2>6, <2>7, <2>8 DEF BenchmarkInv
  <1>2. BenchmarkInv /\ [BenchmarkNext]_benchmarkVars => BenchmarkInv'
    BY BenchmarkTypeStep, SentStep, AnswerStep, PendingStep, IdsStep, VerdictStep DEF BenchmarkInv
  <1> QED
    BY <1>1, <1>2, PTL DEF BenchmarkSpec

\* Two workers never take the same idempotency key, nor does the measured window take one
\* of the warmup; only the checkout harness sends a key twice, after its answer.
THEOREM KeysStayFresh == BenchmarkSpec => []KeysAreFresh
  <1>1. BenchmarkInv => KeysAreFresh
    BY DEF BenchmarkInv, SentInv
  <1> QED
    BY <1>1, BenchmarkInvariant, PTL

\* A run that reports a pass has had every measured request accepted and decided, at any
\* size of the run, in every configuration; where the outcomes are asserted it has sold
\* something unless stock was short, and a checkout run leaves no more events unapplied than
\* ids were skipped.
THEOREM PassesAreEarned == BenchmarkSpec => []PassIsEarned
  <1>1. BenchmarkInv => PassIsEarned
    BY DEF BenchmarkInv, VerdictInv
  <1> QED
    BY <1>1, BenchmarkInvariant, PTL

=============================================================================
