--------------------------- MODULE PriceFeedProofs ---------------------------
(***************************************************************************)
(* Theorems about PriceFeed, for any number of assets, operators, prices,  *)
(* inserts and restarts: the types, that the engine follows the simulator, *)
(* that what a reader is answered was in force, and, for a configuration   *)
(* that names no asset twice, that a generation which failed is left alone *)
(* for DORMANT_RETRY_TICKS ticks.                                          *)
(***************************************************************************)
EXTENDS PriceFeed, TLAPS

Walks ==
  {Unregistered} \cup
  {w \in [index : 0..PathLen, len : {0, PathLen}, dormant : 0..Retry] : w.index <= w.len}

\* The loop is at an asset.
Active == {"advance", "regenerate", "push", "tell"}

FeedTypes ==
  /\ walk \in [Listed -> Walks]
  /\ simPrice \in [Listed -> Cents]
  /\ loop \in [pc : Active \cup {"select", "stopped"}, at : 0..Len(Assets), price : Price]
  /\ loop.pc \in Active => loop.at \in DOMAIN Assets
  /\ loop.pc \in {"regenerate", "push", "tell"} => loop.price \in Cents
  /\ rest \in [Listed -> 0..Retry]

EngineTypes ==
  /\ mmPrice \in [Symbols -> Price]
  /\ told \in [Symbols -> Price]
  /\ held \in [Symbols -> SUBSET Cents]
  /\ inserted \subseteq Listed

Requests == [pc : {"none", "write", "tell", "persist", "query"},
             symbol : Symbols, price : Price, stamp : Nat]

StoreTypes ==
  /\ request \in [Operators -> Requests]
  /\ \A o \in Operators :
        request[o].pc \in {"write", "tell", "persist"} => request[o].price \in Cents
  /\ rows \subseteq [symbol : Symbols, price : Cents, stamp : Nat]
  /\ stamps \in Nat
  /\ answer \in [symbol : Symbols, price : Price]

\* What the loop carries from one await to the next is still the price that the
\* simulator has stored: nobody else writes the simulator's prices.  What it
\* regenerates is a walk.
Carried ==
  /\ loop.pc \in {"regenerate", "push"} => loop.price = simPrice[Asset]
  /\ loop.pc = "regenerate" => walk[Asset] # Unregistered

\* Whatever a reader can be served was in force at some time: the engine's
\* prices, the rows, and the rows that requests under way will write.
Genuine ==
  /\ \A s \in Symbols : mmPrice[s] # NoPrice => mmPrice[s] \in held[s]
  /\ \A r \in rows : r.price \in held[r.symbol]
  /\ \A o \in Operators : request[o].pc \in {"tell", "persist"} =>
        request[o].price \in held[request[o].symbol]
  /\ AnswerWasInForce

IInv ==
  /\ FeedTypes /\ EngineTypes /\ StoreTypes
  /\ Carried /\ EngineFollowsSimulator
  /\ Genuine

-----------------------------------------------------------------------------
(* Constants *)

LEMMA Names ==
  /\ \A i \in DOMAIN Assets : Assets[i] \in Listed /\ Assets[i] \in Symbols
  /\ Listed \subseteq Symbols
  /\ Len(Assets) \in Nat /\ DOMAIN Assets = 1..Len(Assets) /\ 1 \in DOMAIN Assets
  /\ Assets[1] \in Symbols
BY FeedAssumption DEF Listed, Symbols

LEMMA Kinds ==
  /\ Unregistered \in Walks /\ Walking(0, PathLen) \in Walks
  /\ Dormant(Walking(0, 0)) \in Walks
  /\ Retry \in Nat \ {0} /\ PathLen \in Nat /\ PathLen >= 2
  /\ Cents \subseteq Price /\ NoPrice \in Price /\ NoPrice \notin Cents
BY FeedAssumption DEF Walks, Unregistered, Walking, Dormant, Price

\* The asset the loop is at.
LEMMA AtAsset ==
  ASSUME FeedTypes, loop.pc \in Active
  PROVE  /\ Asset \in Listed /\ Asset \in Symbols
         /\ walk[Asset] \in Walks /\ simPrice[Asset] \in Cents /\ rest[Asset] \in 0..Retry
         /\ simPrice[Asset] \in Price
BY Names, Kinds DEF FeedTypes, Asset

-----------------------------------------------------------------------------
(* Steps of the loop that touch neither the engine nor the database *)

\* Such a step keeps the rest as long as the simulator's new price is pushed.
LEMMA FeedStep ==
  ASSUME IInv, FeedTypes', Carried', UNCHANGED <<request, engine, store>>,
         \A s \in Listed : simPrice'[s] # simPrice[s] => loop'.pc = "push" /\ Asset' = s,
         loop.pc # "push"
  PROVE  IInv'
<1>1. EngineTypes' /\ StoreTypes'
  BY DEF IInv, EngineTypes, StoreTypes, engine, store
<1>2. Genuine'
  BY DEF IInv, Genuine, AnswerWasInForce, engine, store
<1>3. EngineFollowsSimulator'
  BY DEF IInv, EngineFollowsSimulator, engine
<1> QED
  BY <1>1, <1>2, <1>3 DEF IInv

LEMMA Pushed ==
  ASSUME FeedTypes, NEW p \in Cents, loop.pc \in Active, Push(p)
  PROVE  /\ loop' \in [pc : Active \cup {"select", "stopped"}, at : 0..Len(Assets), price : Price]
         /\ loop'.pc = "push" /\ loop'.at = loop.at /\ loop'.at \in DOMAIN Assets
         /\ loop'.price = p /\ Asset' = Asset
BY Kinds DEF FeedTypes, Push, Active, Asset

LEMMA Stored ==
  ASSUME FeedTypes, loop.pc \in Active, StoreWalkPrice(Asset)
  PROVE  /\ simPrice' \in [Listed -> Cents]
         /\ loop' \in [pc : Active \cup {"select", "stopped"}, at : 0..Len(Assets), price : Price]
         /\ loop'.pc = "push" /\ loop'.at = loop.at /\ loop'.at \in DOMAIN Assets
         /\ loop'.price \in Cents /\ Asset' = Asset /\ loop'.price = simPrice'[Asset]
         /\ \A s \in Listed : simPrice'[s] # simPrice[s] => s = Asset
<1>1. PICK p \in {c \in Cents : c > 0} \cup {simPrice[Asset]} :
         simPrice' = [simPrice EXCEPT ![Asset] = p] /\ Push(p)
  BY DEF StoreWalkPrice
<1>2. p \in Cents /\ Asset \in Listed /\ simPrice \in [Listed -> Cents]
  BY AtAsset DEF FeedTypes
<1> QED
  BY <1>1, <1>2, Pushed

LEMMA TickStep ==
  ASSUME IInv, Tick
  PROVE  IInv'
<1>1. rest' \in [Listed -> 0..Retry]
  BY Kinds DEF IInv, FeedTypes, Tick
<1>2. loop' = [pc |-> "advance", at |-> 1, price |-> NoPrice]
  BY DEF Tick
<1>3. FeedTypes'
  BY <1>1, <1>2, Names, Kinds DEF IInv, FeedTypes, Tick, Active
<1> QED
  BY <1>2, <1>3, FeedStep DEF Tick, Carried

LEMMA StopStep ==
  ASSUME IInv, Stop
  PROVE  IInv'
<1>1. loop' = [pc |-> "stopped", at |-> 0, price |-> NoPrice]
  BY DEF Stop, Between
<1>2. loop' \in [pc : Active \cup {"select", "stopped"}, at : 0..Len(Assets), price : Price]
  <2>1. 0 \in 0..Len(Assets) /\ NoPrice \in Price
    BY Names, Kinds
  <2> QED
    BY <1>1, <2>1
<1>3. FeedTypes'
  BY <1>1, <1>2 DEF IInv, FeedTypes, Stop, Active
<1> QED
  BY <1>1, <1>3, FeedStep DEF Stop, Carried

LEMMA WalkOnStep ==
  ASSUME IInv, WalkOn
  PROVE  IInv'
<1>0. FeedTypes /\ loop.pc \in Active /\ loop.pc # "push"
  BY DEF IInv, WalkOn, Active
<1>1. walk' \in [Listed -> Walks]
  <2>1. /\ walk[Asset] \in [index : 0..PathLen, len : {0, PathLen}, dormant : 0..Retry]
        /\ walk[Asset].index + 1 <= walk[Asset].len
    BY <1>0, AtAsset, Kinds DEF WalkOn, Walks
  <2>2. [walk[Asset] EXCEPT !.index = @ + 1] \in Walks
    BY <2>1, Kinds DEF Walks
  <2> QED
    BY <1>0, <2>2, AtAsset DEF WalkOn, FeedTypes
<1>2. StoreWalkPrice(Asset)
  BY DEF WalkOn
<1>3. FeedTypes' /\ Carried'
  BY <1>0, <1>1, <1>2, Stored DEF WalkOn, FeedTypes, Carried
<1> QED
  BY <1>0, <1>2, <1>3, Stored, FeedStep DEF WalkOn

LEMMA NeedsRegenStep ==
  ASSUME IInv, NeedsRegen
  PROVE  IInv'
<1>0. FeedTypes /\ loop.pc \in Active /\ loop.pc # "push"
  BY DEF IInv, NeedsRegen, Active
<1>1. walk' \in [Listed -> Walks] /\ walk'[Asset] # Unregistered
  <2>1. walk[Asset] \in [index : 0..PathLen, len : {0, PathLen}, dormant : 0..Retry]
        /\ walk[Asset].index <= walk[Asset].len
    BY <1>0, AtAsset, Kinds DEF NeedsRegen, Walks
  <2>2. /\ [walk[Asset] EXCEPT !.dormant = 0] \in Walks \ {Unregistered}
        /\ [walk[Asset] EXCEPT !.index = walk[Asset].len] \in Walks \ {Unregistered}
    BY <2>1, Kinds DEF Walks, Unregistered
  <2> QED
    BY <1>0, <2>2, AtAsset DEF NeedsRegen, FeedTypes
<1>2. /\ loop' \in [pc : Active \cup {"select", "stopped"}, at : 0..Len(Assets), price : Price]
      /\ loop'.pc = "regenerate" /\ loop'.at = loop.at /\ loop'.at \in DOMAIN Assets
      /\ loop'.price = simPrice[Asset] /\ loop'.price \in Cents /\ Asset' = Asset
  BY <1>0, AtAsset DEF NeedsRegen, FeedTypes, Active, Asset
<1>3. FeedTypes' /\ Carried'
  BY <1>0, <1>1, <1>2 DEF NeedsRegen, FeedTypes, Carried
<1> QED
  BY <1>0, <1>3, FeedStep DEF NeedsRegen

LEMMA RepeatStep ==
  ASSUME IInv, Repeat
  PROVE  IInv'
<1>0. FeedTypes /\ loop.pc \in Active /\ loop.pc # "push"
  BY DEF IInv, Repeat, Active
<1>1. walk' \in [Listed -> Walks]
  <2>1. CASE walk[Asset] = Unregistered /\ walk' = walk
    BY <1>0, <2>1 DEF FeedTypes
  <2>2. CASE walk[Asset].dormant > 1 /\ walk' = [walk EXCEPT ![Asset].dormant = @ - 1]
    <3>1. walk[Asset] # Unregistered
      BY <2>2 DEF Unregistered
    <3>2. /\ walk[Asset] \in [index : 0..PathLen, len : {0, PathLen}, dormant : 0..Retry]
          /\ walk[Asset].index <= walk[Asset].len
      BY <1>0, <3>1, AtAsset DEF Walks
    <3>3. [walk[Asset] EXCEPT !.dormant = @ - 1] \in Walks
      BY <2>2, <3>2, Kinds DEF Walks
    <3> QED
      BY <1>0, <2>2, <3>3, AtAsset DEF FeedTypes
  <2> QED
    BY <2>1, <2>2 DEF Repeat
<1>2. Push(simPrice[Asset]) /\ simPrice[Asset] \in Cents
  BY <1>0, AtAsset DEF Repeat
<1>3. FeedTypes' /\ Carried'
  BY <1>0, <1>1, <1>2, Pushed DEF Repeat, FeedTypes, Carried
<1> QED
  BY <1>0, <1>3, FeedStep DEF Repeat

\* What is regenerated is a walk, and the price it starts from is the stored one.
LEMMA GivenUp ==
  ASSUME IInv, loop.pc = "regenerate"
  PROVE  /\ loop.price \in Cents /\ loop.price = simPrice[Asset] /\ FeedTypes /\ loop.pc \in Active
         /\ walk[Asset] # Unregistered
BY DEF IInv, FeedTypes, Carried, Active

LEMMA RegeneratedStep ==
  ASSUME IInv, Regenerated
  PROVE  IInv'
<1>0. FeedTypes /\ loop.pc \in Active /\ loop.pc # "push"
  BY DEF IInv, Regenerated, Active
<1>1. walk' \in [Listed -> Walks]
  <2>1. walk' = [walk EXCEPT ![Asset] = [@ EXCEPT !.index = 1, !.len = PathLen]]
    BY DEF Regenerated
  <2>2. [walk[Asset] EXCEPT !.index = 1, !.len = PathLen] \in Walks
    <3>1. walk[Asset] \in [index : 0..PathLen, len : {0, PathLen}, dormant : 0..Retry]
      BY <1>0, AtAsset, GivenUp DEF Walks, Regenerated
    <3>2. 1 \in 0..PathLen /\ 1 <= PathLen
      BY Kinds
    <3>3. PICK w \in [index : 0..PathLen, len : {0, PathLen}, dormant : 0..Retry] :
             w = walk[Asset]
      BY <3>1
    <3>4. PICK v : v = [w EXCEPT !.index = 1, !.len = PathLen]
      OBVIOUS
    <3>5. v.index = 1 /\ v.len = PathLen
      BY <3>3, <3>4
    <3>6. v \in [index : 0..PathLen, len : {0, PathLen}, dormant : 0..Retry]
      BY <3>2, <3>3, <3>4
    <3> QED
      BY <3>2, <3>3, <3>4, <3>5, <3>6 DEF Walks
  <2> QED
    BY <1>0, <2>1, <2>2, AtAsset DEF FeedTypes
<1>2. StoreWalkPrice(Asset)
  BY DEF Regenerated
<1>3. FeedTypes' /\ Carried'
  BY <1>0, <1>1, <1>2, Stored DEF Regenerated, FeedTypes, Carried
<1> QED
  BY <1>0, <1>2, <1>3, Stored, FeedStep DEF Regenerated

LEMMA GenerationFailsStep ==
  ASSUME IInv, GenerationFails
  PROVE  IInv'
<1>0. /\ loop.price \in Cents /\ loop.price = simPrice[Asset] /\ FeedTypes /\ loop.pc \in Active
      /\ loop.pc # "push" /\ Push(loop.price) /\ UNCHANGED <<simPrice, request, engine, store>>
  BY GivenUp DEF GenerationFails
<1>1. walk' \in [Listed -> Walks] /\ rest' \in [Listed -> 0..Retry]
  <2>1. Dormant(walk[Asset]) \in Walks
    <3>1. /\ walk[Asset] \in [index : 0..PathLen, len : {0, PathLen}, dormant : 0..Retry]
          /\ walk[Asset].index <= walk[Asset].len
      BY <1>0, AtAsset, GivenUp DEF Walks, GenerationFails
    <3> QED
      BY <3>1, Kinds DEF Walks, Dormant
  <2> QED
    BY <1>0, <2>1, AtAsset, Kinds DEF GenerationFails, FeedTypes
<1>2. FeedTypes' /\ Carried'
  BY <1>0, <1>1, Pushed DEF FeedTypes, Carried
<1> QED
  BY <1>0, <1>2, FeedStep

LEMMA GenerationCancelledStep ==
  ASSUME IInv, GenerationCancelled
  PROVE  IInv'
<1>0. /\ loop.price \in Cents /\ loop.price = simPrice[Asset] /\ FeedTypes /\ loop.pc \in Active
      /\ loop.pc # "push" /\ Push(loop.price)
      /\ UNCHANGED <<walk, rest, simPrice, request, engine, store>>
  BY GivenUp DEF GenerationCancelled
<1>1. FeedTypes' /\ Carried'
  BY <1>0, Pushed DEF FeedTypes, Carried
<1> QED
  BY <1>0, <1>1, FeedStep

-----------------------------------------------------------------------------
(* Steps that write the engine *)

LEMMA Written ==
  ASSUME IInv, NEW s \in Symbols, NEW p \in Cents, Write(s, p)
  PROVE  /\ mmPrice' \in [Symbols -> Price] /\ held' \in [Symbols -> SUBSET Cents]
         /\ mmPrice' = [mmPrice EXCEPT ![s] = p] /\ mmPrice'[s] = p /\ p \in held'[s]
         /\ \A t \in Symbols : held[t] \subseteq held'[t]
         /\ \A t \in Symbols : t # s => mmPrice'[t] = mmPrice[t]
BY Kinds DEF IInv, EngineTypes, Write

\* Prices that were in force stay prices that were.
LEMMA StillGenuine ==
  ASSUME IInv, NEW s \in Symbols, NEW p \in Cents, Write(s, p), UNCHANGED store,
         \A o \in Operators : request'[o].pc \in {"tell", "persist"} =>
            \/ request'[o] = request[o]
            \/ request'[o].price = p /\ request'[o].symbol = s
  PROVE  Genuine'
<1>1. \A t \in Symbols : mmPrice'[t] # NoPrice => mmPrice'[t] \in held'[t]
  <2> TAKE t \in Symbols
  <2> QED
    BY Written DEF IInv, Genuine
<1>2. \A r \in rows' : r.price \in held'[r.symbol]
  BY Written DEF IInv, Genuine, StoreTypes, store
<1>3. ASSUME NEW o \in Operators, request'[o].pc \in {"tell", "persist"}
      PROVE  request'[o].price \in held'[request'[o].symbol]
  <2>1. CASE request'[o] = request[o]
    <3>1. request[o].symbol \in Symbols /\ request[o].price \in held[request[o].symbol]
      BY <1>3, <2>1 DEF IInv, Genuine, StoreTypes, Requests
    <3> QED
      BY <2>1, <3>1, Written
  <2>2. CASE request'[o].price = p /\ request'[o].symbol = s
    BY <2>2, Written
  <2> QED
    BY <1>3, <2>1, <2>2
<1>4. AnswerWasInForce'
  BY Written DEF IInv, Genuine, AnswerWasInForce, StoreTypes, store
<1> QED
  BY <1>1, <1>2, <1>3, <1>4 DEF Genuine

LEMMA PushPriceStep ==
  ASSUME IInv, PushPrice
  PROVE  IInv'
<1>0. /\ FeedTypes /\ loop.pc = "push" /\ loop.pc \in Active
      /\ loop.price \in Cents /\ loop.price = simPrice[Asset]
      /\ Asset \in Symbols /\ Asset \in Listed /\ Write(Asset, loop.price)
      /\ UNCHANGED <<walk, simPrice, rest, request, told, store>>
      /\ loop' = [loop EXCEPT !.pc = "tell"]
  BY AtAsset DEF IInv, FeedTypes, Carried, PushPrice, Active
<1>1. FeedTypes' /\ Carried'
  <2>1. loop' \in [pc : Active \cup {"select", "stopped"}, at : 0..Len(Assets), price : Price]
        /\ loop'.pc = "tell" /\ loop'.at = loop.at /\ loop'.price = loop.price
    BY <1>0 DEF FeedTypes, Active
  <2> QED
    BY <1>0, <2>1 DEF FeedTypes, Carried
<1>2. EngineTypes' /\ StoreTypes'
  BY <1>0, Written DEF IInv, EngineTypes, StoreTypes, PushPrice, store
<1>3. Genuine'
  BY <1>0, StillGenuine
<1>4. EngineFollowsSimulator'
  <2> SUFFICES ASSUME NEW s \in Listed, mmPrice'[s] # simPrice[s]
               PROVE  s \in inserted'
    BY <1>0 DEF EngineFollowsSimulator
  <2>1. s # Asset
    BY <1>0, Written
  <2>2. mmPrice[s] # simPrice[s]
    BY <1>0, <2>1, Written, Names
  <2>3. s \in inserted
    BY <2>1, <2>2 DEF IInv, EngineFollowsSimulator
  <2> QED
    BY <2>1, <2>3 DEF PushPrice
<1> QED
  BY <1>1, <1>2, <1>3, <1>4 DEF IInv

LEMMA TellPriceStep ==
  ASSUME IInv, TellPrice
  PROVE  IInv'
<1>0. /\ FeedTypes /\ loop.pc = "tell" /\ loop.pc \in Active /\ loop.price \in Cents
      /\ Asset \in Symbols /\ loop.at \in 1..Len(Assets)
      /\ UNCHANGED <<walk, simPrice, rest, request, mmPrice, held, inserted, store>>
      /\ told' = [told EXCEPT ![Asset] = loop.price]
  BY AtAsset, Names DEF IInv, FeedTypes, TellPrice, Active
<1>1. \/ /\ loop.at < Len(Assets)
         /\ loop' = [pc |-> "advance", at |-> loop.at + 1, price |-> NoPrice]
      \/ loop' = [pc |-> "select", at |-> 0, price |-> NoPrice]
  BY DEF TellPrice, Between
<1>2. /\ loop' \in [pc : Active \cup {"select", "stopped"}, at : 0..Len(Assets), price : Price]
      /\ loop'.pc \in Active => loop'.at \in DOMAIN Assets
      /\ loop'.pc \in {"advance", "select"}
  <2>1. NoPrice \in Price /\ Len(Assets) \in Nat /\ DOMAIN Assets = 1..Len(Assets)
    BY Names, Kinds
  <2>2. CASE loop.at < Len(Assets) /\ loop' = [pc |-> "advance", at |-> loop.at + 1, price |-> NoPrice]
    <3>1. loop.at + 1 \in 1..Len(Assets) /\ loop.at + 1 \in 0..Len(Assets)
      BY <1>0, <2>1, <2>2
    <3> QED
      BY <2>1, <2>2, <3>1 DEF Active
  <2>3. CASE loop' = [pc |-> "select", at |-> 0, price |-> NoPrice]
    BY <2>1, <2>3 DEF Active
  <2> QED
    BY <1>1, <2>2, <2>3
<1>3. FeedTypes' /\ Carried'
  BY <1>0, <1>2 DEF FeedTypes, Carried
<1>4. EngineTypes' /\ StoreTypes'
  BY <1>0, Kinds DEF IInv, EngineTypes, StoreTypes, store
<1>5. Genuine' /\ EngineFollowsSimulator'
  BY <1>0 DEF IInv, Genuine, AnswerWasInForce, EngineFollowsSimulator, store
<1> QED
  BY <1>3, <1>4, <1>5 DEF IInv

-----------------------------------------------------------------------------
(* The operators' requests *)

\* A request that leaves the loop, the engine's price and the simulator alone.
LEMMA RequestStep ==
  ASSUME IInv, UNCHANGED <<feed, mmPrice, held, inserted>>, told' \in [Symbols -> Price],
         StoreTypes', Genuine'
  PROVE  IInv'
BY DEF IInv, FeedTypes, EngineTypes, Carried, EngineFollowsSimulator, Asset, feed

LEMMA Becoming ==
  ASSUME StoreTypes, NEW o \in Operators, NEW r \in Requests, Become(o, r),
         r.pc \in {"write", "tell", "persist"} => r.price \in Cents
  PROVE  /\ request' \in [Operators -> Requests] /\ request'[o] = r
         /\ \A q \in Operators : q # o => request'[q] = request[q]
         /\ \A q \in Operators :
              request'[q].pc \in {"write", "tell", "persist"} => request'[q].price \in Cents
<1>1. /\ request' \in [Operators -> Requests] /\ request'[o] = r
      /\ \A q \in Operators : q # o => request'[q] = request[q]
  BY DEF StoreTypes, Become
<1>2. ASSUME NEW q \in Operators, request'[q].pc \in {"write", "tell", "persist"}
      PROVE  request'[q].price \in Cents
  BY <1>1, <1>2 DEF StoreTypes
<1> QED
  BY <1>1, <1>2

LEMMA NoneYet == NoRequest \in Requests /\ NoRequest.pc = "none"
BY Names, Kinds DEF NoRequest, Requests

LEMMA InsertPriceStep ==
  ASSUME IInv, NEW o \in Operators, NEW s \in Symbols, NEW p \in Cents, InsertPrice(o, s, p)
  PROVE  IInv'
<1>1. PICK r : r = [pc |-> "write", symbol |-> s, price |-> p, stamp |-> stamps + 1]
  OBVIOUS
<1>2. r \in Requests /\ r.pc = "write" /\ r.price \in Cents /\ stamps' \in Nat /\ StoreTypes
  BY <1>1, Kinds DEF IInv, StoreTypes, Requests, InsertPrice
<1>3. Become(o, r) /\ UNCHANGED <<feed, engine, rows, answer>>
  BY <1>1 DEF InsertPrice
<1>4. StoreTypes'
  BY <1>2, <1>3, Becoming DEF StoreTypes
<1>5. Genuine'
  BY <1>2, <1>3, Becoming DEF IInv, Genuine, AnswerWasInForce, engine
<1> QED
  BY <1>3, <1>4, <1>5, RequestStep DEF IInv, EngineTypes, engine

LEMMA WriteInsertedStep ==
  ASSUME IInv, NEW o \in Operators, WriteInserted(o)
  PROVE  IInv'
<1>0. PICK s, p, r : s = request[o].symbol /\ p = request[o].price
                     /\ r = [request[o] EXCEPT !.pc = "tell"]
  OBVIOUS
<1>1. /\ StoreTypes /\ s \in Symbols /\ p \in Cents
      /\ r \in Requests /\ r.pc = "tell" /\ r.price = p /\ r.symbol = s
  BY <1>0 DEF IInv, StoreTypes, Requests, WriteInserted
<1>2. /\ Write(s, p) /\ inserted' = inserted \cup ({s} \cap Listed) /\ Become(o, r)
      /\ UNCHANGED <<feed, told, store>>
  BY <1>0 DEF WriteInserted
<1>3. FeedTypes' /\ Carried'
  BY <1>2 DEF IInv, FeedTypes, Carried, Asset, feed
<1>4. EngineTypes'
  BY <1>1, <1>2, Written DEF IInv, EngineTypes
<1>5. StoreTypes'
  BY <1>1, <1>2, Becoming DEF StoreTypes, store
<1>6. Genuine'
  <2>1. \A q \in Operators : request'[q] = request[q] \/ (request'[q].price = p /\ request'[q].symbol = s)
    BY <1>1, <1>2, Becoming
  <2> QED
    BY <1>1, <1>2, <2>1, StillGenuine
<1>7. EngineFollowsSimulator'
  <2> SUFFICES ASSUME NEW t \in Listed, mmPrice'[t] # simPrice[t]
               PROVE  t \in inserted' \/ (loop.pc = "push" /\ Asset = t)
    BY <1>2 DEF EngineFollowsSimulator, Asset, feed
  <2>1. CASE t = s
    BY <1>2, <2>1
  <2>2. CASE t # s
    <3>1. mmPrice[t] # simPrice[t]
      BY <1>1, <1>2, <2>2, Written, Names
    <3> QED
      BY <1>2, <3>1 DEF IInv, EngineFollowsSimulator
  <2> QED
    BY <2>1, <2>2
<1> QED
  BY <1>3, <1>4, <1>5, <1>6, <1>7 DEF IInv

LEMMA TellInsertedStep ==
  ASSUME IInv, NEW o \in Operators, TellInserted(o)
  PROVE  IInv'
<1>0. PICK r : r = [request[o] EXCEPT !.pc = "persist"]
  OBVIOUS
<1>1. /\ StoreTypes /\ request[o].symbol \in Symbols /\ request[o].price \in Cents
      /\ request[o].price \in held[request[o].symbol]
      /\ r \in Requests /\ r.price = request[o].price /\ r.symbol = request[o].symbol
  BY <1>0 DEF IInv, StoreTypes, Requests, Genuine, TellInserted
<1>2. Become(o, r) /\ UNCHANGED <<feed, mmPrice, held, inserted, store>>
  BY <1>0 DEF TellInserted
<1>3. told' \in [Symbols -> Price]
  BY <1>1, Kinds DEF IInv, EngineTypes, TellInserted
<1>4. StoreTypes'
  BY <1>1, <1>2, Becoming DEF StoreTypes, store
<1>5. Genuine'
  BY <1>1, <1>2, Becoming DEF IInv, Genuine, AnswerWasInForce, store
<1> QED
  BY <1>2, <1>3, <1>4, <1>5, RequestStep

LEMMA PersistStep ==
  ASSUME IInv, NEW o \in Operators, Persist(o)
  PROVE  IInv'
<1>1. PICK row : row = [symbol |-> request[o].symbol, price |-> request[o].price,
                        stamp |-> request[o].stamp]
  OBVIOUS
<1>2. /\ row \in [symbol : Symbols, price : Cents, stamp : Nat] /\ row.price \in held[row.symbol]
      /\ StoreTypes
  BY <1>1 DEF IInv, StoreTypes, Requests, Genuine, Persist
<1>3. /\ rows' \subseteq rows \cup {row} /\ Become(o, NoRequest)
      /\ UNCHANGED <<feed, engine, stamps, answer>>
  BY <1>1 DEF Persist
<1>4. StoreTypes'
  BY <1>2, <1>3, Becoming, NoneYet DEF StoreTypes
<1>5. Genuine'
  <2>1. \A q \in rows' : q.price \in held'[q.symbol]
    BY <1>2, <1>3 DEF IInv, Genuine, engine
  <2> QED
    BY <1>2, <1>3, <2>1, Becoming, NoneYet DEF IInv, Genuine, AnswerWasInForce, engine
<1> QED
  BY <1>3, <1>4, <1>5, RequestStep DEF IInv, EngineTypes, engine

LEMMA GetLatestPriceStep ==
  ASSUME IInv, NEW o \in Operators, NEW s \in Symbols, GetLatestPrice(o, s)
  PROVE  IInv'
<1>0. UNCHANGED <<feed, engine, rows, stamps>> /\ StoreTypes
  BY DEF IInv, GetLatestPrice
<1>1. CASE mmPrice[s] # NoPrice
  <2>1. /\ answer' = [symbol |-> s, price |-> mmPrice[s]] /\ request' = request
        /\ mmPrice[s] \in held[s] /\ mmPrice[s] \in Price
    BY <1>1 DEF IInv, EngineTypes, Genuine, GetLatestPrice
  <2>2. StoreTypes'
    BY <1>0, <2>1 DEF StoreTypes
  <2>3. Genuine'
    BY <1>0, <2>1 DEF IInv, Genuine, AnswerWasInForce, engine
  <2> QED
    BY <1>0, <2>2, <2>3, RequestStep DEF IInv, EngineTypes, engine
<1>2. CASE mmPrice[s] = NoPrice
  <2>1. PICK r : r = [NoRequest EXCEPT !.pc = "query", !.symbol = s]
    OBVIOUS
  <2>2. r \in Requests /\ r.pc = "query" /\ Become(o, r) /\ answer' = answer
    BY <1>2, <2>1, Names, Kinds DEF GetLatestPrice, NoRequest, Requests
  <2>3. StoreTypes'
    BY <1>0, <2>2, Becoming DEF StoreTypes
  <2>4. Genuine'
    BY <1>0, <2>2, Becoming DEF IInv, Genuine, AnswerWasInForce, engine
  <2> QED
    BY <1>0, <2>3, <2>4, RequestStep DEF IInv, EngineTypes, engine
<1> QED
  BY <1>1, <1>2

LEMMA QueryRowsStep ==
  ASSUME IInv, NEW o \in Operators, QueryRows(o)
  PROVE  IInv'
<1>0. UNCHANGED <<feed, engine, rows, stamps>> /\ Become(o, NoRequest) /\ StoreTypes
  BY DEF IInv, QueryRows
<1>1. answer' = answer \/ \E r \in rows : answer' = [symbol |-> r.symbol, price |-> r.price]
  BY DEF QueryRows
<1>2. answer' \in [symbol : Symbols, price : Price]
  BY <1>0, <1>1, Kinds DEF StoreTypes
<1>3. StoreTypes'
  BY <1>0, <1>2, Becoming, NoneYet DEF StoreTypes
<1>4. AnswerWasInForce'
  BY <1>0, <1>1 DEF IInv, Genuine, AnswerWasInForce, engine
<1>5. Genuine'
  BY <1>0, <1>4, Becoming, NoneYet DEF IInv, Genuine, engine
<1> QED
  BY <1>0, <1>3, <1>5, RequestStep DEF IInv, EngineTypes, engine

-----------------------------------------------------------------------------
(* The process *)

\* What memory holds when the process starts, for the first time or again.
LEMMA Fresh ==
  ASSUME NEW prices \in FirstPrices, NEW walks \in FirstWalks
  PROVE  /\ prices \in [Listed -> Cents] /\ walks \in [Listed -> Walks]
         /\ Seeded(prices) \in [Symbols -> Price]
         /\ \A s \in Symbols : Seeded(prices)[s] # NoPrice => Seeded(prices)[s] \in Cents
         /\ \A s \in Listed : Seeded(prices)[s] = prices[s]
         /\ [s \in Listed |-> Retry] \in [Listed -> 0..Retry]
         /\ Between \in [pc : Active \cup {"select", "stopped"}, at : 0..Len(Assets), price : Price]
         /\ [o \in Operators |-> NoRequest] \in [Operators -> Requests]
<1>1. prices \in [Listed -> Cents]
  BY DEF FirstPrices
<1>2. walks \in [Listed -> Walks]
  BY Kinds DEF FirstWalks
<1>3. \A s \in Symbols : Seeded(prices)[s] = IF s \in Listed THEN prices[s] ELSE NoPrice
  BY DEF Seeded
<1>4. Seeded(prices) \in [Symbols -> Price]
  BY <1>1, Kinds DEF Seeded
<1>5. Between \in [pc : Active \cup {"select", "stopped"}, at : 0..Len(Assets), price : Price]
  <2>1. 0 \in 0..Len(Assets)
    BY Names
  <2> QED
    BY <2>1, Kinds DEF Between
<1>6. [s \in Listed |-> Retry] \in [Listed -> 0..Retry]
  BY Kinds
<1> QED
  BY <1>1, <1>2, <1>3, <1>4, <1>5, <1>6, Names, NoneYet

LEMMA ShutdownStep ==
  ASSUME IInv, Shutdown
  PROVE  IInv'
BY DEF Shutdown, IInv, FeedTypes, EngineTypes, StoreTypes, Carried, EngineFollowsSimulator,
       Genuine, AnswerWasInForce, Asset, feed, engine, store

LEMMA RestartStep ==
  ASSUME IInv, Restart
  PROVE  IInv'
<1>0. /\ walk' \in FirstWalks /\ simPrice' \in FirstPrices /\ loop' = Between
      /\ rest' = [s \in Listed |-> Retry] /\ mmPrice' = Seeded(simPrice')
      /\ told' = [s \in Symbols |-> NoPrice] /\ request' = [o \in Operators |-> NoRequest]
      /\ held' = [s \in Symbols |-> held[s] \cup ({mmPrice'[s]} \ {NoPrice})]
      /\ inserted' = {} /\ UNCHANGED store
  BY DEF Restart
<1>1. PICK prices \in FirstPrices : prices = simPrice'
  BY <1>0
<1>2. PICK walks \in FirstWalks : walks = walk'
  BY <1>0
<1>3. /\ prices \in [Listed -> Cents] /\ walks \in [Listed -> Walks]
      /\ Seeded(prices) \in [Symbols -> Price]
      /\ \A s \in Symbols : Seeded(prices)[s] # NoPrice => Seeded(prices)[s] \in Cents
      /\ \A s \in Listed : Seeded(prices)[s] = prices[s]
      /\ [s \in Listed |-> Retry] \in [Listed -> 0..Retry]
      /\ Between \in [pc : Active \cup {"select", "stopped"}, at : 0..Len(Assets), price : Price]
      /\ [o \in Operators |-> NoRequest] \in [Operators -> Requests]
  BY Fresh
<1>4. loop'.pc = "select"
  BY <1>0 DEF Between
<1>5. FeedTypes' /\ Carried'
  BY <1>0, <1>1, <1>2, <1>3, <1>4 DEF FeedTypes, Carried, Active
<1>6. mmPrice' = Seeded(prices)
  BY <1>0, <1>1
<1>7. EngineTypes'
  <2>1. held' \in [Symbols -> SUBSET Cents]
    BY <1>0, <1>3, <1>6 DEF IInv, EngineTypes
  <2> QED
    BY <1>0, <1>3, <1>6, <2>1, Kinds DEF EngineTypes
<1>8. StoreTypes'
  BY <1>0, <1>3, NoneYet DEF IInv, StoreTypes, store
<1>9. EngineFollowsSimulator'
  BY <1>1, <1>3, <1>6 DEF EngineFollowsSimulator
<1>10. Genuine'
  <2>1. \A s \in Symbols : held[s] \subseteq held'[s]
    BY <1>0
  <2>2. \A s \in Symbols : mmPrice'[s] # NoPrice => mmPrice'[s] \in held'[s]
    BY <1>0
  <2>3. \A o \in Operators : request'[o].pc = "none"
    BY <1>0, NoneYet
  <2>4. \A r \in rows' : r.price \in held'[r.symbol]
    BY <1>0, <2>1 DEF IInv, Genuine, StoreTypes, store
  <2>5. AnswerWasInForce'
    BY <1>0, <2>1 DEF IInv, Genuine, AnswerWasInForce, StoreTypes, store
  <2> QED
    BY <2>2, <2>3, <2>4, <2>5 DEF Genuine
<1> QED
  BY <1>5, <1>7, <1>8, <1>9, <1>10 DEF IInv

-----------------------------------------------------------------------------
(* The invariant *)

LEMMA InvInit == Init => IInv
<1> SUFFICES ASSUME Init PROVE IInv
  OBVIOUS
<1>0. /\ walk \in FirstWalks /\ simPrice \in FirstPrices /\ loop = Between
      /\ rest = [s \in Listed |-> Retry] /\ mmPrice = Seeded(simPrice)
      /\ told = [s \in Symbols |-> NoPrice] /\ request = [o \in Operators |-> NoRequest]
      /\ held = [s \in Symbols |-> {mmPrice[s]} \ {NoPrice}]
      /\ inserted = {} /\ rows = {} /\ stamps = 0 /\ answer = NoAnswer
  BY DEF Init
<1>1. /\ simPrice \in [Listed -> Cents] /\ walk \in [Listed -> Walks]
      /\ mmPrice \in [Symbols -> Price]
      /\ \A s \in Symbols : mmPrice[s] # NoPrice => mmPrice[s] \in Cents
      /\ \A s \in Listed : mmPrice[s] = simPrice[s]
      /\ [s \in Listed |-> Retry] \in [Listed -> 0..Retry]
      /\ Between \in [pc : Active \cup {"select", "stopped"}, at : 0..Len(Assets), price : Price]
      /\ [o \in Operators |-> NoRequest] \in [Operators -> Requests]
  BY <1>0, Fresh
<1>2. loop.pc = "select"
  BY <1>0 DEF Between
<1>3. FeedTypes /\ Carried
  BY <1>0, <1>1, <1>2 DEF FeedTypes, Carried, Active
<1>4. EngineTypes
  BY <1>0, <1>1, Kinds DEF EngineTypes
<1>5. StoreTypes
  BY <1>0, <1>1, NoneYet, Names, Kinds DEF StoreTypes, NoAnswer
<1>6. EngineFollowsSimulator
  BY <1>1 DEF EngineFollowsSimulator
<1>7. Genuine
  BY <1>0, NoneYet DEF Genuine, AnswerWasInForce
<1> QED
  BY <1>3, <1>4, <1>5, <1>6, <1>7 DEF IInv

LEMMA InvNext == IInv /\ [Next]_vars => IInv'
<1> SUFFICES ASSUME IInv, [Next]_vars PROVE IInv'
  OBVIOUS
<1>1. CASE Loop
  BY <1>1, TickStep, WalkOnStep, NeedsRegenStep, RepeatStep, RegeneratedStep, GenerationFailsStep,
     GenerationCancelledStep, PushPriceStep, TellPriceStep DEF Loop
<1>2. CASE Stop \/ Shutdown \/ Restart
  BY <1>2, StopStep, ShutdownStep, RestartStep
<1>3. ASSUME NEW o \in Operators, Serve(o) PROVE IInv'
  BY <1>3, WriteInsertedStep, TellInsertedStep, PersistStep, QueryRowsStep DEF Serve
<1>4. ASSUME NEW o \in Operators, NEW s \in Symbols, GetLatestPrice(o, s) PROVE IInv'
  BY <1>4, GetLatestPriceStep
<1>5. ASSUME NEW o \in Operators, NEW s \in Symbols, NEW p \in Cents, InsertPrice(o, s, p)
      PROVE  IInv'
  BY <1>5, InsertPriceStep
<1>6. CASE UNCHANGED vars
  BY <1>6 DEF vars, IInv, FeedTypes, EngineTypes, StoreTypes, Carried, EngineFollowsSimulator,
              Genuine, AnswerWasInForce, Asset
<1> QED
  BY <1>1, <1>2, <1>3, <1>4, <1>5, <1>6 DEF Next

LEMMA InvHolds == Spec => []IInv
BY InvInit, InvNext, PTL DEF Spec

\* Walks, prices, events and answers hold what their types say.
THEOREM TypeCorrect == Spec => []TypeOK
<1>1. IInv => TypeOK
  BY Kinds DEF IInv, FeedTypes, EngineTypes, StoreTypes, TypeOK, Active, Walks
<1> QED
  BY <1>1, InvHolds, PTL

\* The engine's price of a configured asset is the simulator's, unless an
\* operator has written it since the last tick or the loop is about to push
\* (process_tick, insert_price): nothing else parts the two, restarts included.
THEOREM EngineFollows == Spec => []EngineFollowsSimulator
<1>1. IInv => EngineFollowsSimulator
  BY DEF IInv
<1> QED
  BY <1>1, InvHolds, PTL

\* GET /prices/{symbol} answers with a price that was in force, in this run of
\* the process or an earlier one (insert_price writes the engine before the row,
\* get_latest_price reads the engine before the rows).
THEOREM AnswersAreGenuine == Spec => []AnswerWasInForce
<1>1. IInv => AnswerWasInForce
  BY DEF IInv, Genuine
<1> QED
  BY <1>1, InvHolds, PTL

-----------------------------------------------------------------------------
(* The storm guard *)

\* The configuration names no asset twice (one named twice is moved twice in
\* every tick, and wakes after half the ticks).
OncePerTick == \A i, j \in DOMAIN Assets : Assets[i] = Assets[j] => i = j

\* The tick under way has yet to come to the asset.
ToCome(s) ==
  \E i \in DOMAIN Assets :
    /\ Assets[i] = s
    /\ \/ loop.pc = "advance" /\ i >= loop.at
       \/ loop.pc \in {"regenerate", "push", "tell"} /\ i > loop.at

\* Ticks passed and ticks left make up the back-off: a walk that is awake has
\* rested, one that sleeps rests at least as long as its counter will run.
Rested(s) ==
  /\ walk[s].dormant = 0 => rest[s] = Retry
  /\ \/ rest[s] = Retry
     \/ rest[s] + walk[s].dormant >= Retry /\ ~ToCome(s)
     \/ rest[s] + walk[s].dormant > Retry

BackOff == \A s \in Listed : Rested(s)

LEMMA Counters ==
  ASSUME FeedTypes, NEW s \in Listed
  PROVE  /\ walk[s].dormant \in 0..Retry /\ rest[s] \in 0..Retry /\ Retry \in Nat \ {0}
         /\ walk[s] = Unregistered => walk[s].dormant = 0
BY Kinds DEF FeedTypes, Walks, Unregistered

\* An asset other than the one a step of the tick is about.
LEMMA OtherAsset ==
  ASSUME FeedTypes, NEW s \in Listed, BackOff, walk'[s] = walk[s], rest'[s] = rest[s],
         ToCome(s)' => ToCome(s)
  PROVE  Rested(s)'
BY DEF BackOff, Rested

\* Once the loop is past an asset, the tick does not come to it again.
LEMMA Passed ==
  ASSUME FeedTypes, OncePerTick, loop.pc \in Active, loop'.at = loop.at,
         loop'.pc \in {"push", "regenerate", "tell"}
  PROVE  \A s \in Listed : (s = Asset => ~ToCome(s)') /\ (ToCome(s)' => ToCome(s))
<1>1. loop.at \in DOMAIN Assets /\ DOMAIN Assets \subseteq Nat
  BY Names DEF FeedTypes
<1>2. ASSUME NEW i \in DOMAIN Assets, Assets[i] = Assets[loop.at], i > loop'.at PROVE FALSE
  BY <1>1, <1>2 DEF OncePerTick
<1>3. ASSUME NEW s \in Listed, s = Asset, ToCome(s)' PROVE FALSE
  <2>1. PICK i \in DOMAIN Assets : Assets[i] = s /\ i > loop'.at
    BY <1>3 DEF ToCome
  <2> QED
    BY <1>2, <1>3, <2>1 DEF Asset
<1>4. ASSUME NEW s \in Listed, ToCome(s)' PROVE ToCome(s)
  <2>1. PICK i \in DOMAIN Assets : Assets[i] = s /\ i > loop.at
    BY <1>4 DEF ToCome
  <2> QED
    BY <1>1, <2>1 DEF ToCome, Active
<1> QED
  BY <1>3, <1>4

LEMMA BackOffTick ==
  ASSUME FeedTypes, BackOff, Tick
  PROVE  BackOff'
<1> SUFFICES ASSUME NEW s \in Listed PROVE Rested(s)'
  BY DEF BackOff
<1>1. /\ walk' = walk /\ rest'[s] = IF rest[s] < Retry THEN rest[s] + 1 ELSE Retry
      /\ ~ToCome(s)
  BY DEF Tick, ToCome
<1>2. Rested(s)
  BY DEF BackOff
<1> QED
  BY <1>1, <1>2, Counters DEF Rested

LEMMA BackOffStop ==
  ASSUME FeedTypes, BackOff, Stop
  PROVE  BackOff'
<1> SUFFICES ASSUME NEW s \in Listed PROVE Rested(s)'
  BY DEF BackOff
<1>1. walk' = walk /\ rest' = rest /\ ~ToCome(s)'
  BY DEF Stop, Between, ToCome
<1> QED
  BY <1>1, OtherAsset

\* A step of the tick that is about one asset, and ends by passing it.
LEMMA BackOffAsset ==
  ASSUME FeedTypes, BackOff, OncePerTick, loop.pc \in Active, loop'.at = loop.at,
         loop'.pc \in {"push", "regenerate", "tell"},
         \A s \in Listed : s # Asset => walk'[s] = walk[s] /\ rest'[s] = rest[s],
         \/ rest'[Asset] = Retry
         \/ walk'[Asset].dormant > 0 /\ rest'[Asset] + walk'[Asset].dormant >= Retry
  PROVE  BackOff'
<1> SUFFICES ASSUME NEW s \in Listed PROVE Rested(s)'
  BY DEF BackOff
<1>1. CASE s # Asset
  BY <1>1, Passed, OtherAsset
<1>2. CASE s = Asset
  BY <1>2, Passed DEF Rested
<1> QED
  BY <1>1, <1>2

LEMMA BackOffWalk ==
  ASSUME FeedTypes, BackOff, OncePerTick,
         WalkOn \/ NeedsRegen \/ Repeat \/ Regenerated \/ GenerationFails \/ GenerationCancelled
                \/ PushPrice,
         Carried, StormGuard
  PROVE  BackOff'
<1>0. /\ loop.pc \in Active /\ Asset \in Listed /\ Rested(Asset)
      /\ walk[Asset].dormant \in 0..Retry /\ rest[Asset] \in 0..Retry /\ Retry \in Nat \ {0}
      /\ walk \in [Listed -> Walks] /\ rest \in [Listed -> 0..Retry]
  <2>1. loop.pc \in Active
    BY DEF WalkOn, NeedsRegen, Repeat, Regenerated, GenerationFails, GenerationCancelled, PushPrice,
           Active
  <2> QED
    BY <2>1, AtAsset, Counters DEF BackOff, FeedTypes
<1>1. CASE WalkOn \/ Regenerated
  <2>1. loop'.at = loop.at /\ loop'.pc = "push"
    BY <1>0, <1>1, Stored DEF WalkOn, Regenerated
  <2>2. rest' = rest /\ rest[Asset] = Retry /\ \A s \in Listed : s # Asset => walk'[s] = walk[s]
    BY <1>0, <1>1 DEF WalkOn, Regenerated, Rested, StormGuard
  <2> QED
    BY <1>0, <2>1, <2>2, BackOffAsset
<1>2. CASE NeedsRegen
  <2>1. loop'.at = loop.at /\ loop'.pc = "regenerate"
    BY <1>2 DEF NeedsRegen, FeedTypes
  <2>2. rest' = rest /\ \A s \in Listed : s # Asset => walk'[s] = walk[s]
    BY <1>0, <1>2 DEF NeedsRegen
  <2>3. rest[Asset] = Retry
    <3>1. CASE walk[Asset].dormant = 1
      <4>1. ToCome(Asset)
        BY <1>2, Names DEF ToCome, NeedsRegen, FeedTypes, Active, Asset
      <4> QED
        BY <1>0, <3>1, <4>1 DEF Rested
    <3>2. CASE walk[Asset].dormant = 0
      BY <1>0, <3>2 DEF Rested
    <3> QED
      BY <1>2, <3>1, <3>2 DEF NeedsRegen
  <2> QED
    BY <1>0, <2>1, <2>2, <2>3, BackOffAsset
<1>3. CASE Repeat
  <2>1. loop'.at = loop.at /\ loop'.pc = "push"
    BY <1>0, <1>3, Pushed, AtAsset DEF Repeat
  <2>2. rest' = rest /\ \A s \in Listed : s # Asset => walk'[s] = walk[s]
    BY <1>0, <1>3 DEF Repeat
  <2>3. \/ rest[Asset] = Retry
        \/ walk'[Asset].dormant > 0 /\ rest[Asset] + walk'[Asset].dormant >= Retry
    <3>1. CASE walk[Asset] = Unregistered
      BY <1>0, <3>1, Counters DEF Rested
    <3>2. CASE walk[Asset].dormant > 1 /\ walk' = [walk EXCEPT ![Asset].dormant = @ - 1]
      <4>1. ToCome(Asset)
        BY <1>3, Names DEF ToCome, Repeat, FeedTypes, Active, Asset
      <4>2. walk'[Asset].dormant = walk[Asset].dormant - 1
        <5>1. walk[Asset] # Unregistered
          BY <3>2 DEF Unregistered
        <5>2. walk[Asset] \in [index : 0..PathLen, len : {0, PathLen}, dormant : 0..Retry]
          BY <1>0, <5>1 DEF Walks
        <5> QED
          BY <1>0, <3>2, <5>2
      <4> QED
        BY <1>0, <3>2, <4>1, <4>2 DEF Rested
    <3> QED
      BY <1>3, <3>1, <3>2 DEF Repeat
  <2> QED
    BY <1>0, <2>1, <2>2, <2>3, BackOffAsset
<1>4. CASE GenerationFails
  <2>1. loop'.at = loop.at /\ loop'.pc = "push"
    BY <1>0, <1>4, Pushed DEF GenerationFails, FeedTypes
  <2>2. \A s \in Listed : s # Asset => walk'[s] = walk[s] /\ rest'[s] = rest[s]
    BY <1>0, <1>4 DEF GenerationFails
  <2>3. rest'[Asset] = 0 /\ walk'[Asset].dormant = Retry
    <3>1. walk[Asset] \in [index : 0..PathLen, len : {0, PathLen}, dormant : 0..Retry]
      BY <1>0, <1>4 DEF Walks, Carried, GenerationFails
    <3> QED
      BY <1>0, <1>4, <3>1 DEF GenerationFails, Dormant
  <2> QED
    BY <1>0, <2>1, <2>2, <2>3, BackOffAsset
<1>5. CASE GenerationCancelled
  <2>1. loop'.at = loop.at /\ loop'.pc = "push"
    BY <1>0, <1>5, Pushed DEF GenerationCancelled, FeedTypes
  <2>2. walk' = walk /\ rest' = rest /\ rest[Asset] = Retry
    BY <1>5 DEF GenerationCancelled, StormGuard
  <2> QED
    BY <1>0, <2>1, <2>2, BackOffAsset
<1>6. CASE PushPrice
  <2>1. /\ loop'.at = loop.at /\ loop'.pc = "tell" /\ walk' = walk /\ rest' = rest
    BY <1>6 DEF PushPrice, FeedTypes
  <2>2. \A s \in Listed : ToCome(s)' => ToCome(s)
    BY <1>0, <2>1, Passed
  <2> QED
    BY <2>1, <2>2, OtherAsset DEF BackOff
<1> QED
  BY <1>1, <1>2, <1>3, <1>4, <1>5, <1>6

\* An asset is to come when the loop goes on to it, as it was before.
LEMMA BackOffTell ==
  ASSUME FeedTypes, BackOff, TellPrice
  PROVE  BackOff'
<1>1. walk' = walk /\ rest' = rest /\ loop.pc = "tell" /\ loop.at \in Nat
  BY Names DEF TellPrice, FeedTypes
<1>2. \/ loop' = [pc |-> "advance", at |-> loop.at + 1, price |-> NoPrice]
      \/ loop' = [pc |-> "select", at |-> 0, price |-> NoPrice]
  BY DEF TellPrice, Between
<1>3. ASSUME NEW s \in Listed, ToCome(s)' PROVE ToCome(s)
  <2>1. PICK i \in DOMAIN Assets : Assets[i] = s /\ i >= loop.at + 1
    BY <1>2, <1>3 DEF ToCome
  <2>2. i > loop.at
    BY <1>1, <2>1, Names
  <2> QED
    BY <1>1, <2>1, <2>2 DEF ToCome
<1> QED
  BY <1>1, <1>3, OtherAsset DEF BackOff

\* mark_dormant and get_next_price: the heavy generation that failed is not run
\* again before DORMANT_RETRY_TICKS further ticks, whatever happens to the other
\* assets, in a configuration that names no asset twice.
THEOREM StormIsGuarded ==
  ASSUME OncePerTick
  PROVE  Spec => []StormGuard
<1> DEFINE Inv == IInv /\ BackOff /\ StormGuard
<1>1. Init => Inv
  <2> SUFFICES ASSUME Init PROVE Inv
    OBVIOUS
  <2>1. IInv
    BY InvInit
  <2>2. rest = [s \in Listed |-> Retry] /\ loop.pc = "select"
    BY DEF Init, Between
  <2> QED
    BY <2>1, <2>2 DEF BackOff, Rested, StormGuard
<1>2. Inv /\ [Next]_vars => Inv'
  <2> SUFFICES ASSUME Inv, [Next]_vars PROVE Inv'
    OBVIOUS
  <2>0. IInv' /\ FeedTypes /\ Carried
    BY InvNext DEF IInv
  <2>1. CASE UNCHANGED feed
    <3>1. \A s \in Listed : ToCome(s)' => ToCome(s)
      BY <2>1 DEF feed, ToCome
    <3> QED
      BY <2>0, <2>1, <3>1, OtherAsset DEF feed, BackOff, StormGuard, Asset
  <2>2. CASE Restart
    BY <2>0, <2>2 DEF Restart, BackOff, Rested, StormGuard, Between
  <2>3. CASE Tick
    BY <2>0, <2>3, BackOffTick DEF StormGuard, Tick
  <2>4. CASE Stop
    BY <2>0, <2>4, BackOffStop DEF StormGuard, Stop, Between
  <2>5. CASE TellPrice
    BY <2>0, <2>5, BackOffTell DEF StormGuard, TellPrice, Between
  <2>6. CASE WalkOn \/ NeedsRegen \/ Repeat \/ Regenerated \/ GenerationFails
             \/ GenerationCancelled \/ PushPrice
    <3>1. BackOff'
      BY <2>0, <2>6, BackOffWalk
    <3>2. ASSUME loop'.pc = "regenerate" PROVE rest'[Asset'] = Retry
      <4>1. NeedsRegen
        BY <2>0, <2>6, <3>2 DEF WalkOn, Repeat, Regenerated, GenerationFails, GenerationCancelled,
                          PushPrice, StoreWalkPrice, Push, FeedTypes
      <4>2. PICK s \in Listed : s = Asset /\ s = Asset'
        BY <2>0, <4>1, AtAsset DEF NeedsRegen, Asset, FeedTypes, Active
      <4>3. walk[s] \in [index : 0..PathLen, len : {0, PathLen}, dormant : 0..Retry]
        BY <2>0, <4>1, <4>2 DEF NeedsRegen, FeedTypes, Walks
      <4>4. walk'[s].dormant = 0
        BY <2>0, <4>1, <4>2, <4>3 DEF NeedsRegen, FeedTypes
      <4> QED
        BY <3>1, <4>2, <4>4 DEF BackOff, Rested
    <3> QED
      BY <2>0, <3>1, <3>2 DEF StormGuard
  <2> QED
    BY <2>1, <2>2, <2>3, <2>4, <2>5, <2>6
    DEF Next, Loop, Serve, Shutdown, WriteInserted, TellInserted, Persist, QueryRows,
        GetLatestPrice, InsertPrice, vars, feed
<1>3. Inv => StormGuard
  OBVIOUS
<1> QED
  BY <1>1, <1>2, <1>3, PTL DEF Spec
=============================================================================
