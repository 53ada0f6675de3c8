----------------------------- MODULE AppStateProofs -----------------------------
(***************************************************************************)
(* Proofs about AppState, for any keys, pages, threads, requests and any   *)
(* capacity of the event queue.                                            *)
(***************************************************************************)
EXTENDS AppState, TLAPS

\* Every node of d that is behind the store has a dirty key.
Covered(d) ==
    \A k \in d.page.texts : store[k] = NoValue \/ d.texts[k] = store[k] \/ k \in dirty

\* The subscriptions are those of the document that the next sync will find,
\* and that document is covered as the one in use is.
Bindings ==
    /\ next = {} => subs = doc.page.texts
    /\ \A d \in next : subs = d.page.texts /\ Covered(d)
    /\ next # {} => at = "swap"
    /\ Covered(doc)

\* For nodes are left to be expanded only while the loop expands.
Folding == (todo # {} => at = "expand") /\ PatchesReachTemplates

-----------------------------------------------------------------------------
(* Helpers. *)

\* What set does with the keys of a patch.
LEMMA SetAllEffect ==
    ASSUME TypeOK, NEW patch \in Patches, SetAll(patch)
    PROVE  /\ store' \in [Keys -> Held] /\ dirty' \subseteq Keys
           /\ dirty \subseteq dirty'
           /\ \A k \in Keys : store'[k] = store[k] \/ k \in dirty'
<1>1. DOMAIN patch \subseteq Keys /\ \A k \in DOMAIN patch : patch[k] \in Values
  BY DEF Patches
<1> QED
  BY <1>1 DEF TypeOK, SetAll, Held

\* A patch of one key is a patch.
LEMMA OneKey ==
    ASSUME NEW k \in Keys, NEW v \in Values
    PROVE  [i \in {k} |-> v] \in Patches
<1>1. [i \in {k} |-> v] \in [{k} -> Values] /\ {k} \in SUBSET Keys
  OBVIOUS
<1> QED
  BY <1>1 DEF Patches

\* Taking an event of another kind leaves a StatePatched in the queue.
LEMMA TookKeeps ==
    ASSUME TypeOK, NEW e \in Events, Took(e)
    PROVE  /\ events' \in Seq(Events) /\ Len(events') <= QueueCap
           /\ e # Patched /\ Has(events, Patched) => Has(events', Patched)
<1>1. events' \in Seq(Events) /\ Len(events') = Len(events) - 1
  BY DEF TypeOK, Took
<1>2. ASSUME e # Patched, NEW i \in DOMAIN events, events[i] = Patched
      PROVE  Has(events', Patched)
  <2>1. i # 1
    BY <1>2 DEF TypeOK, Took
  <2>2. i - 1 \in DOMAIN events' /\ events'[i - 1] = Patched
    BY <1>1, <1>2, <2>1 DEF TypeOK, Took
  <2> QED
    BY <2>2 DEF Has
<1> QED
  BY <1>1, <1>2, AppStateAssumption DEF Has, TypeOK

\* Posting keeps the queue within its capacity, and when it loses the last
\* StatePatched the history says so.
LEMMA PostKeeps ==
    ASSUME TypeOK, NEW e \in Events, Post(e)
    PROVE  /\ events' \in Seq(Events) /\ Len(events') <= QueueCap
           /\ unshown' \in BOOLEAN /\ unfolded' \in BOOLEAN
           /\ unfolded => unfolded'
           /\ Has(events, Patched) => Has(events', Patched) \/ unfolded'
           /\ Has(events', e)
<1> DEFINE full == Len(events) >= QueueCap
           rest == IF full THEN Tail(events) ELSE events
<1>0. events \in Seq(Events) /\ Len(events) <= QueueCap /\ QueueCap \in Nat \ {0}
  BY AppStateAssumption DEF TypeOK
<1>1. rest \in Seq(Events) /\ Len(rest) < QueueCap
  BY <1>0
<1>2. events' = Append(rest, e)
  BY DEF Post
<1>3. events' \in Seq(Events) /\ Len(events') <= QueueCap
  BY <1>0, <1>1, <1>2
<1>4. Has(events', e)
  <2>1. Len(rest) + 1 \in DOMAIN events' /\ events'[Len(rest) + 1] = e
    BY <1>1, <1>2
  <2> QED
    BY <2>1 DEF Has
<1>5. unshown' \in BOOLEAN /\ unfolded' \in BOOLEAN /\ (unfolded => unfolded')
  BY DEF Post, TypeOK
<1>6. ASSUME NEW i \in DOMAIN events, events[i] = Patched, ~Has(events', Patched)
      PROVE  full /\ Head(events) = Patched
  <2>1. \A j \in DOMAIN rest : j \in DOMAIN events' /\ events'[j] = rest[j]
    BY <1>1, <1>2
  <2>2. ~Has(rest, Patched)
    BY <1>6, <2>1 DEF Has
  <2>3. CASE ~full
    BY <1>6, <2>2, <2>3 DEF Has
  <2>4. CASE full /\ i # 1
    <3>1. i - 1 \in DOMAIN rest /\ rest[i - 1] = events[i]
      BY <1>0, <2>4
    <3> QED
      BY <1>6, <2>2, <3>1 DEF Has
  <2>5. CASE full /\ i = 1
    BY <1>0, <1>6, <2>5
  <2> QED
    BY <2>3, <2>4, <2>5
<1>7. Has(events, Patched) /\ ~Has(events', Patched) => unfolded'
  BY <1>6 DEF Post, Has
<1> QED
  BY <1>3, <1>4, <1>5, <1>7

\* The kinds of events are distinct.
LEMMA EventKinds ==
    /\ Patched \in Events
    /\ \A kind \in {"action", "key", "load", "open"} : Event(kind) \in Events /\ Event(kind) # Patched
    /\ \A t \in AnyToken : TokenEvent(t) \in Events /\ TokenEvent(t) # Patched
<1>1. \A kind \in {"patched", "action", "key", "load", "open"} : Event(kind) \in Events
  BY DEF Event, Events
<1>2. \A kind \in {"action", "key", "load", "open"} : Event(kind) # Patched
  BY DEF Event, Patched
<1>3. \A t \in AnyToken : TokenEvent(t) \in Events
  BY DEF TokenEvent, Events
<1>4. \A t \in AnyToken : TokenEvent(t) # Patched
  <2>1. \A t : TokenEvent(t).kind = "token"
    BY DEF TokenEvent
  <2>2. Patched.kind = "patched"
    BY DEF Patched, Event
  <2> QED
    BY <2>1, <2>2
<1> QED
  BY <1>1, <1>2, <1>3, <1>4 DEF Patched

\* A document that was loaded has its type and is covered.
LEMMA FreshDoc ==
    ASSUME TypeOK, NEW p \in Pages
    PROVE  /\ Fresh(p) \in Docs /\ Fresh(p).page = p
           /\ \A k \in p.texts : Fresh(p).texts[k] = store[k]
           /\ p.texts \subseteq Keys
<1>1. p.texts \subseteq Keys
  BY AppStateAssumption
<1> QED
  BY <1>1 DEF TypeOK, Fresh, Docs, Held

\* A sync gives every covered node of the document its value.
LEMMA SyncEffect ==
    ASSUME TypeOK, Sync, subs = doc.page.texts, Covered(doc)
    PROVE  /\ doc' \in Docs /\ doc'.page = doc.page /\ doc'.items = doc.items
           /\ dirty' = {} /\ unshown' = FALSE
           /\ \A k \in doc.page.texts : store[k] = NoValue \/ doc'.texts[k] = store[k]
<1>1. doc \in Docs /\ doc.page.texts \subseteq Keys
  BY AppStateAssumption DEF TypeOK, Docs
<1>2. doc' = [doc EXCEPT !.texts = [k \in Keys |-> IF k \in dirty \cap subs /\ store[k] # NoValue
                                    THEN store[k] ELSE doc.texts[k]]]
  BY DEF Sync
<1>3. doc'.texts = [k \in Keys |-> IF k \in dirty \cap subs /\ store[k] # NoValue
                                    THEN store[k] ELSE doc.texts[k]]
  BY <1>1, <1>2 DEF Docs
<1>4. doc'.texts \in [Keys -> Held]
  BY <1>1, <1>3 DEF TypeOK, Docs
<1>5. doc' \in Docs /\ doc'.page = doc.page /\ doc'.items = doc.items
  BY <1>1, <1>2, <1>4 DEF Docs
<1>6. \A k \in doc.page.texts : store[k] = NoValue \/ doc'.texts[k] = store[k]
  BY <1>1, <1>3 DEF Covered
<1> QED
  BY <1>5, <1>6 DEF Sync

\* An expansion changes one For node.
LEMMA ExpandEffect ==
    ASSUME TypeOK, NEW k \in Keys, doc' = Expanded(doc, k)
    PROVE  /\ doc' \in Docs /\ doc'.page = doc.page /\ doc'.texts = doc.texts
           /\ doc'.items[k] = Listed(store[k])
           /\ \A i \in Keys \ {k} : doc'.items[i] = doc.items[i]
<1>1. Listed(store[k]) \in Lists \cup {NoValue}
  BY DEF Listed
<1> QED
  BY <1>1 DEF TypeOK, Expanded, Docs

\* Dispatch only starts a thread.
LEMMA DispatchEffect ==
    ASSUME TypeOK, Dispatch
    PROVE  /\ pc' \in [Actors -> {"free", "asked", "answered", "token", "frame", "patch", "notify"}]
           /\ \A a \in Actors : pc[a] = "notify" => pc'[a] = "notify"
  BY DEF TypeOK, Dispatch, Actors

-----------------------------------------------------------------------------
(* Types. *)

LEMMA InitType == Init => TypeOK /\ Bindings /\ Folding
<1> SUFFICES ASSUME Init PROVE TypeOK /\ Bindings /\ Folding
  OBVIOUS
<1>1. PICK p \in Pages :
         /\ subs = p.texts
         /\ doc = [Fresh(p) EXCEPT !.items =
                      [k \in Keys |-> IF k \in p.loops THEN Listed(store[k]) ELSE NoValue]]
  BY DEF Init
<1>2. p.texts \subseteq Keys /\ p.loops \subseteq Keys
  BY AppStateAssumption
<1>3. store \in [Keys -> Held]
  BY DEF Init
<1>4. /\ doc.page = p
      /\ doc.texts = [k \in Keys |-> IF k \in p.texts THEN store[k] ELSE NoValue]
      /\ doc.items = [k \in Keys |-> IF k \in p.loops THEN Listed(store[k]) ELSE NoValue]
      /\ doc \in [page : {p}, texts : {doc.texts}, items : {doc.items}]
  BY <1>1 DEF Fresh
<1>5. doc.texts \in [Keys -> Held] /\ doc.items \in [Keys -> Lists \cup {NoValue}]
  BY <1>3, <1>4 DEF Held, Listed
<1>6. doc \in Docs
  BY <1>4, <1>5 DEF Docs
<1>7. TypeOK
  <2>1. events \in Seq(Events) /\ Len(events) <= QueueCap /\ left \in 0 .. MaxInputs
    BY AppStateAssumption DEF Init
  <2>2. /\ pc \in [Actors -> {"free", "asked", "answered", "token", "frame", "patch", "notify"}]
        /\ carry \in [Actors \cup {Loop} -> AnyToken]
    BY DEF Init, AnyToken
  <2>3. /\ dirty \subseteq Keys /\ todo \subseteq Keys /\ next \subseteq Docs
        /\ typed \subseteq [key : Keys, value : Held]
        /\ at \in {"recv", "expand", "type", "swap", "token"}
        /\ needs \in BOOLEAN /\ unshown \in BOOLEAN /\ unfolded \in BOOLEAN
        /\ token \in AnyToken /\ saved \in AnyToken
    BY DEF Init, AnyToken
  <2> QED
    BY <1>1, <1>2, <1>3, <1>6, <2>1, <2>2, <2>3 DEF TypeOK
<1>8. Bindings
  BY <1>1, <1>2, <1>4 DEF Init, Bindings, Covered
<1>9. Folding
  BY <1>2, <1>4 DEF Init, Folding, PatchesReachTemplates
<1> QED
  BY <1>7, <1>8, <1>9

LEMMA NextType ==
    ASSUME TypeOK, Bindings, [Next]_vars
    PROVE  TypeOK'
<1> USE DEF state, loop
<1>1. CASE TakePatched
  <2>1. events' \in Seq(Events) /\ Len(events') <= QueueCap
    BY <1>1, TookKeeps, EventKinds DEF TakePatched
  <2>2. doc' \in Docs /\ dirty' = {} /\ unshown' = FALSE
    BY <1>1, SyncEffect DEF TakePatched, Bindings, Took, Idle
  <2>3. doc.page.loops \subseteq Keys
    BY AppStateAssumption DEF TypeOK, Docs
  <2> QED
    BY <1>1, <2>1, <2>2, <2>3 DEF TakePatched, TypeOK
<1>2. CASE Expand
  <2>1. CASE todo = {} /\ at' = "recv" /\ UNCHANGED <<doc, todo>>
    BY <1>2, <2>1 DEF Expand, TypeOK
  <2>2. ASSUME NEW k \in todo, doc' = Expanded(doc, k), todo' = todo \ {k}, at' = at
        PROVE  TypeOK'
    <3>1. doc' \in Docs
      BY <2>2, ExpandEffect DEF TypeOK
    <3> QED
      BY <1>2, <2>2, <3>1 DEF Expand, TypeOK
  <2> QED
    BY <1>2, <2>1, <2>2 DEF Expand
<1>3. CASE TakeAction
  <2>1. events' \in Seq(Events) /\ Len(events') <= QueueCap
    BY <1>3, TookKeeps, EventKinds DEF TakeAction
  <2>2. store' \in [Keys -> Held] /\ dirty' \subseteq Keys
    BY <1>3, SetAllEffect DEF TakeAction
  <2>3. pc' \in [Actors -> {"free", "asked", "answered", "token", "frame", "patch", "notify"}]
    BY <1>3, DispatchEffect DEF TakeAction
  <2> QED
    BY <1>3, <2>1, <2>2, <2>3 DEF TakeAction, TypeOK
<1>4. CASE TakeKey
  <2>1. events' \in Seq(Events) /\ Len(events') <= QueueCap
    BY <1>4, TookKeeps, EventKinds DEF TakeKey
  <2>2. doc.page.texts \subseteq Keys
    BY AppStateAssumption DEF TypeOK, Docs
  <2>3. typed' \subseteq [key : Keys, value : Held]
    BY <1>4, <2>2 DEF TakeKey, TypeOK
  <2> QED
    BY <1>4, <2>1, <2>3 DEF TakeKey, TypeOK
<1>5. CASE Type
  <2>1. store' \in [Keys -> Held] /\ dirty' \subseteq Keys
    BY <1>5, SetAllEffect, OneKey DEF Type, TypeOK
  <2> QED
    BY <1>5, <2>1 DEF Type, TypeOK
<1>6. CASE TakeNothing
  <2>1. events' \in Seq(Events) /\ Len(events') <= QueueCap
    BY <1>6, TookKeeps, EventKinds DEF TakeNothing
  <2> QED
    BY <1>6, <2>1 DEF TakeNothing, TypeOK
<1>7. CASE TakeLoad
  <2>1. events' \in Seq(Events) /\ Len(events') <= QueueCap
    BY <1>7, TookKeeps, EventKinds DEF TakeLoad
  <2>2. subs' \subseteq Keys /\ next' \subseteq Docs
    BY <1>7, FreshDoc DEF TakeLoad
  <2> QED
    BY <1>7, <2>1, <2>2 DEF TakeLoad, TypeOK
<1>8. CASE Swap
  BY <1>8 DEF Swap, TypeOK
<1>9. CASE TakeToken
  <2>1. events' \in Seq(Events) /\ Len(events') <= QueueCap
    BY <1>9, TookKeeps, EventKinds DEF TakeToken
  <2>2. at' \in {"recv", "expand", "type", "swap", "token"}
        /\ carry' \in [Actors \cup {Loop} -> AnyToken]
    BY <1>9 DEF TakeToken, TypeOK
  <2> QED
    BY <1>9, <2>1, <2>2 DEF TakeToken, TypeOK
<1>10. CASE SetToken
  <2>1. pc' \in [Actors -> {"free", "asked", "answered", "token", "frame", "patch", "notify"}]
    BY <1>10, DispatchEffect DEF SetToken, TypeOK
  <2> QED
    BY <1>10, <2>1 DEF SetToken, TypeOK, AnyToken
<1>11. CASE Render
  <2>1. doc' \in Docs /\ dirty' = {} /\ unshown' = FALSE
    BY <1>11, SyncEffect DEF Render, Bindings, Idle
  <2> QED
    BY <1>11, <2>1 DEF Render, TypeOK
<1>12. ASSUME NEW a \in Actors, Serve(a) PROVE TypeOK'
  <2>1. CASE Fail(a)
    BY <2>1 DEF Fail, TypeOK
  <2>2. CASE Answer(a)
    <3>1. Post(Event("open")) => /\ events' \in Seq(Events) /\ Len(events') <= QueueCap
                                 /\ unshown' \in BOOLEAN /\ unfolded' \in BOOLEAN
      BY PostKeeps, EventKinds
    <3> QED
      BY <2>2, <3>1 DEF Answer, TypeOK
  <2>7. CASE AnswerToken(a)
    <3>1. ASSUME NEW t \in Issued \cup {NoToken}, Post(TokenEvent(t))
          PROVE  events' \in Seq(Events) /\ Len(events') <= QueueCap
                 /\ unshown' \in BOOLEAN /\ unfolded' \in BOOLEAN
      BY <3>1, PostKeeps, EventKinds, AppStateAssumption DEF AnyToken
    <3> QED
      BY <2>7, <3>1 DEF AnswerToken, TypeOK
  <2>3. CASE PushToken(a)
    BY <2>3 DEF PushToken, TypeOK
  <2>4. CASE TokenFrame(a)
    BY <2>4 DEF TokenFrame, TypeOK, AnyToken
  <2>5. CASE ApplyPatch(a)
    <3>1. store' \in [Keys -> Held] /\ dirty' \subseteq Keys
      BY <2>5, SetAllEffect DEF ApplyPatch
    <3> QED
      BY <2>5, <3>1 DEF ApplyPatch, TypeOK
  <2>6. CASE Notify(a)
    BY <2>6, PostKeeps, EventKinds DEF Notify, TypeOK
  <2> QED
    BY <1>12, <2>1, <2>2, <2>3, <2>4, <2>5, <2>6, <2>7 DEF Serve
<1>13. ASSUME NEW a \in Actors, Push(a) PROVE TypeOK'
  BY <1>13, AppStateAssumption DEF Push, TypeOK, AnyToken
<1>14. CASE UserInput
  <2>1. events' \in Seq(Events) /\ Len(events') <= QueueCap
        /\ unshown' \in BOOLEAN /\ unfolded' \in BOOLEAN
    BY <1>14, PostKeeps, EventKinds DEF UserInput
  <2> QED
    BY <1>14, <2>1, AppStateAssumption DEF UserInput, TypeOK
<1>15. CASE Present
  <2>1. events' \in Seq(Events) /\ Len(events') <= QueueCap
        /\ unshown' \in BOOLEAN /\ unfolded' \in BOOLEAN
    BY <1>15, PostKeeps, EventKinds DEF Present, TypeOK
  <2> QED
    BY <1>15, <2>1, AppStateAssumption DEF Present, TypeOK
<1>16. CASE UNCHANGED vars
  BY <1>16 DEF vars, TypeOK
<1> QED
  BY <1>1, <1>2, <1>3, <1>4, <1>5, <1>6, <1>7, <1>8, <1>9, <1>10, <1>11, <1>12,
     <1>13, <1>14, <1>15, <1>16 DEF Next, LoopStep

-----------------------------------------------------------------------------
(* The document and the dirty keys. *)

\* Whoever sets keys leaves what was covered covered: what changes is dirty.
LEMMA SetCovers ==
    ASSUME TypeOK, NEW patch \in Patches, SetAll(patch), NEW d \in Docs, Covered(d)
    PROVE  Covered(d)'
<1>1. d.page.texts \subseteq Keys
  BY AppStateAssumption DEF Docs
<1> QED
  BY <1>1, SetAllEffect DEF Covered

\* A step that sets keys and leaves the documents alone keeps the bindings.
LEMMA SetBinds ==
    ASSUME TypeOK, Bindings, NEW patch \in Patches, SetAll(patch),
           UNCHANGED <<doc, next, subs>>, next # {} => at' = "swap"
    PROVE  Bindings'
<1>1. \A d \in next : Covered(d)'
  BY SetCovers DEF TypeOK, Bindings
<1>2. Covered(doc)'
  BY SetCovers DEF TypeOK, Bindings
<1>3. Covered(doc') <=> Covered(doc)
  BY DEF Covered
<1> QED
  BY <1>1, <1>2 DEF Bindings, Covered

\* So does a step that leaves the store alone, too.
LEMMA SameBinds ==
    ASSUME Bindings, UNCHANGED <<doc, next, subs, store, dirty>>, next # {} => at' = "swap"
    PROVE  Bindings'
  BY DEF Bindings, Covered

\* And a sync.
LEMMA SyncBinds ==
    ASSUME TypeOK, Bindings, Idle, Sync, UNCHANGED <<store, subs, next>>
    PROVE  Bindings'
<1>1. next = {}
  BY DEF Bindings, Idle
<1>2. subs = doc.page.texts /\ Covered(doc)
  BY <1>1 DEF Bindings
<1>3. doc'.page = doc.page /\ \A k \in doc.page.texts : store[k] = NoValue \/ doc'.texts[k] = store[k]
  BY <1>2, SyncEffect
<1> QED
  BY <1>1, <1>2, <1>3 DEF Bindings, Covered

LEMMA NextBindings ==
    ASSUME TypeOK, Bindings, [Next]_vars
    PROVE  Bindings'
<1> USE DEF state, loop
<1>1. CASE TakePatched
  BY <1>1, SyncBinds DEF TakePatched, Took
<1>2. CASE Expand
  <2>1. next = {} /\ doc'.page = doc.page /\ doc'.texts = doc.texts
    BY <1>2, ExpandEffect DEF Expand, Bindings, TypeOK
  <2> QED
    BY <1>2, <2>1 DEF Expand, Bindings, Covered
<1>3. CASE TakeAction
  BY <1>3, SetBinds DEF TakeAction, Took, Idle, Bindings
<1>4. CASE TakeKey
  BY <1>4, SameBinds DEF TakeKey, Took, Idle, Bindings
<1>5. CASE Type
  <2>1. PICK patch \in Patches : SetAll(patch)
    BY <1>5, OneKey DEF Type, TypeOK
  <2> QED
    BY <1>5, <2>1, SetBinds DEF Type, Bindings
<1>6. CASE TakeNothing
  BY <1>6, SameBinds DEF TakeNothing, Took, Idle, Bindings
<1>7. CASE TakeLoad
  <2>1. PICK p \in Pages : subs' = p.texts /\ next' = {Fresh(p)}
    BY <1>7 DEF TakeLoad
  <2>2. Covered(Fresh(p))
    BY FreshDoc DEF Covered
  <2> QED
    BY <1>7, <2>1, <2>2, FreshDoc DEF TakeLoad, Bindings, Covered
<1>8. CASE Swap
  BY <1>8 DEF Swap, Bindings, Covered
<1>9. CASE TakeToken
  BY <1>9, SameBinds DEF TakeToken, Took, Idle, Bindings
<1>10. CASE SetToken
  BY <1>10, SameBinds DEF SetToken, Bindings
<1>11. CASE Render
  BY <1>11, SyncBinds DEF Render
<1>12. ASSUME NEW a \in Actors, Serve(a) PROVE Bindings'
  <2>1. CASE ApplyPatch(a)
    BY <2>1, SetBinds DEF ApplyPatch, Bindings
  <2>2. CASE ~ApplyPatch(a)
    BY <1>12, <2>2, SameBinds DEF Serve, Fail, Answer, AnswerToken, PushToken, TokenFrame, Notify, Bindings
  <2> QED
    BY <2>1, <2>2
<1>13. ASSUME NEW a \in Actors, Push(a) PROVE Bindings'
  BY <1>13, SameBinds DEF Push, Bindings
<1>14. CASE UserInput
  BY <1>14, SameBinds DEF UserInput, Bindings
<1>15. CASE Present
  BY <1>15, SameBinds DEF Present, Bindings
<1>16. CASE UNCHANGED vars
  BY <1>16, SameBinds DEF vars, Bindings
<1> QED
  BY <1>1, <1>2, <1>3, <1>4, <1>5, <1>6, <1>7, <1>8, <1>9, <1>10, <1>11, <1>12,
     <1>13, <1>14, <1>15, <1>16 DEF Next, LoopStep

-----------------------------------------------------------------------------
(* For nodes. *)

\* A step that changes neither the lists nor the For nodes, and takes no
\* StatePatched away without a note, keeps them.
LEMMA SameFolds ==
    ASSUME Folding, UNCHANGED <<doc, store, todo>>, todo # {} => at' = "expand",
           unfolded => unfolded',
           Has(events, Patched) => Has(events', Patched) \/ unfolded',
           \A a \in Actors : pc[a] = "notify" => pc'[a] = "notify" \/ Has(events', Patched)
    PROVE  Folding'
  BY DEF Folding, PatchesReachTemplates, Listed

\* Nor does one that is noted.
LEMMA NotedFolds ==
    ASSUME unfolded', todo' # {} => at' = "expand"
    PROVE  Folding'
  BY DEF Folding, PatchesReachTemplates

LEMMA NextFolding ==
    ASSUME TypeOK, Folding, [Next]_vars
    PROVE  Folding'
<1> USE DEF state, loop
<1>1. CASE TakePatched
  <2>1. doc'.page = doc.page
    BY <1>1 DEF TakePatched, Sync, TypeOK, Docs
  <2> QED
    BY <1>1, <2>1 DEF TakePatched, Folding, PatchesReachTemplates
<1>2. CASE Expand
  <2>1. CASE todo = {} /\ at' = "recv" /\ UNCHANGED <<doc, todo>>
    BY <1>2, <2>1, SameFolds DEF Expand
  <2>2. ASSUME NEW k \in todo, doc' = Expanded(doc, k), todo' = todo \ {k}, at' = at
        PROVE  Folding'
    <3>1. /\ doc'.page = doc.page /\ doc'.items[k] = Listed(store[k])
          /\ \A i \in Keys \ {k} : doc'.items[i] = doc.items[i]
      BY <2>2, ExpandEffect DEF TypeOK
    <3>2. doc.page.loops \subseteq Keys
      BY AppStateAssumption DEF TypeOK, Docs
    <3> QED
      BY <1>2, <2>2, <3>1, <3>2 DEF Expand, Folding, PatchesReachTemplates, Listed
  <2> QED
    BY <1>2, <2>1, <2>2 DEF Expand
<1>3. CASE TakeAction
  BY <1>3, NotedFolds DEF TakeAction, Took, Idle, Folding
<1>4. CASE TakeKey
  BY <1>4, TookKeeps, EventKinds, SameFolds DEF TakeKey, Took, Idle, Folding
<1>5. CASE Type
  BY <1>5, NotedFolds DEF Type, Folding
<1>6. CASE TakeNothing
  BY <1>6, TookKeeps, EventKinds, SameFolds DEF TakeNothing, Took, Idle, Folding
<1>7. CASE TakeLoad
  BY <1>7, TookKeeps, EventKinds, SameFolds DEF TakeLoad, Took, Idle, Folding
<1>8. CASE Swap
  BY <1>8, NotedFolds DEF Swap, Folding
<1>9. CASE TakeToken
  <2>1. PICK t \in AnyToken : Took(TokenEvent(t))
    BY <1>9 DEF TakeToken
  <2>2. Has(events, Patched) => Has(events', Patched)
    BY <2>1, TookKeeps, EventKinds
  <2> QED
    BY <1>9, <2>1, <2>2, SameFolds DEF TakeToken, Took, Idle, Folding
<1>10. CASE SetToken
  <2>1. \A a \in Actors : pc[a] = "notify" => pc'[a] = "notify"
    BY <1>10, DispatchEffect DEF SetToken
  <2> QED
    BY <1>10, <2>1, SameFolds DEF SetToken, Folding
<1>11. CASE Render
  <2>1. doc'.page = doc.page /\ doc'.items = doc.items
    BY <1>11 DEF Render, Sync, TypeOK, Docs
  <2> QED
    BY <1>11, <2>1 DEF Render, Folding, PatchesReachTemplates, Listed
<1>12. ASSUME NEW a \in Actors, Serve(a) PROVE Folding'
  <2>1. CASE Fail(a)
    BY <2>1, SameFolds DEF Fail, TypeOK, Folding
  <2>2. CASE Answer(a)
    <3>1. \A b \in Actors : pc[b] = "notify" => pc'[b] = "notify"
      BY <2>2 DEF Answer, TypeOK
    <3>2. Post(Event("open")) => /\ unfolded => unfolded'
                                 /\ Has(events, Patched) => Has(events', Patched) \/ unfolded'
      BY PostKeeps, EventKinds
    <3> QED
      BY <2>2, <3>1, <3>2, SameFolds DEF Answer, Folding
  <2>7. CASE AnswerToken(a)
    <3>1. \A b \in Actors : pc[b] = "notify" => pc'[b] = "notify"
      BY <2>7 DEF AnswerToken, TypeOK
    <3>2. ASSUME NEW t \in Issued \cup {NoToken}, Post(TokenEvent(t))
          PROVE  /\ unfolded => unfolded'
                 /\ Has(events, Patched) => Has(events', Patched) \/ unfolded'
      BY <3>2, PostKeeps, EventKinds, AppStateAssumption DEF AnyToken
    <3> QED
      BY <2>7, <3>1, <3>2, SameFolds DEF AnswerToken, Folding
  <2>3. CASE PushToken(a)
    BY <2>3, SameFolds DEF PushToken, TypeOK, Folding
  <2>4. CASE TokenFrame(a)
    BY <2>4, SameFolds DEF TokenFrame, TypeOK, Folding
  <2>5. CASE ApplyPatch(a)
    <3>1. pc'[a] = "notify"
      BY <1>12, <2>5 DEF ApplyPatch, TypeOK
    <3> QED
      BY <1>12, <2>5, <3>1 DEF ApplyPatch, Folding, PatchesReachTemplates
  <2>6. CASE Notify(a)
    <3>1. Has(events', Patched) /\ (unfolded => unfolded')
      BY <2>6, PostKeeps, EventKinds DEF Notify
    <3> QED
      BY <2>6, <3>1, SameFolds DEF Notify, Folding
  <2> QED
    BY <1>12, <2>1, <2>2, <2>3, <2>4, <2>5, <2>6, <2>7 DEF Serve
<1>13. ASSUME NEW a \in Actors, Push(a) PROVE Folding'
  <2>1. \A b \in Actors : pc[b] = "notify" => pc'[b] = "notify"
    BY <1>13 DEF Push, TypeOK
  <2> QED
    BY <1>13, <2>1, SameFolds DEF Push, Folding
<1>14. CASE UserInput
  BY <1>14, PostKeeps, EventKinds, SameFolds DEF UserInput, Folding
<1>15. CASE Present
  BY <1>15, PostKeeps, EventKinds, SameFolds DEF Present, Folding, TypeOK
<1>16. CASE UNCHANGED vars
  BY <1>16, SameFolds DEF vars, Folding
<1> QED
  BY <1>1, <1>2, <1>3, <1>4, <1>5, <1>6, <1>7, <1>8, <1>9, <1>10, <1>11, <1>12,
     <1>13, <1>14, <1>15, <1>16 DEF Next, LoopStep

-----------------------------------------------------------------------------
(* Theorems. *)

\* The inductive invariant: types, subscriptions and dirty keys, For nodes.
THEOREM Invariance == Spec => [](TypeOK /\ Bindings /\ Folding)
<1>1. TypeOK /\ Bindings /\ Folding /\ [Next]_vars => (TypeOK /\ Bindings /\ Folding)'
  BY NextType, NextBindings, NextFolding
<1> QED
  BY <1>1, InitType, PTL DEF Spec

\* The session's state has its type, and the event queue keeps its capacity.
THEOREM TypeCorrect == Spec => []TypeOK
  BY Invariance, PTL

\* A node that does not show the value of its key has a dirty key.
THEOREM NothingStays == Spec => []StaleIsDirty
<1>1. Bindings => StaleIsDirty
  BY DEF Bindings, Covered, StaleIsDirty
<1> QED
  BY <1>1, Invariance, PTL

\* A patched list is in its For nodes, or on its way to them.
THEOREM PatchesUnfold == Spec => []PatchesReachTemplates
<1>1. Folding => PatchesReachTemplates
  BY DEF Folding
<1> QED
  BY <1>1, Invariance, PTL
=================================================================================
