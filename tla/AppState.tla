-------------------------------- MODULE AppState --------------------------------
(***************************************************************************)
(* A session's state between those who write it and the document that      *)
(* shows it: StateManager, the event loop's use of it, AppDispatcher, and  *)
(* the app server's patch route (oxiterm-server/src/state.rs, session.rs,  *)
(* expand.rs, dispatcher.rs, web.rs; the page's part of the token in       *)
(* assets/index.html).                                                     *)
(*                                                                         *)
(* The event loop, one thread per request to the app server and the        *)
(* handlers of the patch route share `state' behind one lock and the event *)
(* queue; a step is what one of them does under a lock.  The document is   *)
(* the loop's own.  A page is the keys its nodes show and the keys its For *)
(* nodes run over: a node stands for one bound attribute (text, width,     *)
(* top, ...), as each of them is kept in the same way.  What an action or  *)
(* a patch makes of a value is left to the environment, with it types,     *)
(* limits on sizes and reserved keys.                                      *)
(*                                                                         *)
(* Definitions called ...Mutant are no part of the specification: each is  *)
(* a plausible bug that the properties of this module must detect.         *)
(***************************************************************************)
EXTENDS Naturals, Sequences

CONSTANTS Keys,      \* keys of the store, but for _app_token
          Values,    \* what a key can hold
          Lists,     \* the values that are a StateValue::List
          NoValue,   \* no entry in the store; no text set; no clones in a For node
          Pages,     \* the pages of the app
          Tokens,    \* app tokens
          Issued,    \* the tokens the app server gives this user
          NoToken,   \* the empty token
          Askers,    \* threads of the dispatcher
          Routes,    \* handlers of the patch route
          Loop,      \* the event loop
          QueueCap,  \* capacity of the event queue (128 in the code)
          MaxInputs  \* bound: what the user and the app server start of themselves

ASSUME AppStateAssumption ==
    /\ Lists \subseteq Values /\ NoValue \notin Values
    /\ Pages \subseteq [texts : SUBSET Keys, loops : SUBSET Keys]
    /\ Issued \subseteq Tokens /\ NoToken \notin Tokens
    /\ Askers \cap Routes = {} /\ Loop \notin Askers \cup Routes
    /\ QueueCap \in Nat \ {0} /\ MaxInputs \in Nat

VARIABLES store,    \* StateManager.store
          dirty,    \* StateManager.dirty_keys
          subs,     \* StateManager.subscriptions: the keys that have a node
          token,    \* _app_token in the store
          doc,      \* EventLoop.doc: its page, what its nodes show, what its
                    \* For nodes were expanded with
          next,     \* the document that was loaded and not yet taken, if any
          events,   \* the event queue
          at,       \* where the loop is
          todo,     \* the keys of the For nodes still to be expanded
          typed,    \* the key a keystroke is for and the value that was read, if any
          needs,    \* needs_render
          pc,       \* where the dispatcher's threads and the handlers are
          carry,    \* the token in the hands of the loop or of a handler
          saved,    \* the token in the browser's localStorage
          left,     \* inputs left
          unshown,  \* history: a keystroke's frame was refused, or StatePatched
                    \* pushed out of the queue, and nothing was synced since
          unfolded  \* history: a list may have changed, or its page come,
                    \* without a StatePatched

state == <<store, dirty, subs, token>>
loop == <<at, todo, typed, needs>>
vars == <<state, doc, next, events, loop, pc, carry, saved, left, unshown, unfolded>>

Actors == Askers \cup Routes
Held == Values \cup {NoValue}
AnyToken == Tokens \cup {NoToken}
Docs == [page : Pages, texts : [Keys -> Held], items : [Keys -> Lists \cup {NoValue}]]

\* Events: StatePatched, SetAppToken, a press or Enter on a node with an
\* action (also the end of a drag), any other key, all that load a page, and
\* OpenUrl.
Event(kind) == [kind |-> kind]
TokenEvent(t) == [kind |-> "token", token |-> t]
Patched == Event("patched")
Events == [kind : {"patched", "action", "key", "load", "open"}]
            \cup [kind : {"token"}, token : AnyToken]

\* What a For node makes of a value: no clones for what is no list.
Listed(v) == IF v \in Lists THEN v ELSE NoValue

\* inject_initial_state: a fresh document shows what the store has.
Fresh(p) ==
    [page  |-> p,
     texts |-> [k \in Keys |-> IF k \in p.texts THEN store[k] ELSE NoValue],
     items |-> [k \in Keys |-> NoValue]]

Expanded(d, k) == [d EXCEPT !.items[k] = Listed(store[k])]

\* run(): subscriptions, injection and expansion come before the first turn.
\* A session that had a loop before brings its store.
Init ==
    /\ store \in [Keys -> Held] /\ dirty = {}
    /\ \E p \in Pages :
          /\ subs = p.texts
          /\ doc = [Fresh(p) EXCEPT !.items =
                      [k \in Keys |-> IF k \in p.loops THEN Listed(store[k]) ELSE NoValue]]
    /\ next = {}
    /\ token = NoToken /\ saved \in AnyToken
    /\ events = << >>
    /\ at = "recv" /\ todo = {} /\ needs = TRUE
    /\ typed = {}
    /\ pc = [a \in Actors |-> "free"]
    /\ carry = [a \in Actors \cup {Loop} |-> NoToken]
    /\ left = MaxInputs
    /\ unshown = FALSE /\ unfolded = FALSE

-----------------------------------------------------------------------------
(* The state and the queue *)

SetAllMutant(patch) ==
    /\ store' = [k \in Keys |-> IF k \in DOMAIN patch THEN patch[k] ELSE store[k]]
    /\ dirty' = {k \in DOMAIN patch : patch[k] # store[k]}

\* StateManager::set for each key of a patch: a key is dirty when its value
\* differs.
SetAll(patch) ==
    /\ store' = [k \in Keys |-> IF k \in DOMAIN patch THEN patch[k] ELSE store[k]]
    /\ dirty' = dirty \cup {k \in DOMAIN patch : patch[k] # store[k]}

Patches == UNION {[S -> Values] : S \in SUBSET Keys}

\* get_dirty_nodes and sync_dirty_state: the dirty keys are drained, and the
\* nodes subscribed to them take the values there are.
Sync ==
    /\ doc' = [doc EXCEPT !.texts =
                  [k \in Keys |-> IF k \in dirty \cap subs /\ store[k] # NoValue
                                    THEN store[k] ELSE doc.texts[k]]]
    /\ dirty' = {}
    /\ unshown' = FALSE

Has(queue, e) == \E i \in DOMAIN queue : queue[i] = e

\* try_send on the bounded queue pushes the oldest event out.  The history
\* notes the loss of the last StatePatched.
Post(e) ==
    LET full == Len(events) >= QueueCap
        lost == full /\ Head(events) = Patched /\ ~Has(events', Patched)
    IN  /\ events' = Append(IF full THEN Tail(events) ELSE events, e)
        /\ unshown' = (unshown \/ lost)
        /\ unfolded' = (unfolded \/ lost)

-----------------------------------------------------------------------------
(* The event loop *)

Idle == at = "recv"

Took(e) == /\ Idle /\ events # << >> /\ e = Head(events)
           /\ events' = Tail(events)

\* try_dispatch spawns a thread for the request, if there is an app server.
\* A request that is never answered leaves no trace here.
Dispatch ==
    \/ \E a \in Askers : pc[a] = "free" /\ pc' = [pc EXCEPT ![a] = "asked"]
    \/ UNCHANGED pc

TakePatchedMutant ==
    /\ Took(Patched)
    /\ Sync
    /\ at' = "expand" /\ needs' = TRUE /\ unfolded' = FALSE
    /\ todo' = IF dirty \cap subs = {} THEN {} ELSE doc.page.loops
    /\ UNCHANGED <<store, subs, token, next, typed, pc, carry, saved, left>>

\* StatePatched: the document is synced, and then expanded.
TakePatched ==
    /\ Took(Patched)
    /\ Sync
    /\ at' = "expand" /\ needs' = TRUE /\ unfolded' = FALSE
    /\ todo' = doc.page.loops
    /\ UNCHANGED <<store, subs, token, next, typed, pc, carry, saved, left>>

\* expand_all_for_nodes locks the state for one For node after the other.
Expand ==
    /\ at = "expand"
    /\ \/ \E k \in todo : /\ doc' = Expanded(doc, k)
                          /\ todo' = todo \ {k} /\ at' = at
       \/ /\ todo = {} /\ at' = "recv"
          /\ UNCHANGED <<doc, todo>>
    /\ UNCHANGED <<state, next, events, typed, needs, pc, carry, saved, left,
                   unshown, unfolded>>

\* handle_htmx_target with an action: apply_action under the lock, and then
\* the app server is asked.  Nothing is expanded.
TakeAction ==
    /\ Took(Event("action"))
    /\ \E patch \in Patches : SetAll(patch)
    /\ Dispatch
    /\ needs' = TRUE /\ unfolded' = TRUE
    /\ UNCHANGED <<subs, token, doc, next, at, todo, typed, carry, saved, left, unshown>>

\* A key for the focused input: apply_key_to_focused_input reads the value of
\* its key under one lock ...
TakeKey ==
    /\ Took(Event("key"))
    /\ \E k \in doc.page.texts : typed' = {[key |-> k, value |-> store[k]]}
    /\ at' = "type"
    /\ UNCHANGED <<state, doc, next, todo, needs, pc, carry, saved, left, unshown, unfolded>>

\* ... and writes what it made of it under another.  The throttle may refuse
\* the frame.
Type ==
    /\ at = "type" /\ at' = "recv"
    /\ \E t \in typed, v \in Values \ Lists : SetAll([k \in {t.key} |-> v])
    /\ typed' = {}
    /\ \/ needs' = TRUE /\ UNCHANGED unshown
       \/ UNCHANGED needs /\ unshown' = TRUE
    /\ unfolded' = TRUE
    /\ UNCHANGED <<subs, token, doc, next, events, todo, pc, carry, saved, left>>

\* Keys without a bound input, presses without a target, and pages that the
\* throttle or the loader refuses change nothing; a frame may be rendered.  Nor
\* does OpenUrl, which is passed on to the browser.
TakeNothing ==
    /\ \E kind \in {"action", "key", "load", "open"} : Took(Event(kind))
    /\ needs' \in {needs, TRUE}
    /\ UNCHANGED <<state, doc, next, at, todo, typed, pc, carry, saved, left,
                   unshown, unfolded>>

\* NavigateTo, SwitchViewport, Reload, a link: the new document is subscribed
\* and injected under one lock ...
TakeLoad ==
    /\ Took(Event("load"))
    /\ \E p \in Pages : subs' = p.texts /\ next' = {Fresh(p)}
    /\ at' = "swap"
    /\ UNCHANGED <<store, dirty, token, doc, todo, typed, needs, pc, carry, saved,
                   left, unshown, unfolded>>

\* ... and then replaces the old one (update_doc).  It is not expanded.
Swap ==
    /\ at = "swap" /\ at' = "recv"
    /\ doc' \in next /\ next' = {}
    /\ needs' = TRUE /\ unfolded' = TRUE
    /\ UNCHANGED <<state, events, todo, typed, pc, carry, saved, left, unshown>>

NewsMutant(t) == IF t = NoToken THEN token # NoToken ELSE TRUE

\* A token that handle_set_app_token has to write.
News(t) == IF t = NoToken THEN token # NoToken ELSE t # token

\* SetAppToken, from the browser or an answer: compared under one lock ...
TakeToken ==
    /\ \E t \in AnyToken :
          /\ Took(TokenEvent(t))
          /\ IF News(t)
               THEN at' = "token" /\ carry' = [carry EXCEPT ![Loop] = t]
               ELSE UNCHANGED <<at, carry>>
    /\ UNCHANGED <<state, doc, next, todo, typed, needs, pc, saved, left, unshown, unfolded>>

\* ... written under another, and told to the app server.
SetToken ==
    /\ at = "token" /\ at' = "recv"
    /\ token' = carry[Loop] /\ carry' = [carry EXCEPT ![Loop] = NoToken]
    /\ IF token' = NoToken THEN UNCHANGED pc ELSE Dispatch
    /\ UNCHANGED <<store, dirty, subs, doc, next, events, todo, typed, needs,
                   saved, left, unshown, unfolded>>

\* The render step at the end of a batch.
Render ==
    /\ Idle /\ needs
    /\ Sync /\ needs' = FALSE
    /\ UNCHANGED <<store, subs, token, next, events, at, todo, typed, pc, carry,
                   saved, left, unfolded>>

-----------------------------------------------------------------------------
(* The threads of the dispatcher and the patch route *)

\* The POST fails, or its answer is no patch.
Fail(a) ==
    /\ a \in Askers /\ pc[a] = "asked"
    /\ pc' = [pc EXCEPT ![a] = "free"]
    /\ UNCHANGED <<state, doc, next, events, loop, carry, saved, left, unshown, unfolded>>

\* The answer: open_url is taken out of it and posted to the loop, ...
Answer(a) ==
    /\ a \in Askers /\ pc[a] = "asked"
    /\ pc' = [pc EXCEPT ![a] = "answered"]
    /\ UNCHANGED <<events, unshown, unfolded>> \/ Post(Event("open"))
    /\ UNCHANGED <<state, doc, next, loop, carry, saved, left>>

\* ... then set_app_token.
AnswerToken(a) ==
    /\ pc[a] = "answered"
    /\ pc' = [pc EXCEPT ![a] = "patch"]
    /\ \/ UNCHANGED <<events, unshown, unfolded>>
       \/ \E t \in Issued \cup {NoToken} : Post(TokenEvent(t))
    /\ UNCHANGED <<state, doc, next, loop, carry, saved, left>>

\* POST /sessions/<id>/patch: apply_state_patch compares the token it is given
\* with the session's under one lock ...
Push(a) ==
    /\ a \in Routes /\ pc[a] = "free"
    /\ left > 0 /\ left' = left - 1
    /\ \/ pc' = [pc EXCEPT ![a] = "patch"] /\ UNCHANGED carry
       \/ \E t \in Issued \cup {NoToken} :
             /\ t # token
             /\ pc' = [pc EXCEPT ![a] = "token"]
             /\ carry' = [carry EXCEPT ![a] = t]
    /\ UNCHANGED <<state, doc, next, events, loop, saved, unshown, unfolded>>

\* ... writes it under another ...
PushToken(a) ==
    /\ pc[a] = "token" /\ pc' = [pc EXCEPT ![a] = "frame"]
    /\ token' = carry[a]
    /\ UNCHANGED <<store, dirty, subs, doc, next, events, loop, carry, saved, left,
                   unshown, unfolded>>

\* ... and sends it to the browser, whose page stores it (send_app_token_frame,
\* frame 0x35).
TokenFrame(a) ==
    /\ pc[a] = "frame" /\ pc' = [pc EXCEPT ![a] = "patch"]
    /\ saved' = carry[a] /\ carry' = [carry EXCEPT ![a] = NoToken]
    /\ UNCHANGED <<state, doc, next, events, loop, left, unshown, unfolded>>

\* The other keys of the patch, under one lock.  A patch with too many keys,
\* or only with keys it may not write, changes nothing.
ApplyPatch(a) ==
    /\ pc[a] = "patch" /\ pc' = [pc EXCEPT ![a] = "notify"]
    /\ \E patch \in Patches : SetAll(patch)
    /\ UNCHANGED <<subs, token, doc, next, events, loop, carry, saved, left, unshown, unfolded>>

NotifyMutant(a) ==
    /\ pc[a] = "notify" /\ pc' = [pc EXCEPT ![a] = "free"]
    /\ IF Len(events) < QueueCap THEN Post(Patched) ELSE UNCHANGED <<events, unshown, unfolded>>
    /\ UNCHANGED <<state, doc, next, loop, carry, saved, left>>

\* StatePatched.
Notify(a) ==
    /\ pc[a] = "notify" /\ pc' = [pc EXCEPT ![a] = "free"]
    /\ Post(Patched)
    /\ UNCHANGED <<state, doc, next, loop, carry, saved, left>>

-----------------------------------------------------------------------------
(* The user *)

\* Keys, clicks and links.
UserInput ==
    /\ left > 0 /\ left' = left - 1
    /\ \E kind \in {"action", "key", "load"} : Post(Event(kind))
    /\ UNCHANGED <<state, doc, next, loop, pc, carry, saved>>

\* The page connects and presents the token it has.
Present ==
    /\ left > 0 /\ left' = left - 1
    /\ saved # NoToken /\ Post(TokenEvent(saved))
    /\ UNCHANGED <<state, doc, next, loop, pc, carry, saved>>

-----------------------------------------------------------------------------

LoopStep == TakePatched \/ Expand \/ TakeAction \/ TakeKey \/ Type \/ TakeNothing
              \/ TakeLoad \/ Swap \/ TakeToken \/ SetToken \/ Render

Serve(a) == Fail(a) \/ Answer(a) \/ AnswerToken(a) \/ PushToken(a) \/ TokenFrame(a)
              \/ ApplyPatch(a) \/ Notify(a)

Next ==
    \/ LoopStep
    \/ \E a \in Actors : Serve(a) \/ Push(a)
    \/ UserInput \/ Present

Spec == Init /\ [][Next]_vars

\* Threads are scheduled: the loop goes on, with its queue and with what it
\* has to render, and so does a request that was answered.
FairSpec ==
    /\ Spec
    /\ WF_vars(LoopStep)
    /\ \A a \in Actors : WF_vars(Serve(a))

-----------------------------------------------------------------------------
(* Properties *)

\* The state has its type, and the event queue keeps its capacity.
TypeOK ==
    /\ store \in [Keys -> Held] /\ dirty \subseteq Keys /\ subs \subseteq Keys
    /\ token \in AnyToken /\ saved \in AnyToken
    /\ doc \in Docs /\ next \subseteq Docs
    /\ events \in Seq(Events) /\ Len(events) <= QueueCap
    /\ at \in {"recv", "expand", "type", "swap", "token"}
    /\ todo \subseteq Keys /\ needs \in BOOLEAN
    /\ typed \subseteq [key : Keys, value : Held]
    /\ pc \in [Actors -> {"free", "asked", "answered", "token", "frame", "patch", "notify"}]
    /\ carry \in [Actors \cup {Loop} -> AnyToken]
    /\ left \in 0 .. MaxInputs
    /\ unshown \in BOOLEAN /\ unfolded \in BOOLEAN

\* The nodes of d show the store.
Shows(d) == \A k \in d.page.texts : store[k] = NoValue \/ d.texts[k] = store[k]

\* A node of the document that does not show the value of its key will be
\* visited by the next sync: its key is dirty.  It stays so over the change of
\* the page, whoever writes meanwhile.
StaleIsDirty ==
    \A k \in doc.page.texts :
        store[k] = NoValue \/ doc.texts[k] = store[k] \/ k \in dirty

\* A list that was changed by a patch, whoever sent it, reaches the For nodes
\* over it: they have it, or a StatePatched is under way that brings it.
PatchesReachTemplates ==
    \A k \in doc.page.loops :
        \/ doc.items[k] = Listed(store[k])
        \/ k \in todo
        \/ Has(events, Patched) \/ \E a \in Actors : pc[a] = "notify"
        \/ unfolded

\* The document comes to show the store again and again, unless a frame was
\* refused to a keystroke or the queue lost a StatePatched.
BoundConverges == []<>(unshown \/ Shows(doc))

\* Telling the app server about a token it answered with does not go on for
\* ever, if it has one token for the user.
SyncSettles == <>[](\A a \in Actors : pc[a] = "free")

\* Nothing is under way.
Quiet == Idle /\ ~needs /\ events = << >> /\ \A a \in Actors : pc[a] = "free"

\* docs/app-server-guide.md: set_app_token in a patch or an answer "delivers
\* opcode 0x35 to the web client to persist the token".  Then the browser has
\* the session's token once nothing is under way.
TokenDelivered == Quiet /\ left < MaxInputs => saved = token \/ token = NoToken

\* session.rs: expand_all_for_nodes is "called at session start and after every
\* state mutation that may affect a For node".
ForNodesCurrent == Quiet => \A k \in doc.page.loops : doc.items[k] = Listed(store[k])

\* session.rs: of a keystroke that the throttle refuses a frame, "a dropped
\* frame is invisible".
DroppedFrameInvisible == []<>(Shows(doc))

\* A keystroke does not undo a patch that came while it was processed.
TypingKeepsPatches ==
    [][at = "type" /\ at' = "recv" => \A t \in typed : store[t.key] = t.value]_vars

=================================================================================
