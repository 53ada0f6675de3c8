------------------------------ MODULE Transitions ------------------------------
(***************************************************************************)
(* Transitions of styles that are bound to state: AnimationController      *)
(* (oxiterm-server/src/animation.rs) and the event loop's use of it        *)
(* (session.rs).                                                           *)
(*                                                                         *)
(* An attribute is one animatable property (width, left, opacity, ...) of  *)
(* one node whose TCSS names a transition for it and that is bound to a    *)
(* key of the state.  The controller tells a changed target from a value   *)
(* it wrote itself by a baseline: each render puts the baselines back,     *)
(* takes the dirty keys over, compares, and writes the values in between.  *)
(* The time is abstracted to the phases of a transition, the easing to     *)
(* what all easings have in common: the start before the delay is over,    *)
(* the target at the end, anything in between.                             *)
(*                                                                         *)
(* Definitions called ...Mutant are no part of the specification: each is  *)
(* a plausible bug that the properties of this module must detect.         *)
(***************************************************************************)
EXTENDS Naturals

CONSTANTS Attrs,     \* the bound attributes
          Values,    \* what an attribute can be set to
          Unset,     \* no value: Option::None
          MaxInputs  \* bound: changes, drags and page loads

ASSUME TransitionsAssumption == Unset \notin Values /\ MaxInputs \in Nat

VARIABLES store,   \* what the state holds for the attribute's key
          dirty,   \* StateManager.dirty_keys
          notice,  \* a StatePatched is in the event queue
          style,   \* ComputedStyle of the node
          base,    \* AnimationController.baseline_styles
          move,    \* AnimationController.active_transitions
          needs,   \* needs_render, also pending_render of the turn before
          left,    \* inputs left
          shown,   \* history: the style at the last render
          stolen   \* history: attributes whose change StatePatched took from
                   \* the dirty keys, and no render has since

vars == <<store, dirty, notice, style, base, move, needs, left, shown, stolen>>

Held == Values \cup {Unset}

Phases == {"waiting", "moving", "over"}
Still == [from |-> Unset, to |-> Unset, phase |-> "still"]
Moves == [from : Values, to : Values, phase : Phases]

Active(a) == move[a] # Still

\* evaluate_easing, CubicBezierSolver::solve, SpringSolver::solve: 0 at the
\* start, 1 and finished at the end (a spring is settled after two seconds at
\* the latest); in between a curve may overshoot.
Eased(m) == IF m.phase = "over" THEN {m.to} ELSE Values

SampleMutant(m) == Eased(m)

\* ActiveTransition::sample: the start value until the delay is over.
Sample(m) == IF m.phase = "waiting" THEN {m.from} ELSE Eased(m)

\* cancel_property, push: one transition per attribute, whose clock starts
\* after the `now' of the render, so that it waits; without duration and delay
\* it may be over as soon.
Launch(from, to) ==
    {[from |-> from, to |-> to, phase |-> p] : p \in {"waiting", "over"}}

Init ==
    /\ store \in [Attrs -> Held] /\ dirty = {}
    /\ style \in [Attrs -> Held]
    /\ \A a \in Attrs : store[a] # Unset => style[a] = store[a]
    /\ notice = FALSE
    /\ base = [a \in Attrs |-> Unset]
    /\ move = [a \in Attrs |-> Still]
    /\ needs = TRUE
    /\ left = MaxInputs
    /\ shown = [a \in Attrs |-> Unset]
    /\ stolen = {}

-----------------------------------------------------------------------------
(* The state changes *)

\* StateManager::set: dirty when the value differs.
SetKey(a, v) ==
    /\ store' = [store EXCEPT ![a] = v]
    /\ dirty' = IF store[a] = v THEN dirty ELSE dirty \cup {a}

\* sync_dirty_state, for the style attributes: the keys are drained.
Synced(s) == [a \in Attrs |-> IF a \in dirty /\ store[a] # Unset THEN store[a] ELSE s[a]]

Input == left > 0 /\ left' = left - 1

\* An action of the page (apply_action) or a key bound to an input: the loop
\* itself writes, and renders.
Act(a, v) ==
    /\ Input /\ SetKey(a, v)
    /\ needs' = TRUE
    /\ UNCHANGED <<notice, style, base, move, shown, stolen>>

\* A thread of the dispatcher or the patch route writes and posts StatePatched.
Patch(a, v) ==
    /\ Input /\ SetKey(a, v)
    /\ notice' = TRUE
    /\ UNCHANGED <<style, base, move, needs, shown, stolen>>

\* A pointer drags the node: its left and top follow, and so does the state when
\* data-drag-state names a key.
Drag(a, v, keyed) ==
    /\ Input
    /\ base[a] # Unset
    /\ style' = [style EXCEPT ![a] = v]
    /\ IF keyed THEN SetKey(a, v) ELSE UNCHANGED <<store, dirty>>
    /\ needs' = TRUE
    /\ UNCHANGED <<notice, base, move, shown, stolen>>

\* StatePatched: the dirty keys are synced at once, outside of a render.
TakePatched ==
    /\ notice
    /\ notice' = FALSE
    /\ style' = Synced(style)
    /\ dirty' = {}
    /\ needs' = TRUE
    /\ stolen' = stolen \cup {a \in dirty : base[a] # Unset /\ base[a] # store[a]}
    /\ UNCHANGED <<store, base, move, left, shown>>

UpdateDocMutant ==
    UNCHANGED <<base, move>>

\* update_doc, AnimationController::clear
UpdateDoc ==
    /\ base' = [a \in Attrs |-> Unset]
    /\ move' = [a \in Attrs |-> Still]

\* A page is loaded: inject_initial_state, then update_doc.  What the state does
\* not hold comes from the page's TCSS.
Load ==
    /\ Input
    /\ \E css \in [Attrs -> Held] :
          style' = [a \in Attrs |-> IF store[a] # Unset THEN store[a] ELSE css[a]]
    /\ UpdateDoc
    /\ needs' = TRUE
    /\ shown' = [a \in Attrs |-> Unset]
    /\ stolen' = {}
    /\ UNCHANGED <<store, dirty, notice>>

-----------------------------------------------------------------------------
(* Time and rendering *)

\* The delay, then the duration of a transition pass.
Elapse(a) ==
    /\ Active(a)
    /\ \/ move[a].phase = "waiting" /\ move' = [move EXCEPT ![a].phase = "moving"]
       \/ move[a].phase = "moving" /\ move' = [move EXCEPT ![a].phase = "over"]
    /\ UNCHANGED <<store, dirty, notice, style, base, needs, left, shown, stolen>>

\* A turn of the loop begins: has_active asks for a render.
Wake ==
    /\ ~needs /\ \E a \in Attrs : Active(a)
    /\ needs' = TRUE
    /\ UNCHANGED <<store, dirty, notice, style, base, move, left, shown, stolen>>

\* restore_baselines
Restored == [a \in Attrs |-> IF base[a] # Unset THEN base[a] ELSE style[a]]

Target(a) == Synced(Restored)[a]

\* sync_transitions: the first value is only recorded; a target that differs
\* from the baseline launches a transition.
Changed(a) == base[a] # Unset /\ Target(a) # base[a]

FromMutant(a) == {base[a]}

\* get_current_in_flight_value: where a transition that is replaced has come to.
From(a) == IF Active(a) THEN Sample(move[a]) ELSE {base[a]}

\* The transitions of a once sync_transitions is done.
Launched(a) ==
    IF Changed(a) THEN UNION {Launch(f, Target(a)) : f \in From(a)} ELSE {move[a]}

TickedMutant(m) == m

\* tick: a transition that is finished is removed.
Ticked(m) == IF m.phase = "over" THEN Still ELSE m

\* What a render can make of a: its transition and the value that is drawn.
Drawn(a, m) == IF m = Still THEN {Target(a)} ELSE Sample(m)

Frames(a) == UNION {{[move |-> Ticked(m), value |-> v] : v \in Drawn(a, m)} : m \in Launched(a)}

\* The render of a turn: baselines back, dirty keys, new transitions, values in
\* between.
Render ==
    /\ needs
    /\ \E frame \in [Attrs -> UNION {Frames(a) : a \in Attrs}] :
          /\ \A a \in Attrs : frame[a] \in Frames(a)
          /\ style' = [a \in Attrs |-> frame[a].value]
          /\ shown' = style'
          /\ move' = [a \in Attrs |-> frame[a].move]
    /\ base' = [a \in Attrs |-> Target(a)]
    /\ dirty' = {}
    /\ needs' = FALSE
    /\ stolen' = stolen \ dirty
    /\ UNCHANGED <<store, notice, left>>

Next ==
    \/ \E a \in Attrs, v \in Values :
          \/ Act(a, v)
          \/ Patch(a, v)
          \/ \E keyed \in BOOLEAN : Drag(a, v, keyed)
    \/ TakePatched
    \/ Load
    \/ \E a \in Attrs : Elapse(a)
    \/ Wake
    \/ Render

\* The loop turns and time passes; users and app servers need not do anything.
Fairness ==
    /\ WF_vars(TakePatched) /\ WF_vars(Wake) /\ WF_vars(Render)
    /\ \A a \in Attrs : WF_vars(Elapse(a))

Spec == Init /\ [][Next]_vars /\ Fairness

-----------------------------------------------------------------------------
(* Properties *)

TypeOK ==
    /\ store \in [Attrs -> Held]
    /\ dirty \subseteq Attrs
    /\ notice \in BOOLEAN
    /\ style \in [Attrs -> Held]
    /\ base \in [Attrs -> Held]
    /\ move \in [Attrs -> Moves \cup {Still}]
    /\ needs \in BOOLEAN
    /\ left \in 0..MaxInputs
    /\ shown \in [Attrs -> Held]
    /\ stolen \subseteq Attrs

\* What the element is heading for is what the state holds: no render takes a
\* value in between, a drag or a value of another page for the target.  Only a
\* change that StatePatched took away from the render is missed.
HeadsForState ==
    \A a \in Attrs \ (dirty \cup stolen) :
        base[a] # Unset /\ store[a] # Unset =>
            /\ base[a] = store[a]
            /\ Active(a) => move[a].to = store[a]

\* An element at rest shows what the state holds, as soon as nothing waits to be
\* rendered.
RestsAtState ==
    ~needs => \A a \in Attrs \ (dirty \cup stolen) :
                 ~Active(a) /\ store[a] # Unset => style[a] = store[a]

\* The renders follow the state: what moves heads for it, what rests shows it.
FollowsState == HeadsForState /\ RestsAtState

\* What docs/thtml-reference.md says of a bound width, with no exception; the
\* code does not keep it.
AlwaysRestsAtState ==
    ~needs => \A a \in Attrs \ dirty :
                 ~Active(a) /\ store[a] # Unset => style[a] = store[a]

\* A transition starts where the element was shown: the first frame of one that
\* starts from rest is the last frame before it, unless it has no duration.
StartsWhereShown ==
    [][\A a \in Attrs :
          ~Active(a) /\ move'[a].phase = "waiting" => shown'[a] = shown[a]]_vars

\* Retargeting never jumps back: while the replaced transition waits, so does
\* the new one, at the same value.
RetargetsInFlight ==
    [][\A a \in Attrs :
          /\ Active(a) /\ move[a].phase = "waiting"
          /\ move'[a].phase = "waiting"
          => move'[a].from = move[a].from]_vars

\* When the changes end, every transition ends, on its target, and the loop
\* returns to its idle sleep.
GoesIdle ==
    <>[](~needs /\ \A a \in Attrs : ~Active(a) /\ style[a] = base[a])

=============================================================================
