---------------------------- MODULE JujuRelation ----------------------------
(***************************************************************************)
(* A relation between two applications as Juju runs it, for the libraries  *)
(* under charm/lib: the charm has the requirer side of most of them, and   *)
(* the charm it is related to has the provider side.                       *)
(*                                                                         *)
(* Each side has a databag of its application and one of its unit, which   *)
(* the other side reads.  A write makes a hook due on the other side; a    *)
(* hook may come long after it, and one hook may stand for many writes.    *)
(* A hook runs alone and its writes are seen when it is over, so that a    *)
(* handler is one step.  Removed, the relation departs and breaks on each  *)
(* side; made again it is another relation, with empty databags.           *)
(***************************************************************************)
EXTENDS Integers, FiniteSets

CONSTANTS
    Interfaces,     \* the interfaces a behaviour may be about
    Values,         \* what providers publish
    Nothing         \* what is not there

Sides == {"requirer", "provider"}
Other(s) == CHOOSE t \in Sides : t # s

ASSUME RelationAssumption == Nothing \notin Values /\ Values # {}

VARIABLES
    interface,  \* the interface of the relation
    dying,      \* it was removed, and is coming apart
    stage,      \* stage[side]
    due,        \* due[side], the hooks that will come besides those of stage
    leader,     \* leader[side]: the unit leads its application
    led,        \* both did all the time since the relation was made
    app, unit,  \* the databags of the application and of the unit
    stored,     \* stored[side], what its library keeps elsewhere: StoredState, secrets
    event,      \* the event a library emitted in the last step, and what it says of itself
    told        \* told[side], what the charm read at the last event, or Nothing

databags == <<app, unit>>
heard == <<event, told>>
relationVars == <<interface, dying, stage, due, leader, led, databags, stored, heard>>

NoData == << >>
NoEvent == [name |-> "none", says |-> Nothing]
Has(bag, keys) == keys \subseteq DOMAIN bag
Without(bag, keys) == [k \in DOMAIN bag \ keys |-> bag[k]]
Entry(key, value) == [k \in {key} |-> value]
Updated(bag, data) ==
    [k \in DOMAIN bag \cup DOMAIN data |-> IF k \in DOMAIN data THEN data[k] ELSE bag[k]]

\* What a side reads of the other.
Reading(s) == [app |-> app[Other(s)], unit |-> unit[Other(s)]]

RelationInit ==
    /\ interface \in Interfaces
    /\ dying = FALSE
    /\ stage = [s \in Sides |-> "none"]
    /\ due = [s \in Sides |-> {}]
    /\ leader \in [Sides -> BOOLEAN]
    /\ led = FALSE
    /\ app = [s \in Sides |-> NoData]
    /\ unit = [s \in Sides |-> NoData]
    /\ stored = [s \in Sides |-> Nothing]
    /\ event = NoEvent
    /\ told = [s \in Sides |-> Nothing]

(***************************************************************************)
(* What a library does in a hook: it emits an event or none.               *)
(***************************************************************************)
Silent == event' = NoEvent /\ UNCHANGED told

\* An event at which the charm reads the databags, or learns they are gone.
TellsSaying(s, name, says, reading) ==
    event' = [name |-> name, says |-> says] /\ told' = [told EXCEPT ![s] = reading]
TellsOf(s, name, reading) == TellsSaying(s, name, Nothing, reading)
Tells(s, name) == TellsOf(s, name, Reading(s))
TellsGone(s, name) == TellsOf(s, name, Nothing)

(***************************************************************************)
(* Hooks                                                                   *)
(***************************************************************************)
\* Only what differs wakes the other side.
Writes(s, appBag, unitBag, hooks) ==
    /\ app' = [app EXCEPT ![s] = appBag]
    /\ unit' = [unit EXCEPT ![s] = unitBag]
    /\ due' = [due EXCEPT
                  ![s] = hooks,
                  ![Other(s)] = @ \cup {h \in {"app", "unit"} :
                                           \/ h = "app" /\ appBag # app[s]
                                           \/ h = "unit" /\ unitBag # unit[s]}]

Comes(s, hook) ==
    \/ hook = "created" /\ ~ dying /\ stage[s] = "new"
    \/ hook = "joined" /\ ~ dying /\ stage[s] = "created"
    \/ hook = "app" /\ ~ dying /\ stage[s] \in {"created", "joined"} /\ hook \in due[s]
    \/ hook = "unit" /\ ~ dying /\ stage[s] = "joined" /\ hook \in due[s]
    \/ hook = "secret" /\ ~ dying /\ stage[s] \in {"created", "joined"} /\ hook \in due[s]
    \/ hook = "departed" /\ dying /\ stage[s] = "joined"
    \/ hook = "broken" /\ dying /\ stage[s] \in {"created", "departed"}
    \/ hook \in {"elected", "ready"} \cap due[s]

\* A unit that joins always brings a change.
RunsStoring(s, hook, appBag, unitBag, value) ==
    /\ Comes(s, hook)
    /\ stage' = [stage EXCEPT ![s] = IF hook = "broken" THEN "none"
                                     ELSE IF hook \in {"created", "joined", "departed"} THEN hook
                                     ELSE @]
    /\ Writes(s, appBag, unitBag,
              (due[s] \ {hook}) \cup (IF hook = "joined" THEN {"unit"} ELSE {}))
    /\ stored' = [stored EXCEPT ![s] = value]
    /\ UNCHANGED <<interface, dying, leader, led>>

Runs(s, hook, appBag, unitBag) == RunsStoring(s, hook, appBag, unitBag, stored[s])

\* A hook in which the library writes nothing.
RunsOnly(s, hook) == Runs(s, hook, app[s], unit[s])

\* The other hooks of the charm: a library is called and writes.
Related(s) == stage[s] \in {"created", "joined"} /\ ~ dying
Acts(s, appBag, unitBag, value) ==
    /\ Related(s)
    /\ Writes(s, appBag, unitBag, due[s])
    /\ stored' = [stored EXCEPT ![s] = value]
    /\ UNCHANGED <<interface, dying, stage, leader, led>>

PublishesStoring(s, appBag, value) == Acts(s, appBag, unit[s], value) /\ Silent
Publishes(s, appBag) == PublishesStoring(s, appBag, stored[s])

(***************************************************************************)
(* The operator of the model and Juju's elections.                         *)
(***************************************************************************)
Relate ==
    /\ \A s \in Sides : stage[s] = "none"
    /\ dying' = FALSE
    /\ stage' = [s \in Sides |-> "new"]
    /\ due' = [s \in Sides |-> due[s] \cap {"elected", "ready"}]
    /\ led' = \A s \in Sides : leader[s]
    /\ app' = [s \in Sides |-> NoData]
    /\ unit' = [s \in Sides |-> NoData]
    /\ event' = NoEvent
    /\ told' = [s \in Sides |-> Nothing]
    /\ UNCHANGED <<interface, leader, stored>>

Unrelate ==
    /\ ~ dying
    /\ \E s \in Sides : stage[s] # "none"
    /\ dying' = TRUE
    /\ stage' = [s \in Sides |-> IF stage[s] = "new" THEN "none" ELSE stage[s]]
    /\ event' = NoEvent
    /\ UNCHANGED <<interface, due, leader, led, databags, stored, told>>

Elect(s) ==
    /\ leader' = [leader EXCEPT ![s] = ~ @]
    /\ led' = FALSE
    /\ due' = [due EXCEPT ![s] = IF leader'[s] THEN @ \cup {"elected"} ELSE @ \ {"elected"}]
    /\ event' = NoEvent
    /\ UNCHANGED <<interface, dying, stage, databags, stored, told>>

\* The container of a unit is replaced, and will be ready; what was set up in it is gone.
ContainerReplaced(s) ==
    /\ "ready" \notin due[s]
    /\ due' = [due EXCEPT ![s] = @ \cup {"ready"}]
    /\ stored' = [stored EXCEPT ![s] = Nothing]
    /\ event' = NoEvent
    /\ UNCHANGED <<interface, dying, stage, leader, led, databags, told>>

\* Until then it is reached or not.
Reachable(s) == {TRUE, "ready" \notin due[s]}

Juju == Relate \/ Unrelate \/ \E s \in Sides : Elect(s)

\* Between joining and departing, a side sees the unit of the other.
SeesUnit(s, hook) == hook = "joined" \/ (stage[s] = "joined" /\ hook # "departed")

\* Nothing is due any more.
Settled(s) == stage[s] = "joined" /\ ~ dying /\ due[s] = {}
BothSettled == \A s \in Sides : Settled(s)

=============================================================================
