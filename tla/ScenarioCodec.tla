---------------------------- MODULE ScenarioCodec ----------------------------
(****************************************************************************)
(* A scenario of the cloud opened in the panel, edited there and saved: the *)
(* decoder and the encoder of intents/ (encoder, conditions, schedules,     *)
(* registry), the trip of the form through the panel (spec) and the calls   *)
(* that write it (service).                                                 *)
(*                                                                          *)
(* A condition, a task, a phrase and a part of a task are nodes: what they  *)
(* say is the tuple "of", "delay" is in tenths of a second, "extra" stands  *)
(* for the fields the editor has no name for.                               *)
(****************************************************************************)
EXTENDS Integers, Sequences, FiniteSets, SequencesExt

CONSTANTS
    Stored,         \* the scenarios the panel may open
    Names,          \* names a user may give, those not Usable among them
    Usable,         \* the names that are not blank and have no Latin letter
    Spoken,         \* phrases a user may add
    Drawn,          \* conditions a user may add, as nodes without extra fields
    Ordered,        \* tasks a user may add, likewise
    Zone,           \* the time zone written when the form has none
    MaxDepth,       \* the deepest condition decoded (8 in the code)
    MaxNodes,       \* the largest condition decoded (64 in the code)
    MaxEdits        \* bound of the model: edits between opening and saving

VARIABLES
    wire,           \* the scenario the cloud has, or NoScenario
    form,           \* what the panel edits: name, phrases, triggers, actions, enabled
    meant,          \* history: what the user wants the cloud to have
    status,         \* "closed", "open", "posted", "put", "saved", "refused" or "failed"
    edits           \* how often the open form was edited

vars == <<wire, form, meant, status, edits>>

Node(kind, of, kids, delay, extra) ==
    [kind |-> kind, of |-> of, kids |-> kids, delay |-> delay, extra |-> extra]
NoNode == Node("none", <<>>, <<>>, 0, "")
Phrase(p) == Node("phrase", <<p>>, <<>>, 0, "")
WholeSeconds(delay) == (delay \div 10) * 10

(****************************************************************************)
(* Conditions to triggers.                                                  *)
(****************************************************************************)
Operators == {"EQUAL", "LESS"}
ValidDevice(of) == of[1] # "" /\ of[2] # "" /\ of[3] \in Operators
Named(of) == of[1] # "" /\ of[2] # ""

\* The kinds of the children of a group, those kept as they were left out.
Kinds(children) == SelectSeq(children, LAMBDA child : ~child.unknown)

ValidGroupShape(relation, children) ==
    LET known == Kinds(children)
    IN  IF relation = "AND"
        THEN /\ Cardinality({i \in DOMAIN known : known[i].type = "device"}) = 1
             /\ \A i \in DOMAIN known :
                    known[i].type \in {"device", "check_device", "check_scenario"}
        ELSE \A i \in DOMAIN known : known[i].type \in {"device", "group"}

Trigger(type, of, kids, delay, raw) ==
    [type |-> type, of |-> of, kids |-> kids, delay |-> delay, raw |-> raw,
     unknown |-> type = "unknown"]
Unknown(node) == Trigger("unknown", <<>>, <<>>, 0, node)

WellFormedGroup(node) ==
    node.kind = "CONDITIONS" /\ node.of \in {<<"AND">>, <<"OR">>} /\ node.kids # <<>>

RECURSIVE Decode(_)
Decode(node) ==
    LET kids == [i \in DOMAIN node.kids |-> Decode(node.kids[i])]
    IN  CASE WellFormedGroup(node) /\ ValidGroupShape(node.of[1], kids) ->
               Trigger("group", node.of, kids, 0, node)
          [] node.kind = "DEVICE" /\ ValidDevice(node.of) ->
               Trigger("device", node.of, <<>>, WholeSeconds(node.delay), node)
          [] node.kind = "CHECK_DEVICE" /\ ValidDevice(node.of) ->
               Trigger("check_device", node.of, <<>>, 0, node)
          [] node.kind = "CHECK_SCENARIO" /\ Named(node.of) ->
               Trigger("check_scenario", node.of, <<>>, 0, node)
          [] OTHER -> Unknown(node)

Inner(node) == IF WellFormedGroup(node) THEN node.kids ELSE <<>>

RECURSIVE Visited(_), Height(_)
Visited(node) ==
    FoldLeft(LAMBDA sum, kid : sum + Visited(kid), 1, Inner(node))
Height(node) ==
    FoldLeft(LAMBDA high, kid : LET h == 1 + Height(kid) IN IF h > high THEN h ELSE high,
             0, Inner(node))
TooLarge(node) == Height(node) > MaxDepth \/ Visited(node) > MaxNodes

DecodeCondition(node) == IF TooLarge(node) THEN Unknown(node) ELSE Decode(node)

DecodeTime(node) == Trigger("time", node.of, <<>>, 0, node)

IsOuterOr(condition) == WellFormedGroup(condition) /\ condition.of = <<"OR">>
Alternatives(condition) == IF IsOuterOr(condition) THEN condition.kids ELSE <<condition>>

\* Mutant: phrases are collected from the nested groups as well.
CollectsAll(condition) ==
    LET top == Alternatives(condition)
        nodes == top \o FlattenSeq([i \in DOMAIN top |-> Inner(top[i])])
        spoken == SelectSeq(nodes, LAMBDA c : c.kind = "PHRASES")
    IN  FlattenSeq([i \in DOMAIN spoken |-> spoken[i].kids])

CollectPhrases(condition) ==
    LET spoken == SelectSeq(Alternatives(condition), LAMBDA c : c.kind = "PHRASES")
    IN  FlattenSeq([i \in DOMAIN spoken |-> spoken[i].kids])

CollectTriggers(condition) ==
    LET others == SelectSeq(Alternatives(condition), LAMBDA c : c.kind # "PHRASES")
    IN  [i \in DOMAIN others |-> IF others[i].kind = "TIME" THEN DecodeTime(others[i])
                                 ELSE DecodeCondition(others[i])]

DedupKeepOrder(items) ==
    FoldLeft(LAMBDA seen, x : IF Contains(seen, x) THEN seen ELSE Append(seen, x),
             <<>>, items)

(****************************************************************************)
(* Triggers to conditions. A node that the editor changed is merged into    *)
(* the one it came from, whose other fields ("extra") stay.                 *)
(****************************************************************************)
RECURSIVE Encodable(_)
Encodable(trigger) ==
    CASE trigger.unknown -> TRUE
      [] trigger.type = "group" ->
           /\ trigger.kids # <<>>
           /\ ValidGroupShape(trigger.of[1], trigger.kids)
           /\ \A i \in DOMAIN trigger.kids : Encodable(trigger.kids[i])
      [] trigger.type \in {"device", "check_device"} -> ValidDevice(trigger.of)
      [] trigger.type = "check_scenario" -> Named(trigger.of)
      [] OTHER -> FALSE

WireKind == [group |-> "CONDITIONS", device |-> "DEVICE", check_device |-> "CHECK_DEVICE",
             check_scenario |-> "CHECK_SCENARIO"]

\* The nodes of a trigger; what was kept whole is written back, or counted as one.
RECURSIVE Rebuild(_, _)
Rebuild(trigger, whole) ==
    IF trigger.unknown THEN (IF whole THEN trigger.raw ELSE NoNode)
    ELSE Node(WireKind[trigger.type], trigger.of,
              [i \in DOMAIN trigger.kids |-> Rebuild(trigger.kids[i], whole)],
              trigger.delay, trigger.raw.extra)

EncodeCondition(trigger) == Rebuild(trigger, TRUE)

\* A schedule is <<zone, start, rule>>; "odd" is a rule the simple editor cannot read.
Readable(schedule, zone) == schedule[1] = zone /\ schedule[3] # "odd"
EditableTime(node, zone) == node.extra = "" /\ Readable(node.of, zone)

\* Mutant: an untouched schedule is checked like an edited one.
TimeAlwaysChecked(trigger, zone) ==
    /\ Readable(trigger.of, zone)
    /\ trigger.raw # NoNode => EditableTime(trigger.raw, zone)

TimeAccepted(trigger, zone) ==
    \/ trigger.raw # NoNode /\ trigger.of = trigger.raw.of
    \/ /\ Readable(trigger.of, zone)
       /\ trigger.raw # NoNode =>
             /\ EditableTime(trigger.raw, zone)
             /\ \A k \in 1..2 : trigger.of[k] = trigger.raw.of[k]

\* Mutant: the fields the editor does not know are dropped from an untouched schedule.
TimeRebuilt(trigger) == Node("TIME", trigger.of, <<>>, 0, "")

EncodeTime(trigger) == Node("TIME", trigger.of, <<>>, 0, trigger.raw.extra)

\* A new device event nobody chose a device for is left out; any other new one is
\* written as it is, an old one only if the editor could read it back.
IsNewDevice(trigger) == trigger.type = "device" /\ trigger.raw = NoNode

TriggerAccepted(trigger, zone) ==
    CASE trigger.type = "time" -> TimeAccepted(trigger, zone)
      [] IsNewDevice(trigger) -> TRUE
      [] OTHER -> Encodable(trigger) /\ ~TooLarge(Rebuild(trigger, FALSE))

EncodeTrigger(trigger) ==
    CASE trigger.type = "time" -> <<EncodeTime(trigger)>>
      [] IsNewDevice(trigger) /\ trigger.of[1] = "" -> <<>>
      [] OTHER -> <<EncodeCondition(trigger)>>

Bundle(phrases) ==
    IF phrases = <<>> THEN <<>> ELSE <<Node("PHRASES", <<>>, phrases, 0, "")>>

BuildCondition(phrases, triggers) ==
    Node("CONDITIONS", <<"OR">>,
         FlattenSeq([i \in DOMAIN triggers |-> EncodeTrigger(triggers[i])])
             \o Bundle(phrases), 0, "")

(****************************************************************************)
(* Tasks to actions and back.                                               *)
(****************************************************************************)
ActionType == [PRONOUNCE |-> "tts", DEVICE_COMMAND |-> "device_command",
               NOTIFY |-> "trigger_notify", HEAD_DIALOG |-> "speaker_text",
               REGIME |-> "regime_command", SET_ACTIVE |-> "scenario_status", SMS |-> "sms"]
TaskKind(type) == CHOOSE kind \in DOMAIN ActionType : ActionType[kind] = type

\* The commands of a regime are <<period, daypart, device, text>>.
ValidRegime(commands) ==
    /\ commands # <<>>
    /\ \A i \in DOMAIN commands :
          /\ commands[i].kind = "HEAD_DIALOG"
          /\ commands[i].of[1] \in {"morning", "evening", "night"}
          /\ commands[i].of[2] = "common"
          /\ commands[i].of[3] # "" /\ commands[i].of[4] # ""
          /\ \A k \in 1..(i - 1) : commands[k].of[1] # commands[i].of[1]

Action(type, of, kids, delay, raw) ==
    [type |-> type, of |-> of, kids |-> kids, delay |-> delay, raw |-> raw,
     unknown |-> type = "unknown"]

\* What a device is told: a state to take ("RANGE_SET"), or one to turn over ("INVERT").
DecodeMode(part) ==
    IF part.kind = "RELATIVE" THEN [part EXCEPT !.kind = "INVERT"] ELSE part

Known(task) ==
    task.kind \in DOMAIN ActionType /\ (task.kind = "REGIME" => ValidRegime(task.kids))

DecodeTask(task) ==
    IF Known(task)
    THEN Action(ActionType[task.kind], task.of,
                [i \in DOMAIN task.kids |-> DecodeMode(task.kids[i])],
                WholeSeconds(task.delay),
                IF task.kind \in {"REGIME", "SMS"} THEN task ELSE NoNode)
    ELSE Action("unknown", <<>>, <<>>, 0, task)

\* Mutant: every type of the registry takes its tasks in turn.
ByTypeFirst(tasks) ==
    LET known == SelectSeq(tasks, LAMBDA t : ~DecodeTask(t).unknown)
        rest == SelectSeq(tasks, LAMBDA t : DecodeTask(t).unknown)
    IN  [i \in DOMAIN tasks |-> DecodeTask((known \o rest)[i])]

DecodeTasks(tasks) == [i \in DOMAIN tasks |-> DecodeTask(tasks[i])]

EventOnly == Action("ha_event_only", <<>>, <<>>, 0, NoNode)

\* An action that lacks what it needs would be written as no task at all.
Complete(action) ==
    CASE action.type \in {"tts", "speaker_text"} -> action.of[1] # "" /\ action.of[2] # ""
      [] action.type = "device_command" -> action.of[1] # "" /\ action.kids # <<>>
      [] action.type = "scenario_status" -> action.of[1] # ""
      [] OTHER -> action.type # "ha_event_only"

ActionAccepted(action) == action.type = "regime_command" => ValidRegime(action.kids)

EncodeAction(action) ==
    CASE action.unknown -> <<action.raw>>
      [] ~Complete(action) -> <<>>
      [] OTHER -> <<Node(TaskKind(action.type), action.of, action.kids, action.delay,
                         action.raw.extra)>>

(****************************************************************************)
(* The form and the body that is written. The form that comes back from the *)
(* panel has no extra top-level fields: the zone is the default one.        *)
(****************************************************************************)
Step(condition, tasks) == [condition |-> condition, tasks |-> tasks]
NoScenario == [name |-> "", steps |-> <<>>, zone |-> "", active |-> FALSE]

\* The tasks of all steps, one after the other.
TasksOf(steps) == FlattenSeq([i \in DOMAIN steps |-> steps[i].tasks])

\* The steps are opened as one.
FormOf(scenario, steps) ==
    LET each  == DOMAIN steps
        tasks == TasksOf(steps)
    IN  [name |-> scenario.name,
         phrases |-> DedupKeepOrder(
                        FlattenSeq([i \in each |-> CollectPhrases(steps[i].condition)])),
         triggers |-> FlattenSeq([i \in each |-> CollectTriggers(steps[i].condition)]),
         actions |-> IF tasks = <<>> THEN <<EventOnly>> ELSE DecodeTasks(tasks),
         enabled |-> scenario.active]

\* Mutant: of several steps the first alone is read.
FirstStepOnly(scenario) ==
    FormOf(scenario, IF scenario.steps = <<>> THEN <<>> ELSE <<Head(scenario.steps)>>)

DecodeScenario(scenario) == FormOf(scenario, scenario.steps)

NewForm(name) ==
    [name |-> name, phrases |-> <<>>, triggers |-> <<>>, actions |-> <<EventOnly>>,
     enabled |-> TRUE]

EncodeScenario(f) ==
    [name |-> f.name,
     steps |-> <<Step(BuildCondition(f.phrases, f.triggers),
                      FlattenSeq([i \in DOMAIN f.actions |-> EncodeAction(f.actions[i])]))>>,
     zone |-> Zone,
     active |-> f.enabled]

\* What the panel asks for beside the checks below, which it makes as well: a name Sber can
\* hear, an event, an action Sber runs, every field of an action.
IsReal(action) == ~action.unknown /\ action.type # "ha_event_only"
DeviceChosen(trigger) == trigger.of[1] # "" /\ trigger.of[2] # ""
Valid(f) ==
    /\ f.name \in Usable
    /\ f.phrases # <<>> \/ f.triggers # <<>>
    /\ \A i \in DOMAIN f.triggers :
          f.triggers[i].type = "device" => DeviceChosen(f.triggers[i])
    /\ \E i \in DOMAIN f.actions : IsReal(f.actions[i])
    /\ \A i \in DOMAIN f.actions : IsReal(f.actions[i]) => Complete(f.actions[i])

\* The checks of the panel and those of the service.
Accepted(f) ==
    /\ Valid(f)
    /\ \A i \in DOMAIN f.triggers : TriggerAccepted(f.triggers[i], Zone)
    /\ \A i \in DOMAIN f.actions : ActionAccepted(f.actions[i])
    /\ BuildCondition(f.phrases, f.triggers).kids # <<>>

\* Of a scenario with an action the registry does not know, name, phrases and state alone may
\* be changed.
IsHaManaged(f) == \A i \in DOMAIN f.actions : ~f.actions[i].unknown

(****************************************************************************)
(* What is meant, in the cloud's own terms: the phrases, every other        *)
(* alternative, the tasks in order. An action without a task is Nothing.    *)
(* The form shows the steps of a scenario as one, and this is what is meant *)
(* of them here: which event started which tasks is lost.                   *)
(****************************************************************************)
Nothing == Node("nothing", <<>>, <<>>, 0, "")

Meaning(scenario) ==
    LET steps == scenario.steps
        top   == FlattenSeq([i \in DOMAIN steps |-> Alternatives(steps[i].condition)])
        tasks == TasksOf(steps)
    IN  [name |-> scenario.name,
         phrases |-> UNION {ToSet(top[i].kids) :
                               i \in {k \in DOMAIN top : top[k].kind = "PHRASES"}},
         others |-> SelectSeq(top, LAMBDA c : c.kind # "PHRASES"),
         tasks |-> IF tasks = <<>> THEN <<Nothing>> ELSE tasks,
         enabled |-> scenario.active]

Init ==
    /\ wire \in Stored \union {NoScenario}
    /\ form = NewForm("") /\ meant = Meaning(NoScenario)
    /\ status = "closed" /\ edits = 0

Open ==
    /\ status = "closed" /\ wire # NoScenario
    /\ form' = DecodeScenario(wire)
    /\ meant' = Meaning(wire)
    /\ status' = "open"
    /\ UNCHANGED <<wire, edits>>

\* A new form and the name it is given first.
OpenNew(name) ==
    /\ status = "closed" /\ wire = NoScenario
    /\ form' = NewForm(name)
    /\ meant' = [Meaning(NoScenario) EXCEPT !.name = name, !.enabled = TRUE]
    /\ status' = "open"
    /\ UNCHANGED <<wire, edits>>

(****************************************************************************)
(* What the user does to the open form.                                     *)
(****************************************************************************)
Change ==
    /\ status \in {"open", "refused"}
    /\ edits < MaxEdits /\ edits' = edits + 1
    /\ status' = "open" /\ UNCHANGED wire

Edit == Change /\ IsHaManaged(form)

Rename(name) ==
    /\ Change /\ name # form.name
    /\ form' = [form EXCEPT !.name = name]
    /\ meant' = [meant EXCEPT !.name = name]

AddPhrase(p) ==
    /\ Change /\ ~Contains(form.phrases, Phrase(p))
    /\ form' = [form EXCEPT !.phrases = Append(@, Phrase(p))]
    /\ meant' = [meant EXCEPT !.phrases = @ \union {Phrase(p)}]

RemovePhrase(i) ==
    /\ Change
    /\ form' = [form EXCEPT !.phrases = RemoveAt(@, i)]
    /\ meant' = [meant EXCEPT !.phrases = @ \ {form.phrases[i]}]

TypeOf(node) ==
    IF node.kind = "TIME" THEN "time"
    ELSE CHOOSE type \in DOMAIN WireKind : WireKind[type] = node.kind
NewTrigger(node) == Trigger(TypeOf(node), node.of, <<>>, node.delay, NoNode)

AddTrigger(node) ==
    /\ Edit /\ node.kind \in {"TIME", "DEVICE", "CONDITIONS"}
    /\ form' = [form EXCEPT !.triggers = Append(@, NewTrigger(node))]
    /\ meant' = [meant EXCEPT !.others = Append(@, node)]

RemoveTrigger(i) ==
    /\ Edit
    /\ form' = [form EXCEPT !.triggers = RemoveAt(@, i)]
    /\ meant' = [meant EXCEPT !.others = RemoveAt(@, i)]

EditSchedule(i, rule) ==
    /\ Edit /\ form.triggers[i].type = "time"
    /\ EditableTime(meant.others[i], Zone)
    /\ form' = [form EXCEPT !.triggers[i].of[3] = rule]
    /\ meant' = [meant EXCEPT !.others[i].of[3] = rule]

EditComparison(i, operator) ==
    /\ Edit /\ form.triggers[i].type = "device"
    /\ form' = [form EXCEPT !.triggers[i].of[3] = operator]
    /\ meant' = [meant EXCEPT !.others[i].of[3] = operator]

SetRelation(i, relation) ==
    /\ Edit /\ form.triggers[i].type = "group"
    /\ form' = [form EXCEPT !.triggers[i].of = <<relation>>]
    /\ meant' = [meant EXCEPT !.others[i].of = <<relation>>]

AllowedChild(group, node) ==
    IF group.of = <<"OR">> THEN node.kind \in {"DEVICE", "CONDITIONS"}
    ELSE \/ node.kind \in {"CHECK_DEVICE", "CHECK_SCENARIO"}
         \/ node.kind = "DEVICE" /\ \A j \in DOMAIN group.kids : group.kids[j].type # "device"

AddChild(i, node) ==
    /\ Edit /\ form.triggers[i].type = "group" /\ AllowedChild(form.triggers[i], node)
    /\ form' = [form EXCEPT !.triggers[i].kids = Append(@, NewTrigger(node))]
    /\ meant' = [meant EXCEPT !.others[i].kids = Append(@, node)]

EditChild(i, j, operator) ==
    /\ Edit /\ form.triggers[i].type = "group"
    /\ form.triggers[i].kids[j].type \in {"device", "check_device"}
    /\ form' = [form EXCEPT !.triggers[i].kids[j].of[3] = operator]
    /\ meant' = [meant EXCEPT !.others[i].kids[j].of[3] = operator]

RemoveChild(i, j) ==
    /\ Edit /\ form.triggers[i].type = "group"
    /\ form' = [form EXCEPT !.triggers[i].kids = RemoveAt(@, j)]
    /\ meant' = [meant EXCEPT !.others[i].kids = RemoveAt(@, j)]

\* An added action starts as an event without tasks and is given its type.
AddAction(task) ==
    /\ Edit
    /\ form' = [form EXCEPT !.actions = Append(@, [DecodeTask(task) EXCEPT !.raw = NoNode])]
    /\ meant' = [meant EXCEPT !.tasks = Append(@, task)]

RemoveAction(i) ==
    /\ Edit /\ Len(form.actions) > 1
    /\ form' = [form EXCEPT !.actions = RemoveAt(@, i)]
    /\ meant' = [meant EXCEPT !.tasks = RemoveAt(@, i)]

Swapped(items, i) == [items EXCEPT ![i] = items[i + 1], ![i + 1] = items[i]]
MoveAction(i) ==
    /\ Edit /\ i < Len(form.actions)
    /\ form' = [form EXCEPT !.actions = Swapped(@, i)]
    /\ meant' = [meant EXCEPT !.tasks = Swapped(@, i)]

SetDelay(i, delay) ==
    /\ Edit
    /\ form' = [form EXCEPT !.actions[i].delay = delay]
    /\ meant' = [meant EXCEPT !.tasks[i].delay = delay]

Toggle ==
    /\ Change
    /\ form' = [form EXCEPT !.enabled = ~@]
    /\ meant' = [meant EXCEPT !.enabled = ~@]

(****************************************************************************)
(* Saving: the body is made and checked before anything is sent; the cloud  *)
(* may ignore that a new scenario is to be inactive, so a second call says  *)
(* it again, and a creation whose second call fails is taken back.          *)
(****************************************************************************)
\* What is saved again after a failure is not followed here.
CanSave == status \in {"open", "refused"}

Refuse ==
    /\ CanSave /\ ~Accepted(form)
    /\ status' = "refused"
    /\ UNCHANGED <<wire, form, meant, edits>>

\* Mutant: the second call is left out.
WrittenAtOnce == "saved"

Written ==
    IF form.enabled THEN "saved" ELSE IF wire = NoScenario THEN "posted" ELSE "put"

Write(active) ==
    /\ CanSave /\ Accepted(form)
    /\ active \in {form.enabled, TRUE}
    /\ wire' = [EncodeScenario(form) EXCEPT !.active = active]
    /\ status' = Written
    /\ UNCHANGED <<form, meant, edits>>

WriteFails ==
    /\ CanSave /\ Accepted(form)
    /\ status' = "failed"
    /\ UNCHANGED <<wire, form, meant, edits>>

Deactivate ==
    /\ status \in {"posted", "put"}
    /\ wire' = [wire EXCEPT !.active = FALSE]
    /\ status' = "saved"
    /\ UNCHANGED <<form, meant, edits>>

DeactivateFails ==
    /\ status \in {"posted", "put"}
    /\ \/ status = "posted" /\ wire' = NoScenario
       \/ UNCHANGED wire
    /\ status' = "failed"
    /\ UNCHANGED <<form, meant, edits>>

EditConditions ==
    \/ \E p \in Spoken : AddPhrase(p)
    \/ \E i \in DOMAIN form.phrases : RemovePhrase(i)
    \/ \E node \in Drawn : AddTrigger(node)
    \/ \E i \in DOMAIN form.triggers :
          \/ RemoveTrigger(i)
          \/ EditSchedule(i, "other")
          \/ EditComparison(i, "LESS")
          \/ \E relation \in {"AND", "OR"} : SetRelation(i, relation)
          \/ \E node \in Drawn : AddChild(i, node)
          \/ \E j \in DOMAIN form.triggers[i].kids : RemoveChild(i, j) \/ EditChild(i, j, "LESS")

EditActions ==
    \/ \E task \in Ordered : AddAction(task)
    \/ \E i \in DOMAIN form.actions :
          RemoveAction(i) \/ MoveAction(i) \/ SetDelay(i, 300)
    \/ Toggle

Next ==
    \/ Open \/ EditConditions \/ EditActions
    \/ \E name \in Names : OpenNew(name) \/ Rename(name)
    \/ Refuse \/ WriteFails \/ Deactivate \/ DeactivateFails
    \/ \E active \in BOOLEAN : Write(active)

Spec == Init /\ [][Next]_vars

(****************************************************************************)
(* Properties.                                                              *)
(****************************************************************************)

\* The sets of events and checks that together start a scenario. What the decoder
\* cannot read is one event of its own, delays count in whole seconds.
RECURSIVE Fires(_)
Fires(node) ==
    CASE node.kind = "PHRASES" -> {{p} : p \in ToSet(node.kids)}
      [] WellFormedGroup(node) /\ node.of = <<"OR">> ->
           UNION {Fires(kid) : kid \in ToSet(node.kids)}
      [] WellFormedGroup(node) /\ node.of = <<"AND">> ->
           FoldLeft(LAMBDA all, kid : {a \union b : a \in all, b \in Fires(kid)},
                    {{}}, node.kids)
      [] node.kind = "DEVICE" /\ node.of[1] = "" -> {}
      [] OTHER -> {{[node EXCEPT !.delay = WholeSeconds(@)]}}

\* What is run, in order. Of the tasks the registry rebuilds, fields it has no name for
\* do not count, and a relative command is shown, and saved, as one that turns over.
Rebuilt(task) == task.kind \in DOMAIN ActionType \ {"REGIME", "SMS"}
Runs(tasks) ==
    LET told == SelectSeq(tasks, LAMBDA t : t.kind # "nothing")
    IN  [i \in DOMAIN told |->
            [told[i] EXCEPT !.delay = WholeSeconds(@),
                            !.extra = IF Rebuilt(told[i]) THEN "" ELSE @,
                            !.kids = [k \in DOMAIN @ |-> DecodeMode(@[k])]]]

\* A scenario that was written is started by exactly what the user was shown and left in
\* the form, runs exactly those tasks in that order, with unknown conditions and tasks
\* whole and at their places, and has the name the user gave it; it is active as the user
\* asked once saving is reported as done (encoder.py:134 and :193, service.py:85).  The form
\* shows several steps as one: of those, all is kept but which event starts which tasks.
SavedAsMeant ==
    status \in {"posted", "put", "saved"} =>
        LET written == wire.steps[1]
        IN  /\ Len(wire.steps) = 1 /\ wire.name = meant.name
            /\ Fires(written.condition) =
                 {{p} : p \in meant.phrases} \union UNION {Fires(c) : c \in ToSet(meant.others)}
            /\ Runs(written.tasks) = Runs(meant.tasks)
            /\ status = "saved" => wire.active = meant.enabled

\* What the panel cannot save of a stored scenario: a name Sber cannot hear, no event, no task
\* that the editor knows, or a known one that lacks what it needs.
Lacking(task) ==
    CASE task.kind \in {"PRONOUNCE", "HEAD_DIALOG"} -> task.of[1] = "" \/ task.of[2] = ""
      [] task.kind = "DEVICE_COMMAND" -> task.of[1] = "" \/ task.kids = <<>>
      [] task.kind = "SET_ACTIVE" -> task.of[1] = ""
      [] OTHER -> FALSE
Unfit(scenario) ==
    LET tasks == UNION {ToSet(step.tasks) : step \in ToSet(scenario.steps)}
    IN  \/ scenario.name \notin Usable
        \/ Meaning(scenario).phrases = {} /\ Meaning(scenario).others = <<>>
        \/ \A task \in tasks : ~Known(task)
        \/ \E task \in tasks : Lacking(task)

\* What the decoder takes the encoder gives back: a stored scenario nobody edited is saved,
\* whatever conditions, schedules and tasks the cloud had in it (conditions.py:64,
\* schedules.py:91, registry.py:389), unless the panel asks for more than it has (Unfit).
UntouchedAccepted == status = "refused" /\ edits = 0 => wire = NoScenario \/ Unfit(wire)

==============================================================================
