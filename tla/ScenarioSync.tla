---------------------------- MODULE ScenarioSync ----------------------------
(***************************************************************************)
(* Scenarios written in configuration.yaml and applied to the cloud:       *)
(* reconcile_intents() over IntentService, at setup and from the action    *)
(* reload_intents, while the user edits scenarios in the panel or in the   *)
(* Sber app.  The integration's scenarios bear a marker with their slug.   *)
(* What a scenario does is one number; whether it is active is kept apart, *)
(* for the cloud may ignore that part of a POST.  The calls take turns;    *)
(* two at once may create one scenario twice.                              *)
(***************************************************************************)
EXTENDS Integers, Sequences

CONSTANTS
    Slugs,          \* slugs the YAML may use
    MaxContent,     \* contents a scenario may have, 1 to MaxContent
    MaxScenarios    \* scenarios the cloud creates

VARIABLES
    yaml,       \* configuration.yaml: per slug [content, enabled]; content 0 is absent
    scenarios,  \* the cloud's list: [slug, content, active], Deleted
    work,       \* reconcile_intents(): stage, specs, slugs left, list answer, slug and id
    effect,     \* history: per slug, what its last report claimed, or NoClaim
    meddled     \* history: slugs that the user edited since they were written

syncVars == <<yaml, scenarios, work, effect, meddled>>

ByUser   == "by the user"
Deleted  == [slug |-> "deleted", content |-> 0, active |-> FALSE]
Absent   == [content |-> 0, enabled |-> FALSE]
NoClaim  == Absent
Specs    == {Absent} \cup [content : 1 .. MaxContent, enabled : BOOLEAN]
NoId     == 0
Idle     == [stage |-> "idle", specs |-> [s \in Slugs |-> Absent], left |-> {},
             managed |-> [s \in Slugs |-> NoId], seen |-> [s \in Slugs |-> Absent],
             slug |-> ByUser, id |-> NoId]

Init ==
    /\ yaml \in [Slugs -> Specs]
    /\ scenarios = <<[slug |-> ByUser, content |-> 1, active |-> TRUE]>>
    /\ work = Idle
    /\ effect = [s \in Slugs |-> NoClaim]
    /\ meddled = {}

-------------------------------------------------------------------------------
(* The list *)

\* parse_slug_from_description()
BearsSlug(i, s) == scenarios[i].slug = s

\* managed_by_slug: the last of the list that bears the marker
ManagedId(s) ==
    LET marked == {i \in DOMAIN scenarios : BearsSlug(i, s)}
    IN  IF marked = {} THEN NoId ELSE CHOOSE i \in marked : \A j \in marked : j <= i

Content(i) == [content |-> scenarios[i].content, enabled |-> scenarios[i].active]

\* load_intents_from_config() of the file, or what it gave when Home Assistant
\* started; then list_intents().
Start ==
    /\ work.stage = "idle"
    /\ work' = [Idle EXCEPT !.stage = "list", !.specs = yaml]
    /\ UNCHANGED <<yaml, scenarios, effect, meddled>>

\* Without the list every slug is reported as failed, and nothing is written.
ListFails ==
    /\ work.stage = "list"
    /\ work' = Idle
    /\ UNCHANGED <<yaml, scenarios, effect, meddled>>

Listed ==
    /\ work.stage = "list"
    /\ work' = [work EXCEPT !.stage = "next",
            !.left = {s \in Slugs : work.specs[s] # Absent},
            !.managed = [s \in Slugs |-> ManagedId(s)],
            !.seen = [s \in Slugs |->
                            IF ManagedId(s) = NoId THEN Absent ELSE Content(ManagedId(s))]]
    /\ UNCHANGED <<yaml, scenarios, effect, meddled>>

-------------------------------------------------------------------------------
(* One slug *)

Wanted == work.specs[work.slug]

\* A home that the YAML names and the account lacks skips the slug;
\* _spec_equivalent() saves the request.
TakeSlug ==
    /\ work.stage = "next"
    /\ \E s \in work.left :
        LET w == [work EXCEPT !.left = @ \ {s}, !.seen[s] = Absent, !.managed[s] = NoId]
            at(place) == [w EXCEPT !.stage = place, !.slug = s, !.id = work.managed[s]]
        IN  \/ work' = w
            \/ work.managed[s] = NoId /\ work' = at("create")
            \/ /\ work.managed[s] # NoId
               /\ work' = IF work.seen[s] = work.specs[s] THEN w ELSE at("update")
    /\ UNCHANGED <<yaml, scenarios, effect, meddled>>

At(place) == work' = [work EXCEPT !.stage = place]

\* The next slug has its turn.
TurnEnds == work' = [work EXCEPT !.stage = "next", !.slug = ByUser, !.id = NoId]

\* create_intent(): POST.  The cloud can ignore is_active: false.
ServeCreate ==
    /\ work.stage = "create" /\ Len(scenarios) < MaxScenarios
    /\ \E active \in {Wanted.enabled, TRUE} :
        scenarios' = Append(scenarios, [slug |-> work.slug, content |-> Wanted.content,
                                        active |-> active])
    /\ work' = [work EXCEPT !.stage = "created", !.id = Len(scenarios) + 1]
    /\ effect' = [effect EXCEPT ![work.slug] = NoClaim]
    /\ meddled' = meddled \ {work.slug}
    /\ UNCHANGED <<yaml>>

\* update_intent(): PUT; a scenario that is gone is refused.
ServeUpdate ==
    /\ work.stage = "update" /\ scenarios[work.id] # Deleted
    /\ \E active \in {Wanted.enabled, TRUE} :
        scenarios' = [scenarios EXCEPT ![work.id] =
                        [slug |-> work.slug, content |-> Wanted.content, active |-> active]]
    /\ At("updated")
    /\ effect' = [effect EXCEPT ![work.slug] = NoClaim]
    /\ meddled' = meddled \ {work.slug}
    /\ UNCHANGED <<yaml>>

\* Mutant: the cloud is trusted to have taken is_active from the body.
TrustsTheBody == FALSE

\* Only the endpoint of its own makes a scenario inactive.  The answer to a POST is taken
\* to name the new scenario; without an id the code leaves it as the cloud made it.
MustDeactivate == ~Wanted.enabled

\* report.created, report.updated
Claim ==
    /\ TurnEnds
    /\ effect' = [effect EXCEPT ![work.slug] = Wanted]

Answered ==
    /\ work.stage \in {"created", "updated"}
    /\ IF MustDeactivate
       THEN At(IF work.stage = "created" THEN "quiet new" ELSE "quiet") /\ UNCHANGED effect
       ELSE Claim
    /\ UNCHANGED <<yaml, scenarios, meddled>>

\* ScenarioAPI.set_active()
ServeDeactivate ==
    /\ work.stage \in {"quiet", "quiet new"} /\ scenarios[work.id] # Deleted
    /\ scenarios' = [scenarios EXCEPT ![work.id].active = FALSE]
    /\ At(IF work.stage = "quiet" THEN "quieted" ELSE "quieted new")
    /\ UNCHANGED <<yaml, effect, meddled>>

Deactivated ==
    /\ work.stage \in {"quieted", "quieted new"}
    /\ Claim
    /\ UNCHANGED <<yaml, scenarios, meddled>>

\* A new scenario whose deactivation has failed, or was not answered, is deleted again.
ServeDelete ==
    /\ work.stage = "undo"
    /\ scenarios' = [scenarios EXCEPT ![work.id] = Deleted]
    /\ TurnEnds
    /\ UNCHANGED <<yaml, effect, meddled>>

\* A request fails, unserved (then it never is) or with its answer lost: the slug has
\* failed.
Fails ==
    /\ work.stage \notin {"idle", "list", "next"}
    /\ IF work.stage \in {"quiet new", "quieted new"} THEN At("undo") ELSE TurnEnds
    /\ UNCHANGED <<yaml, scenarios, effect, meddled>>

\* The orphans are only logged.
Done ==
    /\ work.stage = "next" /\ work.left = {}
    /\ work' = Idle
    /\ UNCHANGED <<yaml, scenarios, effect, meddled>>

\* Home Assistant stops in the middle.
Crash ==
    /\ work.stage # "idle"
    /\ work' = Idle
    /\ UNCHANGED <<yaml, scenarios, effect, meddled>>

-------------------------------------------------------------------------------
(* The user *)

EditYaml ==
    /\ work.stage = "idle"
    /\ \E s \in Slugs, spec \in Specs : yaml' = [yaml EXCEPT ![s] = spec]
    /\ UNCHANGED <<scenarios, work, effect, meddled>>

\* In the app, or with ws_update_intent() and ws_delete_intent() of the panel; the
\* marker stays.
EditScenario ==
    /\ \E i \in DOMAIN scenarios :
        /\ scenarios[i] # Deleted
        /\ \/ \E c \in 1 .. MaxContent, a \in BOOLEAN :
                scenarios' = [scenarios EXCEPT ![i].content = c, ![i].active = a]
           \/ scenarios' = [scenarios EXCEPT ![i] = Deleted]
        /\ meddled' = meddled \cup ({scenarios[i].slug} \cap Slugs)
    /\ UNCHANGED <<yaml, work, effect>>

Next ==
    \/ Start \/ ListFails \/ Listed \/ TakeSlug
    \/ ServeCreate \/ ServeUpdate \/ Answered
    \/ ServeDeactivate \/ Deactivated \/ ServeDelete
    \/ Fails \/ Done
    \/ Crash \/ EditYaml \/ EditScenario

Spec == Init /\ [][Next]_syncVars

-------------------------------------------------------------------------------

\* What the report calls created or updated is so in the cloud, until the user
\* changes it; above all, a scenario that the YAML disables does not
\* stay active because the cloud ignored that part of the request.
ReportIsTrue ==
    \A s \in Slugs :
        effect[s] # NoClaim /\ s \notin meddled
        => ManagedId(s) # NoId /\ Content(ManagedId(s)) = effect[s]

\* However lists, writes and answers fail or Home Assistant stops, there
\* are never two scenarios with one slug, both listening to its phrases.
OneScenario ==
    \A i, j \in DOMAIN scenarios :
        scenarios[i].slug \in Slugs /\ scenarios[i].slug = scenarios[j].slug => i = j
===============================================================================
