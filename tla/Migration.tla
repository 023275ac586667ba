----------------------------- MODULE Migration ------------------------------
(***************************************************************************)
(* The migrator: a Job that turns every FrontendIntegration (FI) into a    *)
(* FrontendExtension (FE), one after the other, and deletes the FI.  Every *)
(* call to the API server is a step of its own; people, and other          *)
(* controllers, change FIs and FEs in between.  Helm runs the Job anew on  *)
(* every upgrade.                                                          *)
(*                                                                         *)
(* An FE goes by the name of the FI whose migration would take its name    *)
(* (migrated_fe_name tells FIs apart).  An FI that does not exist has uid  *)
(* 0.  The source hash of an FE is its frontend.                           *)
(***************************************************************************)
EXTENDS Manifest

CONSTANTS
    Names,          \* names of FIs
    Frontends,      \* frontends an FI may have at first, if it is the only one
    Plain,          \* the frontend of each of several FIs
    Edits,          \* what people change the frontend of an FI to
    ExtensionEdits, \* what people make the frontend of an FE
    Disturbances,   \* the kinds of outside events the instance has
    MaxEvents       \* bound: how many of them happen

ASSUME BoundAssumption == MaxEvents \in Nat
ASSUME NameAssumption == None \notin Names
ASSUME FrontendAssumption ==
    /\ Plain \in IntegrationFrontend
    /\ \A frontend \in Frontends \cup Edits : frontend \in IntegrationFrontend
    /\ \A frontend \in ExtensionEdits : frontend \in ExtensionFrontend

VARIABLES
    fis,        \* FIs by name
    fes,        \* FEs by the name of their FI
    crds,       \* the CRDs of both are established
    mg,         \* the migrator
    touched,    \* names whose FE people changed since the migrator read it
    events      \* outside events so far

vars == <<fis, fes, crds, mg, touched, events>>

AbsentFI == [uid |-> 0, frontend |-> None, enabled |-> FALSE, held |-> FALSE,
             deleting |-> FALSE]

\* held: a finalizer keeps the FI when it is deleted.
NewFI(uid, frontend, enabled, held) ==
    [uid |-> uid, frontend |-> frontend, enabled |-> enabled, held |-> held,
     deleting |-> FALSE]

\* source: the FI the annotation names, if the label says the migrator made
\* the FE.  gen: metadata.generation.
AbsentFE ==
    [there |-> FALSE, source |-> None, frontend |-> None, gen |-> 0, intent |-> None]

NewFE(source, frontend) ==
    [there |-> TRUE, source |-> source, frontend |-> frontend, gen |-> 1, intent |-> None]

\* Nobody's name: an FE that the migrator does not own.
Foreign == None

NoWork == [pc |-> "none", name |-> None, fi |-> AbsentFI, fe |-> AbsentFE]

NoRun ==
    [phase |-> "Waiting", listed |-> [n \in Names |-> 0], todo |-> <<>>, failed |-> {},
     work |-> NoWork]

Ended == {"Succeeded", "Failed"}

Disturb(kind) ==
    /\ kind \in Disturbances
    /\ events < MaxEvents
    /\ events' = events + 1

Calm == UNCHANGED events

-----------------------------------------------------------------------------
(* run.                                                                    *)

\* wait_for_prerequisites, and the list of all FIs there are.
ListIntegrations ==
    /\ mg.phase = "Waiting" /\ crds
    /\ mg' = [phase |-> "Running",
              listed |-> [n \in Names |-> fis[n].uid],
              todo |-> [n \in {m \in Names : fis[m].uid # 0} |-> fis[n]],
              failed |-> {}, work |-> NoWork]
    /\ UNCHANGED <<fis, fes, crds, touched>> /\ Calm

\* The CRDs are not there in time, or the list cannot be had.
GiveUp ==
    /\ mg.phase = "Waiting"
    /\ \/ ~crds /\ Calm
       \/ crds /\ Disturb("error")
    /\ mg' = [mg EXCEPT !.phase = "Failed"]
    /\ UNCHANGED <<fis, fes, crds, touched>>

Idle == mg.phase = "Running" /\ mg.work.pc = "none"

WorkOn(name) == [pc |-> "get", name |-> name, fi |-> mg.todo[name], fe |-> AbsentFE]

WithoutTodo(name) ==
    [mg EXCEPT !.todo = [n \in DOMAIN mg.todo \ {name} |-> mg.todo[n]]]

\* Mutant of Take: the list is not shortened.
TakeAgain(name) ==
    /\ Idle /\ name \in DOMAIN mg.todo
    /\ mg' = [mg EXCEPT !.work = WorkOn(name)]
    /\ UNCHANGED <<fis, fes, crds, touched>> /\ Calm

\* The next FI of the list, in whatever order the API server has listed them.
Take(name) ==
    /\ Idle /\ name \in DOMAIN mg.todo
    /\ mg' = [WithoutTodo(name) EXCEPT !.work = WorkOn(name)]
    /\ UNCHANGED <<fis, fes, crds, touched>> /\ Calm

\* One failure does not stop the scan, but it fails the Job.
Finish ==
    /\ Idle /\ DOMAIN mg.todo = {}
    /\ mg' = [mg EXCEPT !.phase = IF mg.failed = {} THEN "Succeeded" ELSE "Failed"]
    /\ UNCHANGED <<fis, fes, crds, touched>> /\ Calm

-----------------------------------------------------------------------------
(* migrate_one.                                                            *)

At(pc) == mg.phase = "Running" /\ mg.work.pc = pc

Name == mg.work.name

\* Done with the FI in hand.
DoneWithOne == [mg EXCEPT !.work = NoWork]

\* Mutant of FailedOne: the failure is only logged.
FailedOneLogged == DoneWithOne

FailedOne == [DoneWithOne EXCEPT !.failed = @ \cup {Name}]

Goto(pc) == [mg EXCEPT !.work.pc = pc]

Desired == MigratedFrontend(mg.work.fi.frontend)

\* Mutant of ManagedByFI: any FE the migrator could write will do.
ManagedByAnybody(fe, name) == TRUE

\* ensure_existing_fe_is_managed_by_fi
ManagedByFI(fe, name) == fe.source = name

\* Whatever people changed before the migrator looks at an FE does not count
\* as changed behind its back.
GetExtension ==
    /\ At("get")
    /\ mg' = CASE ~fes[Name].there -> Goto("create")
               [] fes[Name].there /\ ManagedByFI(fes[Name], Name) -> Goto("patch")
               [] OTHER -> FailedOne
    /\ touched' = touched \ {Name}
    /\ UNCHANGED <<fis, fes, crds>> /\ Calm

\* An FI that is enabled is published, before it is deleted.
AfterUpsert == IF mg.work.fi.enabled THEN "intent" ELSE "delete"

GoOnWith(fe) == [Goto(AfterUpsert) EXCEPT !.work.fe = fe]

Upserted(fe) == fes' = [fes EXCEPT ![Name] = fe] /\ mg' = GoOnWith(fe)

\* A name that is taken by now is an error.
CreateExtension ==
    /\ At("create")
    /\ IF ~fes[Name].there
       THEN Upserted(NewFE(Name, Desired))
       ELSE mg' = FailedOne /\ UNCHANGED fes
    /\ UNCHANGED <<fis, crds, touched>> /\ Calm

\* The patch merges: what the new spec has nothing of, and leaves out, stays.
MergedFrontend(old, new) ==
    [menus |-> IF new.menus = <<>> THEN old.menus ELSE new.menus,
     pages |-> IF new.pages = <<>> THEN old.pages ELSE new.pages,
     locales |-> old.locales \cup new.locales]

\* The generation counts the changes of the spec.
WithFrontend(fe, frontend) ==
    IF frontend = fe.frontend THEN fe
    ELSE [[fe EXCEPT !.gen = @ + 1] EXCEPT !.frontend = frontend]

\* The FE is patched by its name, whatever it is by now.
PatchExtension ==
    /\ At("patch")
    /\ IF fes[Name].there
       THEN Upserted([WithFrontend(fes[Name], MergedFrontend(fes[Name].frontend, Desired))
                        EXCEPT !.source = Name])
       ELSE mg' = FailedOne /\ UNCHANGED fes
    /\ UNCHANGED <<fis, crds, touched>> /\ Calm

\* Mutant of PublishIntent: the source hash is that of the desired frontend.
PublishIntentOfDesired(fe) == [gen |-> fe.gen, hash |-> Desired]

\* The intent is for the FE that the upsert returned; the request id is made of
\* its source hash.
PublishIntent(fe) == [gen |-> fe.gen, hash |-> fe.frontend]

PatchPublishIntent ==
    /\ At("intent")
    /\ IF fes[Name].there
       THEN /\ fes' = [fes EXCEPT ![Name].intent = PublishIntent(mg.work.fe)]
            /\ mg' = Goto("delete")
       ELSE mg' = FailedOne /\ UNCHANGED fes
    /\ UNCHANGED <<fis, crds, touched>> /\ Calm

\* The FI goes by its name as well: it may have been edited, or made anew.
DeleteIntegration ==
    /\ At("delete")
    /\ fis' = [fis EXCEPT ![Name] = IF @.held THEN [@ EXCEPT !.deleting = TRUE] ELSE AbsentFI]
    /\ mg' = Goto("wait")
    /\ UNCHANGED <<fes, crds, touched>> /\ Calm

\* Mutant of AwaitDeletion: it waits for as long as it takes.
AwaitDeletionForever ==
    /\ At("wait") /\ fis[Name].uid = 0
    /\ mg' = DoneWithOne
    /\ UNCHANGED <<fis, fes, crds, touched>> /\ Calm

\* An FI that is there until the deadline is a failure.
AwaitDeletion ==
    /\ At("wait")
    /\ mg' = IF fis[Name].uid = 0 THEN DoneWithOne ELSE FailedOne
    /\ UNCHANGED <<fis, fes, crds, touched>> /\ Calm

\* Any of the calls may fail.
CallFails ==
    /\ mg.phase = "Running" /\ mg.work.pc # "none"
    /\ Disturb("error")
    /\ mg' = FailedOne
    /\ UNCHANGED <<fis, fes, crds, touched>>

Migrator ==
    \/ ListIntegrations \/ GiveUp
    \/ \E name \in Names : Take(name)
    \/ Finish
    \/ GetExtension \/ CreateExtension \/ PatchExtension
    \/ PatchPublishIntent \/ DeleteIntegration \/ AwaitDeletion

-----------------------------------------------------------------------------
(* The cluster and its people.                                             *)

\* The pod is evicted or its deadline passes; backoffLimit is 0.
JobDies ==
    /\ mg.phase \notin Ended
    /\ Disturb("evict")
    /\ mg' = [NoRun EXCEPT !.phase = "Failed"]
    /\ UNCHANGED <<fis, fes, crds, touched>>

\* The hook of the next Helm upgrade replaces the Job.
Upgrade ==
    /\ mg.phase \in Ended
    /\ Disturb("upgrade")
    /\ mg' = NoRun
    /\ UNCHANGED <<fis, fes, crds, touched>>

EstablishCRDs ==
    /\ ~crds
    /\ crds' = TRUE
    /\ UNCHANGED <<fis, fes, mg, touched>> /\ Calm

\* The object that keeps a deleted FI lets go of it.
ReleaseIntegration(name) ==
    /\ fis[name].deleting
    /\ Disturb("release")
    /\ fis' = [fis EXCEPT ![name] = AbsentFI]
    /\ UNCHANGED <<fes, crds, mg, touched>>

UserSetsFI(kind, name, fi) ==
    /\ Disturb(kind)
    /\ fis' = [fis EXCEPT ![name] = fi]
    /\ UNCHANGED <<fes, crds, mg, touched>>

EditIntegration(name, frontend) ==
    /\ fis[name].uid # 0 /\ frontend # fis[name].frontend
    /\ UserSetsFI("edit", name, [fis[name] EXCEPT !.frontend = frontend])

ToggleIntegration(name) ==
    /\ fis[name].uid # 0
    /\ UserSetsFI("toggle", name, [fis[name] EXCEPT !.enabled = ~@])

\* An FI of a name that was migrated is made anew.
RecreateIntegration(name) ==
    /\ fis[name].uid = 0
    /\ UserSetsFI("recreate", name, NewFI(events + 2, Plain, TRUE, FALSE))

UserSetsFE(kind, name, fe) ==
    /\ Disturb(kind)
    /\ fes' = [fes EXCEPT ![name] = fe]
    /\ touched' = touched \cup {name}
    /\ UNCHANGED <<fis, crds, mg>>

EditExtension(name, frontend) ==
    /\ fes[name].there /\ frontend # fes[name].frontend
    /\ UserSetsFE("change", name, WithFrontend(fes[name], frontend))

\* It goes at once; an FE that stays until its finalizers are done is left out.
RemoveExtension(name) ==
    /\ fes[name].there
    /\ UserSetsFE("remove", name, AbsentFE)

\* An FE that has nothing to do with the migration takes the name.
CreateForeign(name, frontend) ==
    /\ ~fes[name].there
    /\ UserSetsFE("foreign", name, NewFE(Foreign, frontend))

World ==
    \/ JobDies \/ Upgrade \/ EstablishCRDs \/ CallFails
    \/ \E name \in Names :
        \/ ReleaseIntegration(name) \/ ToggleIntegration(name) \/ RecreateIntegration(name)
        \/ RemoveExtension(name)
        \/ \E frontend \in Edits : EditIntegration(name, frontend)
        \/ \E frontend \in ExtensionEdits :
              EditExtension(name, frontend) \/ CreateForeign(name, frontend)

-----------------------------------------------------------------------------

\* Either one FI of any frontend, which is left alone, or several of the plain
\* one, to which things happen.
Init ==
    /\ \/ /\ \E name \in Names, frontend \in Frontends, enabled \in BOOLEAN :
              fis = [[n \in Names |-> AbsentFI] EXCEPT
                        ![name] = NewFI(1, frontend, enabled, FALSE)]
          /\ crds = TRUE
          /\ events = MaxEvents
       \/ /\ \E held, enabled \in [Names -> BOOLEAN] :
              fis = [n \in Names |-> NewFI(1, Plain, enabled[n], held[n])]
          /\ crds \in BOOLEAN
          /\ events = 0
    /\ fes = [n \in Names |-> AbsentFE]
    /\ mg = NoRun
    /\ touched = {}

Next == Migrator \/ World

Spec == Init /\ [][Next]_vars

\* The migrator goes on; nothing else has to happen.
FairSpec == Spec /\ WF_vars(Migrator)

-----------------------------------------------------------------------------
(* Types.                                                                  *)

Maybe(S) == S \cup {None}

Steps == {"none", "get", "create", "patch", "intent", "delete", "wait"}

FI == [uid : Nat, frontend : Maybe(Frontends \cup Edits \cup {Plain}), enabled : BOOLEAN,
       held : BOOLEAN, deleting : BOOLEAN]

\* The migrator knows of nothing that is not in the cluster: it works on one FI
\* of its list at a time, and an FE has an intent of a generation it had.
TypeOK ==
    /\ fis \in [Names -> FI]
    /\ \A n \in Names :
        /\ fes[n].source \in Maybe({n})
        /\ fes[n].there => fes[n].gen > 0
        /\ fes[n].intent # None => fes[n].intent.gen \in 1 .. fes[n].gen + MaxEvents
    /\ crds \in BOOLEAN
    /\ mg.phase \in {"Waiting", "Running"} \cup Ended
    /\ DOMAIN mg.todo \subseteq Names \ (mg.failed \cup {mg.work.name})
    /\ mg.work.pc \in Steps
    /\ mg.work.pc # "none" => mg.work.name \in Names /\ mg.work.fi \in FI
    /\ touched \subseteq Names
    /\ events \in 0 .. MaxEvents

-----------------------------------------------------------------------------
(* Properties.                                                             *)

\* The webhook lets this frontend of an FI pass.
Admitted(frontend) == Resolves(FromIntegration(frontend))

\* The FE serves what the FI does, in the same places.
ServesTheSame(fe, fi) ==
    /\ ExtensionResolves(fe.frontend)
    /\ Served(FromExtension(fe.frontend)) = Served(FromIntegration(fi.frontend))

\* Whoever opens a route of a manifest gets the page its menu is bound to, made
\* for the placement he comes from: a page that is shared between menus, or
\* between placements, is rendered for each of them.
RoutesOpen(input) ==
    Resolves(input) =>
        \A b \in Range(Bindings(input)) :
            {p \in RenderedPages(input) : p.id = PageId(input, b)} =
            {[id |-> PageId(input, b), placement |-> b.placement, page |-> page] :
                page \in PagesOf(input, b)}

\* ... and that holds for the FI in hand and for every FE, migrated, merged or
\* edited.
RoutesOpenTheirPages ==
    /\ mg.work.fi.uid # 0 => RoutesOpen(FromIntegration(mg.work.fi.frontend))
    /\ \A n \in Names : fes[n].there => RoutesOpen(FromExtension(fes[n].frontend))

\* The migrator deletes an FI whose FE people left alone; people who change the
\* FE meanwhile know what they do.
Deletes(n) ==
    /\ mg' # mg /\ n \notin touched
    /\ fis[n].uid # 0 /\ ~fis[n].deleting
    /\ fis'[n].uid = 0 \/ fis'[n].deleting

\* The migrator deletes an FI only when its FE is there, is the migrator's own
\* and, if the FI it read was enabled, asks to be published as it is: nothing
\* that happened since it asked has made the request a stale one.
DeletedWhenHandedOver ==
    [][\A n \in Names : Deletes(n) =>
        /\ fes[n].there /\ fes[n].source = n
        /\ mg.work.fi.enabled =>
             fes[n].intent = [gen |-> fes[n].gen, hash |-> fes[n].frontend]]_vars

\* Nor does it delete an FI that the webhook let pass unless the FE serves what
\* the FI it read does, in the same places: new or merged into an FE of an
\* earlier run.  An FI without menus has nothing to lose.
NothingLost ==
    [][\A n \in Names :
        Deletes(n) /\ Admitted(mg.work.fi.frontend) /\ mg.work.fi.frontend.menus # <<>>
        => ServesTheSame(fes[n], mg.work.fi)]_vars

\* An FE that the migrator found not to be its own is left alone.
ForeignUntouched ==
    [][\A n \in Names :
        mg' # mg /\ n \notin touched /\ fes[n].there /\ fes[n].source # n
        => fes'[n] = fes[n]]_vars

\* A Job that succeeds has done away with every FI it listed and has left the
\* FE of each.
SuccessIsComplete ==
    [][mg.phase # "Succeeded" /\ mg'.phase = "Succeeded" =>
        \A n \in Names : mg.listed[n] # 0 =>
            /\ fis[n].uid # mg.listed[n]
            /\ n \in touched \/ (fes[n].there /\ fes[n].source = n)]_vars

\* The migrator comes to an end, even if an FI does not go away.
ScanEnds == (mg.phase \notin Ended) ~> (mg.phase \in Ended)
=============================================================================
