-------------------------- MODULE Migration_proofs --------------------------
(***************************************************************************)
(* Proofs about Migration, for every value of its constants: any number of *)
(* FIs, of any frontends, and any number of outside events.                *)
(***************************************************************************)
EXTENDS Migration, Manifest_proofs

-----------------------------------------------------------------------------
(* What the objects are made of.                                           *)

IsFE(fe) ==
    fe = [there |-> fe.there, source |-> fe.source, frontend |-> fe.frontend,
          gen |-> fe.gen, intent |-> fe.intent]

IsWork(work) ==
    work = [pc |-> work.pc, name |-> work.name, fi |-> work.fi, fe |-> work.fe]

IsRun(run) ==
    /\ run = [phase |-> run.phase, listed |-> run.listed, todo |-> run.todo,
              failed |-> run.failed, work |-> run.work]
    /\ IsWork(run.work)

\* Only a migrator that runs has an FI in hand, and it has a name.
Shapes ==
    /\ fis \in [Names -> FI]
    /\ fes = [n \in Names |-> fes[n]] /\ \A n \in Names : IsFE(fes[n])
    /\ IsRun(mg)
    /\ mg.listed \in [Names -> Nat]
    /\ mg.phase = "Running" => DOMAIN mg.todo \subseteq Names
    /\ mg.work.pc # "none" => mg.phase = "Running" /\ mg.work.name \in Names
    /\ events \in Nat

\* The migrator's record when it goes on with the FI in hand.
LEMMA NextWork ==
    ASSUME IsRun(mg), NEW pc
    PROVE  Goto(pc) = [phase |-> mg.phase, listed |-> mg.listed, todo |-> mg.todo,
                       failed |-> mg.failed,
                       work |-> [pc |-> pc, name |-> Name, fi |-> mg.work.fi,
                                 fe |-> mg.work.fe]]
BY DEF IsRun, IsWork, Goto, Name

\* ... when it is done with it, or gives it up.
LEMMA NextDone ==
    ASSUME IsRun(mg)
    PROVE  /\ DoneWithOne = [phase |-> mg.phase, listed |-> mg.listed, todo |-> mg.todo,
                             failed |-> mg.failed, work |-> NoWork]
           /\ FailedOne = [phase |-> mg.phase, listed |-> mg.listed, todo |-> mg.todo,
                           failed |-> mg.failed \cup {Name}, work |-> NoWork]
<1>1. DoneWithOne = [phase |-> mg.phase, listed |-> mg.listed, todo |-> mg.todo,
                     failed |-> mg.failed, work |-> NoWork]
  BY DEF IsRun, DoneWithOne
<1>2. FailedOne = [phase |-> mg.phase, listed |-> mg.listed, todo |-> mg.todo,
                   failed |-> mg.failed \cup {Name}, work |-> NoWork]
  BY <1>1 DEF FailedOne
<1>3. QED
  BY <1>1, <1>2

\* ... when it has written an FE.
LEMMA NextUpserted ==
    ASSUME IsRun(mg), NEW fe
    PROVE  GoOnWith(fe) =
                 [phase |-> mg.phase, listed |-> mg.listed, todo |-> mg.todo,
                  failed |-> mg.failed,
                  work |-> [pc |-> AfterUpsert, name |-> Name, fi |-> mg.work.fi, fe |-> fe]]
<1> DEFINE run == Goto(AfterUpsert)
<1>1. run = [phase |-> mg.phase, listed |-> mg.listed, todo |-> mg.todo,
             failed |-> mg.failed,
             work |-> [pc |-> AfterUpsert, name |-> Name, fi |-> mg.work.fi,
                       fe |-> mg.work.fe]]
  BY NextWork
<1> HIDE DEF run
<1>2. [run EXCEPT !.work.fe = fe] =
                 [phase |-> mg.phase, listed |-> mg.listed, todo |-> mg.todo,
                  failed |-> mg.failed,
                  work |-> [pc |-> AfterUpsert, name |-> Name, fi |-> mg.work.fi, fe |-> fe]]
  BY <1>1
<1>3. QED
  BY <1>2 DEF run, GoOnWith

\* ... and when it takes up the next FI.
LEMMA NextTaken ==
    ASSUME IsRun(mg), NEW name
    PROVE  [WithoutTodo(name) EXCEPT !.work = WorkOn(name)] =
                 [phase |-> mg.phase, listed |-> mg.listed,
                  todo |-> [n \in DOMAIN mg.todo \ {name} |-> mg.todo[n]],
                  failed |-> mg.failed, work |-> WorkOn(name)]
<1> DEFINE run == WithoutTodo(name)
<1>1. run = [phase |-> mg.phase, listed |-> mg.listed,
             todo |-> [n \in DOMAIN mg.todo \ {name} |-> mg.todo[n]],
             failed |-> mg.failed, work |-> mg.work]
  BY DEF IsRun, WithoutTodo
<1> HIDE DEF run
<1>2. [run EXCEPT !.work = WorkOn(name)] =
                 [phase |-> mg.phase, listed |-> mg.listed,
                  todo |-> [n \in DOMAIN mg.todo \ {name} |-> mg.todo[n]],
                  failed |-> mg.failed, work |-> WorkOn(name)]
  BY <1>1
<1>3. QED
  BY <1>2 DEF run

\* An FE that gets another frontend stays the FE of whose it is.
LEMMA NextFrontend ==
    ASSUME NEW fe, IsFE(fe), NEW frontend
    PROVE  /\ IsFE(WithFrontend(fe, frontend))
           /\ WithFrontend(fe, frontend).there = fe.there
           /\ WithFrontend(fe, frontend).source = fe.source
<1> DEFINE bumped == [fe EXCEPT !.gen = @ + 1]
           new == [bumped EXCEPT !.frontend = frontend]
<1>1. bumped = [there |-> fe.there, source |-> fe.source, frontend |-> fe.frontend,
                gen |-> fe.gen + 1, intent |-> fe.intent]
  BY DEF IsFE
<1> HIDE DEF bumped
<1>2. new = [there |-> fe.there, source |-> fe.source, frontend |-> frontend,
             gen |-> fe.gen + 1, intent |-> fe.intent]
  BY <1>1
<1> HIDE DEF new
<1>3. IsFE(new) /\ new.there = fe.there /\ new.source = fe.source
  BY <1>2 DEF IsFE
<1>4. WithFrontend(fe, frontend) = fe \/ WithFrontend(fe, frontend) = new
  BY DEF WithFrontend, new, bumped
<1>5. QED
  BY <1>3, <1>4

\* The FEs that the migrator and people write.
LEMMA NextFEs ==
    ASSUME NEW fe, IsFE(fe), NEW frontend, NEW source, NEW intent
    PROVE  /\ [fe EXCEPT !.source = source] =
                 [there |-> fe.there, source |-> source, frontend |-> fe.frontend,
                  gen |-> fe.gen, intent |-> fe.intent]
           /\ [fe EXCEPT !.intent = intent] =
                 [there |-> fe.there, source |-> fe.source, frontend |-> fe.frontend,
                  gen |-> fe.gen, intent |-> intent]
           /\ IsFE(NewFE(source, frontend)) /\ IsFE(AbsentFE)
           /\ NewFE(source, frontend).there /\ NewFE(source, frontend).source = source
BY DEF IsFE, NewFE, AbsentFE

-----------------------------------------------------------------------------
(* The inductive invariant.                                                *)

\* The FE of this FI is there and is the migrator's own.
Mine(n) == fes[n].there /\ fes[n].source = n

\* Once the migrator has looked at the FE of the FI in hand, and unless people
\* change it behind its back, the FE is the migrator's own; it is published as
\* the upsert has returned it, and is still as it was published when its FI
\* goes.
InHand ==
    mg.work.pc \in {"patch", "intent", "delete", "wait"} /\ Name \notin touched =>
        /\ Mine(Name)
        /\ mg.work.pc = "intent" =>
             mg.work.fe.gen = fes[Name].gen /\ mg.work.fe.frontend = fes[Name].frontend
        /\ mg.work.pc = "delete" /\ mg.work.fi.enabled =>
             fes[Name].intent = PublishIntent(fes[Name])

\* An FI that is made from now on is none of those there are or were listed.
OldUids == \A n \in Names : fis[n].uid <= events + 1 /\ mg.listed[n] <= events + 1

HandedOver(n) == fis[n].uid # mg.listed[n] /\ (n \in touched \/ Mine(n))

Holds(n) == mg.work.pc # "none" /\ Name = n

\* An FI of the list is still to be taken, or in hand, or has failed, or has
\* gone and left its FE.
Scanned ==
    mg.phase = "Running" =>
        \A n \in Names :
            mg.listed[n] # 0 /\ n \notin DOMAIN mg.todo /\ n \notin mg.failed /\ ~Holds(n)
            => HandedOver(n)

IInv == Shapes /\ InHand /\ OldUids /\ Scanned

-----------------------------------------------------------------------------
(* The shapes are kept.                                                    *)

LEMMA InitShapes == Init => Shapes
<1> SUFFICES ASSUME Init PROVE Shapes
  OBVIOUS
<1>1. fis \in [Names -> FI]
  <2>1. AbsentFI \in FI
    BY DEF AbsentFI, FI, Maybe
  <2>2. \A frontend \in Frontends \cup {Plain}, enabled, held \in BOOLEAN :
          NewFI(1, frontend, enabled, held) \in FI
    BY DEF NewFI, FI, Maybe
  <2>3. ASSUME NEW name \in Names, NEW fi \in FI
        PROVE  [[n \in Names |-> AbsentFI] EXCEPT ![name] = fi] \in [Names -> FI]
    BY <2>1
  <2>4. CASE \E name \in Names, frontend \in Frontends, enabled \in BOOLEAN :
               fis = [[n \in Names |-> AbsentFI] EXCEPT
                         ![name] = NewFI(1, frontend, enabled, FALSE)]
    <3>1. PICK name \in Names, frontend \in Frontends, enabled \in BOOLEAN :
               fis = [[n \in Names |-> AbsentFI] EXCEPT
                         ![name] = NewFI(1, frontend, enabled, FALSE)]
      BY <2>4
    <3>2. NewFI(1, frontend, enabled, FALSE) \in FI
      BY <2>2
    <3>3. QED
      BY <2>3, <3>1, <3>2
  <2>5. CASE \E held, enabled \in [Names -> BOOLEAN] :
               fis = [n \in Names |-> NewFI(1, Plain, enabled[n], held[n])]
    BY <2>2, <2>5
  <2>6. QED
    BY <2>4, <2>5 DEF Init
<1>2. fes = [n \in Names |-> fes[n]] /\ \A n \in Names : IsFE(fes[n])
  <2>1. fes = [n \in Names |-> AbsentFE]
    BY DEF Init
  <2>2. IsFE(AbsentFE)
    BY DEF IsFE, AbsentFE
  <2>3. QED
    BY <2>1, <2>2
<1>3. IsRun(mg) /\ mg.listed \in [Names -> Nat] /\ mg.phase # "Running" /\ mg.work.pc = "none"
  BY DEF Init, NoRun, NoWork, IsRun, IsWork
<1>4. events \in Nat
  <2>1. events = MaxEvents \/ events = 0
    BY Zenon DEF Init
  <2>2. QED
    BY <2>1, BoundAssumption
<1>5. QED
  BY <1>1, <1>2, <1>3, <1>4 DEF Shapes

\* The FEs after one of them is written.
LEMMA WrittenFEs ==
    ASSUME Shapes, NEW name \in Names, NEW fe, IsFE(fe), fes' = [fes EXCEPT ![name] = fe]
    PROVE  /\ fes' = [n \in Names |-> fes'[n]] /\ \A n \in Names : IsFE(fes'[n])
           /\ fes'[name] = fe
           /\ \A n \in Names \ {name} : fes'[n] = fes[n]
<1>1. fes' = [n \in Names |-> IF n = name THEN fe ELSE fes[n]]
  BY DEF Shapes
<1>2. QED
  BY <1>1 DEF Shapes

\* The FIs after one of them is written.
LEMMA WrittenFIs ==
    ASSUME Shapes, NEW name \in Names, NEW fi \in FI, fis' = [fis EXCEPT ![name] = fi]
    PROVE  /\ fis' \in [Names -> FI]
           /\ fis'[name] = fi
           /\ \A n \in Names \ {name} : fis'[n] = fis[n]
BY DEF Shapes

\* The FIs that the migrator and people write.
LEMMA NextFIs ==
    ASSUME Shapes, NEW fi \in FI
    PROVE  /\ AbsentFI \in FI /\ AbsentFI.uid = 0
           /\ [fi EXCEPT !.deleting = TRUE] \in FI
           /\ [fi EXCEPT !.deleting = TRUE].uid = fi.uid
           /\ \A frontend \in Edits : /\ [fi EXCEPT !.frontend = frontend] \in FI
                                      /\ [fi EXCEPT !.frontend = frontend].uid = fi.uid
           /\ [fi EXCEPT !.enabled = ~@] \in FI
           /\ [fi EXCEPT !.enabled = ~@].uid = fi.uid
           /\ NewFI(events + 2, Plain, TRUE, FALSE) \in FI
           /\ NewFI(events + 2, Plain, TRUE, FALSE).uid = events + 2
<1>1. AbsentFI \in FI /\ AbsentFI.uid = 0
  BY DEF AbsentFI, FI, Maybe
<1>2. /\ [fi EXCEPT !.deleting = TRUE] \in FI
      /\ [fi EXCEPT !.deleting = TRUE].uid = fi.uid
  BY DEF FI
<1>3. ASSUME NEW frontend \in Edits
      PROVE  /\ [fi EXCEPT !.frontend = frontend] \in FI
             /\ [fi EXCEPT !.frontend = frontend].uid = fi.uid
  BY DEF FI, Maybe
<1>4. [fi EXCEPT !.enabled = ~@] \in FI /\ [fi EXCEPT !.enabled = ~@].uid = fi.uid
  BY DEF FI
<1>5. /\ NewFI(events + 2, Plain, TRUE, FALSE) \in FI
      /\ NewFI(events + 2, Plain, TRUE, FALSE).uid = events + 2
  BY DEF NewFI, FI, Maybe, Shapes
<1>6. QED
  BY <1>1, <1>2, <1>3, <1>4, <1>5

LEMMA RunShapes ==
    ASSUME NEW run, NEW phase, NEW listed, NEW todo, NEW failed, NEW work,
           run = [phase |-> phase, listed |-> listed, todo |-> todo, failed |-> failed,
                  work |-> work], IsWork(work)
    PROVE  /\ IsRun(run)
           /\ run.phase = phase /\ run.listed = listed /\ run.todo = todo
           /\ run.failed = failed /\ run.work = work
BY DEF IsRun

\* What the migrator has in hand after a step that is neither the first nor the
\* last of a run: the list stays, and it knows of no FI more.
LEMMA NextRuns ==
    ASSUME Shapes, NEW pc
    PROVE  /\ IsRun(Goto(pc)) /\ Goto(pc).phase = mg.phase /\ Goto(pc).listed = mg.listed
           /\ Goto(pc).todo = mg.todo /\ Goto(pc).failed = mg.failed
           /\ Goto(pc).work = [pc |-> pc, name |-> Name, fi |-> mg.work.fi, fe |-> mg.work.fe]
           /\ IsRun(DoneWithOne) /\ DoneWithOne.phase = mg.phase
           /\ DoneWithOne.listed = mg.listed /\ DoneWithOne.todo = mg.todo
           /\ DoneWithOne.failed = mg.failed /\ DoneWithOne.work = NoWork
           /\ IsRun(FailedOne) /\ FailedOne.phase = mg.phase
           /\ FailedOne.listed = mg.listed /\ FailedOne.todo = mg.todo
           /\ FailedOne.failed = mg.failed \cup {Name} /\ FailedOne.work = NoWork
<1>1. IsWork(NoWork)
  BY DEF IsWork, NoWork
<1>2. IsWork([pc |-> pc, name |-> Name, fi |-> mg.work.fi, fe |-> mg.work.fe])
  BY DEF IsWork
<1>3. IsRun(mg)
  BY DEF Shapes
<1>4. QED
  BY <1>1, <1>2, <1>3, NextWork, NextDone, RunShapes

LEMMA NextUpsertedRun ==
    ASSUME Shapes, NEW fe
    PROVE  /\ IsRun(GoOnWith(fe)) /\ GoOnWith(fe).phase = mg.phase
           /\ GoOnWith(fe).listed = mg.listed /\ GoOnWith(fe).todo = mg.todo
           /\ GoOnWith(fe).failed = mg.failed
           /\ GoOnWith(fe).work =
                [pc |-> AfterUpsert, name |-> Name, fi |-> mg.work.fi, fe |-> fe]
<1>1. IsWork([pc |-> AfterUpsert, name |-> Name, fi |-> mg.work.fi, fe |-> fe])
  BY DEF IsWork
<1>2. IsRun(mg)
  BY DEF Shapes
<1>3. QED
  BY <1>1, <1>2, NextUpserted, RunShapes

\* A step changes at most one FI: to one that is gone, one of the same uid, or
\* one that is made anew.
NewFIOf(name, fi) ==
    /\ fis' = [fis EXCEPT ![name] = fi]
    /\ \/ fi.uid = 0
       \/ fi.uid = fis[name].uid
       \/ fi.uid = events + 2 /\ events' = events + 1

LEMMA NextFI ==
    ASSUME Shapes, [Next]_vars
    PROVE  UNCHANGED fis \/ \E name \in Names, fi \in FI : NewFIOf(name, fi)
<1> DEFINE Goal == UNCHANGED fis \/ \E name \in Names, fi \in FI : NewFIOf(name, fi)
<1>1. CASE DeleteIntegration
  <2>1. Name \in Names
    BY <1>1 DEF Shapes, DeleteIntegration, At, Name
  <2>2. fis[Name] \in FI
    BY <2>1 DEF Shapes
  <2> DEFINE fi == IF fis[Name].held THEN [fis[Name] EXCEPT !.deleting = TRUE] ELSE AbsentFI
  <2>3. fi \in FI /\ (fi.uid = 0 \/ fi.uid = fis[Name].uid)
    BY <2>2, NextFIs
  <2>4. fis' = [fis EXCEPT ![Name] = fi]
    BY <1>1 DEF DeleteIntegration
  <2> HIDE DEF fi
  <2>5. NewFIOf(Name, fi)
    BY <2>3, <2>4 DEF NewFIOf
  <2>6. QED
    BY <2>1, <2>3, <2>5
<1>2. ASSUME NEW name \in Names, ReleaseIntegration(name) PROVE Goal
  <2>1. AbsentFI \in FI /\ AbsentFI.uid = 0
    BY DEF AbsentFI, FI, Maybe
  <2>2. NewFIOf(name, AbsentFI)
    BY <1>2, <2>1 DEF ReleaseIntegration, NewFIOf
  <2>3. QED
    BY <2>1, <2>2
<1>3. ASSUME NEW name \in Names, NEW kind, NEW fi \in FI, UserSetsFI(kind, name, fi),
             fi.uid = fis[name].uid \/ fi.uid = events + 2
      PROVE  Goal
  <2>1. NewFIOf(name, fi)
    BY <1>3 DEF UserSetsFI, Disturb, NewFIOf
  <2>2. QED
    BY <2>1
<1>4. ASSUME NEW name \in Names, ToggleIntegration(name) PROVE Goal
  <2>1. fis[name] \in FI
    BY DEF Shapes
  <2>2. QED
    BY <1>3, <1>4, <2>1, NextFIs DEF ToggleIntegration
<1>5. ASSUME NEW name \in Names, RecreateIntegration(name) PROVE Goal
  <2>1. fis[name] \in FI
    BY DEF Shapes
  <2>2. QED
    BY <1>3, <1>5, <2>1, NextFIs DEF RecreateIntegration
<1>6. ASSUME NEW name \in Names, NEW frontend \in Edits, EditIntegration(name, frontend)
      PROVE  Goal
  <2>1. fis[name] \in FI
    BY DEF Shapes
  <2>2. QED
    BY <1>3, <1>6, <2>1, NextFIs DEF EditIntegration
<1>7. QED
  BY <1>1, <1>2, <1>4, <1>5, <1>6
  DEF Next, vars, Migrator, World, ListIntegrations, GiveUp, Take, Finish, GetExtension,
      CreateExtension, PatchExtension, PatchPublishIntent, AwaitDeletion, CallFails,
      JobDies, Upgrade, EstablishCRDs, RemoveExtension, EditExtension, CreateForeign,
      UserSetsFE

\* Every kind of outside event is counted.
LEMMA NextEvents == [Next]_vars => events' = events \/ events' = events + 1
BY Zenon DEF Next, vars, Migrator, World, ListIntegrations, GiveUp, Take, Finish,
    GetExtension, CreateExtension, PatchExtension, PatchPublishIntent,
    DeleteIntegration, AwaitDeletion, CallFails, JobDies, Upgrade, EstablishCRDs,
    ReleaseIntegration, ToggleIntegration, RecreateIntegration, EditIntegration,
    UserSetsFI, RemoveExtension, EditExtension, CreateForeign, UserSetsFE, Calm, Disturb

LEMMA NextShapes == Shapes /\ [Next]_vars => Shapes'
<1> SUFFICES ASSUME Shapes, [Next]_vars PROVE Shapes'
  OBVIOUS
<1>1. (fis \in [Names -> FI])'
  <2>1. CASE UNCHANGED fis
    BY <2>1 DEF Shapes
  <2>2. ASSUME NEW name \in Names, NEW fi \in FI, NewFIOf(name, fi)
        PROVE  fis' \in [Names -> FI]
    BY <2>2, WrittenFIs DEF NewFIOf
  <2>3. QED
    BY <2>1, <2>2, NextFI
<1>2. (fes = [n \in Names |-> fes[n]] /\ \A n \in Names : IsFE(fes[n]))'
  <2>0. CASE UNCHANGED fes
    BY <2>0 DEF Shapes
  <2>1. CASE CreateExtension
    <3>1. CASE UNCHANGED fes
      BY <3>1 DEF Shapes
    <3>2. CASE Upserted(NewFE(Name, Desired))
      <4>1. Name \in Names /\ IsFE(NewFE(Name, Desired))
        BY <2>1, Zenon DEF Shapes, CreateExtension, At, Name, IsFE, NewFE
      <4>2. QED
        BY <3>2, <4>1, WrittenFEs DEF Upserted
    <3>3. QED
      BY <2>1, <3>1, <3>2 DEF CreateExtension
  <2>2. CASE PatchExtension
    <3>1. CASE UNCHANGED fes
      BY <3>1 DEF Shapes
    <3> DEFINE fe == WithFrontend(fes[Name], MergedFrontend(fes[Name].frontend, Desired))
    <3>2. CASE Upserted([fe EXCEPT !.source = Name])
      <4>1. Name \in Names
        BY <2>2 DEF Shapes, PatchExtension, At, Name
      <4>2. IsFE(fe)
        BY <4>1, NextFrontend DEF Shapes
      <4> HIDE DEF fe
      <4>3. IsFE([fe EXCEPT !.source = Name])
        BY <4>2 DEF IsFE
      <4>4. QED
        BY <3>2, <4>1, <4>3, WrittenFEs DEF Upserted
    <3>3. QED
      BY <2>2, <3>1, <3>2 DEF PatchExtension
  <2>3. CASE PatchPublishIntent
    <3>1. CASE UNCHANGED fes
      BY <3>1 DEF Shapes
    <3>2. CASE fes' = [fes EXCEPT ![Name].intent = PublishIntent(mg.work.fe)]
      <4>1. Name \in Names /\ IsFE(fes[Name])
        BY <2>3 DEF Shapes, PatchPublishIntent, At, Name
      <4>2. IsFE([fes[Name] EXCEPT !.intent = PublishIntent(mg.work.fe)])
        BY <4>1 DEF IsFE
      <4>3. fes' = [fes EXCEPT
                      ![Name] = [fes[Name] EXCEPT !.intent = PublishIntent(mg.work.fe)]]
        BY <3>2
      <4>4. QED
        BY <4>1, <4>2, <4>3, WrittenFEs
    <3>3. QED
      BY <2>3, <3>1, <3>2 DEF PatchPublishIntent
  <2>4. ASSUME NEW name \in Names, NEW kind, NEW fe, IsFE(fe), UserSetsFE(kind, name, fe)
        PROVE  (fes = [n \in Names |-> fes[n]] /\ \A n \in Names : IsFE(fes[n]))'
    BY <2>4, WrittenFEs DEF UserSetsFE
  <2>5. ASSUME NEW name \in Names, NEW frontend \in ExtensionEdits,
               EditExtension(name, frontend)
        PROVE  (fes = [n \in Names |-> fes[n]] /\ \A n \in Names : IsFE(fes[n]))'
    <3>1. IsFE(WithFrontend(fes[name], frontend))
      BY NextFrontend DEF Shapes
    <3>2. QED
      BY <2>4, <2>5, <3>1 DEF EditExtension
  <2>6. ASSUME NEW name \in Names, RemoveExtension(name)
        PROVE  (fes = [n \in Names |-> fes[n]] /\ \A n \in Names : IsFE(fes[n]))'
    <3>1. IsFE(AbsentFE)
      BY DEF IsFE, AbsentFE
    <3>2. QED
      BY <2>4, <2>6, <3>1 DEF RemoveExtension
  <2>7. ASSUME NEW name \in Names, NEW frontend \in ExtensionEdits,
               CreateForeign(name, frontend)
        PROVE  (fes = [n \in Names |-> fes[n]] /\ \A n \in Names : IsFE(fes[n]))'
    <3>1. IsFE(NewFE(Foreign, frontend))
      BY DEF IsFE, NewFE
    <3>2. QED
      BY <2>4, <2>7, <3>1 DEF CreateForeign
  <2>8. QED
    BY <2>0, <2>1, <2>2, <2>3, <2>5, <2>6, <2>7
    DEF Next, vars, Migrator, World, ListIntegrations, GiveUp, Take, Finish, GetExtension,
        DeleteIntegration, AwaitDeletion, CallFails, JobDies, Upgrade, EstablishCRDs,
        ReleaseIntegration, ToggleIntegration, RecreateIntegration, EditIntegration,
        UserSetsFI
<1> DEFINE RunOK ==
      /\ IsRun(mg)
      /\ mg.listed \in [Names -> Nat]
      /\ mg.phase = "Running" => DOMAIN mg.todo \subseteq Names
      /\ mg.work.pc # "none" => mg.phase = "Running" /\ mg.work.name \in Names
<1>3. RunOK'
  <2>0. CASE UNCHANGED mg
    BY <2>0 DEF Shapes
  <2>1. CASE ListIntegrations
    <3>1. [n \in Names |-> fis[n].uid] \in [Names -> Nat]
      BY DEF Shapes, FI
    <3>2. IsWork(NoWork) /\ NoWork.pc = "none"
      BY DEF IsWork, NoWork
    <3>3. /\ IsRun(mg') /\ mg'.phase = "Running" /\ mg'.work = NoWork
          /\ mg'.listed = [n \in Names |-> fis[n].uid]
          /\ mg'.todo = [n \in {m \in Names : fis[m].uid # 0} |-> fis[n]]
      BY <2>1, <3>2 DEF ListIntegrations, IsRun
    <3>4. QED
      BY <3>1, <3>2, <3>3
  <2>2. CASE GiveUp \/ Finish
    <3>1. PICK phase \in Ended : mg' = [mg EXCEPT !.phase = phase]
      BY <2>2 DEF GiveUp, Finish, Ended
    <3>2. mg' = [phase |-> phase, listed |-> mg.listed, todo |-> mg.todo,
                 failed |-> mg.failed, work |-> mg.work]
      BY <3>1 DEF Shapes, IsRun
    <3>3. /\ IsRun(mg') /\ mg'.phase # "Running" /\ mg'.work = mg.work
          /\ mg'.listed = mg.listed
      BY <3>2 DEF Shapes, IsRun, Ended
    <3>4. mg.work.pc = "none"
      BY <2>2 DEF GiveUp, Finish, Idle, Shapes
    <3>5. QED
      BY <3>3, <3>4 DEF Shapes
  <2>3. ASSUME NEW name \in Names, Take(name)
        PROVE  RunOK'
    <3>1. mg' = [phase |-> mg.phase, listed |-> mg.listed,
                 todo |-> [n \in DOMAIN mg.todo \ {name} |-> mg.todo[n]],
                 failed |-> mg.failed, work |-> WorkOn(name)]
      BY <2>3, NextTaken DEF Take, Shapes
    <3>2. IsWork(WorkOn(name)) /\ WorkOn(name).name = name
      BY DEF WorkOn, IsWork
    <3>3. /\ IsRun(mg') /\ mg'.phase = mg.phase /\ mg'.work = WorkOn(name)
          /\ mg'.listed = mg.listed
          /\ mg'.todo = [n \in DOMAIN mg.todo \ {name} |-> mg.todo[n]]
      BY <3>1, <3>2 DEF IsRun
    <3>4. mg.phase = "Running"
      BY <2>3 DEF Take, Idle
    <3>5. QED
      BY <3>2, <3>3, <3>4 DEF Shapes
  <2>4. ASSUME mg.work.pc # "none",
               \/ \E pc : mg' = Goto(pc)
               \/ mg' = DoneWithOne
               \/ mg' = FailedOne
               \/ \E fe : mg' = GoOnWith(fe)
        PROVE  RunOK'
    <3>0. NoWork.pc = "none"
      BY DEF NoWork
    <3>1. ASSUME NEW pc, mg' = Goto(pc) PROVE RunOK'
      <4>1. /\ IsRun(mg') /\ mg'.phase = mg.phase /\ mg'.listed = mg.listed
            /\ mg'.todo = mg.todo
            /\ mg'.work = [pc |-> pc, name |-> Name, fi |-> mg.work.fi, fe |-> mg.work.fe]
        BY <3>1, NextRuns
      <4>2. mg'.work.name = mg.work.name
        BY <4>1 DEF Name
      <4>3. QED
        BY <2>4, <4>1, <4>2 DEF Shapes
    <3>2. CASE mg' = DoneWithOne
      BY <3>0, <3>2, NextRuns DEF Shapes
    <3>3. CASE mg' = FailedOne
      BY <3>0, <3>3, NextRuns DEF Shapes
    <3>4. ASSUME NEW fe, mg' = GoOnWith(fe) PROVE RunOK'
      <4>1. /\ IsRun(mg') /\ mg'.phase = mg.phase /\ mg'.listed = mg.listed
            /\ mg'.todo = mg.todo
            /\ mg'.work = [pc |-> AfterUpsert, name |-> Name, fi |-> mg.work.fi, fe |-> fe]
        BY <3>4, NextUpsertedRun
      <4>2. mg'.work.name = mg.work.name
        BY <4>1 DEF Name
      <4>3. QED
        BY <2>4, <4>1, <4>2 DEF Shapes
    <3>5. QED
      BY <2>4, <3>1, <3>2, <3>3, <3>4
  <2>5. CASE GetExtension \/ CreateExtension \/ PatchExtension \/ PatchPublishIntent
             \/ DeleteIntegration \/ AwaitDeletion \/ CallFails
    BY <2>4, <2>5
    DEF GetExtension, CreateExtension, PatchExtension, PatchPublishIntent,
        DeleteIntegration, AwaitDeletion, CallFails, Upserted, At
  <2>6. CASE JobDies \/ Upgrade
    <3>1. PICK phase \in {"Waiting", "Failed"} :
            mg' = [phase |-> phase, listed |-> [n \in Names |-> 0], todo |-> <<>>,
                   failed |-> {}, work |-> NoWork]
      BY <2>6 DEF JobDies, Upgrade, NoRun
    <3>2. IsWork(NoWork) /\ NoWork.pc = "none"
      BY DEF IsWork, NoWork
    <3>3. /\ IsRun(mg') /\ mg'.phase # "Running" /\ mg'.work = NoWork
          /\ mg'.listed = [n \in Names |-> 0]
      BY <3>1, <3>2 DEF IsRun
    <3>4. QED
      BY <3>2, <3>3
  <2>7. QED
    BY <2>0, <2>1, <2>2, <2>3, <2>5, <2>6
    DEF Next, vars, Migrator, World, EstablishCRDs, ReleaseIntegration,
        ToggleIntegration, RecreateIntegration, EditIntegration, UserSetsFI,
        RemoveExtension, EditExtension, CreateForeign, UserSetsFE
<1>4. (events \in Nat)'
  BY NextEvents DEF Shapes
<1>5. QED
  BY <1>1, <1>2, <1>3, <1>4 DEF Shapes

-----------------------------------------------------------------------------
(* The FI in hand.                                                         *)

\* A step that writes no FE, and after which nothing or a fresh FI is in hand.
LEMMA NothingInHand ==
    ASSUME mg'.work.pc \in {"none", "get", "create"}
    PROVE  InHand'
BY DEF InHand

LEMMA NextInHand == Shapes /\ InHand /\ [Next]_vars => InHand'
<1> SUFFICES ASSUME Shapes, InHand, [Next]_vars PROVE InHand'
  OBVIOUS
<1> USE DEF Name
<1>0. NoWork.pc = "none"
  BY DEF NoWork
<1>1. CASE ListIntegrations \/ JobDies \/ Upgrade
  <2>1. mg'.work = NoWork
    BY <1>1 DEF ListIntegrations, JobDies, Upgrade, NoRun
  <2>2. QED
    BY <1>0, <2>1, NothingInHand
<1>2. CASE GiveUp \/ Finish
  <2>1. mg'.work = mg.work
    BY <1>2 DEF GiveUp, Finish, Shapes, IsRun
  <2>2. mg.work.pc = "none"
    BY <1>2 DEF GiveUp, Finish, Idle, Shapes
  <2>3. QED
    BY <2>1, <2>2, NothingInHand
<1>3. ASSUME NEW name \in Names, Take(name) PROVE InHand'
  <2>1. IsRun(mg)
    BY DEF Shapes
  <2>2. mg'.work = WorkOn(name)
    BY <1>3, <2>1, NextTaken DEF Take
  <2>3. mg'.work.pc = "get"
    BY <2>2 DEF WorkOn
  <2>4. QED
    BY <2>3, NothingInHand
<1>4. CASE mg' = DoneWithOne \/ mg' = FailedOne
  BY <1>0, <1>4, NextRuns, NothingInHand
<1>5. CASE GetExtension
  <2>1. CASE mg' = Goto("create")
    <3>1. mg'.work = [pc |-> "create", name |-> Name, fi |-> mg.work.fi, fe |-> mg.work.fe]
      BY <2>1, NextRuns
    <3>2. QED
      BY <3>1, NothingInHand
  <2>2. CASE mg' = Goto("patch") /\ Mine(Name)
    <3>1. mg'.work = [pc |-> "patch", name |-> Name, fi |-> mg.work.fi, fe |-> mg.work.fe]
      BY <2>2, NextRuns
    <3>2. UNCHANGED fes
      BY <1>5 DEF GetExtension
    <3>3. QED
      BY <2>2, <3>1, <3>2 DEF InHand, Mine
  <2>3. QED
    BY <1>4, <1>5, <2>1, <2>2 DEF GetExtension, ManagedByFI, Mine
<1>6. ASSUME NEW fe, Upserted(fe), fe.there, fe.source = Name, At("create") \/ At("patch")
      PROVE  InHand'
  <2>1. mg'.work = [pc |-> AfterUpsert, name |-> Name, fi |-> mg.work.fi, fe |-> fe]
    BY <1>6, NextUpsertedRun DEF Upserted
  <2>2. fes'[Name] = fe
    BY <1>6 DEF Upserted, Shapes, At
  <2>3. AfterUpsert = IF mg'.work.fi.enabled THEN "intent" ELSE "delete"
    BY <2>1 DEF AfterUpsert
  <2>4. QED
    BY <1>6, <2>1, <2>2, <2>3 DEF InHand, Mine
<1>7. CASE CreateExtension
  <2>1. /\ NewFE(Name, Desired).there /\ NewFE(Name, Desired).source = Name
    BY DEF NewFE
  <2>2. QED
    BY <1>4, <1>6, <1>7, <2>1 DEF CreateExtension
<1>8. CASE PatchExtension
  <2> DEFINE old == WithFrontend(fes[Name], MergedFrontend(fes[Name].frontend, Desired))
             fe == [old EXCEPT !.source = Name]
  <2>1. Name \in Names
    BY <1>8 DEF PatchExtension, At, Shapes
  <2>2. IsFE(old) /\ old.there = fes[Name].there
    BY <2>1, NextFrontend DEF Shapes
  <2>3. PatchExtension => IF fes[Name].there THEN Upserted(fe) ELSE mg' = FailedOne
    BY DEF PatchExtension
  <2> HIDE DEF old
  <2>4. fe.there = fes[Name].there /\ fe.source = Name
    BY <2>2, NextFEs
  <2> HIDE DEF fe
  <2>5. QED
    BY <1>4, <1>6, <1>8, <2>3, <2>4 DEF PatchExtension
<1>9. CASE PatchPublishIntent
  <2>1. Name \in Names /\ IsFE(fes[Name]) /\ mg.work.pc = "intent"
    BY <1>9 DEF PatchPublishIntent, At, Shapes
  <2>2. CASE /\ fes' = [fes EXCEPT ![Name].intent = PublishIntent(mg.work.fe)]
             /\ mg' = Goto("delete")
    <3>1. mg'.work = [pc |-> "delete", name |-> Name, fi |-> mg.work.fi, fe |-> mg.work.fe]
      BY <2>2, NextRuns
    <3>2. fes'[Name] = [fes[Name] EXCEPT !.intent = PublishIntent(mg.work.fe)]
      BY <2>1, <2>2 DEF Shapes
    <3>3. fes'[Name] = [there |-> fes[Name].there, source |-> fes[Name].source,
                        frontend |-> fes[Name].frontend, gen |-> fes[Name].gen,
                        intent |-> PublishIntent(mg.work.fe)]
      BY <2>1, <3>2, NextFEs
    <3>4. touched' = touched
      BY <1>9 DEF PatchPublishIntent
    <3>5. QED
      BY <2>1, <3>1, <3>3, <3>4 DEF InHand, Mine, PublishIntent
  <2>3. QED
    BY <1>4, <1>9, <2>2 DEF PatchPublishIntent
<1>10. CASE DeleteIntegration
  <2>1. mg'.work = [pc |-> "wait", name |-> Name, fi |-> mg.work.fi, fe |-> mg.work.fe]
    BY <1>10, NextRuns DEF DeleteIntegration
  <2>2. QED
    BY <1>10, <2>1 DEF DeleteIntegration, At, InHand, Mine
<1>11. CASE AwaitDeletion \/ CallFails
  BY <1>4, <1>11 DEF AwaitDeletion, CallFails
<1>12. ASSUME UNCHANGED <<mg, fes, touched>> PROVE InHand'
  BY <1>12 DEF InHand, Mine, PublishIntent
<1>13. ASSUME NEW name \in Names, NEW kind, NEW fe, UserSetsFE(kind, name, fe)
       PROVE  InHand'
  <2>1. touched' = touched \cup {name} /\ mg' = mg
    BY <1>13 DEF UserSetsFE
  <2>2. \A n \in Names \ {name} : fes'[n] = fes[n]
    BY <1>13 DEF UserSetsFE, Shapes
  <2>3. mg.work.pc # "none" => Name \in Names
    BY DEF Shapes
  <2>4. QED
    BY <2>1, <2>2, <2>3 DEF InHand, Mine, PublishIntent
<1>14. QED
  BY <1>1, <1>2, <1>3, <1>5, <1>7, <1>8, <1>9, <1>10, <1>11, <1>12, <1>13
  DEF Next, vars, Migrator, World, EstablishCRDs, ReleaseIntegration,
      ToggleIntegration, RecreateIntegration, EditIntegration, UserSetsFI,
      RemoveExtension, EditExtension, CreateForeign

-----------------------------------------------------------------------------
(* What a run has done.                                                    *)

\* A step keeps what the run has listed, unless a run begins or ends.
LEMMA NextListed ==
    ASSUME Shapes, [Next]_vars, NEW n \in Names
    PROVE  \/ mg'.listed[n] \in {mg.listed[n], 0}
           \/ mg'.listed[n] = fis[n].uid /\ UNCHANGED <<fis, events>>
<1> DEFINE Goal == \/ mg'.listed[n] \in {mg.listed[n], 0}
                   \/ mg'.listed[n] = fis[n].uid /\ UNCHANGED <<fis, events>>
<1>1. CASE ListIntegrations
  BY <1>1 DEF ListIntegrations, Calm
<1>2. CASE JobDies \/ Upgrade
  BY <1>2 DEF JobDies, Upgrade, NoRun
<1>3. CASE GiveUp \/ Finish
  BY <1>3 DEF GiveUp, Finish, Shapes, IsRun
<1>4. ASSUME NEW name \in Names, Take(name) PROVE Goal
  <2>1. IsRun(mg)
    BY DEF Shapes
  <2>2. mg'.listed = mg.listed
    BY <1>4, <2>1, NextTaken DEF Take
  <2>3. QED
    BY <2>2
<1>5. CASE mg' = DoneWithOne \/ mg' = FailedOne
  BY <1>5, NextRuns
<1>6. ASSUME NEW pc, mg' = Goto(pc) PROVE Goal
  BY <1>6, NextRuns
<1>7. ASSUME NEW fe, mg' = GoOnWith(fe) PROVE Goal
  BY <1>7, NextUpsertedRun
<1>8. CASE UNCHANGED mg
  BY <1>8
<1>9. QED
  BY <1>1, <1>2, <1>3, <1>4, <1>5, <1>6, <1>7, <1>8
  DEF Next, vars, Migrator, World, GetExtension, CreateExtension, PatchExtension,
      PatchPublishIntent, DeleteIntegration, AwaitDeletion, CallFails, Upserted,
      EstablishCRDs, ReleaseIntegration, ToggleIntegration, RecreateIntegration,
      EditIntegration, UserSetsFI, RemoveExtension, EditExtension, CreateForeign,
      UserSetsFE

LEMMA NextOldUids == Shapes /\ OldUids /\ [Next]_vars => OldUids'
<1> SUFFICES ASSUME Shapes, OldUids, [Next]_vars PROVE OldUids'
  OBVIOUS
<1>0. /\ events \in Nat
      /\ \A n \in Names : fis[n] \in FI /\ fis[n].uid \in Nat /\ mg.listed[n] \in Nat
  BY DEF Shapes, FI
<1>1. events' = events \/ events' = events + 1
  BY NextEvents
<1>2. \A n \in Names : fis'[n].uid <= events' + 1
  <2>1. CASE UNCHANGED fis
    BY <1>0, <1>1, <2>1 DEF OldUids
  <2>2. ASSUME NEW name \in Names, NEW fi \in FI, NewFIOf(name, fi)
        PROVE  \A n \in Names : fis'[n].uid <= events' + 1
    <3>1. fis'[name] = fi /\ \A n \in Names \ {name} : fis'[n] = fis[n]
      BY <2>2, WrittenFIs DEF NewFIOf
    <3>2. QED
      BY <1>0, <1>1, <2>2, <3>1 DEF OldUids, NewFIOf
  <2>3. QED
    BY <2>1, <2>2, NextFI
<1>3. ASSUME NEW n \in Names PROVE mg'.listed[n] <= events' + 1
  BY <1>0, <1>1, NextListed DEF OldUids
<1>4. QED
  BY <1>2, <1>3 DEF OldUids

\* The migrator leaves the FE of an FI alone that it does not have in hand, and
\* what people do to one is noted.
LEMMA OthersFE ==
    ASSUME Shapes, [Next]_vars, NEW n \in Names, ~Holds(n)
    PROVE  n \in touched' \/ (fes'[n] = fes[n] /\ n \notin touched)
<1> DEFINE Goal == n \in touched' \/ (fes'[n] = fes[n] /\ n \notin touched)
<1>1. CASE UNCHANGED <<fes, touched>>
  BY <1>1
<1>2. CASE GetExtension
  BY <1>2 DEF GetExtension, At, Holds
<1>3. ASSUME NEW fe, fes' = [fes EXCEPT ![Name] = fe], mg.work.pc # "none",
             UNCHANGED touched
      PROVE  Goal
  BY <1>3 DEF Shapes, Holds
<1>4. CASE CreateExtension \/ PatchExtension
  BY <1>1, <1>3, <1>4 DEF CreateExtension, PatchExtension, Upserted, At
<1>5. CASE PatchPublishIntent
  <2>1. CASE fes' = [fes EXCEPT ![Name].intent = PublishIntent(mg.work.fe)]
    BY <1>5, <2>1 DEF PatchPublishIntent, At, Shapes, Holds
  <2>2. QED
    BY <1>1, <1>5, <2>1 DEF PatchPublishIntent
<1>6. ASSUME NEW name \in Names, NEW kind, NEW fe, UserSetsFE(kind, name, fe)
      PROVE  Goal
  BY <1>6 DEF UserSetsFE, Shapes
<1>7. QED
  BY <1>1, <1>2, <1>4, <1>5, <1>6
  DEF Next, vars, Migrator, World, ListIntegrations, GiveUp, Take, Finish,
      DeleteIntegration, AwaitDeletion, CallFails, JobDies, Upgrade, EstablishCRDs,
      ReleaseIntegration, ToggleIntegration, RecreateIntegration, EditIntegration,
      UserSetsFI, RemoveExtension, EditExtension, CreateForeign

\* What has been handed over stays so, whatever is done to other FIs, and
\* whatever people do to this one.
LEMMA StaysHandedOver ==
    ASSUME Shapes, OldUids, [Next]_vars, NEW n \in Names, ~Holds(n),
           mg.listed[n] # 0, mg'.listed[n] = mg.listed[n], HandedOver(n)
    PROVE  HandedOver(n)'
<1>1. fis'[n].uid # mg.listed[n]
  <2>1. CASE UNCHANGED fis
    BY <2>1 DEF HandedOver
  <2>2. ASSUME NEW name \in Names, NEW fi \in FI, NewFIOf(name, fi)
        PROVE  fis'[n].uid # mg.listed[n]
    <3>1. fis'[name] = fi /\ \A m \in Names \ {name} : fis'[m] = fis[m]
      BY <2>2, WrittenFIs DEF NewFIOf
    <3>2. mg.listed[n] <= events + 1 /\ mg.listed[n] \in Nat /\ events \in Nat
      BY DEF OldUids, Shapes
    <3>3. QED
      BY <2>2, <3>1, <3>2 DEF HandedOver, NewFIOf
  <2>3. QED
    BY <2>1, <2>2, NextFI
<1>2. (n \in touched \/ Mine(n))'
  BY OthersFE DEF HandedOver, Mine
<1>3. QED
  BY <1>1, <1>2 DEF HandedOver

LEMMA NextScanned == IInv /\ [Next]_vars => Scanned'
<1> SUFFICES ASSUME IInv, [Next]_vars,
                    mg'.phase = "Running",
                    NEW n \in Names, mg'.listed[n] # 0, n \notin DOMAIN mg'.todo,
                    n \notin mg'.failed, ~Holds(n)'
             PROVE  HandedOver(n)'
  BY DEF Scanned
<1>0. Shapes /\ InHand /\ OldUids /\ Scanned
  BY DEF IInv
<1>1. ASSUME mg.phase = "Running", mg'.listed = mg.listed, n \notin DOMAIN mg.todo,
             n \notin mg.failed, ~Holds(n)
      PROVE  HandedOver(n)'
  <2>1. HandedOver(n)
    BY <1>0, <1>1 DEF Scanned
  <2>2. QED
    BY <1>0, <1>1, <2>1, StaysHandedOver
<1>2. CASE ListIntegrations
  <2>1. n \in DOMAIN mg'.todo
    BY <1>2 DEF ListIntegrations
  <2>2. QED
    BY <2>1
<1>3. CASE JobDies \/ Upgrade
  BY <1>3 DEF JobDies, Upgrade, NoRun
<1>4. CASE GiveUp \/ Finish
  BY <1>0, <1>4 DEF GiveUp, Finish, Shapes, IsRun
<1>5. ASSUME NEW name \in Names, Take(name) PROVE HandedOver(n)'
  <2>1. IsRun(mg)
    BY <1>0 DEF Shapes
  <2>2. mg' = [phase |-> mg.phase, listed |-> mg.listed,
               todo |-> [m \in DOMAIN mg.todo \ {name} |-> mg.todo[m]],
               failed |-> mg.failed, work |-> WorkOn(name)]
    BY <1>5, <2>1, NextTaken DEF Take
  <2>3. WorkOn(name).pc = "get" /\ WorkOn(name).name = name
    BY DEF WorkOn
  <2>4. n # name
    BY <2>2, <2>3 DEF Holds, Name
  <2>5. ~Holds(n) /\ mg.phase = "Running"
    BY <1>5 DEF Take, Idle, Holds
  <2>6. QED
    BY <1>1, <2>2, <2>4, <2>5
<1>6. ASSUME mg.phase = "Running", mg.work.pc # "none", NEW pc \in Steps \ {"none"},
             mg' = Goto(pc)
      PROVE  HandedOver(n)'
  <2>1. /\ mg'.listed = mg.listed /\ mg'.todo = mg.todo /\ mg'.failed = mg.failed
        /\ mg'.work = [pc |-> pc, name |-> Name, fi |-> mg.work.fi, fe |-> mg.work.fe]
    BY <1>0, <1>6, NextRuns
  <2>2. ~Holds(n)
    BY <1>6, <2>1 DEF Holds, Name
  <2>3. QED
    BY <1>1, <1>6, <2>1, <2>2
<1>7. ASSUME mg.phase = "Running", NEW fe, mg' = GoOnWith(fe) PROVE HandedOver(n)'
  <2>1. /\ mg'.listed = mg.listed /\ mg'.todo = mg.todo /\ mg'.failed = mg.failed
        /\ mg'.work = [pc |-> AfterUpsert, name |-> Name, fi |-> mg.work.fi, fe |-> fe]
    BY <1>0, <1>7, NextUpsertedRun
  <2>2. AfterUpsert # "none"
    BY DEF AfterUpsert
  <2>3. ~Holds(n)
    BY <2>1, <2>2 DEF Holds, Name
  <2>4. QED
    BY <1>1, <1>7, <2>1, <2>3
<1>8. ASSUME mg.phase = "Running", mg' = FailedOne PROVE HandedOver(n)'
  <2>1. /\ mg'.listed = mg.listed /\ mg'.todo = mg.todo
        /\ mg'.failed = mg.failed \cup {Name}
    BY <1>0, <1>8, NextRuns
  <2>2. ~Holds(n)
    BY <2>1 DEF Holds
  <2>3. QED
    BY <1>1, <1>8, <2>1, <2>2
<1>9. ASSUME AwaitDeletion, fis[Name].uid = 0, mg' = DoneWithOne PROVE HandedOver(n)'
  <2>1. /\ mg'.listed = mg.listed /\ mg'.todo = mg.todo /\ mg'.failed = mg.failed
    BY <1>0, <1>9, NextRuns
  <2>2. CASE n = Name
    <3>1. n \in touched \/ Mine(n)
      BY <1>0, <1>9, <2>2 DEF AwaitDeletion, At, InHand
    <3>2. UNCHANGED <<fis, fes, touched>>
      BY <1>9 DEF AwaitDeletion
    <3>3. QED
      BY <1>9, <2>1, <2>2, <3>1, <3>2 DEF HandedOver, Mine
  <2>3. CASE n # Name
    BY <1>1, <1>9, <2>1, <2>3 DEF AwaitDeletion, At, Holds
  <2>4. QED
    BY <2>2, <2>3
<1>10. CASE UNCHANGED mg
  BY <1>1, <1>10 DEF Holds, Name
<1>11. CASE GetExtension \/ CreateExtension \/ PatchExtension \/ PatchPublishIntent
               \/ DeleteIntegration \/ AwaitDeletion \/ CallFails
  <2>1. mg.phase = "Running" /\ mg.work.pc # "none"
    BY <1>11 DEF GetExtension, CreateExtension, PatchExtension, PatchPublishIntent,
                 DeleteIntegration, AwaitDeletion, CallFails, At
  <2>2. \/ \E pc \in Steps \ {"none"} : mg' = Goto(pc)
        \/ \E fe : mg' = GoOnWith(fe)
        \/ mg' = FailedOne
        \/ AwaitDeletion /\ fis[Name].uid = 0 /\ mg' = DoneWithOne
    BY <1>11 DEF GetExtension, CreateExtension, PatchExtension, PatchPublishIntent,
                 DeleteIntegration, AwaitDeletion, CallFails, Upserted, Steps
  <2>3. QED
    BY <1>6, <1>7, <1>8, <1>9, <2>1, <2>2
<1>12. QED
  BY <1>2, <1>3, <1>4, <1>5, <1>10, <1>11
  DEF Next, vars, Migrator, World, EstablishCRDs, ReleaseIntegration,
      ToggleIntegration, RecreateIntegration, EditIntegration, UserSetsFI,
      RemoveExtension, EditExtension, CreateForeign, UserSetsFE

LEMMA InitInvariant == Init => IInv
<1> SUFFICES ASSUME Init PROVE IInv
  OBVIOUS
<1>1. Shapes
  BY InitShapes
<1>2. mg.phase = "Waiting" /\ mg.work.pc = "none" /\ mg.listed = [n \in Names |-> 0]
  BY DEF Init, NoRun, NoWork
<1>3. InHand /\ Scanned
  BY <1>2 DEF InHand, Scanned
<1>4. ASSUME NEW n \in Names PROVE fis[n].uid \in {0, 1}
  <2>1. AbsentFI.uid = 0 /\ \A f, e, h : NewFI(1, f, e, h).uid = 1
    BY DEF AbsentFI, NewFI
  <2>2. CASE \E name \in Names, frontend \in Frontends, enabled \in BOOLEAN :
               fis = [[m \in Names |-> AbsentFI] EXCEPT
                         ![name] = NewFI(1, frontend, enabled, FALSE)]
    <3>1. PICK name \in Names, frontend \in Frontends, enabled \in BOOLEAN :
               fis = [[m \in Names |-> AbsentFI] EXCEPT
                         ![name] = NewFI(1, frontend, enabled, FALSE)]
      BY <2>2
    <3> DEFINE fi == NewFI(1, frontend, enabled, FALSE)
    <3> HIDE DEF fi
    <3>2. fi.uid = 1
      BY <2>1 DEF fi
    <3>3. fis = [[m \in Names |-> AbsentFI] EXCEPT ![name] = fi]
      BY <3>1 DEF fi
    <3>4. QED
      BY <2>1, <3>2, <3>3
  <2>3. CASE \E held, enabled \in [Names -> BOOLEAN] :
               fis = [m \in Names |-> NewFI(1, Plain, enabled[m], held[m])]
    BY <2>1, <2>3
  <2>4. QED
    BY <2>2, <2>3 DEF Init
<1>5. OldUids
  BY <1>1, <1>2, <1>4 DEF OldUids, Shapes
<1>6. QED
  BY <1>1, <1>3, <1>5 DEF IInv

LEMMA Invariant == Spec => []IInv
<1>1. IInv /\ [Next]_vars => IInv'
  BY NextShapes, NextInHand, NextOldUids, NextScanned DEF IInv
<1>2. QED
  BY <1>1, InitInvariant, PTL DEF Spec

-----------------------------------------------------------------------------
(* What the migrator promises.                                             *)

\* The migrator deletes an FI only when the FE is there, is its own, and asks to
\* be published as it is if the FI was enabled.  The invariant that makes it so
\* is InHand: what the migrator knows of the FE in hand is true of it, step by
\* step, as long as people leave the FE alone.
THEOREM DeletesAfterHandingOver == Spec => DeletedWhenHandedOver
<1> DEFINE Safe(n) ==
      /\ fes[n].there /\ fes[n].source = n
      /\ mg.work.fi.enabled =>
           fes[n].intent = [gen |-> fes[n].gen, hash |-> fes[n].frontend]
<1>1. ASSUME IInv, [Next]_vars, NEW n \in Names, Deletes(n) PROVE Safe(n)
  <2>0. fis'[n] # fis[n] /\ mg' # mg
    BY <1>1 DEF Deletes
  <2>1. DeleteIntegration
    BY <1>1, <2>0 DEF Next, vars, Migrator, World, ListIntegrations, GiveUp, Take,
        Finish, GetExtension, CreateExtension, PatchExtension, PatchPublishIntent,
        AwaitDeletion, CallFails, JobDies, Upgrade, EstablishCRDs, ReleaseIntegration,
        ToggleIntegration, RecreateIntegration, EditIntegration, UserSetsFI,
        RemoveExtension, EditExtension, CreateForeign, UserSetsFE
  <2>2. n = Name
    BY <1>1, <2>0, <2>1 DEF DeleteIntegration, IInv, Shapes
  <2>3. QED
    BY <1>1, <2>1, <2>2
    DEF Deletes, DeleteIntegration, At, IInv, InHand, Mine, PublishIntent
<1>2. IInv /\ [Next]_vars => [\A n \in Names : Deletes(n) => Safe(n)]_vars
  BY <1>1
<1>3. QED
  BY <1>2, Invariant, PTL DEF Spec, DeletedWhenHandedOver

\* The migrator never writes an FE that it found not to be its own: it writes
\* only the one in hand, and this one it has made or has seen to be its own.
THEOREM LeavesForeignAlone == Spec => ForeignUntouched
<1> DEFINE Untouched(n) ==
      mg' # mg /\ n \notin touched /\ fes[n].there /\ fes[n].source # n
      => fes'[n] = fes[n]
<1>1. ASSUME IInv, [Next]_vars, NEW n \in Names, mg' # mg, n \notin touched,
             fes[n].there, fes[n].source # n
      PROVE  fes'[n] = fes[n]
  <2>0. Shapes /\ InHand
    BY <1>1 DEF IInv
  <2>1. CASE UNCHANGED fes
    BY <2>1
  <2>2. ASSUME NEW fe, fes' = [fes EXCEPT ![Name] = fe], n # Name
        PROVE  fes'[n] = fes[n]
    BY <2>0, <2>2 DEF Shapes
  <2>3. CASE CreateExtension
    BY <1>1, <2>1, <2>2, <2>3 DEF CreateExtension, Upserted
  <2>4. CASE PatchExtension
    BY <1>1, <2>0, <2>1, <2>2, <2>4 DEF PatchExtension, Upserted, At, InHand, Mine
  <2>5. CASE PatchPublishIntent
    <3>1. n # Name
      BY <1>1, <2>0, <2>5 DEF PatchPublishIntent, At, InHand, Mine
    <3>2. CASE fes' = [fes EXCEPT ![Name].intent = PublishIntent(mg.work.fe)]
      BY <2>0, <3>1, <3>2 DEF Shapes
    <3>3. QED
      BY <2>1, <2>5, <3>2 DEF PatchPublishIntent
  <2>6. QED
    BY <1>1, <2>1, <2>3, <2>4, <2>5
    DEF Next, vars, Migrator, World, ListIntegrations, GiveUp, Take, Finish,
        GetExtension, DeleteIntegration, AwaitDeletion, CallFails, JobDies, Upgrade,
        EstablishCRDs, ReleaseIntegration, ToggleIntegration, RecreateIntegration,
        EditIntegration, UserSetsFI, RemoveExtension, EditExtension, CreateForeign,
        UserSetsFE
<1>2. IInv /\ [Next]_vars => [\A n \in Names : Untouched(n)]_vars
  BY <1>1
<1>3. QED
  BY <1>2, Invariant, PTL DEF Spec, ForeignUntouched

\* A run that succeeds has done away with every FI of its list, and has left an
\* FE for each: Scanned says so of every FI that is no longer to be taken.
THEOREM SucceedsWhenComplete == Spec => SuccessIsComplete
<1> DEFINE Complete ==
      \A n \in Names : mg.listed[n] # 0 =>
          /\ fis[n].uid # mg.listed[n]
          /\ n \in touched \/ (fes[n].there /\ fes[n].source = n)
<1>1. ASSUME IInv, [Next]_vars, mg.phase # "Succeeded", mg'.phase = "Succeeded"
      PROVE  Complete
  <2>0. Shapes /\ Scanned /\ IsRun(mg)
    BY <1>1 DEF IInv, Shapes
  <2>1. mg'.phase # mg.phase
    BY <1>1
  <2>2. CASE ListIntegrations \/ GiveUp \/ JobDies \/ Upgrade
    BY <1>1, <2>0, <2>2
    DEF ListIntegrations, GiveUp, JobDies, Upgrade, NoRun, IsRun
  <2>3. CASE Finish
    <3>1. mg.failed = {}
      BY <1>1, <2>0, <2>3 DEF Finish, IsRun
    <3>2. mg.phase = "Running" /\ mg.work.pc = "none" /\ DOMAIN mg.todo = {}
      BY <2>3 DEF Finish, Idle
    <3>3. QED
      BY <2>0, <3>1, <3>2 DEF Scanned, Holds, HandedOver, Mine
  <2>4. ASSUME NEW name \in Names, Take(name) PROVE mg'.phase = mg.phase
    BY <2>0, <2>4, NextTaken DEF Take
  <2>5. \A pc, fe : /\ Goto(pc).phase = mg.phase /\ DoneWithOne.phase = mg.phase
                    /\ FailedOne.phase = mg.phase /\ GoOnWith(fe).phase = mg.phase
    BY <2>0, NextRuns, NextUpsertedRun
  <2>6. QED
    BY <2>1, <2>2, <2>3, <2>4, <2>5, <1>1
    DEF Next, vars, Migrator, World, GetExtension, CreateExtension, PatchExtension,
        PatchPublishIntent, DeleteIntegration, AwaitDeletion, CallFails, Upserted,
        EstablishCRDs, ReleaseIntegration, ToggleIntegration, RecreateIntegration,
        EditIntegration, UserSetsFI, RemoveExtension, EditExtension, CreateForeign,
        UserSetsFE
<1>2. IInv /\ [Next]_vars =>
        [mg.phase # "Succeeded" /\ mg'.phase = "Succeeded" => Complete]_vars
  BY <1>1
<1>3. QED
  BY <1>2, Invariant, PTL DEF Spec, SuccessIsComplete
-----------------------------------------------------------------------------
(* Types.                                                                  *)

\* The migrator has yet to patch this FE, if it does so in this run at all.
ToPatch(n) ==
    \/ mg.phase = "Waiting"
    \/ mg.phase = "Running" /\ n \in DOMAIN mg.todo
    \/ mg.work.pc \in {"get", "patch"} /\ Name = n

\* An FE of n after so many events: it has at most one generation for each of
\* them, and the one it began with; its intent is of a generation there was.
IsFEOf(n, fe, count) ==
    /\ fe.source \in Maybe({n})
    /\ fe.gen \in Nat /\ fe.gen <= count + 1
    /\ fe.there => fe.gen > 0
    /\ fe.intent # None => fe.there /\ fe.intent.gen \in 1 .. count + 1

\* Of the generations that are not an event's, a run makes one at most, and
\* each run but the first takes an upgrade.
Generations ==
    \A n \in Names : /\ IsFEOf(n, fes[n], events)
                     /\ ToPatch(n) => fes[n].gen <= events

\* What the migrator has read.
WorkTyped(work, count) ==
    /\ work.pc \in Steps
    /\ work.pc # "none" => work.name \in Names /\ work.fi \in FI
    /\ work.pc = "intent" => work.fe.gen \in 1 .. count + 1

RunTyped ==
    /\ mg.phase \in {"Waiting", "Running"} \cup Ended
    /\ DOMAIN mg.todo \subseteq Names \ (mg.failed \cup {mg.work.name})
    /\ \A n \in DOMAIN mg.todo : mg.todo[n] \in FI
    /\ WorkTyped(mg.work, events)

\* The rest of what has a type.
WorldTyped == crds \in BOOLEAN /\ touched \subseteq Names /\ events \in 0 .. MaxEvents

TypeInv == Shapes /\ Generations /\ RunTyped /\ WorldTyped

LEMMA InitTypes == Init => TypeInv
<1> SUFFICES ASSUME Init PROVE TypeInv
  OBVIOUS
<1>1. Shapes
  BY InitShapes
<1>2. WorldTyped
  <2>1. events \in {0, MaxEvents} /\ crds \in BOOLEAN /\ touched = {}
    BY Zenon DEF Init
  <2>2. QED
    BY <2>1, BoundAssumption DEF WorldTyped
<1>3. Generations
  <2>1. \A n \in Names : fes[n] = AbsentFE
    BY DEF Init
  <2>2. \A n \in Names : IsFEOf(n, AbsentFE, events) /\ AbsentFE.gen <= events
    BY <1>1 DEF Shapes, AbsentFE, IsFEOf, Maybe
  <2>3. QED
    BY <2>1, <2>2 DEF Generations
<1>4. RunTyped
  <2>1. /\ mg.phase = "Waiting" /\ mg.todo = <<>> /\ mg.failed = {}
        /\ mg.work = NoWork
    BY DEF Init, NoRun
  <2>2. DOMAIN <<>> = {}
    OBVIOUS
  <2>3. WorkTyped(NoWork, events)
    BY DEF WorkTyped, NoWork, Steps
  <2>4. QED
    BY <2>1, <2>2, <2>3 DEF RunTyped
<1>5. QED
  BY <1>1, <1>2, <1>3, <1>4 DEF TypeInv

LEMMA NextWorld == WorldTyped /\ Shapes /\ [Next]_vars => WorldTyped'
<1> SUFFICES ASSUME WorldTyped, Shapes, [Next]_vars PROVE WorldTyped'
  OBVIOUS
<1> USE DEF WorldTyped
<1>1. (crds \in BOOLEAN)'
  BY Zenon DEF Next, vars, Migrator, World, ListIntegrations, GiveUp, Take, Finish,
    GetExtension, CreateExtension, PatchExtension, PatchPublishIntent,
    DeleteIntegration, AwaitDeletion, CallFails, JobDies, Upgrade, EstablishCRDs,
    ReleaseIntegration, ToggleIntegration, RecreateIntegration, EditIntegration,
    UserSetsFI, RemoveExtension, EditExtension, CreateForeign, UserSetsFE
<1>2. (touched \subseteq Names)'
  <2>1. CASE UNCHANGED touched
    BY <2>1
  <2>2. CASE GetExtension
    BY <2>2 DEF GetExtension
  <2>3. ASSUME NEW name \in Names, NEW kind, NEW fe, UserSetsFE(kind, name, fe)
        PROVE  touched' \subseteq Names
    BY <2>3 DEF UserSetsFE
  <2>4. QED
    BY <2>1, <2>2, <2>3
    DEF Next, vars, Migrator, World, ListIntegrations, GiveUp, Take, Finish,
        CreateExtension, PatchExtension, PatchPublishIntent, DeleteIntegration,
        AwaitDeletion, CallFails, JobDies, Upgrade, EstablishCRDs, ReleaseIntegration,
        ToggleIntegration, RecreateIntegration, EditIntegration, UserSetsFI,
        RemoveExtension, EditExtension, CreateForeign
<1>3. (events \in 0 .. MaxEvents)'
  <2>1. events' = events \/ (events < MaxEvents /\ events' = events + 1)
    BY Zenon DEF Next, vars, Migrator, World, ListIntegrations, GiveUp, Take, Finish,
      GetExtension, CreateExtension, PatchExtension, PatchPublishIntent,
      DeleteIntegration, AwaitDeletion, CallFails, JobDies, Upgrade, EstablishCRDs,
      ReleaseIntegration, ToggleIntegration, RecreateIntegration, EditIntegration,
      UserSetsFI, RemoveExtension, EditExtension, CreateForeign, UserSetsFE, Calm,
      Disturb
  <2>2. QED
    BY <2>1, BoundAssumption
<1>4. QED
  BY <1>1, <1>2, <1>3

\* Another frontend raises the generation by one at most.
LEMMA PatchedGeneration ==
    ASSUME NEW fe, IsFE(fe), NEW frontend, NEW gen, gen = WithFrontend(fe, frontend).gen
    PROVE  /\ gen \in {fe.gen, fe.gen + 1}
           /\ WithFrontend(fe, frontend).intent = fe.intent
           /\ IsFE(WithFrontend(fe, frontend))
<1> DEFINE bumped == [fe EXCEPT !.gen = @ + 1]
           new == [bumped EXCEPT !.frontend = frontend]
<1>1. bumped = [there |-> fe.there, source |-> fe.source, frontend |-> fe.frontend,
                gen |-> fe.gen + 1, intent |-> fe.intent]
  BY DEF IsFE
<1> HIDE DEF bumped
<1>2. new = [there |-> fe.there, source |-> fe.source, frontend |-> frontend,
             gen |-> fe.gen + 1, intent |-> fe.intent]
  BY <1>1
<1> HIDE DEF new
<1>3. WithFrontend(fe, frontend) = fe \/ WithFrontend(fe, frontend) = new
  BY DEF WithFrontend, new, bumped
<1>4. QED
  BY <1>2, <1>3, NextFrontend

\* What the migrator gets at, and hands on, from one call to the next.
LEMMA NextRunTyped == TypeInv /\ [Next]_vars => RunTyped'
<1> SUFFICES ASSUME TypeInv, [Next]_vars PROVE RunTyped'
  OBVIOUS
<1>0. /\ Shapes /\ IsRun(mg) /\ Generations /\ RunTyped /\ events \in Nat
      /\ mg.phase \in {"Waiting", "Running"} \cup Ended
      /\ WorkTyped(mg.work, events)
  BY DEF TypeInv, Shapes, RunTyped
<1>1. events' \in Nat /\ events' >= events
  BY <1>0, NextEvents
<1>2. ASSUME NEW work, WorkTyped(work, events) PROVE WorkTyped(work, events')
  BY <1>0, <1>1, <1>2 DEF WorkTyped
<1>3. WorkTyped(NoWork, events')
  BY DEF WorkTyped, NoWork, Steps
<1>4. NoWork.name \notin Names
  BY NameAssumption DEF NoWork
<1>5. CASE UNCHANGED mg
  BY <1>0, <1>2, <1>5 DEF RunTyped
<1>6. CASE ListIntegrations
  <2>1. /\ mg'.phase = "Running" /\ mg'.failed = {} /\ mg'.work = NoWork
        /\ mg'.todo = [n \in {m \in Names : fis[m].uid # 0} |-> fis[n]]
    BY <1>6 DEF ListIntegrations
  <2>2. DOMAIN mg'.todo \subseteq Names /\ \A n \in DOMAIN mg'.todo : mg'.todo[n] \in FI
    BY <1>0, <2>1 DEF Shapes
  <2>3. QED
    BY <1>3, <1>4, <2>1, <2>2 DEF RunTyped
<1>7. CASE GiveUp \/ Finish
  <2>1. PICK phase \in Ended : mg' = [mg EXCEPT !.phase = phase]
    BY <1>7 DEF GiveUp, Finish, Ended
  <2>2. /\ mg'.phase = phase /\ mg'.todo = mg.todo /\ mg'.failed = mg.failed
        /\ mg'.work = mg.work
    BY <1>0, <2>1 DEF IsRun
  <2>3. QED
    BY <1>0, <1>2, <2>2 DEF RunTyped
<1>8. CASE JobDies \/ Upgrade
  <2>1. /\ mg'.phase \in {"Waiting", "Failed"} /\ mg'.todo = <<>> /\ mg'.failed = {}
        /\ mg'.work = NoWork
    BY <1>8 DEF JobDies, Upgrade, NoRun
  <2>2. DOMAIN <<>> = {}
    OBVIOUS
  <2>3. QED
    BY <1>3, <2>1, <2>2 DEF RunTyped, Ended
<1>9. ASSUME NEW name \in Names, Take(name) PROVE RunTyped'
  <2>1. mg' = [phase |-> mg.phase, listed |-> mg.listed,
               todo |-> [n \in DOMAIN mg.todo \ {name} |-> mg.todo[n]],
               failed |-> mg.failed, work |-> WorkOn(name)]
    BY <1>0, <1>9, NextTaken DEF Take
  <2>2. name \in DOMAIN mg.todo /\ mg.todo[name] \in FI
    BY <1>0, <1>9 DEF Take, RunTyped
  <2>3. WorkOn(name).name = name /\ WorkTyped(WorkOn(name), events')
    BY <2>2 DEF WorkOn, WorkTyped, Steps
  <2>4. /\ DOMAIN mg'.todo = DOMAIN mg.todo \ {name} /\ mg'.failed = mg.failed
        /\ mg'.phase = mg.phase /\ mg'.work = WorkOn(name)
        /\ \A n \in DOMAIN mg'.todo : mg'.todo[n] = mg.todo[n]
    BY <2>1
  <2>5. QED
    BY <1>0, <2>3, <2>4 DEF RunTyped
<1>10. ASSUME NEW run, run.phase = mg.phase, run.todo = mg.todo, run.failed = mg.failed,
              run.work.name = Name, WorkTyped(run.work, events'), mg' = run
       PROVE  RunTyped'
  BY <1>0, <1>10 DEF RunTyped, Name
<1>11. ASSUME NEW pc \in Steps \ {"none", "intent"}, mg' = Goto(pc), mg.work.pc # "none"
       PROVE  RunTyped'
  <2>1. /\ Goto(pc).phase = mg.phase /\ Goto(pc).todo = mg.todo
        /\ Goto(pc).failed = mg.failed
        /\ Goto(pc).work = [pc |-> pc, name |-> Name, fi |-> mg.work.fi, fe |-> mg.work.fe]
    BY <1>0, NextRuns
  <2>2. Goto(pc).work.name = Name /\ WorkTyped(Goto(pc).work, events')
    BY <1>0, <1>11, <2>1 DEF WorkTyped, Name
  <2>3. QED
    BY <1>10, <1>11, <2>1, <2>2
<1>12. ASSUME mg' = DoneWithOne \/ mg' = FailedOne PROVE RunTyped'
  <2>1. /\ mg'.phase = mg.phase /\ mg'.todo = mg.todo /\ mg'.work = NoWork
        /\ mg'.failed \in {mg.failed, mg.failed \cup {Name}}
    BY <1>0, <1>12, NextRuns
  <2>2. DOMAIN mg.todo \subseteq Names \ (mg.failed \cup {Name})
    BY <1>0 DEF RunTyped, Name
  <2>3. QED
    BY <1>0, <1>3, <1>4, <2>1, <2>2 DEF RunTyped
<1>13. ASSUME NEW fe, mg' = GoOnWith(fe), mg.work.pc # "none", fe.gen \in 1 .. events + 1
       PROVE  RunTyped'
  <2>1. /\ mg'.phase = mg.phase /\ mg'.todo = mg.todo /\ mg'.failed = mg.failed
        /\ mg'.work = [pc |-> AfterUpsert, name |-> Name, fi |-> mg.work.fi, fe |-> fe]
    BY <1>0, <1>13, NextUpsertedRun
  <2>2. AfterUpsert \in {"intent", "delete"}
    BY DEF AfterUpsert
  <2>3. mg'.work.name = Name /\ WorkTyped(mg'.work, events')
    BY <1>0, <1>1, <1>13, <2>1, <2>2 DEF WorkTyped, Name, Steps
  <2>4. QED
    BY <1>10, <2>1, <2>3
<1>14. CASE GetExtension \/ PatchPublishIntent \/ DeleteIntegration \/ AwaitDeletion
               \/ CallFails
  BY <1>11, <1>12, <1>14
  DEF GetExtension, PatchPublishIntent, DeleteIntegration, AwaitDeletion, CallFails, At,
      Steps
<1>15. CASE CreateExtension
  <2>1. NewFE(Name, Desired).gen \in 1 .. events + 1
    BY <1>0 DEF NewFE
  <2>2. QED
    BY <1>12, <1>13, <1>15, <2>1 DEF CreateExtension, Upserted, At
<1>16. CASE PatchExtension
  <2>1. CASE mg' = FailedOne
    BY <1>12, <2>1
  <2> DEFINE old == WithFrontend(fes[Name], MergedFrontend(fes[Name].frontend, Desired))
             fe == [old EXCEPT !.source = Name]
  <2>2. CASE mg' = GoOnWith(fe) /\ fes[Name].there
    <3>1. Name \in Names /\ mg.work.pc = "patch"
      BY <1>0, <1>16 DEF PatchExtension, At, Shapes, Name
    <3>2. IsFE(fes[Name]) /\ IsFEOf(Name, fes[Name], events) /\ fes[Name].gen <= events
      BY <1>0, <3>1 DEF Shapes, Generations, ToPatch
    <3>3. old.gen \in {fes[Name].gen, fes[Name].gen + 1} /\ IsFE(old)
      BY <3>2, PatchedGeneration
    <3> HIDE DEF old
    <3>4. fe.gen = old.gen
      BY <3>3, NextFEs
    <3> HIDE DEF fe
    <3>5. fe.gen \in 1 .. events + 1
      BY <1>0, <2>2, <3>2, <3>3, <3>4 DEF IsFEOf
    <3>6. QED
      BY <1>13, <2>2, <3>1, <3>5
  <2>3. QED
    BY <1>16, <2>1, <2>2 DEF PatchExtension, Upserted
<1>17. QED
  BY <1>5, <1>6, <1>7, <1>8, <1>9, <1>14, <1>15, <1>16
  DEF Next, vars, Migrator, World, EstablishCRDs, ReleaseIntegration,
      ToggleIntegration, RecreateIntegration, EditIntegration, UserSetsFI,
      RemoveExtension, EditExtension, CreateForeign, UserSetsFE

\* The migrator does not come to patch what it has done with, until the Job is
\* run anew.
LEMMA PatchesOnce ==
    ASSUME TypeInv, [Next]_vars, NEW n \in Names, ToPatch(n)'
    PROVE  \/ ToPatch(n) /\ ~(CreateExtension /\ n = Name) /\ ~(PatchExtension /\ n = Name)
           \/ Upgrade
<1> DEFINE Goal == \/ /\ ToPatch(n)
                      /\ ~(CreateExtension /\ n = Name) /\ ~(PatchExtension /\ n = Name)
                   \/ Upgrade
<1>0. /\ Shapes /\ IsRun(mg) /\ RunTyped
      /\ mg.work.pc # "none" => mg.phase = "Running" /\ Name \notin DOMAIN mg.todo
  BY DEF TypeInv, Shapes, RunTyped, Name
<1>1. CASE UNCHANGED mg
  <2>1. ~CreateExtension /\ ~PatchExtension
    <3>1. ASSUME NEW pc \in {"create", "patch"}, At(pc), mg' = FailedOne PROVE FALSE
      <4>0. mg'.work = NoWork
        BY <1>0, <3>1, NextRuns
      <4>1. mg'.work.pc = "none"
        BY <4>0 DEF NoWork
      <4>2. QED
        BY <1>1, <3>1, <4>1 DEF At
    <3>2. ASSUME NEW pc \in {"create", "patch"}, At(pc), NEW fe, mg' = GoOnWith(fe)
          PROVE  FALSE
      <4>0. mg'.work = [pc |-> AfterUpsert, name |-> Name, fi |-> mg.work.fi, fe |-> fe]
        BY <1>0, <3>2, NextUpsertedRun
      <4>1. mg'.work.pc = AfterUpsert
        BY <4>0
      <4>2. AfterUpsert \in {"intent", "delete"}
        BY DEF AfterUpsert
      <4>3. QED
        BY <1>1, <3>2, <4>1, <4>2 DEF At
    <3>3. QED
      BY <3>1, <3>2 DEF CreateExtension, PatchExtension, Upserted
  <2>2. QED
    BY <1>1, <2>1 DEF ToPatch, Name
<1>2. CASE ListIntegrations
  <2>1. mg.phase = "Waiting"
    BY <1>2 DEF ListIntegrations
  <2>2. ~At("create") /\ ~At("patch")
    BY <2>1 DEF At
  <2>3. QED
    BY <2>1, <2>2 DEF ToPatch, CreateExtension, PatchExtension
<1>3. CASE GiveUp \/ Finish \/ JobDies
  <2>1. mg'.phase \in Ended /\ mg'.work.pc = "none"
    <3>1. CASE JobDies
      BY <3>1 DEF JobDies, NoRun, NoWork, Ended
    <3>2. CASE GiveUp \/ Finish
      <4>1. PICK phase \in Ended : mg' = [mg EXCEPT !.phase = phase]
        BY <3>2 DEF GiveUp, Finish, Ended
      <4>2. mg'.phase = phase /\ mg'.work = mg.work
        BY <1>0, <4>1 DEF IsRun
      <4>3. mg.work.pc = "none"
        BY <1>0, <3>2 DEF GiveUp, Finish, Idle
      <4>4. QED
        BY <4>1, <4>2, <4>3
    <3>3. QED
      BY <1>3, <3>1, <3>2
  <2>2. QED
    BY <2>1 DEF ToPatch, Ended
<1>4. ASSUME NEW name \in Names, Take(name) PROVE Goal
  <2>1. mg' = [phase |-> mg.phase, listed |-> mg.listed,
               todo |-> [m \in DOMAIN mg.todo \ {name} |-> mg.todo[m]],
               failed |-> mg.failed, work |-> WorkOn(name)]
    BY <1>0, <1>4, NextTaken DEF Take
  <2>2. WorkOn(name).name = name
    BY DEF WorkOn
  <2>3. /\ mg'.phase = mg.phase /\ mg'.work.name = name
        /\ DOMAIN mg'.todo = DOMAIN mg.todo \ {name}
    BY <2>1, <2>2
  <2>4. mg.phase = "Running" /\ name \in DOMAIN mg.todo /\ mg.work.pc = "none"
    BY <1>4 DEF Take, Idle
  <2>5. ToPatch(n)
    BY <2>3, <2>4 DEF ToPatch, Name
  <2>6. QED
    BY <2>4, <2>5 DEF CreateExtension, PatchExtension, At
<1>5. ASSUME mg.work.pc # "none", NEW run, mg' = run, run.phase = mg.phase,
             run.todo = mg.todo, run.work.pc \notin {"get", "patch"}
      PROVE  Goal
  <2>1. n \in DOMAIN mg.todo /\ mg.phase = "Running"
    BY <1>0, <1>5 DEF ToPatch
  <2>2. n # Name
    BY <1>0, <1>5, <2>1
  <2>3. QED
    BY <2>1, <2>2 DEF ToPatch
<1>6. ASSUME mg.work.pc # "none", mg' = DoneWithOne \/ mg' = FailedOne PROVE Goal
  <2>0. mg'.phase = mg.phase /\ mg'.todo = mg.todo /\ mg'.work = NoWork
    BY <1>0, <1>6, NextRuns
  <2>1. mg'.work.pc = "none"
    BY <2>0 DEF NoWork
  <2>2. QED
    BY <1>5, <1>6, <2>0, <2>1
<1>7. ASSUME mg.work.pc # "none", NEW fe, mg' = GoOnWith(fe) PROVE Goal
  <2>0. /\ mg'.phase = mg.phase /\ mg'.todo = mg.todo
        /\ mg'.work = [pc |-> AfterUpsert, name |-> Name, fi |-> mg.work.fi, fe |-> fe]
    BY <1>0, <1>7, NextUpsertedRun
  <2>1. mg'.work.pc = AfterUpsert
    BY <2>0
  <2>2. AfterUpsert \notin {"get", "patch"}
    BY DEF AfterUpsert
  <2>3. QED
    BY <1>5, <1>7, <2>0, <2>1, <2>2
<1>8. ASSUME mg.work.pc # "none", NEW pc, pc \notin {"get", "patch"}, mg' = Goto(pc)
      PROVE  Goal
  <2>0. /\ mg'.phase = mg.phase /\ mg'.todo = mg.todo
        /\ mg'.work = [pc |-> pc, name |-> Name, fi |-> mg.work.fi, fe |-> mg.work.fe]
    BY <1>0, <1>8, NextRuns
  <2>1. mg'.work.pc = pc
    BY <2>0
  <2>2. QED
    BY <1>5, <1>8, <2>0, <2>1
<1>9. CASE mg' = Goto("patch") /\ At("get")
  <2>1. /\ mg'.phase = mg.phase /\ mg'.todo = mg.todo
        /\ mg'.work = [pc |-> "patch", name |-> Name, fi |-> mg.work.fi, fe |-> mg.work.fe]
    BY <1>0, <1>9, NextRuns
  <2>2. ToPatch(n)
    BY <1>9, <2>1 DEF ToPatch, At, Name
  <2>3. QED
    BY <1>9, <2>2 DEF At, CreateExtension, PatchExtension
<1>10. CASE GetExtension
  BY <1>6, <1>8, <1>9, <1>10 DEF GetExtension, At
<1>11. CASE CreateExtension \/ PatchExtension \/ PatchPublishIntent \/ DeleteIntegration
               \/ AwaitDeletion \/ CallFails
  BY <1>6, <1>7, <1>8, <1>11
  DEF CreateExtension, PatchExtension, PatchPublishIntent, DeleteIntegration,
      AwaitDeletion, CallFails, Upserted, At
<1>12. CASE Upgrade
  BY <1>12
<1>13. QED
  BY <1>1, <1>2, <1>3, <1>4, <1>10, <1>11, <1>12
  DEF Next, vars, Migrator, World, EstablishCRDs, ReleaseIntegration,
      ToggleIntegration, RecreateIntegration, EditIntegration, UserSetsFI,
      RemoveExtension, EditExtension, CreateForeign, UserSetsFE

\* An FE has the types of an FE after more events as well.
LEMMA MoreEvents ==
    ASSUME NEW n, NEW fe, NEW count \in Nat, NEW more \in Nat, count <= more,
           IsFEOf(n, fe, count)
    PROVE  IsFEOf(n, fe, more)
BY DEF IsFEOf

LEMMA NextGenerations == TypeInv /\ [Next]_vars => Generations'
<1> SUFFICES ASSUME TypeInv, [Next]_vars, NEW n \in Names
             PROVE  (IsFEOf(n, fes[n], events) /\ (ToPatch(n) => fes[n].gen <= events))'
  BY DEF Generations
<1> DEFINE Goal == (IsFEOf(n, fes[n], events) /\ (ToPatch(n) => fes[n].gen <= events))'
<1>0. /\ Shapes /\ IsFE(fes[n]) /\ IsFEOf(n, fes[n], events) /\ events \in Nat
      /\ ToPatch(n) => fes[n].gen <= events
  BY DEF TypeInv, Shapes, Generations
<1>1. events' \in Nat /\ events <= events' /\ (Upgrade => events' = events + 1)
  BY <1>0, NextEvents DEF Upgrade, Disturb
<1>2. CASE fes'[n] = fes[n]
  <2>1. IsFEOf(n, fes[n], events')
    BY <1>0, <1>1, MoreEvents
  <2>2. ASSUME ToPatch(n)' PROVE fes[n].gen <= events'
    BY <1>0, <1>1, <2>2, PatchesOnce DEF IsFEOf
  <2>3. QED
    BY <1>2, <2>1, <2>2
<1>3. CASE UNCHANGED fes
  BY <1>2, <1>3
<1>4. CASE CreateExtension /\ fes' = [fes EXCEPT ![Name] = NewFE(Name, Desired)] /\ n = Name
  <2>1. fes'[n] = NewFE(n, Desired)
    BY <1>0, <1>4 DEF Shapes
  <2>2. IsFEOf(n, NewFE(n, Desired), events')
    <3>1. PICK frontend : frontend = Desired
      OBVIOUS
    <3>2. IsFEOf(n, NewFE(n, frontend), events)
      BY <1>0 DEF IsFEOf, NewFE, Maybe
    <3>3. IsFEOf(n, NewFE(n, frontend), events')
      BY <1>0, <1>1, <3>2, MoreEvents
    <3>4. QED
      BY <3>1, <3>3
  <2>3. ~Upgrade
    BY <1>4 DEF CreateExtension, At, Upgrade, Ended
  <2>4. ~ToPatch(n)'
    BY <1>4, <2>3, PatchesOnce
  <2>5. QED
    BY <2>1, <2>2, <2>4
<1>5. CASE CreateExtension
  <2>1. CASE fes' = [fes EXCEPT ![Name] = NewFE(Name, Desired)] /\ n # Name
    BY <1>0, <1>2, <2>1 DEF Shapes
  <2>2. QED
    BY <1>3, <1>4, <1>5, <2>1 DEF CreateExtension, Upserted
<1>6. CASE PatchExtension
  <2> DEFINE old == WithFrontend(fes[Name], MergedFrontend(fes[Name].frontend, Desired))
             fe == [old EXCEPT !.source = Name]
  <2>1. CASE fes' = [fes EXCEPT ![Name] = fe] /\ n # Name
    BY <1>0, <1>2, <2>1 DEF Shapes
  <2>2. CASE fes' = [fes EXCEPT ![Name] = fe] /\ n = Name
    <3>1. mg.work.pc = "patch" /\ ~Upgrade
      BY <1>6 DEF PatchExtension, At, Upgrade, Ended
    <3>2. ToPatch(n) /\ ~ToPatch(n)'
      BY <1>6, <2>2, <3>1, PatchesOnce DEF ToPatch
    <3>3. fes'[n] = fe
      BY <1>0, <2>2 DEF Shapes
    <3>4. /\ IsFE(old) /\ old.gen \in {fes[n].gen, fes[n].gen + 1}
          /\ old.intent = fes[n].intent /\ old.there = fes[n].there
      BY <1>0, <2>2, PatchedGeneration, NextFrontend
    <3> HIDE DEF old
    <3>5. /\ fe.source = Name /\ fe.gen = old.gen /\ fe.intent = old.intent
          /\ fe.there = old.there
      BY <3>4, NextFEs
    <3> HIDE DEF fe
    <3>6. IsFEOf(n, fe, events)
      BY <1>0, <2>2, <3>2, <3>4, <3>5 DEF IsFEOf, Maybe
    <3>7. QED
      BY <1>0, <1>1, <3>2, <3>3, <3>6, MoreEvents
  <2>3. QED
    BY <1>3, <1>6, <2>1, <2>2 DEF PatchExtension, Upserted
<1>7. CASE PatchPublishIntent
  <2>1. CASE fes' = [fes EXCEPT ![Name].intent = PublishIntent(mg.work.fe)] /\ n # Name
    BY <1>0, <1>2, <2>1 DEF Shapes
  <2>2. CASE /\ fes' = [fes EXCEPT ![Name].intent = PublishIntent(mg.work.fe)]
             /\ n = Name /\ fes[Name].there
    <3>1. fes'[n] = [fes[n] EXCEPT !.intent = PublishIntent(mg.work.fe)]
      BY <1>0, <2>2 DEF Shapes
    <3>2. fes'[n] = [there |-> fes[n].there, source |-> fes[n].source,
                     frontend |-> fes[n].frontend, gen |-> fes[n].gen,
                     intent |-> PublishIntent(mg.work.fe)]
      BY <1>0, <3>1, NextFEs
    <3>3. PublishIntent(mg.work.fe).gen \in 1 .. events + 1
      BY <1>7 DEF PatchPublishIntent, At, PublishIntent, TypeInv, RunTyped, WorkTyped
    <3>4. IsFEOf(n, fes'[n], events)
      BY <1>0, <2>2, <3>2, <3>3 DEF IsFEOf
    <3>5. fes'[n].gen = fes[n].gen /\ ~Upgrade
      BY <1>7, <3>2 DEF PatchPublishIntent, At, Upgrade, Ended
    <3>6. ASSUME ToPatch(n)' PROVE fes'[n].gen <= events'
      BY <1>0, <1>1, <3>4, <3>5, <3>6, PatchesOnce DEF IsFEOf
    <3>7. IsFEOf(n, fes'[n], events')
      BY <1>0, <1>1, <3>4, MoreEvents
    <3>8. QED
      BY <3>6, <3>7
  <2>3. QED
    BY <1>3, <1>7, <2>1, <2>2 DEF PatchPublishIntent
<1>8. ASSUME NEW name \in Names, NEW kind, NEW fe, UserSetsFE(kind, name, fe),
             IsFEOf(name, fe, events + 1), fe.gen <= fes[name].gen + 1 \/ fe.gen <= 1
      PROVE  Goal
  <2>1. CASE n # name
    BY <1>0, <1>2, <1>8, <2>1 DEF UserSetsFE, Shapes
  <2>2. CASE n = name
    <3>1. fes'[n] = fe /\ events' = events + 1 /\ UNCHANGED mg
      BY <1>0, <1>8, <2>2 DEF UserSetsFE, Disturb, Shapes
    <3>2. ASSUME ToPatch(n)' PROVE ToPatch(n)
      BY <3>1, <3>2 DEF ToPatch, Name
    <3>3. QED
      BY <1>0, <1>8, <2>2, <3>1, <3>2 DEF IsFEOf
  <2>3. QED
    BY <2>1, <2>2
<1>9. ASSUME NEW name \in Names, NEW frontend \in ExtensionEdits,
             EditExtension(name, frontend)
      PROVE  Goal
  <2>1. IsFE(fes[name]) /\ IsFEOf(name, fes[name], events)
    BY <1>0 DEF Shapes, TypeInv, Generations
  <2>2. PICK fe : fe = WithFrontend(fes[name], frontend)
    OBVIOUS
  <2>3. /\ fe.gen \in {fes[name].gen, fes[name].gen + 1} /\ fe.intent = fes[name].intent
        /\ fe.there = fes[name].there /\ fe.source = fes[name].source
    BY <2>1, <2>2, PatchedGeneration, NextFrontend
  <2>4. IsFEOf(name, fe, events + 1) /\ fe.gen <= fes[name].gen + 1
    BY <1>0, <2>1, <2>3 DEF IsFEOf
  <2>5. UserSetsFE("change", name, fe)
    BY <1>9, <2>2 DEF EditExtension
  <2>6. QED
    BY <1>8, <2>4, <2>5
<1>10. ASSUME NEW name \in Names, RemoveExtension(name) PROVE Goal
  <2>1. IsFEOf(name, AbsentFE, events + 1) /\ AbsentFE.gen <= 1
    BY <1>0 DEF IsFEOf, AbsentFE, Maybe
  <2>2. QED
    BY <1>8, <1>10, <2>1 DEF RemoveExtension
<1>11. ASSUME NEW name \in Names, NEW frontend \in ExtensionEdits,
              CreateForeign(name, frontend)
       PROVE  Goal
  <2>1. /\ IsFEOf(name, NewFE(Foreign, frontend), events + 1)
        /\ NewFE(Foreign, frontend).gen <= 1
    BY <1>0 DEF IsFEOf, NewFE, Foreign, Maybe
  <2>2. QED
    BY <1>8, <1>11, <2>1 DEF CreateForeign
<1>12. QED
  BY <1>3, <1>5, <1>6, <1>7, <1>9, <1>10, <1>11
  DEF Next, vars, Migrator, World, ListIntegrations, GiveUp, Take, Finish, GetExtension,
      DeleteIntegration, AwaitDeletion, CallFails, JobDies, Upgrade, EstablishCRDs,
      ReleaseIntegration, ToggleIntegration, RecreateIntegration, EditIntegration,
      UserSetsFI

\* Every reachable state of the migration is well typed, for any number of FIs
\* and events.  In particular the migrator works on one FI of its list at a time,
\* and the intent of an FE is of a generation there was: that the bound holds
\* although FEs are removed and made anew while the migrator has one in hand is
\* because a run patches an FE once, and a run more takes an upgrade.
THEOREM TypeCorrectness == Spec => []TypeOK
<1>1. TypeInv /\ [Next]_vars => TypeInv'
  BY NextShapes, NextGenerations, NextRunTyped, NextWorld DEF TypeInv
<1>2. TypeInv => TypeOK
  <2> SUFFICES ASSUME TypeInv PROVE TypeOK
    OBVIOUS
  <2>1. ASSUME NEW n \in Names
        PROVE  /\ fes[n].source \in Maybe({n})
               /\ fes[n].there => fes[n].gen > 0
               /\ fes[n].intent # None => fes[n].intent.gen \in 1 .. fes[n].gen + MaxEvents
    BY BoundAssumption DEF TypeInv, WorldTyped, Generations, IsFEOf
  <2>2. QED
    BY <2>1 DEF TypeOK, TypeInv, Shapes, RunTyped, WorkTyped, WorldTyped
<1>3. QED
  BY <1>1, <1>2, InitTypes, PTL DEF Spec

-----------------------------------------------------------------------------
(* What the frontends are made of, and what an FE has of its FI.           *)

\* The FIs, those that a run has listed and the one in hand have frontends of
\* FIs, and every FE has menus that the renderer can read.
FrontendsInv ==
    /\ \A n \in Names : fis[n].uid # 0 => fis[n].frontend \in IntegrationFrontend
    /\ \A n \in DOMAIN mg.todo : mg.todo[n].frontend \in IntegrationFrontend
    /\ mg.work.pc # "none" \/ mg.work.fi.uid # 0 =>
          mg.work.fi.frontend \in IntegrationFrontend
    /\ \A n \in Names : fes[n].there => ExtensionHasMenus(fes[n].frontend)

\* What a patch cannot take away: the menus and pages that the FI in hand has.
Carries(frontend) ==
    /\ Desired.menus # <<>> => frontend.menus = Desired.menus
    /\ Desired.pages # <<>> => frontend.pages = Desired.pages

CarriedInv ==
    mg.work.pc \in {"intent", "delete"} /\ Name \notin touched => Carries(fes[Name].frontend)

LEMMA InitFrontends == Init => FrontendsInv /\ CarriedInv
<1> SUFFICES ASSUME Init PROVE FrontendsInv /\ CarriedInv
  OBVIOUS
<1>1. ASSUME NEW n \in Names, fis[n].uid # 0 PROVE fis[n].frontend \in IntegrationFrontend
  <2>1. CASE \E name \in Names, frontend \in Frontends, enabled \in BOOLEAN :
                fis = [[m \in Names |-> AbsentFI] EXCEPT
                          ![name] = NewFI(1, frontend, enabled, FALSE)]
    <3>1. PICK name \in Names, frontend \in Frontends, enabled \in BOOLEAN :
             fis = [[m \in Names |-> AbsentFI] EXCEPT
                       ![name] = NewFI(1, frontend, enabled, FALSE)]
      BY <2>1
    <3>2. fis[n] = NewFI(1, frontend, enabled, FALSE)
      BY <1>1, <3>1 DEF AbsentFI
    <3> QED BY <3>2, FrontendAssumption DEF NewFI
  <2>2. CASE \E held, enabled \in [Names -> BOOLEAN] :
                fis = [m \in Names |-> NewFI(1, Plain, enabled[m], held[m])]
    BY <2>2, FrontendAssumption DEF NewFI
  <2> QED BY <2>1, <2>2 DEF Init
<1>2. mg.todo = <<>> /\ mg.work.pc = "none" /\ mg.work.fi.uid = 0
  BY DEF Init, NoRun, NoWork, AbsentFI
<1>3. \A n \in Names : ~fes[n].there
  BY DEF Init, AbsentFE
<1> QED BY <1>1, <1>2, <1>3 DEF FrontendsInv, CarriedInv

\* An FI keeps its frontend, or people give it another.
LEMMA NextFIFrontends ==
    ASSUME Shapes, [Next]_vars, NEW n \in Names, fis'[n].uid # 0
    PROVE  \/ fis[n].uid # 0 /\ fis'[n].frontend = fis[n].frontend
           \/ fis'[n].frontend \in Edits \cup {Plain}
<1> DEFINE Goal == \/ fis[n].uid # 0 /\ fis'[n].frontend = fis[n].frontend
                   \/ fis'[n].frontend \in Edits \cup {Plain}
<1>1. \A m \in Names : fis[m] \in FI
  BY DEF Shapes
<1>2. CASE UNCHANGED fis
  BY <1>2
<1>3. ASSUME NEW name \in Names, NEW fi \in FI, fis' = [fis EXCEPT ![name] = fi],
             fi.uid # 0 => \/ fis[name].uid # 0 /\ fi.frontend = fis[name].frontend
                           \/ fi.frontend \in Edits \cup {Plain}
      PROVE  Goal
  BY <1>3, WrittenFIs
<1>4. CASE DeleteIntegration
  <2>1. Name \in Names
    BY <1>4 DEF Shapes, DeleteIntegration, At, Name
  <2> DEFINE gone == [fis[Name] EXCEPT !.deleting = TRUE]
             fi == IF fis[Name].held THEN gone ELSE AbsentFI
  <2>2. gone \in FI /\ gone.uid = fis[Name].uid /\ gone.frontend = fis[Name].frontend
    BY <1>1, <2>1 DEF FI
  <2>3. AbsentFI \in FI /\ AbsentFI.uid = 0
    BY DEF AbsentFI, FI, Maybe
  <2>4. fis' = [fis EXCEPT ![Name] = fi]
    BY <1>4 DEF DeleteIntegration
  <2> HIDE DEF gone
  <2>5. fi \in FI /\ (fi.uid # 0 => fis[Name].uid # 0 /\ fi.frontend = fis[Name].frontend)
    BY <2>2, <2>3
  <2> HIDE DEF fi
  <2> QED BY <1>3, <2>1, <2>4, <2>5
<1>5. ASSUME NEW name \in Names, ReleaseIntegration(name) PROVE Goal
  <2>1. AbsentFI \in FI /\ AbsentFI.uid = 0
    BY DEF AbsentFI, FI, Maybe
  <2> QED BY <1>3, <1>5, <2>1 DEF ReleaseIntegration
<1>6. ASSUME NEW name \in Names, ToggleIntegration(name) PROVE Goal
  <2> DEFINE fi == [fis[name] EXCEPT !.enabled = ~@]
  <2>1. fi \in FI /\ fi.uid = fis[name].uid /\ fi.frontend = fis[name].frontend
    BY <1>1 DEF FI
  <2>2. fis' = [fis EXCEPT ![name] = fi]
    BY <1>6 DEF ToggleIntegration, UserSetsFI
  <2> HIDE DEF fi
  <2> QED BY <1>3, <2>1, <2>2
<1>7. ASSUME NEW name \in Names, RecreateIntegration(name) PROVE Goal
  <2> DEFINE fi == NewFI(events + 2, Plain, TRUE, FALSE)
  <2>1. fi \in FI /\ fi.frontend = Plain
    BY DEF NewFI, FI, Maybe, Shapes
  <2>2. fis' = [fis EXCEPT ![name] = fi]
    BY <1>7 DEF RecreateIntegration, UserSetsFI
  <2> HIDE DEF fi
  <2> QED BY <1>3, <2>1, <2>2
<1>8. ASSUME NEW name \in Names, NEW frontend \in Edits, EditIntegration(name, frontend)
      PROVE  Goal
  <2> DEFINE fi == [fis[name] EXCEPT !.frontend = frontend]
  <2>1. fi \in FI /\ fi.frontend = frontend
    BY <1>1 DEF FI, Maybe
  <2>2. fis' = [fis EXCEPT ![name] = fi]
    BY <1>8 DEF EditIntegration, UserSetsFI
  <2> HIDE DEF fi
  <2> QED BY <1>3, <2>1, <2>2
<1> QED
  BY <1>2, <1>4, <1>5, <1>6, <1>7, <1>8
  DEF Next, vars, Migrator, World, ListIntegrations, GiveUp, Take, Finish, GetExtension,
      CreateExtension, PatchExtension, PatchPublishIntent, AwaitDeletion, CallFails,
      JobDies, Upgrade, EstablishCRDs, RemoveExtension, EditExtension, CreateForeign,
      UserSetsFE

\* The FI in hand is the one the migrator has had in hand, or one of the list.
LEMMA NextWorkFI ==
    ASSUME Shapes, [Next]_vars
    PROVE  \/ mg'.work = NoWork
           \/ \E n \in DOMAIN mg.todo : mg'.work = WorkOn(n)
           \/ mg'.work.fi = mg.work.fi /\ (mg'.work.pc # "none" => mg.work.pc # "none")
<1> DEFINE Goal == \/ mg'.work = NoWork
                   \/ \E n \in DOMAIN mg.todo : mg'.work = WorkOn(n)
                   \/ mg'.work.fi = mg.work.fi /\ (mg'.work.pc # "none" => mg.work.pc # "none")
<1>1. CASE ListIntegrations \/ JobDies \/ Upgrade
  BY <1>1 DEF ListIntegrations, JobDies, Upgrade, NoRun
<1>2. CASE GiveUp \/ Finish
  BY <1>2 DEF GiveUp, Finish, Shapes, IsRun
<1>3. ASSUME NEW name \in Names, Take(name) PROVE Goal
  BY <1>3, NextTaken DEF Take, Shapes
<1>4. CASE mg' = DoneWithOne \/ mg' = FailedOne
  BY <1>4, NextRuns
<1>5. ASSUME NEW pc, mg' = Goto(pc), mg.work.pc # "none" PROVE Goal
  <2>1. mg'.work = [pc |-> pc, name |-> Name, fi |-> mg.work.fi, fe |-> mg.work.fe]
    BY <1>5, NextRuns
  <2> QED BY <1>5, <2>1
<1>6. ASSUME NEW fe, Upserted(fe), mg.work.pc # "none" PROVE Goal
  <2>1. mg'.work = [pc |-> AfterUpsert, name |-> Name, fi |-> mg.work.fi, fe |-> fe]
    BY <1>6, NextUpsertedRun DEF Upserted
  <2> QED BY <1>6, <2>1
<1>7. CASE GetExtension \/ PatchPublishIntent \/ DeleteIntegration
  BY <1>4, <1>5, <1>7 DEF GetExtension, PatchPublishIntent, DeleteIntegration, At
<1>8. CASE CreateExtension \/ PatchExtension
  BY <1>4, <1>6, <1>8 DEF CreateExtension, PatchExtension, At
<1>9. CASE AwaitDeletion \/ CallFails
  BY <1>4, <1>9 DEF AwaitDeletion, CallFails
<1>10. CASE UNCHANGED mg
  BY <1>10
<1> QED
  BY <1>1, <1>2, <1>3, <1>7, <1>8, <1>9, <1>10
  DEF Next, vars, Migrator, World, EstablishCRDs, ReleaseIntegration,
      ToggleIntegration, RecreateIntegration, EditIntegration, UserSetsFI,
      RemoveExtension, EditExtension, CreateForeign, UserSetsFE

\* The list has the FIs there were when it was had, and gets shorter.
LEMMA NextTodo ==
    ASSUME Shapes, [Next]_vars, NEW n \in DOMAIN mg'.todo
    PROVE  \/ n \in DOMAIN mg.todo /\ mg'.todo[n] = mg.todo[n]
           \/ n \in Names /\ fis[n].uid # 0 /\ mg'.todo[n] = fis[n]
<1> DEFINE Goal == \/ n \in DOMAIN mg.todo /\ mg'.todo[n] = mg.todo[n]
                   \/ n \in Names /\ fis[n].uid # 0 /\ mg'.todo[n] = fis[n]
<1>1. CASE ListIntegrations
  BY <1>1 DEF ListIntegrations
<1>2. CASE JobDies \/ Upgrade
  <2>1. mg'.todo = <<>>
    BY <1>2 DEF JobDies, Upgrade, NoRun
  <2> QED BY <2>1
<1>3. CASE GiveUp \/ Finish
  BY <1>3 DEF GiveUp, Finish, Shapes, IsRun
<1>4. ASSUME NEW name \in Names, Take(name) PROVE Goal
  <2>1. mg'.todo = [m \in DOMAIN mg.todo \ {name} |-> mg.todo[m]]
    BY <1>4, NextTaken DEF Take, Shapes
  <2> QED BY <2>1
<1>5. CASE mg' = DoneWithOne \/ mg' = FailedOne
  BY <1>5, NextRuns
<1>6. ASSUME NEW pc, mg' = Goto(pc) PROVE Goal
  BY <1>6, NextRuns
<1>7. ASSUME NEW fe, Upserted(fe) PROVE Goal
  BY <1>7, NextUpsertedRun DEF Upserted
<1>8. CASE UNCHANGED mg
  BY <1>8
<1> QED
  BY <1>1, <1>2, <1>3, <1>4, <1>5, <1>6, <1>7, <1>8
  DEF Next, vars, Migrator, World, EstablishCRDs, ReleaseIntegration,
      ToggleIntegration, RecreateIntegration, EditIntegration, UserSetsFI,
      RemoveExtension, EditExtension, CreateForeign, UserSetsFE, GetExtension,
      CreateExtension, PatchExtension, PatchPublishIntent, DeleteIntegration,
      AwaitDeletion, CallFails

\* The frontend an FE is given is the one it has.
LEMMA FrontendGiven ==
    ASSUME NEW fe, IsFE(fe), NEW frontend
    PROVE  WithFrontend(fe, frontend).frontend = frontend
<1> DEFINE bumped == [fe EXCEPT !.gen = @ + 1]
<1>1. bumped = [there |-> fe.there, source |-> fe.source, frontend |-> fe.frontend,
                gen |-> fe.gen + 1, intent |-> fe.intent]
  BY DEF IsFE
<1> HIDE DEF bumped
<1>2. [bumped EXCEPT !.frontend = frontend].frontend = frontend
  BY <1>1
<1> QED BY <1>2 DEF WithFrontend, bumped

\* The frontend of the FE that the migrator writes.
LEMMA FrontendPatched ==
    ASSUME NEW fe, IsFE(fe), NEW frontend
    PROVE  [WithFrontend(fe, frontend) EXCEPT !.source = Name].frontend = frontend
<1> DEFINE new == WithFrontend(fe, frontend)
<1>1. IsFE(new) /\ new.frontend = frontend
  BY NextFrontend, FrontendGiven
<1> HIDE DEF new
<1>2. [new EXCEPT !.source = Name].frontend = frontend
  BY <1>1, NextFEs
<1> QED BY <1>2 DEF new

\* An FE keeps its frontend; or people give it another, or the migrator makes it
\* of the FI in hand or merges the two.
LEMMA NextFEFrontends ==
    ASSUME Shapes, [Next]_vars, NEW n \in Names, fes'[n].there
    PROVE  \/ fes[n].there /\ fes'[n].frontend = fes[n].frontend
           \/ fes'[n].frontend \in ExtensionEdits
           \/ mg.work.pc # "none" /\ fes'[n].frontend = Desired
           \/ /\ mg.work.pc # "none" /\ fes[n].there
              /\ fes'[n].frontend = MergedFrontend(fes[n].frontend, Desired)
<1> DEFINE Written(name, fe) ==
              fe.there =>
                 \/ fes[name].there /\ fe.frontend = fes[name].frontend
                 \/ fe.frontend \in ExtensionEdits
                 \/ mg.work.pc # "none" /\ fe.frontend = Desired
                 \/ /\ mg.work.pc # "none" /\ fes[name].there
                    /\ fe.frontend = MergedFrontend(fes[name].frontend, Desired)
           Goal == Written(n, fes'[n])
<1>1. ASSUME NEW name \in Names, NEW fe, fes' = [fes EXCEPT ![name] = fe], Written(name, fe)
      PROVE  Goal
  <2>1. fes'[n] = IF n = name THEN fe ELSE fes[n]
    BY <1>1 DEF Shapes
  <2> QED BY <1>1, <2>1
<1>2. CASE UNCHANGED fes
  BY <1>2
<1>3. ASSUME mg.work.pc # "none" PROVE Name \in Names /\ IsFE(fes[Name])
  BY <1>3 DEF Shapes, Name
<1>4. CASE CreateExtension
  <2>1. CASE Upserted(NewFE(Name, Desired))
    <3>1. Written(Name, NewFE(Name, Desired))
      BY <1>4 DEF CreateExtension, At, NewFE
    <3>2. Name \in Names /\ fes' = [fes EXCEPT ![Name] = NewFE(Name, Desired)]
      BY <1>3, <1>4, <2>1 DEF CreateExtension, At, Upserted
    <3> QED BY <1>1, <3>1, <3>2
  <2> QED BY <1>2, <1>4, <2>1 DEF CreateExtension
<1>5. CASE PatchExtension
  <2> DEFINE merged == MergedFrontend(fes[Name].frontend, Desired)
             fe == [WithFrontend(fes[Name], merged) EXCEPT !.source = Name]
  <2>1. mg.work.pc # "none"
    BY <1>5 DEF PatchExtension, At
  <2>2. CASE fes[Name].there /\ Upserted(fe)
    <3>1. fe.frontend = merged
      BY <1>3, <2>1, FrontendPatched
    <3> HIDE DEF fe
    <3>2. Written(Name, fe)
      BY <2>1, <2>2, <3>1
    <3>3. Name \in Names /\ fes' = [fes EXCEPT ![Name] = fe]
      BY <1>3, <2>1, <2>2 DEF Upserted
    <3> QED BY <1>1, <3>2, <3>3
  <2> QED BY <1>2, <1>5, <2>2 DEF PatchExtension
<1>6. CASE PatchPublishIntent
  <2>1. mg.work.pc # "none"
    BY <1>6 DEF PatchPublishIntent, At
  <2>2. CASE fes[Name].there /\ fes' = [fes EXCEPT ![Name].intent = PublishIntent(mg.work.fe)]
    <3> DEFINE fe == [fes[Name] EXCEPT !.intent = PublishIntent(mg.work.fe)]
    <3>1. fes' = [fes EXCEPT ![Name] = fe]
      BY <2>2
    <3>2. fe.frontend = fes[Name].frontend
      BY <1>3, <2>1, NextFEs
    <3> HIDE DEF fe
    <3>3. Written(Name, fe)
      BY <2>2, <3>2
    <3>4. Name \in Names
      BY <1>3, <2>1
    <3> QED BY <1>1, <3>1, <3>3, <3>4
  <2> QED BY <1>2, <1>6, <2>2 DEF PatchPublishIntent
<1>7. ASSUME NEW name \in Names, NEW frontend \in ExtensionEdits, EditExtension(name, frontend)
      PROVE  Goal
  <2>1. WithFrontend(fes[name], frontend).frontend = frontend
    BY FrontendGiven DEF Shapes
  <2> DEFINE fe == WithFrontend(fes[name], frontend)
  <2>2. fes' = [fes EXCEPT ![name] = fe]
    BY <1>7 DEF EditExtension, UserSetsFE
  <2> HIDE DEF fe
  <2> QED BY <1>1, <2>1, <2>2 DEF fe
<1>8. ASSUME NEW name \in Names, RemoveExtension(name) PROVE Goal
  BY <1>1, <1>8 DEF RemoveExtension, UserSetsFE, AbsentFE
<1>9. ASSUME NEW name \in Names, NEW frontend \in ExtensionEdits, CreateForeign(name, frontend)
      PROVE  Goal
  BY <1>1, <1>9 DEF CreateForeign, UserSetsFE, NewFE
<1>10. Goal
  BY <1>2, <1>4, <1>5, <1>6, <1>7, <1>8, <1>9
  DEF Next, vars, Migrator, World, ListIntegrations, GiveUp, Take, Finish, GetExtension,
      AwaitDeletion, CallFails, JobDies, Upgrade, EstablishCRDs, DeleteIntegration,
      ReleaseIntegration, ToggleIntegration, RecreateIntegration, EditIntegration, UserSetsFI
<1> QED BY <1>10

\* A merged FE has the menus of one of the two.
LEMMA MergedHasMenus ==
    ASSUME NEW old, NEW new, ExtensionHasMenus(old), ExtensionHasMenus(new)
    PROVE  ExtensionHasMenus(MergedFrontend(old, new))
<1>1. MergedFrontend(old, new).menus \in {old.menus, new.menus}
  BY DEF MergedFrontend
<1> QED BY <1>1 DEF ExtensionHasMenus

LEMMA NextFrontends == Shapes /\ FrontendsInv /\ [Next]_vars => FrontendsInv'
<1> SUFFICES ASSUME Shapes, FrontendsInv, [Next]_vars PROVE FrontendsInv'
  OBVIOUS
<1>1. \A n \in Names : fis'[n].uid # 0 => fis'[n].frontend \in IntegrationFrontend
  BY NextFIFrontends, FrontendAssumption DEF FrontendsInv
<1>2. \A n \in DOMAIN mg'.todo : mg'.todo[n].frontend \in IntegrationFrontend
  BY NextTodo DEF FrontendsInv
<1>3. mg'.work.pc # "none" \/ mg'.work.fi.uid # 0 =>
         mg'.work.fi.frontend \in IntegrationFrontend
  <2>1. NoWork.pc = "none" /\ NoWork.fi.uid = 0
    BY DEF NoWork, AbsentFI
  <2>2. \A n \in DOMAIN mg.todo : WorkOn(n).fi = mg.todo[n]
    BY DEF WorkOn
  <2> QED BY <2>1, <2>2, NextWorkFI DEF FrontendsInv
<1>4. ASSUME NEW n \in Names, fes'[n].there PROVE ExtensionHasMenus(fes'[n].frontend)
  <2>1. mg.work.pc # "none" => ExtensionHasMenus(Desired)
    BY MigratedHasMenus DEF FrontendsInv, Desired
  <2>2. \A frontend \in ExtensionEdits : ExtensionHasMenus(frontend)
    BY ExtensionFrontendHas, FrontendAssumption
  <2> QED BY <1>4, <2>1, <2>2, NextFEFrontends, MergedHasMenus DEF FrontendsInv
<1> QED BY <1>1, <1>2, <1>3, <1>4 DEF FrontendsInv

\* A frontend that is the desired one, or has it merged in, carries it.
LEMMA CarriesDesired ==
    ASSUME NEW old
    PROVE  Carries(Desired) /\ Carries(MergedFrontend(old, Desired))
BY DEF Carries, MergedFrontend

LEMMA NothingToCarry ==
    ASSUME mg'.work.pc \notin {"intent", "delete"}
    PROVE  CarriedInv'
BY DEF CarriedInv

LEMMA NextCarried == Shapes /\ CarriedInv /\ [Next]_vars => CarriedInv'
<1> SUFFICES ASSUME Shapes, CarriedInv, [Next]_vars PROVE CarriedInv'
  OBVIOUS
<1>0. NoWork.pc = "none"
  BY DEF NoWork
<1>1. ASSUME mg'.work.fi = mg.work.fi PROVE Desired' = Desired
  BY <1>1 DEF Desired
<1>2. CASE ListIntegrations \/ JobDies \/ Upgrade
  <2>1. mg'.work = NoWork
    BY <1>2 DEF ListIntegrations, JobDies, Upgrade, NoRun
  <2> QED BY <1>0, <2>1, NothingToCarry
<1>3. CASE GiveUp \/ Finish
  <2>1. mg'.work = mg.work
    BY <1>3 DEF GiveUp, Finish, Shapes, IsRun
  <2>2. mg.work.pc = "none"
    BY <1>3 DEF GiveUp, Finish, Idle, Shapes
  <2> QED BY <2>1, <2>2, NothingToCarry
<1>4. ASSUME NEW name \in Names, Take(name) PROVE CarriedInv'
  <2>1. mg'.work = WorkOn(name)
    BY <1>4, NextTaken DEF Take, Shapes
  <2>2. mg'.work.pc = "get"
    BY <2>1 DEF WorkOn
  <2> QED BY <2>2, NothingToCarry
<1>5. CASE mg' = DoneWithOne \/ mg' = FailedOne
  BY <1>0, <1>5, NextRuns, NothingToCarry
<1>6. ASSUME NEW pc \in {"create", "patch", "wait"}, mg' = Goto(pc) PROVE CarriedInv'
  <2>1. mg'.work = [pc |-> pc, name |-> Name, fi |-> mg.work.fi, fe |-> mg.work.fe]
    BY <1>6, NextRuns
  <2> QED BY <2>1, NothingToCarry
<1>7. CASE GetExtension \/ DeleteIntegration
  BY <1>5, <1>6, <1>7 DEF GetExtension, DeleteIntegration
<1>8. ASSUME NEW fe, Upserted(fe), Carries(fe.frontend), At("create") \/ At("patch")
      PROVE  CarriedInv'
  <2>1. mg'.work = [pc |-> AfterUpsert, name |-> Name, fi |-> mg.work.fi, fe |-> fe]
    BY <1>8, NextUpsertedRun DEF Upserted
  <2>2. fes'[Name] = fe
    BY <1>8 DEF Upserted, Shapes, At, Name
  <2>3. Name' = Name /\ Desired' = Desired
    BY <1>1, <2>1 DEF Name
  <2> QED BY <1>8, <2>2, <2>3 DEF CarriedInv, Carries
<1>9. CASE CreateExtension
  <2>1. NewFE(Name, Desired).frontend = Desired
    BY DEF NewFE
  <2> QED BY <1>5, <1>8, <1>9, <2>1, CarriesDesired DEF CreateExtension
<1>10. CASE PatchExtension
  <2> DEFINE merged == MergedFrontend(fes[Name].frontend, Desired)
             fe == [WithFrontend(fes[Name], merged) EXCEPT !.source = Name]
  <2>1. Name \in Names /\ IsFE(fes[Name])
    BY <1>10 DEF PatchExtension, At, Shapes, Name
  <2>2. fe.frontend = merged
    BY <2>1, FrontendPatched
  <2>3. Carries(fe.frontend)
    <3> HIDE DEF fe
    <3> QED BY <2>2, CarriesDesired
  <2>4. Upserted(fe) \/ mg' = FailedOne
    BY <1>10 DEF PatchExtension
  <2>5. At("patch")
    BY <1>10 DEF PatchExtension
  <2> HIDE DEF fe
  <2> QED BY <1>5, <1>8, <2>3, <2>4, <2>5
<1>11. CASE PatchPublishIntent
  <2>1. Name \in Names /\ IsFE(fes[Name]) /\ mg.work.pc = "intent" /\ touched' = touched
    BY <1>11 DEF PatchPublishIntent, At, Shapes, Name
  <2>2. CASE /\ fes' = [fes EXCEPT ![Name].intent = PublishIntent(mg.work.fe)]
             /\ mg' = Goto("delete")
    <3>1. mg'.work = [pc |-> "delete", name |-> Name, fi |-> mg.work.fi, fe |-> mg.work.fe]
      BY <2>2, NextRuns
    <3>2. fes'[Name] = [fes[Name] EXCEPT !.intent = PublishIntent(mg.work.fe)]
      BY <2>1, <2>2 DEF Shapes
    <3>3. fes'[Name].frontend = fes[Name].frontend
      BY <2>1, <3>2, NextFEs
    <3>4. Name' = Name /\ Desired' = Desired
      BY <1>1, <3>1 DEF Name
    <3> QED BY <2>1, <3>3, <3>4 DEF CarriedInv, Carries
  <2> QED BY <1>5, <1>11, <2>2 DEF PatchPublishIntent
<1>12. CASE AwaitDeletion \/ CallFails
  BY <1>5, <1>12 DEF AwaitDeletion, CallFails
<1>13. ASSUME UNCHANGED <<mg, fes, touched>> PROVE CarriedInv'
  BY <1>13 DEF CarriedInv, Carries, Desired, Name
<1>14. ASSUME NEW name \in Names, NEW kind, NEW fe, UserSetsFE(kind, name, fe)
       PROVE  CarriedInv'
  <2>1. touched' = touched \cup {name} /\ mg' = mg
    BY <1>14 DEF UserSetsFE
  <2>2. \A n \in Names \ {name} : fes'[n] = fes[n]
    BY <1>14 DEF UserSetsFE, Shapes
  <2>3. mg.work.pc # "none" => Name \in Names
    BY DEF Shapes, Name
  <2>4. Name' = Name /\ Desired' = Desired
    BY <1>1, <2>1 DEF Name
  <2> QED BY <2>1, <2>2, <2>3, <2>4 DEF CarriedInv, Carries
<1> QED
  BY <1>2, <1>3, <1>4, <1>7, <1>9, <1>10, <1>11, <1>12, <1>13, <1>14
  DEF Next, vars, Migrator, World, EstablishCRDs, ReleaseIntegration,
      ToggleIntegration, RecreateIntegration, EditIntegration, UserSetsFI,
      RemoveExtension, EditExtension, CreateForeign

LEMMA FrontendsInvariant == Spec => [](IInv /\ FrontendsInv /\ CarriedInv)
<1>1. IInv /\ FrontendsInv /\ CarriedInv /\ [Next]_vars => (FrontendsInv /\ CarriedInv)'
  BY NextFrontends, NextCarried DEF IInv
<1> QED BY InitFrontends, <1>1, Invariant, PTL DEF Spec

-----------------------------------------------------------------------------
(* What is served.                                                         *)

\* Whoever opens a route gets the page that its menu is bound to, made for the
\* placement he comes from, in the manifest of the FI in hand and in that of
\* every FE, whatever menus and pages they have.
THEOREM RoutesAreOpen == Spec => []RoutesOpenTheirPages
<1>1. ASSUME NEW input, HasMenus(input) PROVE RoutesOpen(input)
  BY <1>1, RouteOpens DEF RoutesOpen
<1>2. FrontendsInv => RoutesOpenTheirPages
  BY <1>1, IntegrationMenus, ExtensionIsInput DEF FrontendsInv, RoutesOpenTheirPages
<1> QED BY <1>2, FrontendsInvariant, PTL

\* The migrator deletes an FI only if its FE renders and serves what the FI
\* does, in the same places: for every frontend with a menu that the webhook
\* lets pass, migrated or merged into what an FE had, published or not.
THEOREM MigratesEverything == Spec => NothingLost
<1> DEFINE Kept ==
      \A n \in Names :
        Deletes(n) /\ Admitted(mg.work.fi.frontend) /\ mg.work.fi.frontend.menus # <<>>
        => ServesTheSame(fes[n], mg.work.fi)
<1>1. ASSUME IInv, FrontendsInv, CarriedInv, [Next]_vars, NEW n \in Names,
             Deletes(n), Admitted(mg.work.fi.frontend), mg.work.fi.frontend.menus # <<>>
      PROVE  ServesTheSame(fes[n], mg.work.fi)
  <2>1. fis'[n] # fis[n] /\ mg' # mg /\ n \notin touched
    BY <1>1 DEF Deletes
  <2>2. DeleteIntegration
    BY <1>1, <2>1 DEF Next, vars, Migrator, World, ListIntegrations, GiveUp, Take,
        Finish, GetExtension, CreateExtension, PatchExtension, PatchPublishIntent,
        AwaitDeletion, CallFails, JobDies, Upgrade, EstablishCRDs, ReleaseIntegration,
        ToggleIntegration, RecreateIntegration, EditIntegration, UserSetsFI,
        RemoveExtension, EditExtension, CreateForeign, UserSetsFE
  <2>3. n = Name /\ mg.work.pc = "delete"
    BY <1>1, <2>1, <2>2 DEF DeleteIntegration, At, IInv, Shapes
  <2> DEFINE f == mg.work.fi.frontend
             fe == fes[n].frontend
  <2>4. f \in IntegrationFrontend /\ Resolves(FromIntegration(f)) /\ f.menus # <<>>
    BY <1>1, <2>3 DEF FrontendsInv, Admitted
  <2>5. MigratedFrontend(f).menus # <<>> /\ MigratedFrontend(f).pages # <<>>
    BY <2>4, MigratedHas
  <2>6. fe.menus = MigratedFrontend(f).menus /\ fe.pages = MigratedFrontend(f).pages
    BY <1>1, <2>1, <2>3, <2>5 DEF CarriedInv, Carries, Desired
  <2>7. ExtensionResolves(fe) /\ Served(FromExtension(fe)) = Served(FromIntegration(f))
    <3> HIDE DEF f, fe
    <3> QED BY <2>4, <2>6, MigratedResolves, MigratedServes
  <2> QED BY <2>7 DEF ServesTheSame
<1>2. IInv /\ FrontendsInv /\ CarriedInv /\ [Next]_vars =>
         [Kept]_vars
  BY <1>1
<1> QED BY <1>2, FrontendsInvariant, PTL DEF Spec, NothingLost
=============================================================================
