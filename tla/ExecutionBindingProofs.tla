------------------------ MODULE ExecutionBindingProofs ------------------------
(* What ExecutionBinding and ExecutionTransactions guarantee for every set of tasks,      *)
(* attempts, Runners, operators and resources, every time to live, any number of renewals *)
(* and any number of overlapping transactions.                                            *)
EXTENDS ExecutionTransactions, FiniteSetTheorems, SequenceTheorems, TLAPS

USE DEF Kind, Resource

\* The assumptions on the constants, as the proofs use them.
LEMMA Constants ==
  /\ TaskOf \in [Attempt -> RunTask]
  /\ RunnerOf \in [Attempt -> Runner]
  /\ IdentityTTL \in Nat /\ RunnerTTL \in Nat
  /\ Identity \cap Slot = {}
  /\ TTL \in [Kind -> Nat]
BY OwnersAssumption, ResourcesAssumption, BoundsAssumption DEF TTL

\* A lease row stays one when its status, or its remaining time, is set.
LEMMA LeaseUpdate ==
  ASSUME NEW l \in Lease
  PROVE /\ \A s \in {"RELEASED", "EXPIRED"} : [l EXCEPT !.status = s] \in Lease
        /\ \A n \in Nat : [l EXCEPT !.ttl = n] \in Lease
BY DEF Lease

-----------------------------------------------------------------------------
(* Stale readings of a Runner *)

\* create_execution_attempt and start look at the Runner without a lock, so that it may be
\* another by the time they write: the steps of Next with that one condition dropped.  No
\* promise about owners, bindings and leases rests on it.
CreateAnyway(a) ==
  /\ attempt[a].lifecycle = "NONE"
  /\ Preparable(TaskOf[a])
  /\ attempt' = [attempt EXCEPT ![a].lifecycle = "CREATED"]
  /\ UNCHANGED <<task, binding, lease, generation, runner, view>>

StartAnyway(a) ==
  /\ attempt[a].lifecycle \in {"CREATED", "PREPARING"}
  /\ attempt[a].status = "READY"
  /\ binding[a].status = "READY"
  /\ LeasesHeld(a) /\ GenerationsMatch(a)
  /\ Preparable(TaskOf[a])
  /\ RunOwners(a)

LooseNext ==
  \/ \E t \in RunTask : CreateRunTask(t)
  \/ \E a \in Attempt : CreateAnyway(a)
  \/ \E a \in Attempt, i \in Identity, s \in Slot : CreateBinding(a, i, s)
  \/ \E o \in Operator, a \in Attempt : Read(o, a)
  \/ \E o \in Operator, a \in Attempt : Consume(o, a)
  \/ \E o \in Operator, a \in Attempt : Renew(o, a)
  \/ \E o \in Operator, a \in Attempt : Release(o, a)
  \/ \E o \in Operator, a \in Attempt : Recover(o, a)
  \/ \E a \in Attempt : StartAnyway(a)
  \/ \E a \in Attempt, outcome \in Outcome : Finish(a, outcome)
  \/ Tick
  \/ \E r \in Runner, s \in RunnerStatus : RunnerChanges(r, s)

LooseSpec == Init /\ [][LooseNext]_vars

\* Every step of ExecutionBinding is one of these.
LEMMA NextIsLoose == [Next]_vars => [LooseNext]_vars
  BY DEF Next, LooseNext, CreateAttempt, CreateAnyway, StartExecution, Startable, StartAnyway

LEMMA SpecIsLoose == Spec => LooseSpec
  BY NextIsLoose, PTL DEF Spec, LooseSpec

-----------------------------------------------------------------------------
(* Types *)

LEMMA TypeInit == Init => TypeOK
BY DEF Init, TypeOK, Task, AttemptRow, Binding, BindingStatus, Lease

LEMMA TypeStep == TypeOK /\ [LooseNext]_vars => TypeOK'
<1> SUFFICES ASSUME TypeOK, [LooseNext]_vars PROVE TypeOK'
  OBVIOUS
<1> USE DEF TypeOK
<1>1. ASSUME NEW t \in RunTask, CreateRunTask(t) PROVE TypeOK'
  BY <1>1 DEF CreateRunTask, Task
<1>2. ASSUME NEW a \in Attempt, CreateAnyway(a) PROVE TypeOK'
  BY <1>2 DEF CreateAnyway, AttemptRow
<1>3. ASSUME NEW a \in Attempt, NEW i \in Identity, NEW s \in Slot, CreateBinding(a, i, s)
      PROVE TypeOK'
  <2> DEFINE resourceOf == [k \in Kind |-> IF k = "IDENTITY" THEN i ELSE s]
  <2>1. Acquire(a, resourceOf)
    BY <1>3 DEF CreateBinding, BindResources, Admissible
  <2>2. resourceOf \in [Kind -> Resource]
    OBVIOUS
  <2> HIDE DEF resourceOf
  <2>3. generation' \in [Resource -> Nat]
    BY <2>1 DEF Acquire
  <2>4. lease' \in [Attempt -> [Kind -> Lease]]
    BY <2>1, <2>2, Constants DEF Acquire, Lease
  <2>5. binding' \in [Attempt -> Binding]
    <3> DEFINE row == [status |-> "READY", version |-> 1,
                       frozen |-> [k \in Kind |-> lease'[a][k].generation]]
    <3>1. \A k \in Kind : lease'[a][k].generation \in Nat
      BY <2>4 DEF Lease
    <3>2. row \in Binding
      BY <3>1 DEF Binding, BindingStatus
    <3>3. binding' = [binding EXCEPT ![a] = row]
      BY <1>3 DEF CreateBinding, BindResources, Admissible
    <3> HIDE DEF row
    <3>4. QED
      BY <3>2, <3>3
  <2>6. task' \in [RunTask -> Task] /\ attempt' \in [Attempt -> AttemptRow]
    <3>1. TaskOf[a] \in RunTask
      BY Constants
    <3>2. [task[TaskOf[a]] EXCEPT !.lifecycle =
             IF task[TaskOf[a]].lifecycle = "CREATED" THEN "PREPARING" ELSE @] \in Task
      BY <3>1 DEF Task
    <3>3. [attempt[a] EXCEPT !.lifecycle = "PREPARING"] \in AttemptRow
      BY DEF AttemptRow
    <3>4. QED
      BY <1>3, <3>1, <3>2, <3>3 DEF CreateBinding, BindResources, Admissible
  <2>7. QED
    BY <1>3, <2>3, <2>4, <2>5, <2>6 DEF CreateBinding, BindResources, Admissible
<1>4. ASSUME NEW a \in Attempt, NEW o \in Operator, binding' \in [Attempt -> Binding],
             Respond(o, a)
      PROVE view' \in [Operator -> [Attempt -> [status : BindingStatus, version : Nat]]]
  BY <1>4 DEF Respond, Binding
<1>5. ASSUME NEW a \in Attempt, NEW s \in BindingStatus, SetBinding(a, s)
      PROVE binding' \in [Attempt -> Binding]
  BY <1>5 DEF SetBinding, Binding
<1>6. ASSUME NEW a \in Attempt, NEW s \in {"RELEASED", "EXPIRED"}, CloseLeases(a, s)
      PROVE lease' \in [Attempt -> [Kind -> Lease]]
  <2>1. ASSUME NEW k \in Kind
        PROVE lease[a][k] \in Lease /\ [lease[a][k] EXCEPT !.status = s] \in Lease
    <3>1. lease[a][k] \in Lease
      OBVIOUS
    <3>2. QED
      BY <3>1, LeaseUpdate
  <2>2. QED
    BY <1>6, <2>1 DEF CloseLeases
<1>7. ASSUME NEW o \in Operator, NEW a \in Attempt, Read(o, a) PROVE TypeOK'
  BY <1>7 DEF Read, Binding
<1>8. ASSUME NEW o \in Operator, NEW a \in Attempt, Consume(o, a) PROVE TypeOK'
  BY <1>8, <1>4, <1>5 DEF Consume, BindingStatus
<1>9. ASSUME NEW o \in Operator, NEW a \in Attempt, Renew(o, a) PROVE TypeOK'
  <2>1. lease' \in [Attempt -> [Kind -> Lease]]
    <3>1. ASSUME NEW k \in Kind PROVE [lease[a][k] EXCEPT !.ttl = TTL[k]] \in Lease
      <4>1. lease[a][k] \in Lease
        OBVIOUS
      <4>2. TTL[k] \in Nat
        BY Constants
      <4>3. QED
        BY <4>1, <4>2, LeaseUpdate
    <3>2. QED
      BY <1>9, <3>1 DEF Renew
  <2>2. binding[a].status \in BindingStatus
    BY DEF Binding
  <2>3. QED
    BY <1>9, <1>4, <1>5, <2>1, <2>2 DEF Renew
<1>10. ASSUME NEW o \in Operator, NEW a \in Attempt, Release(o, a) PROVE TypeOK'
  BY <1>10, <1>4, <1>5, <1>6 DEF Release, BindingStatus
<1>11. ASSUME NEW o \in Operator, NEW a \in Attempt, Recover(o, a) PROVE TypeOK'
  BY <1>11, <1>4, <1>5, <1>6 DEF Recover, BindingStatus
<1>12. ASSUME NEW a \in Attempt, StartAnyway(a) PROVE TypeOK'
  <2>1. task' \in [RunTask -> Task] /\ attempt' \in [Attempt -> AttemptRow]
    BY <1>12, Constants DEF StartAnyway, RunOwners, Task, AttemptRow
  <2>2. QED
    BY <1>12, <1>5, <2>1 DEF StartAnyway, RunOwners, BindingStatus
<1>13. ASSUME NEW a \in Attempt, NEW outcome \in Outcome, Finish(a, outcome) PROVE TypeOK'
  <2>1. task' \in [RunTask -> Task] /\ attempt' \in [Attempt -> AttemptRow]
    BY <1>13, Constants DEF Finish, EndExecution, ResultOf, Outcome, Task, AttemptRow
  <2>2. binding' \in [Attempt -> Binding]
    BY <1>13, <1>5 DEF Finish, EndExecution, BindingStatus
  <2>3. QED
    BY <1>13, <1>6, <2>1, <2>2 DEF Finish, EndExecution
<1>14. ASSUME Tick PROVE TypeOK'
  <2>1. ASSUME NEW a \in Attempt, NEW k \in Kind
        PROVE [lease[a][k] EXCEPT !.ttl = IF lease[a][k].ttl > 0 THEN lease[a][k].ttl - 1
                                                                ELSE 0] \in Lease
    <3>1. lease[a][k] \in Lease
      OBVIOUS
    <3>2. (IF lease[a][k].ttl > 0 THEN lease[a][k].ttl - 1 ELSE 0) \in Nat
      BY <3>1 DEF Lease
    <3>3. QED
      BY <3>1, <3>2, LeaseUpdate
  <2>2. QED
    BY <1>14, <2>1 DEF Tick
<1>15. ASSUME NEW r \in Runner, NEW s \in RunnerStatus, RunnerChanges(r, s) PROVE TypeOK'
  BY <1>15 DEF RunnerChanges
<1>16. CASE UNCHANGED vars
  BY <1>16 DEF vars
<1>17. QED
  BY <1>1, <1>2, <1>3, <1>7, <1>8, <1>9, <1>10, <1>11, <1>12, <1>13, <1>14, <1>15, <1>16
  DEF LooseNext

\* Every reachable state of the owners, bindings, leases and views is well typed.
LEMMA LooseTypeCorrect == LooseSpec => []TypeOK
BY TypeInit, TypeStep, PTL DEF LooseSpec
-----------------------------------------------------------------------------
(* What the helpers do to one row *)

\* _release_lease and _expire_lease touch the status of one attempt's ACTIVE rows only.
LEMMA CloseEffect ==
  ASSUME TypeOK, NEW a \in Attempt, NEW s \in {"RELEASED", "EXPIRED"}, CloseLeases(a, s)
  PROVE \A b \in Attempt, k \in Kind :
          /\ lease'[b][k].resource = lease[b][k].resource
          /\ lease'[b][k].generation = lease[b][k].generation
          /\ lease'[b][k].status = IF b = a /\ lease[b][k].status = "ACTIVE"
                                   THEN s ELSE lease[b][k].status
<1>1. SUFFICES ASSUME NEW b \in Attempt, NEW k \in Kind
               PROVE /\ lease'[b][k].resource = lease[b][k].resource
                     /\ lease'[b][k].generation = lease[b][k].generation
                     /\ lease'[b][k].status = IF b = a /\ lease[b][k].status = "ACTIVE"
                                              THEN s ELSE lease[b][k].status
  OBVIOUS
<1>2. lease[b][k] \in Lease /\ lease[b] \in [Kind -> Lease]
  BY DEF TypeOK
<1>3. lease'[b][k] = IF b = a /\ lease[b][k].status = "ACTIVE"
                     THEN [lease[b][k] EXCEPT !.status = s] ELSE lease[b][k]
  BY <1>2 DEF CloseLeases, TypeOK
<1>4. QED
  BY <1>2, <1>3 DEF Lease

\* The clock and a renewal touch nothing but the remaining time.
LEMMA TimeEffect ==
  ASSUME TypeOK,
         Tick \/ \E o \in Operator, a \in Attempt : Renew(o, a)
  PROVE \A b \in Attempt, k \in Kind :
          /\ lease'[b][k].resource = lease[b][k].resource
          /\ lease'[b][k].generation = lease[b][k].generation
          /\ lease'[b][k].status = lease[b][k].status
<1>1. ASSUME NEW b \in Attempt, NEW k \in Kind, NEW n, lease'[b][k] = [lease[b][k] EXCEPT !.ttl = n]
      PROVE /\ lease'[b][k].resource = lease[b][k].resource
            /\ lease'[b][k].generation = lease[b][k].generation
            /\ lease'[b][k].status = lease[b][k].status
  <2>1. lease[b][k] \in Lease
    BY DEF TypeOK
  <2>2. QED
    BY <1>1, <2>1 DEF Lease
<1>2. CASE Tick
  BY <1>1, <1>2 DEF Tick
<1>3. CASE \E o \in Operator, a \in Attempt : Renew(o, a)
  <2>1. PICK a \in Attempt : lease' = [lease EXCEPT ![a] = [k \in Kind |->
                                        [lease[a][k] EXCEPT !.ttl = TTL[k]]]]
    BY <1>3 DEF Renew
  <2>2. ASSUME NEW b \in Attempt, NEW k \in Kind
        PROVE lease'[b][k] = [lease[b][k] EXCEPT !.ttl = TTL[k]] \/ lease'[b] = lease[b]
    BY <2>1 DEF TypeOK
  <2>3. ASSUME NEW b \in Attempt, NEW k \in Kind
        PROVE /\ lease'[b][k].resource = lease[b][k].resource
              /\ lease'[b][k].generation = lease[b][k].generation
              /\ lease'[b][k].status = lease[b][k].status
    <3>1. CASE lease'[b][k] = [lease[b][k] EXCEPT !.ttl = TTL[k]]
      BY <3>1, <1>1
    <3>2. CASE lease'[b] = lease[b]
      BY <3>2
    <3>3. QED
      BY <2>2, <3>1, <3>2
  <2>4. QED
    BY <2>3
<1>4. QED
  BY <1>2, <1>3

\* A change of status takes the next row_version and leaves the frozen generations.
LEMMA SetEffect ==
  ASSUME TypeOK, NEW a \in Attempt, NEW s, SetBinding(a, s)
  PROVE /\ \A b \in Attempt \ {a} : binding'[b] = binding[b]
        /\ binding'[a].status = s
        /\ binding'[a].version = binding[a].version + 1
        /\ \A b \in Attempt : binding'[b].frozen = binding[b].frozen
<1>1. binding[a] \in Binding /\ binding \in [Attempt -> Binding]
  BY DEF TypeOK
<1>2. binding' = [binding EXCEPT ![a] =
                    [[binding[a] EXCEPT !.status = s] EXCEPT !.version = binding[a].version + 1]]
  BY <1>1 DEF SetBinding, Binding
<1>3. QED
  BY <1>1, <1>2 DEF Binding
-----------------------------------------------------------------------------
(* Leases: coherence, fencing, exclusion *)

\* An identity lease names an identity and a Runner lease a slot.
Placed ==
  \A a \in Attempt, k \in Kind : lease[a][k].status # "NONE" =>
    lease[a][k].resource \in (IF k = "IDENTITY" THEN Identity ELSE Slot)

\* Inductive: the generations alone carry exclusion, since two ACTIVE rows of one resource
\* would both have its newest generation.
LeaseInv == TypeOK /\ Placed /\ BindingLeaseCoherent /\ FencingSound

\* Steps that issue no generation, open no row and leave what the bindings froze.
LEMMA FencingKept ==
  ASSUME LeaseInv, UNCHANGED generation,
         \A b \in Attempt : binding'[b].frozen = binding[b].frozen,
         \A b \in Attempt, k \in Kind :
           /\ lease'[b][k].resource = lease[b][k].resource
           /\ lease'[b][k].generation = lease[b][k].generation
           /\ lease'[b][k].status = "NONE" <=> lease[b][k].status = "NONE"
           /\ lease'[b][k].status = "ACTIVE" => lease[b][k].status = "ACTIVE"
  PROVE Placed' /\ FencingSound'
BY DEF LeaseInv, Placed, FencingSound

\* create issues the next generation of two resources nobody holds.
LEMMA FencingIssued ==
  ASSUME LeaseInv, NEW a \in Attempt, NEW i \in Identity, NEW s \in Slot,
         CreateBinding(a, i, s)
  PROVE Placed' /\ FencingSound'
<1> DEFINE resourceOf == [k \in Kind |-> IF k = "IDENTITY" THEN i ELSE s]
           row(k) == [status |-> "ACTIVE", resource |-> resourceOf[k],
                      generation |-> generation[resourceOf[k]] + 1, ttl |-> TTL[k]]
<1>1. /\ generation' = [r \in Resource |->
            IF \E k \in Kind : resourceOf[k] = r THEN generation[r] + 1 ELSE generation[r]]
      /\ lease' = [lease EXCEPT ![a] = [k \in Kind |-> row(k)]]
  BY DEF CreateBinding, BindResources, Admissible, Acquire
<1>2. resourceOf["IDENTITY"] = i /\ resourceOf["RUNNER"] = s /\ i # s
  BY ResourcesAssumption
<1>3. \A r \in Resource : generation[r] \in Nat
  BY DEF LeaseInv, TypeOK
<1> HIDE DEF resourceOf
<1>4. /\ \A b \in Attempt \ {a} : lease'[b] = lease[b]
      /\ \A k \in Kind : lease'[a][k] = row(k)
  BY <1>1 DEF LeaseInv, TypeOK
<1>5. /\ generation'[i] = generation[i] + 1
      /\ generation'[s] = generation[s] + 1
      /\ \A r \in Resource \ {i, s} : generation'[r] = generation[r]
  BY <1>1, <1>2
<1>6. \A k \in Kind : lease[a][k].status = "NONE"
  BY DEF LeaseInv, BindingLeaseCoherent, CreateBinding, BindResources, Admissible, Live
<1>7. \A b \in Attempt, k \in Kind :
        /\ lease[b][k].resource = i => lease[b][k].status # "ACTIVE"
        /\ lease[b][k].resource = s => lease[b][k].status # "ACTIVE"
  BY DEF CreateBinding, BindResources, Admissible, Available
<1>8. /\ \A b \in Attempt \ {a} : binding'[b] = binding[b]
      /\ \A k \in Kind : binding'[a].frozen[k] = lease'[a][k].generation
  BY DEF CreateBinding, BindResources, Admissible, LeaseInv, TypeOK
<1>9. Placed'
  BY <1>2, <1>4 DEF LeaseInv, Placed
<1>10. FencingSound'
  <2> SUFFICES ASSUME NEW b \in Attempt, NEW k \in Kind, lease'[b][k].status # "NONE"
               PROVE /\ lease'[b][k].generation = binding'[b].frozen[k]
                     /\ lease'[b][k].generation <= generation'[lease'[b][k].resource]
                     /\ lease'[b][k].status = "ACTIVE" =>
                          lease'[b][k].generation = generation'[lease'[b][k].resource]
                     /\ \A c \in Attempt, j \in Kind :
                          /\ lease'[c][j].status # "NONE"
                          /\ lease'[c][j].resource = lease'[b][k].resource
                          /\ lease'[c][j].generation = lease'[b][k].generation
                          => b = c /\ k = j
    BY DEF FencingSound
  <2>1. ASSUME NEW c \in Attempt, NEW j \in Kind, c # a, lease[c][j].status # "NONE"
        PROVE /\ lease'[c][j] = lease[c][j]
              /\ lease[c][j].resource \in Resource
              /\ lease[c][j].generation \in Nat
              /\ lease[c][j].generation <= generation[lease[c][j].resource]
    BY <1>4, <2>1 DEF LeaseInv, Placed, FencingSound, TypeOK, Lease
  <2>2. CASE b = a
    <3>1. lease'[b][k].resource \in {i, s}
      BY <1>2, <1>4, <2>2
    <3>2. lease'[b][k].generation = generation[lease'[b][k].resource] + 1
      BY <1>4, <2>2
    <3>3. \A c \in Attempt, j \in Kind :
             /\ lease'[c][j].status # "NONE"
             /\ lease'[c][j].resource = lease'[b][k].resource
             /\ lease'[c][j].generation = lease'[b][k].generation
             => b = c /\ k = j
      BY <1>2, <1>3, <1>4, <2>1, <2>2, <3>1, <3>2
    <3>4. lease'[b][k].generation = generation'[lease'[b][k].resource]
      BY <1>5, <3>1, <3>2
    <3>5. lease'[b][k].generation \in Nat
      BY <1>3, <3>1, <3>2
    <3>6. lease'[b][k].generation = binding'[b].frozen[k]
      BY <1>8, <2>2
    <3>7. lease'[b][k].generation <= generation'[lease'[b][k].resource]
      BY <3>4, <3>5
    <3>8. QED
      BY <3>3, <3>4, <3>6, <3>7
  <2>3. CASE b # a
    <3>1. lease[b][k].status # "NONE" /\ lease'[b][k] = lease[b][k]
      BY <1>4, <2>3
    <3>2. \A c \in Attempt, j \in Kind :
             /\ lease'[c][j].status # "NONE"
             /\ lease'[c][j].resource = lease'[b][k].resource
             /\ lease'[c][j].generation = lease'[b][k].generation
             => b = c /\ k = j
      <4> SUFFICES ASSUME NEW c \in Attempt, NEW j \in Kind,
                          lease'[c][j].status # "NONE",
                          lease'[c][j].resource = lease'[b][k].resource,
                          lease'[c][j].generation = lease'[b][k].generation
                   PROVE b = c /\ k = j
        OBVIOUS
      <4>1. CASE c = a
        BY <1>2, <1>3, <1>4, <2>1, <2>3, <3>1, <4>1
      <4>2. CASE c # a
        BY <1>4, <3>1, <4>2 DEF LeaseInv, FencingSound
      <4>3. QED
        BY <4>1, <4>2
    <3>3. lease[b][k].status = "ACTIVE" => lease[b][k].resource \notin {i, s}
      BY <1>7
    <3>4. /\ lease[b][k].generation = binding[b].frozen[k]
          /\ lease[b][k].status = "ACTIVE" =>
               lease[b][k].generation = generation[lease[b][k].resource]
      BY <3>1 DEF LeaseInv, FencingSound
    <3>5. lease'[b][k].generation <= generation'[lease'[b][k].resource]
      BY <1>3, <1>5, <2>1, <2>3, <3>1
    <3>6. QED
      BY <1>5, <1>8, <2>1, <2>3, <3>1, <3>2, <3>3, <3>4, <3>5
  <2>4. QED
    BY <2>2, <2>3
<1>11. QED
  BY <1>9, <1>10
LEMMA LeaseInit == Init => LeaseInv
<1> SUFFICES ASSUME Init PROVE Placed /\ BindingLeaseCoherent /\ FencingSound
  BY TypeInit DEF LeaseInv
<1>1. \A a \in Attempt, k \in Kind : lease[a][k].status = "NONE" /\ binding[a].status = "NONE"
  BY DEF Init
<1>2. QED
  BY <1>1 DEF Placed, BindingLeaseCoherent, FencingSound, Live

\* A binding that closes takes the status its rows take.
LEMMA CoherentClose ==
  ASSUME LeaseInv, NEW a \in Attempt, NEW s \in {"RELEASED", "EXPIRED"}, Live(a),
         CloseLeases(a, s), SetBinding(a, s)
  PROVE BindingLeaseCoherent'
BY CloseEffect, SetEffect DEF LeaseInv, BindingLeaseCoherent, Live

\* Steps that leave every status.
LEMMA CoherentKept ==
  ASSUME LeaseInv,
         \A b \in Attempt, k \in Kind : lease'[b][k].status = lease[b][k].status,
         \A b \in Attempt : binding'[b].status = binding[b].status
  PROVE BindingLeaseCoherent'
BY DEF LeaseInv, BindingLeaseCoherent, Live

LEMMA LeaseStep == LeaseInv /\ [LooseNext]_vars => LeaseInv'
<1> SUFFICES ASSUME LeaseInv, [LooseNext]_vars
             PROVE Placed' /\ BindingLeaseCoherent' /\ FencingSound'
  BY TypeStep DEF LeaseInv
<1>0. TypeOK
  BY DEF LeaseInv
<1>1. CASE UNCHANGED <<binding, lease, generation>>
  BY <1>1 DEF LeaseInv, Placed, BindingLeaseCoherent, FencingSound, Live
<1>2. ASSUME NEW t \in RunTask, CreateRunTask(t)
      PROVE Placed' /\ BindingLeaseCoherent' /\ FencingSound'
  BY <1>1, <1>2 DEF CreateRunTask
<1>3. ASSUME NEW a \in Attempt, CreateAnyway(a)
      PROVE Placed' /\ BindingLeaseCoherent' /\ FencingSound'
  BY <1>1, <1>3 DEF CreateAnyway
<1>4. ASSUME NEW a \in Attempt, NEW i \in Identity, NEW s \in Slot, CreateBinding(a, i, s)
      PROVE Placed' /\ BindingLeaseCoherent' /\ FencingSound'
  <2>1. /\ \A b \in Attempt \ {a} : binding'[b] = binding[b] /\ lease'[b] = lease[b]
        /\ binding'[a].status = "READY"
        /\ \A k \in Kind : lease'[a][k].status = "ACTIVE"
    BY <1>0, <1>4 DEF CreateBinding, BindResources, Admissible, Acquire, TypeOK
  <2>2. BindingLeaseCoherent'
    BY <2>1 DEF LeaseInv, BindingLeaseCoherent, Live
  <2>3. QED
    BY <1>4, <2>2, FencingIssued
<1>5. ASSUME NEW o \in Operator, NEW a \in Attempt, Read(o, a)
      PROVE Placed' /\ BindingLeaseCoherent' /\ FencingSound'
  BY <1>1, <1>5 DEF Read
<1>6. ASSUME NEW a \in Attempt, SetBinding(a, "IN_USE"), Live(a), UNCHANGED <<lease, generation>>
      PROVE Placed' /\ BindingLeaseCoherent' /\ FencingSound'
  <2>1. /\ \A b \in Attempt \ {a} : binding'[b] = binding[b]
        /\ binding'[a].status = "IN_USE"
        /\ \A b \in Attempt : binding'[b].frozen = binding[b].frozen
    BY <1>0, <1>6, SetEffect
  <2>2. BindingLeaseCoherent'
    BY <1>6, <2>1 DEF LeaseInv, BindingLeaseCoherent, Live
  <2>3. Placed' /\ FencingSound'
    BY <1>6, <2>1, FencingKept
  <2>4. QED
    BY <2>2, <2>3
<1>7. ASSUME NEW o \in Operator, NEW a \in Attempt, Consume(o, a)
      PROVE Placed' /\ BindingLeaseCoherent' /\ FencingSound'
  BY <1>6, <1>7 DEF Consume, Live
<1>8. ASSUME NEW o \in Operator, NEW a \in Attempt, Renew(o, a)
      PROVE Placed' /\ BindingLeaseCoherent' /\ FencingSound'
  <2>1. SetBinding(a, binding[a].status) /\ UNCHANGED generation
    BY <1>8 DEF Renew
  <2>2. \A b \in Attempt : binding'[b].status = binding[b].status
    BY <1>0, <2>1, SetEffect
  <2>3. \A b \in Attempt : binding'[b].frozen = binding[b].frozen
    BY <1>0, <2>1, SetEffect
  <2>4. \A b \in Attempt, k \in Kind :
          /\ lease'[b][k].resource = lease[b][k].resource
          /\ lease'[b][k].generation = lease[b][k].generation
          /\ lease'[b][k].status = lease[b][k].status
    BY <1>0, <1>8, TimeEffect
  <2>5. BindingLeaseCoherent'
    BY <2>2, <2>4, CoherentKept
  <2>6. Placed' /\ FencingSound'
    BY <2>1, <2>3, <2>4, FencingKept
  <2>7. QED
    BY <2>5, <2>6
<1>9. ASSUME NEW a \in Attempt, NEW s \in {"RELEASED", "EXPIRED"}, CloseLeases(a, s),
             \A b \in Attempt : binding'[b].frozen = binding[b].frozen, UNCHANGED generation
      PROVE Placed' /\ FencingSound'
  BY <1>0, <1>9, CloseEffect, FencingKept
<1>10. ASSUME NEW o \in Operator, NEW a \in Attempt, Release(o, a)
       PROVE Placed' /\ BindingLeaseCoherent' /\ FencingSound'
  BY <1>0, <1>9, <1>10, SetEffect, CoherentClose DEF Release, Commandable
<1>11. ASSUME NEW o \in Operator, NEW a \in Attempt, Recover(o, a)
       PROVE Placed' /\ BindingLeaseCoherent' /\ FencingSound'
  BY <1>0, <1>9, <1>11, SetEffect, CoherentClose DEF Recover, Commandable
<1>12. ASSUME NEW a \in Attempt, StartAnyway(a)
       PROVE Placed' /\ BindingLeaseCoherent' /\ FencingSound'
  BY <1>6, <1>12 DEF StartAnyway, RunOwners, Live
<1>13. ASSUME NEW a \in Attempt, NEW outcome \in Outcome, Finish(a, outcome)
       PROVE Placed' /\ BindingLeaseCoherent' /\ FencingSound'
  <2>1. CloseLeases(a, "RELEASED") /\ UNCHANGED generation
    BY <1>13 DEF Finish, EndExecution
  <2>2. CASE Live(a)
    <3>1. SetBinding(a, "RELEASED")
      BY <1>13, <2>2 DEF Finish, EndExecution
    <3>2. QED
      BY <1>0, <1>9, <2>1, <2>2, <3>1, SetEffect, CoherentClose
  <2>3. CASE ~Live(a)
    <3>1. UNCHANGED binding
      BY <1>13, <2>3 DEF Finish, EndExecution
    <3>2. binding[a].status \in {"NONE", "RELEASED", "EXPIRED"}
      BY <1>0, <2>3 DEF TypeOK, Binding, BindingStatus, Live
    <3>3. \A k \in Kind : lease[a][k].status # "ACTIVE"
      BY <3>2 DEF LeaseInv, BindingLeaseCoherent, Live
    <3>4. \A b \in Attempt, k \in Kind : lease'[b][k].status = lease[b][k].status
      BY <1>0, <2>1, <3>3, CloseEffect
    <3>5. BindingLeaseCoherent'
      BY <3>1, <3>4, CoherentKept
    <3>6. Placed' /\ FencingSound'
      BY <1>9, <2>1, <3>1
    <3>7. QED
      BY <3>5, <3>6
  <2>4. QED
    BY <2>2, <2>3
<1>14. ASSUME Tick PROVE Placed' /\ BindingLeaseCoherent' /\ FencingSound'
  <2>1. UNCHANGED <<binding, generation>>
    BY <1>14 DEF Tick
  <2>2. \A b \in Attempt, k \in Kind :
          /\ lease'[b][k].resource = lease[b][k].resource
          /\ lease'[b][k].generation = lease[b][k].generation
          /\ lease'[b][k].status = lease[b][k].status
    BY <1>0, <1>14, TimeEffect
  <2>3. BindingLeaseCoherent'
    BY <2>1, <2>2, CoherentKept
  <2>4. Placed' /\ FencingSound'
    BY <2>1, <2>2, FencingKept
  <2>5. QED
    BY <2>3, <2>4
<1>15. ASSUME NEW r \in Runner, NEW s \in RunnerStatus, RunnerChanges(r, s)
       PROVE Placed' /\ BindingLeaseCoherent' /\ FencingSound'
  BY <1>1, <1>15 DEF RunnerChanges
<1>16. CASE UNCHANGED vars
  BY <1>1, <1>16 DEF vars
<1>17. QED
  BY <1>2, <1>3, <1>4, <1>5, <1>7, <1>8, <1>10, <1>11, <1>12, <1>13, <1>14, <1>15, <1>16
  DEF LooseNext

LEMMA LeaseInvariant == LooseSpec => []LeaseInv
BY LeaseInit, LeaseStep, PTL DEF LooseSpec

\* Whatever commands, executions and expiries interleave, a binding and its two lease rows
\* close together and no closed binding keeps a resource.
LEMMA LooseBindingLeasesCoherent == LooseSpec => []BindingLeaseCoherent
BY LeaseInvariant, PTL DEF LeaseInv

\* A generation is issued once per resource, and an ACTIVE lease has the newest.
LEMMA LooseGenerationsFence == LooseSpec => []FencingSound
BY LeaseInvariant, PTL DEF LeaseInv

\* No resource serves two ACTIVE leases: a consequence of fencing, by uniqueness.
LEMMA LooseLeasesExclude == LooseSpec => []LeaseExclusive
<1>1. LeaseInv => LeaseExclusive
  BY DEF LeaseInv, FencingSound, LeaseExclusive
<1>2. QED
  BY <1>1, LeaseInvariant, PTL
-----------------------------------------------------------------------------
(* Owners *)

\* The RunTask of a new binding is prepared if it was CREATED, and otherwise left as it is.
LEMMA TaskOfNewBinding ==
  ASSUME TypeOK, NEW a \in Attempt, NEW i \in Identity, NEW s \in Slot, CreateBinding(a, i, s)
  PROVE /\ \A u \in RunTask \ {TaskOf[a]} : task'[u] = task[u]
        /\ \/ /\ task[TaskOf[a]].lifecycle = "CREATED"
              /\ task'[TaskOf[a]].lifecycle = "PREPARING"
           \/ task'[TaskOf[a]] = task[TaskOf[a]]
<1> DEFINE t == TaskOf[a]
           stage == IF task[t].lifecycle = "CREATED" THEN "PREPARING" ELSE task[t].lifecycle
<1>1. t \in RunTask /\ task \in [RunTask -> Task]
  BY Constants DEF TypeOK
<1>2. task' = [task EXCEPT ![t] = [task[t] EXCEPT !.lifecycle = stage]]
  BY <1>1 DEF CreateBinding, BindResources
<1>3. [task[t] EXCEPT !.lifecycle = task[t].lifecycle] = task[t]
  <2>1. task[t] \in Task
    BY <1>1
  <2>2. QED
    BY <2>1 DEF Task
<1>4. [task[t] EXCEPT !.lifecycle = stage].lifecycle = stage
  BY <1>1 DEF Task
<1>5. CASE task[t].lifecycle = "CREATED"
  BY <1>1, <1>2, <1>4, <1>5
<1>6. CASE task[t].lifecycle # "CREATED"
  BY <1>1, <1>2, <1>3, <1>6
<1>7. QED
  BY <1>5, <1>6

OwnersInv == TypeOK /\ OwnersAgree

LEMMA OwnersInit == Init => OwnersInv
BY TypeInit, Constants DEF OwnersInv, Init, OwnersAgree

\* Steps that leave who is RUNNING.
LEMMA OwnersKept ==
  ASSUME OwnersInv,
         \A a \in Attempt :
           attempt'[a].lifecycle = "RUNNING" <=> attempt[a].lifecycle = "RUNNING",
         \A t \in RunTask : task'[t].lifecycle = "RUNNING" <=> task[t].lifecycle = "RUNNING"
  PROVE OwnersAgree'
BY DEF OwnersInv, OwnersAgree

LEMMA OwnersStep == OwnersInv /\ [LooseNext]_vars => OwnersInv'
<1> SUFFICES ASSUME OwnersInv, [LooseNext]_vars PROVE OwnersAgree'
  BY TypeStep DEF OwnersInv
<1>0. /\ attempt \in [Attempt -> AttemptRow]
      /\ task \in [RunTask -> Task]
      /\ \A a \in Attempt : TaskOf[a] \in RunTask
  BY Constants DEF OwnersInv, TypeOK
<1>1. CASE UNCHANGED <<task, attempt>>
  BY <1>1 DEF OwnersInv, OwnersAgree
<1>2. ASSUME NEW t \in RunTask, CreateRunTask(t) PROVE OwnersAgree'
  <2>1. /\ \A u \in RunTask \ {t} : task'[u] = task[u]
        /\ task'[t].lifecycle = "CREATED" /\ task[t].lifecycle = "NONE"
        /\ UNCHANGED attempt
    BY <1>0, <1>2 DEF CreateRunTask, Task
  <2>2. QED
    BY <2>1, OwnersKept
<1>3. ASSUME NEW a \in Attempt, CreateAnyway(a) PROVE OwnersAgree'
  <2>1. /\ \A b \in Attempt \ {a} : attempt'[b] = attempt[b]
        /\ attempt'[a].lifecycle = "CREATED" /\ attempt[a].lifecycle = "NONE"
        /\ UNCHANGED task
    BY <1>0, <1>3 DEF CreateAnyway, AttemptRow
  <2>2. QED
    BY <2>1, OwnersKept
<1>4. ASSUME NEW a \in Attempt, NEW i \in Identity, NEW s \in Slot, CreateBinding(a, i, s)
      PROVE OwnersAgree'
  <2>1. /\ \A b \in Attempt \ {a} : attempt'[b] = attempt[b]
        /\ attempt'[a].lifecycle = "PREPARING" /\ attempt[a].lifecycle # "RUNNING"
    BY <1>0, <1>4 DEF CreateBinding, BindResources, Admissible, AttemptRow
  <2>2. \A u \in RunTask : task'[u].lifecycle = "RUNNING" <=> task[u].lifecycle = "RUNNING"
    BY <1>4, TaskOfNewBinding DEF OwnersInv
  <2>3. QED
    BY <2>1, <2>2, OwnersKept
<1>5. ASSUME NEW a \in Attempt, StartAnyway(a) PROVE OwnersAgree'
  <2>1. /\ \A b \in Attempt \ {a} : attempt'[b] = attempt[b]
        /\ attempt'[a].lifecycle = "RUNNING"
    BY <1>0, <1>5 DEF StartAnyway, RunOwners
  <2>2. /\ \A u \in RunTask \ {TaskOf[a]} : task'[u] = task[u]
        /\ task'[TaskOf[a]].lifecycle = "RUNNING" /\ task[TaskOf[a]].lifecycle # "RUNNING"
    BY <1>0, <1>5 DEF StartAnyway, RunOwners, Preparable
  <2>3. \A b \in Attempt : TaskOf[b] = TaskOf[a] => attempt[b].lifecycle # "RUNNING"
    BY <1>0, <2>2 DEF OwnersInv, OwnersAgree
  <2>4. QED
    BY <1>0, <2>1, <2>2, <2>3 DEF OwnersInv, OwnersAgree
<1>6. ASSUME NEW a \in Attempt, NEW outcome \in Outcome, Finish(a, outcome) PROVE OwnersAgree'
  <2>1. /\ \A b \in Attempt \ {a} : attempt'[b] = attempt[b]
        /\ attempt'[a].lifecycle = "COMPLETED" /\ attempt[a].lifecycle = "RUNNING"
    BY <1>0, <1>6 DEF Finish, EndExecution
  <2>2. /\ \A u \in RunTask \ {TaskOf[a]} : task'[u] = task[u]
        /\ task'[TaskOf[a]].lifecycle = "COMPLETED"
    BY <1>0, <1>6 DEF Finish, EndExecution
  <2>3. \A b \in Attempt \ {a} : TaskOf[b] = TaskOf[a] => attempt[b].lifecycle # "RUNNING"
    BY <2>1 DEF OwnersInv, OwnersAgree
  <2>4. QED
    BY <1>0, <2>1, <2>2, <2>3 DEF OwnersInv, OwnersAgree
<1>7. QED
  BY <1>1, <1>2, <1>3, <1>4, <1>5, <1>6
  DEF LooseNext, Read, Consume, Renew, Release, Recover, Tick, RunnerChanges, vars

\* A RunTask is RUNNING exactly while one attempt of it is: two sibling attempts, both
\* prepared and bound, never run together, and an ending execution finds its RunTask RUNNING.
LEMMA LooseOwnersStayTogether == LooseSpec => []OwnersAgree
<1>1. OwnersInv => OwnersAgree
  BY DEF OwnersInv
<1>2. QED
  BY <1>1, OwnersInit, OwnersStep, PTL DEF LooseSpec

\* A completed owner never changes, and a RunTask gets its result from the attempt that ran,
\* in the step that completes both.
LEMMA LooseVerdictsAreFinal == LooseSpec => VerdictFinal
<1> DEFINE A == /\ \A a \in Attempt : attempt[a].lifecycle = "COMPLETED" =>
                                       attempt'[a] = attempt[a]
                /\ \A t \in RunTask :
                     /\ task[t].lifecycle = "COMPLETED" => task'[t] = task[t]
                     /\ task'[t].lifecycle = "COMPLETED" /\ task[t].lifecycle # "COMPLETED" =>
                          \E a \in Attempt : /\ TaskOf[a] = t
                                             /\ attempt[a].lifecycle = "RUNNING"
                                             /\ attempt'[a].lifecycle = "COMPLETED"
                                             /\ task'[t].result = ResultOf(attempt'[a].status)
<1>1. TypeOK /\ [LooseNext]_vars => [A]_vars
  <2> SUFFICES ASSUME TypeOK, LooseNext PROVE A
    BY DEF vars
  <2>0. /\ attempt \in [Attempt -> AttemptRow]
        /\ task \in [RunTask -> Task]
        /\ \A a \in Attempt : TaskOf[a] \in RunTask
    BY Constants DEF TypeOK
  <2>1. CASE UNCHANGED <<task, attempt>>
    BY <2>1
  <2>2. ASSUME NEW t \in RunTask, CreateRunTask(t) PROVE A
    <3>1. /\ \A u \in RunTask \ {t} : task'[u] = task[u]
          /\ task'[t].lifecycle = "CREATED" /\ task[t].lifecycle = "NONE"
          /\ UNCHANGED attempt
      BY <2>0, <2>2 DEF CreateRunTask, Task
    <3>2. QED
      BY <3>1
  <2>3. ASSUME NEW a \in Attempt, CreateAnyway(a) PROVE A
    <3>1. /\ \A b \in Attempt \ {a} : attempt'[b] = attempt[b]
          /\ attempt[a].lifecycle = "NONE"
          /\ UNCHANGED task
      BY <2>0, <2>3 DEF CreateAnyway
    <3>2. QED
      BY <3>1
  <2>4. ASSUME NEW a \in Attempt, NEW i \in Identity, NEW s \in Slot, CreateBinding(a, i, s)
        PROVE A
    <3>1. /\ \A b \in Attempt \ {a} : attempt'[b] = attempt[b]
          /\ attempt[a].lifecycle # "COMPLETED"
      BY <2>0, <2>4 DEF CreateBinding, BindResources, Admissible
    <3>2. \A u \in RunTask :
            /\ task[u].lifecycle = "COMPLETED" => task'[u] = task[u]
            /\ task'[u].lifecycle = "COMPLETED" => task[u].lifecycle = "COMPLETED"
      BY <2>4, TaskOfNewBinding
    <3>3. QED
      BY <3>1, <3>2
  <2>5. ASSUME NEW a \in Attempt, StartAnyway(a) PROVE A
    <3>1. /\ \A b \in Attempt \ {a} : attempt'[b] = attempt[b]
          /\ attempt[a].lifecycle # "COMPLETED"
      BY <2>0, <2>5 DEF StartAnyway, RunOwners
    <3>2. /\ \A u \in RunTask \ {TaskOf[a]} : task'[u] = task[u]
          /\ task'[TaskOf[a]].lifecycle = "RUNNING"
          /\ task[TaskOf[a]].lifecycle # "COMPLETED"
      BY <2>0, <2>5 DEF StartAnyway, RunOwners, Preparable
    <3>3. QED
      BY <3>1, <3>2
  <2>6. ASSUME NEW a \in Attempt, NEW outcome \in Outcome, Finish(a, outcome) PROVE A
    <3>1. /\ \A b \in Attempt \ {a} : attempt'[b] = attempt[b]
          /\ attempt[a].lifecycle = "RUNNING"
          /\ attempt'[a].lifecycle = "COMPLETED"
          /\ attempt'[a].status = outcome
      BY <2>0, <2>6 DEF Finish, EndExecution
    <3>2. /\ \A u \in RunTask \ {TaskOf[a]} : task'[u] = task[u]
          /\ task'[TaskOf[a]].result = ResultOf(outcome)
          /\ task[TaskOf[a]].lifecycle # "COMPLETED"
      BY <2>0, <2>6 DEF Finish, EndExecution
    <3>3. QED
      BY <3>1, <3>2
  <2>7. QED
    BY <2>1, <2>2, <2>3, <2>4, <2>5, <2>6
    DEF LooseNext, Read, Consume, Renew, Release, Recover, Tick, RunnerChanges
<1>2. QED
  BY <1>1, LooseTypeCorrect, PTL DEF LooseSpec, VerdictFinal
-----------------------------------------------------------------------------
(* Optimistic concurrency *)

\* Inductive: what an operator read is the present row or an earlier version of it.
ViewInv ==
  /\ TypeOK
  /\ VersionIdentifiesStatus
  /\ \A o \in Operator, a \in Attempt : view[o][a].version <= binding[a].version
  /\ \A a \in Attempt : binding[a].status = "NONE" => binding[a].version = 0

LEMMA ViewInit == Init => ViewInv
BY TypeInit DEF ViewInv, Init, VersionIdentifiesStatus

\* A command moves the row to its next version and shows that version to its operator.
LEMMA ViewCommand ==
  ASSUME ViewInv, NEW a \in Attempt, NEW s \in BindingStatus, s # "NONE",
         SetBinding(a, s), (\E o \in Operator : Respond(o, a)) \/ UNCHANGED view
  PROVE /\ VersionIdentifiesStatus'
        /\ \A p \in Operator, b \in Attempt : view'[p][b].version <= binding'[b].version
        /\ \A b \in Attempt : binding'[b].status = "NONE" => binding'[b].version = 0
<1>1. /\ \A b \in Attempt \ {a} : binding'[b] = binding[b]
      /\ binding'[a].status = s
      /\ binding'[a].version = binding[a].version + 1
  BY SetEffect DEF ViewInv
<1>2. \A p \in Operator, b \in Attempt :
        view'[p][b] = view[p][b] \/ (b = a /\ view'[p][b].status = binding'[a].status
                                          /\ view'[p][b].version = binding'[a].version)
  <2>1. CASE UNCHANGED view
    BY <2>1
  <2>2. ASSUME NEW o \in Operator, Respond(o, a)
        PROVE \A p \in Operator, b \in Attempt :
                view'[p][b] = IF p = o /\ b = a
                              THEN [status |-> binding'[a].status, version |-> binding'[a].version]
                              ELSE view[p][b]
    BY <2>2 DEF Respond, ViewInv, TypeOK
  <2>3. QED
    BY <2>1, <2>2
<1>3. \A p \in Operator, b \in Attempt : view[p][b].version \in Nat
  BY DEF ViewInv, TypeOK
<1>4. \A b \in Attempt : binding[b].version \in Nat
  BY DEF ViewInv, TypeOK, Binding
<1>5. ASSUME NEW p \in Operator, NEW b \in Attempt
      PROVE /\ view'[p][b].version <= binding'[b].version
            /\ view'[p][b].version = binding'[b].version => view'[p][b].status = binding'[b].status
  <2>1. CASE view'[p][b] = view[p][b] /\ b = a
    BY <1>1, <1>3, <1>4, <2>1 DEF ViewInv
  <2>2. CASE view'[p][b] = view[p][b] /\ b # a
    BY <1>1, <2>2 DEF ViewInv, VersionIdentifiesStatus
  <2>3. CASE view'[p][b] # view[p][b]
    BY <1>1, <1>2, <1>4, <2>3
  <2>4. QED
    BY <2>1, <2>2, <2>3
<1>6. QED
  BY <1>1, <1>5 DEF VersionIdentifiesStatus, ViewInv

LEMMA ViewStep == ViewInv /\ [LooseNext]_vars => ViewInv'
<1> DEFINE Goal == /\ VersionIdentifiesStatus'
                   /\ \A o \in Operator, a \in Attempt :
                        view'[o][a].version <= binding'[a].version
                   /\ \A a \in Attempt : binding'[a].status = "NONE" => binding'[a].version = 0
<1> SUFFICES ASSUME ViewInv, [LooseNext]_vars PROVE Goal
  BY TypeStep DEF ViewInv
<1>1. CASE UNCHANGED <<binding, view>>
  BY <1>1 DEF ViewInv, VersionIdentifiesStatus
<1>2. ASSUME NEW a \in Attempt, NEW i \in Identity, NEW s \in Slot, CreateBinding(a, i, s)
      PROVE Goal
  <2>1. /\ \A b \in Attempt \ {a} : binding'[b] = binding[b]
        /\ binding'[a].status = "READY" /\ binding'[a].version = 1
        /\ binding[a].version = 0
        /\ UNCHANGED view
    BY <1>2 DEF CreateBinding, BindResources, Admissible, ViewInv, TypeOK
  <2>2. \A o \in Operator : view[o][a].version = 0
    BY <2>1 DEF ViewInv, TypeOK
  <2>3. QED
    BY <2>1, <2>2 DEF ViewInv, VersionIdentifiesStatus
<1>3. ASSUME NEW o \in Operator, NEW a \in Attempt, Read(o, a) PROVE Goal
  <2>1. /\ UNCHANGED binding
        /\ \A p \in Operator, b \in Attempt :
             view'[p][b] = view[p][b] \/ (view'[p][b].status = binding[b].status
                                        /\ view'[p][b].version = binding[b].version)
    BY <1>3 DEF Read, ViewInv, TypeOK
  <2>2. \A b \in Attempt : binding[b].version \in Nat
    BY DEF ViewInv, TypeOK, Binding
  <2>3. QED
    BY <2>1, <2>2 DEF ViewInv, VersionIdentifiesStatus
<1>4. ASSUME NEW o \in Operator, NEW a \in Attempt,
             Consume(o, a) \/ Renew(o, a) \/ Release(o, a) \/ Recover(o, a)
      PROVE Goal
  <2>1. Respond(o, a) /\ \E s \in BindingStatus : s # "NONE" /\ SetBinding(a, s)
    BY <1>4 DEF Consume, Renew, Release, Recover, Commandable, Live, BindingStatus
  <2>2. QED
    BY <2>1, ViewCommand
<1>5. ASSUME NEW a \in Attempt,
             StartAnyway(a) \/ \E outcome \in Outcome : Finish(a, outcome)
      PROVE Goal
  <2>1. \/ UNCHANGED <<binding, view>>
        \/ UNCHANGED view /\ \E s \in {"IN_USE", "RELEASED"} : SetBinding(a, s)
    BY <1>5 DEF StartAnyway, RunOwners, Finish, EndExecution
  <2>2. QED
    BY <1>1, <2>1, ViewCommand DEF BindingStatus
<1>6. QED
  BY <1>1, <1>2, <1>3, <1>4, <1>5
  DEF LooseNext, vars, CreateRunTask, CreateAnyway, Tick, RunnerChanges

\* expected_version protects an operator's decision: a command accepted at the version the
\* operator read acts on the status the operator saw.
LEMMA LooseVersionsIdentify == LooseSpec => []VersionIdentifiesStatus
<1>1. ViewInv => VersionIdentifiesStatus
  BY DEF ViewInv
<1>2. QED
  BY <1>1, ViewInit, ViewStep, PTL DEF LooseSpec
-----------------------------------------------------------------------------
(* Terminal bindings *)

\* RELEASED and EXPIRED are final for the binding and for its lease rows.
LEMMA LooseTerminalBindingsFreeze == LooseSpec => TerminalBindingFrozen
<1> DEFINE A == \A a \in Attempt : binding[a].status \in {"RELEASED", "EXPIRED"} =>
                  /\ binding'[a] = binding[a]
                  /\ \A k \in Kind : /\ lease'[a][k].status = lease[a][k].status
                                     /\ lease'[a][k].generation = lease[a][k].generation
<1>1. LeaseInv /\ [LooseNext]_vars => [A]_vars
  <2> SUFFICES ASSUME LeaseInv, LooseNext PROVE A
    BY DEF vars
  <2>0. /\ TypeOK
        /\ \A a \in Attempt, k \in Kind : binding[a].status \in {"RELEASED", "EXPIRED"} =>
             lease[a][k].status # "ACTIVE"
    BY DEF LeaseInv, BindingLeaseCoherent, Live
  <2>1. CASE UNCHANGED <<binding, lease>>
    BY <2>1
  <2>2. ASSUME NEW a \in Attempt, NEW i \in Identity, NEW s \in Slot, CreateBinding(a, i, s)
        PROVE A
    <3>1. /\ \A b \in Attempt \ {a} : binding'[b] = binding[b] /\ lease'[b] = lease[b]
          /\ binding[a].status = "NONE"
      BY <2>0, <2>2 DEF CreateBinding, BindResources, Admissible, Acquire, TypeOK
    <3>2. QED
      BY <3>1
  <2>3. ASSUME NEW o \in Operator, NEW a \in Attempt, Consume(o, a) PROVE A
    <3>1. /\ \A b \in Attempt \ {a} : binding'[b] = binding[b]
          /\ binding[a].status = "READY" /\ UNCHANGED lease
      BY <2>0, <2>3, SetEffect DEF Consume
    <3>2. QED
      BY <3>1
  <2>4. ASSUME NEW o \in Operator, NEW a \in Attempt, Renew(o, a) PROVE A
    <3>1. Live(a) /\ SetBinding(a, binding[a].status)
      BY <2>4 DEF Renew, Commandable
    <3>2. \A b \in Attempt \ {a} : binding'[b] = binding[b]
      BY <2>0, <3>1, SetEffect
    <3>3. \A b \in Attempt, k \in Kind : /\ lease'[b][k].status = lease[b][k].status
                                         /\ lease'[b][k].generation = lease[b][k].generation
      BY <2>0, <2>4, TimeEffect
    <3>4. QED
      BY <3>1, <3>2, <3>3 DEF Live
  <2>5. ASSUME NEW a \in Attempt, NEW s \in {"RELEASED", "EXPIRED"}, CloseLeases(a, s),
               (Live(a) /\ SetBinding(a, s)) \/ UNCHANGED binding
        PROVE A
    <3>1. \A b \in Attempt, k \in Kind :
             /\ lease'[b][k].generation = lease[b][k].generation
             /\ lease[b][k].status # "ACTIVE" => lease'[b][k].status = lease[b][k].status
      BY <2>0, <2>5, CloseEffect
    <3>2. \A b \in Attempt : binding'[b] = binding[b] \/ (b = a /\ Live(a))
      BY <2>0, <2>5, SetEffect
    <3>3. QED
      BY <2>0, <3>1, <3>2 DEF Live
  <2>6. ASSUME NEW o \in Operator, NEW a \in Attempt, Release(o, a) \/ Recover(o, a) PROVE A
    BY <2>5, <2>6 DEF Release, Recover, Commandable
  <2>7. ASSUME NEW a \in Attempt, StartAnyway(a) PROVE A
    <3>1. /\ \A b \in Attempt \ {a} : binding'[b] = binding[b]
          /\ binding[a].status = "READY" /\ UNCHANGED lease
      BY <2>0, <2>7, SetEffect DEF StartAnyway, RunOwners
    <3>2. QED
      BY <3>1
  <2>8. ASSUME NEW a \in Attempt, NEW outcome \in Outcome, Finish(a, outcome) PROVE A
    BY <2>5, <2>8 DEF Finish, EndExecution
  <2>9. CASE Tick
    BY <2>0, <2>9, TimeEffect DEF Tick
  <2>10. QED
    BY <2>1, <2>2, <2>3, <2>4, <2>6, <2>7, <2>8, <2>9
    DEF LooseNext, Read, CreateRunTask, CreateAnyway, RunnerChanges
<1>2. QED
  BY <1>1, LeaseInvariant, PTL DEF LooseSpec, TerminalBindingFrozen

-----------------------------------------------------------------------------
(* Refinement *)

\* The refinement mapping, named.
heldBar == [a \in Attempt |->
             {lease[a][k].resource : k \in {j \in Kind : lease[a][j].status = "ACTIVE"}}]
servedBar == {a \in Attempt : binding[a].status # "NONE"}

LEMMA ReservationInit == Init => Reservation!Init
<1> SUFFICES ASSUME Init PROVE heldBar = [a \in Attempt |-> {}] /\ servedBar = {}
                               /\ generation = [r \in Resource |-> 0]
  BY DEF Reservation!Init, Reservation!Resource, heldBar, servedBar
<1>1. \A a \in Attempt, k \in Kind : lease[a][k].status = "NONE" /\ binding[a].status = "NONE"
  BY DEF Init
<1>2. QED
  BY <1>1 DEF Init, heldBar, servedBar

\* Steps that open and close no row, and bind nobody anew, are stutters.
LEMMA ReservationStutter ==
  ASSUME UNCHANGED generation,
         \A b \in Attempt : binding'[b].status = "NONE" <=> binding[b].status = "NONE",
         \A b \in Attempt, k \in Kind :
           /\ lease'[b][k].resource = lease[b][k].resource
           /\ lease'[b][k].status = lease[b][k].status
  PROVE UNCHANGED <<heldBar, generation, servedBar>>
<1>1. \A b \in Attempt : heldBar'[b] = heldBar[b]
  BY DEF heldBar
<1>2. heldBar' = heldBar
  BY <1>1 DEF heldBar
<1>3. servedBar' = servedBar
  BY DEF servedBar
<1>4. QED
  BY <1>2, <1>3

\* create is the abstract Reserve.
LEMMA ReservationTaken ==
  ASSUME LeaseInv, NEW a \in Attempt, NEW i \in Identity, NEW s \in Slot,
         CreateBinding(a, i, s)
  PROVE Reservation!Reserve(a, i, s)
<1> DEFINE resourceOf == [k \in Kind |-> IF k = "IDENTITY" THEN i ELSE s]
           row(k) == [status |-> "ACTIVE", resource |-> resourceOf[k],
                      generation |-> generation[resourceOf[k]] + 1, ttl |-> TTL[k]]
<1>0. TypeOK
  BY DEF LeaseInv
<1>1. /\ generation' = [r \in Resource |->
            IF \E k \in Kind : resourceOf[k] = r THEN generation[r] + 1 ELSE generation[r]]
      /\ lease' = [lease EXCEPT ![a] = [k \in Kind |-> row(k)]]
  BY DEF CreateBinding, BindResources, Admissible, Acquire
<1>2. resourceOf["IDENTITY"] = i /\ resourceOf["RUNNER"] = s
  OBVIOUS
<1> HIDE DEF resourceOf
<1>3. generation' = [r \in Resource |-> IF r \in {i, s} THEN generation[r] + 1 ELSE generation[r]]
  BY <1>1, <1>2
<1>4. /\ \A b \in Attempt \ {a} : lease'[b] = lease[b]
      /\ \A k \in Kind : lease'[a][k].resource = resourceOf[k] /\ lease'[a][k].status = "ACTIVE"
  BY <1>0, <1>1 DEF TypeOK
<1>5. heldBar' = [heldBar EXCEPT ![a] = {i, s}]
  <2>1. \A b \in Attempt \ {a} : heldBar'[b] = heldBar[b]
    BY <1>4 DEF heldBar
  <2>2. heldBar'[a] = {i, s}
    BY <1>2, <1>4 DEF heldBar
  <2>3. QED
    BY <2>1, <2>2 DEF heldBar
<1>6. \A b \in Attempt : i \notin heldBar[b] /\ s \notin heldBar[b]
  BY DEF CreateBinding, BindResources, Admissible, Available, heldBar
<1>7. a \notin servedBar /\ servedBar' = servedBar \cup {a}
  BY <1>0 DEF CreateBinding, BindResources, Admissible, servedBar, TypeOK
<1>8. QED
  BY <1>3, <1>5, <1>6, <1>7
  DEF Reservation!Reserve, Reservation!Free, Reservation!Resource, heldBar, servedBar

\* Closing a live binding is the abstract Vacate.
LEMMA ReservationGivenBack ==
  ASSUME LeaseInv, NEW a \in Attempt, NEW s \in {"RELEASED", "EXPIRED"}, Live(a),
         CloseLeases(a, s), SetBinding(a, s), UNCHANGED generation
  PROVE Reservation!Vacate(a)
<1>0. TypeOK
  BY DEF LeaseInv
<1>1. \A b \in Attempt, k \in Kind :
        /\ lease'[b][k].resource = lease[b][k].resource
        /\ b # a => lease'[b][k].status = lease[b][k].status
        /\ lease'[a][k].status # "ACTIVE"
        /\ lease[a][k].status = "ACTIVE"
  BY <1>0, CloseEffect DEF LeaseInv, BindingLeaseCoherent, Live
<1>2. heldBar' = [heldBar EXCEPT ![a] = {}]
  <2>1. \A b \in Attempt \ {a} : heldBar'[b] = heldBar[b]
    BY <1>1 DEF heldBar
  <2>2. heldBar'[a] = {}
    BY <1>1 DEF heldBar
  <2>3. QED
    BY <2>1, <2>2 DEF heldBar
<1>3. heldBar[a] # {}
  BY <1>1 DEF heldBar
<1>4. servedBar' = servedBar
  BY <1>0, SetEffect DEF servedBar, Live
<1>5. QED
  BY <1>2, <1>3, <1>4 DEF Reservation!Vacate, heldBar, servedBar
LEMMA ReservationStep == LeaseInv /\ [LooseNext]_vars => [Reservation!Next]_Reservation!vars
<1> SUFFICES ASSUME LeaseInv, [LooseNext]_vars
             PROVE Reservation!Next \/ UNCHANGED <<heldBar, generation, servedBar>>
  BY DEF Reservation!vars, heldBar, servedBar
<1>0. TypeOK
  BY DEF LeaseInv
<1>1. CASE UNCHANGED <<binding, lease, generation>>
  BY <1>1, ReservationStutter
<1>2. ASSUME NEW a \in Attempt, NEW i \in Identity, NEW s \in Slot, CreateBinding(a, i, s)
      PROVE Reservation!Next
  BY <1>2, ReservationTaken DEF Reservation!Next
<1>3. ASSUME NEW a \in Attempt, NEW s, s # "NONE", Live(a), SetBinding(a, s), UNCHANGED generation,
             \A b \in Attempt, k \in Kind :
               /\ lease'[b][k].resource = lease[b][k].resource
               /\ lease'[b][k].status = lease[b][k].status
      PROVE UNCHANGED <<heldBar, generation, servedBar>>
  <2>1. \A b \in Attempt : binding'[b].status = "NONE" <=> binding[b].status = "NONE"
    BY <1>0, <1>3, SetEffect DEF Live
  <2>2. QED
    BY <1>3, <2>1, ReservationStutter
<1>4. ASSUME NEW a \in Attempt,
             StartAnyway(a) \/ \E o \in Operator : Consume(o, a)
      PROVE UNCHANGED <<heldBar, generation, servedBar>>
  BY <1>3, <1>4 DEF StartAnyway, RunOwners, Consume, Live
<1>5. ASSUME NEW o \in Operator, NEW a \in Attempt, Renew(o, a)
      PROVE UNCHANGED <<heldBar, generation, servedBar>>
  <2>1. /\ Live(a) /\ SetBinding(a, binding[a].status) /\ UNCHANGED generation
        /\ binding[a].status # "NONE"
    BY <1>5 DEF Renew, Commandable, Live
  <2>2. QED
    BY <1>0, <1>3, <1>5, <2>1, TimeEffect
<1>6. ASSUME NEW o \in Operator, NEW a \in Attempt, Release(o, a) \/ Recover(o, a)
      PROVE Reservation!Next
  BY <1>6, ReservationGivenBack DEF Release, Recover, Commandable, Reservation!Next
<1>7. ASSUME NEW a \in Attempt, NEW outcome \in Outcome, Finish(a, outcome)
      PROVE Reservation!Next \/ UNCHANGED <<heldBar, generation, servedBar>>
  <2>1. CloseLeases(a, "RELEASED") /\ UNCHANGED generation
    BY <1>7 DEF Finish, EndExecution
  <2>2. CASE Live(a)
    BY <1>7, <2>1, <2>2, ReservationGivenBack DEF Finish, EndExecution, Reservation!Next
  <2>3. CASE ~Live(a)
    <3>1. UNCHANGED binding
      BY <1>7, <2>3 DEF Finish, EndExecution
    <3>2. \A k \in Kind : lease[a][k].status # "ACTIVE"
      BY <1>0, <2>3 DEF LeaseInv, BindingLeaseCoherent, Live, TypeOK, Binding, BindingStatus
    <3>3. \A b \in Attempt, k \in Kind :
            /\ lease'[b][k].resource = lease[b][k].resource
            /\ lease'[b][k].status = lease[b][k].status
      BY <1>0, <2>1, <3>2, CloseEffect
    <3>4. QED
      BY <2>1, <3>1, <3>3, ReservationStutter
  <2>4. QED
    BY <2>2, <2>3
<1>8. ASSUME Tick PROVE UNCHANGED <<heldBar, generation, servedBar>>
  <2>1. UNCHANGED <<binding, generation>>
    BY <1>8 DEF Tick
  <2>2. QED
    BY <1>0, <1>8, <2>1, TimeEffect, ReservationStutter
<1>9. QED
  BY <1>1, <1>2, <1>4, <1>5, <1>6, <1>7, <1>8
  DEF LooseNext, vars, Read, CreateRunTask, CreateAnyway, RunnerChanges

\* Execution bindings implement the reservation service: both resources or neither, fresh
\* tokens, one reservation per attempt.
LEMMA LooseBindingsReserve == LooseSpec => ImplementsReservation
<1>1. QED
  BY ReservationInit, ReservationStep, LeaseInvariant, PTL
  DEF LooseSpec, ImplementsReservation, Reservation!Spec
-----------------------------------------------------------------------------
(* The outbox, by aggregate *)

\* The stage an aggregate's row is in.
StageOf(g) == IF g \in RunTask THEN task[g].lifecycle ELSE attempt[g].lifecycle

\* rows tells a life that has come to stage in n edges.
LifeTold(rows, stage, n) ==
  /\ n \in Nat
  /\ {e.sequence : e \in rows} = 1..n
  /\ \A e, f \in rows : e.sequence = f.sequence => e = f
  /\ \A e, f \in rows : f.sequence = e.sequence + 1 => f.from = e.to
  /\ \A e \in rows : e.sequence = n => e.to = stage
  /\ n = 0 <=> stage = "NONE"

EvidenceTold == \A g \in Aggregate : LifeTold(outbox[g], StageOf(g), LastSequence(g))

\* A snapshot's stage and count of events are those of now, or the count is lower.
ShowsPast(g, stage, last) ==
  /\ last \in Nat
  /\ last <= LastSequence(g)
  /\ last = LastSequence(g) => stage = StageOf(g)

\* What the snapshots of the calls in progress are worth.
SnapshotsShowPast ==
  \A c \in Call : seen[c] # NoCall =>
    LET a == seen[c].attempt IN
      /\ a \in Attempt
      /\ ShowsPast(TaskOf[a], seen[c].task, seen[c].taskLast)
      /\ ShowsPast(a, seen[c].row, seen[c].attemptLast)
      /\ seen[c].op \in {"CREATE_BINDING", "START"} =>
           seen[c].task \in {"CREATED", "PREPARING"}
      /\ seen[c].task = "PREPARING" => task[TaskOf[a]].lifecycle \notin {"NONE", "CREATED"}
      /\ seen[c].op = "START" => seen[c].row \in {"CREATED", "PREPARING"}

\* An attempt that has not run yet has no result yet.
ReadyBeforeRun ==
  \A a \in Attempt :
    attempt[a].lifecycle \in {"NONE", "CREATED", "PREPARING"} => attempt[a].status = "READY"

TxInv ==
  /\ TypeOK
  /\ ReadyBeforeRun
  /\ outbox = [g \in Aggregate |-> outbox[g]]
  /\ seen = [c \in Call |-> seen[c]]
  /\ EvidenceTold
  /\ SnapshotsShowPast

\* The number of the last event is the number of events.
LEMMA LastIsCount ==
  ASSUME NEW rows, NEW stage, NEW n, LifeTold(rows, stage, n)
  PROVE Max({0} \cup {e.sequence : e \in rows}) = n
<1>1. n \in Nat /\ {0} \cup {e.sequence : e \in rows} = 0..n
  BY DEF LifeTold
<1>2. n \in 0..n /\ \A y \in 0..n : n >= y
  BY <1>1
<1>3. \A x \in 0..n : (\A y \in 0..n : x >= y) => x = n
  BY <1>1
<1>4. QED
  BY <1>1, <1>2, <1>3 DEF Max

\* The events of a path continue the life that was told.
LEMMA EventsContinue ==
  ASSUME NEW rows, NEW stage, NEW n, LifeTold(rows, stage, n),
         NEW m \in Nat \ {0}, NEW path, DOMAIN path = 1..m, path[m] # "NONE"
  PROVE LifeTold(rows \cup Events(stage, n, path), path[m], n + m)
<1> DEFINE event(k) == [sequence |-> n + k, from |-> IF k = 1 THEN stage ELSE path[k - 1],
                        to |-> path[k]]
           events == Events(stage, n, path)
<1>1. events = {event(k) : k \in 1..m}
  BY DEF Events
<1>2. /\ \A k \in 1..m : event(k) \in events
      /\ \A e \in events : \E k \in 1..m : e = event(k)
  BY <1>1
<1>3. \A k \in 1..m : /\ event(k).sequence = n + k
                      /\ event(k).from = (IF k = 1 THEN stage ELSE path[k - 1])
                      /\ event(k).to = path[k]
  OBVIOUS
<1> HIDE DEF event, events
<1>4. /\ n \in Nat
      /\ \A e \in rows : e.sequence \in 1..n
      /\ \A i \in 1..n : \E e \in rows : e.sequence = i
  BY DEF LifeTold
<1>5. {e.sequence : e \in rows \cup events} = 1..(n + m)
  <2>1. ASSUME NEW e \in rows \cup events
        PROVE e.sequence \in 1..(n + m)
    BY <1>2, <1>3, <1>4
  <2>2. ASSUME NEW i \in 1..(n + m)
        PROVE \E e \in rows \cup events : e.sequence = i
    <3>1. CASE i \in 1..n
      BY <1>4, <3>1
    <3>2. CASE i \notin 1..n
      <4>1. PICK k \in 1..m : n + k = i
        <5>1. i - n \in 1..m /\ n + (i - n) = i
          BY <1>4, <3>2
        <5>2. QED
          BY <5>1
      <4>2. event(k) \in events /\ event(k).sequence = i
        BY <1>2, <1>3, <4>1
      <4>3. QED
        BY <4>2
    <3>3. QED
      BY <3>1, <3>2
  <2>3. QED
    BY <2>1, <2>2
<1>6. \A e, f \in rows \cup events : e.sequence = f.sequence => e = f
  <2>1. ASSUME NEW e \in rows, NEW f \in events
        PROVE e.sequence # f.sequence
    BY <1>2, <1>3, <1>4
  <2>2. ASSUME NEW e \in events, NEW f \in events, e.sequence = f.sequence
        PROVE e = f
    <3>1. PICK j \in 1..m, k \in 1..m : e = event(j) /\ f = event(k)
      BY <1>2
    <3>2. j = k
      BY <1>3, <1>4, <2>2, <3>1
    <3>3. QED
      BY <3>1, <3>2
  <2>3. \A e, f \in rows : e.sequence = f.sequence => e = f
    BY DEF LifeTold
  <2>4. QED
    BY <2>1, <2>2, <2>3
<1>7. ASSUME NEW e \in rows \cup events, NEW f \in rows \cup events,
             f.sequence = e.sequence + 1
      PROVE f.from = e.to
  <2>1. CASE e \in rows /\ f \in rows
    BY <1>7, <2>1 DEF LifeTold
  <2>2. CASE e \in rows /\ f \in events
    <3>1. PICK k \in 1..m : f = event(k)
      BY <1>2, <2>2
    <3>2. k = 1 /\ e.sequence = n
      BY <1>3, <1>4, <1>7, <2>2, <3>1
    <3>3. QED
      BY <1>3, <2>2, <3>1, <3>2 DEF LifeTold
  <2>3. CASE e \in events /\ f \in rows
    BY <1>2, <1>3, <1>4, <1>7, <2>3
  <2>4. CASE e \in events /\ f \in events
    <3>1. PICK j \in 1..m, k \in 1..m : e = event(j) /\ f = event(k)
      BY <1>2, <2>4
    <3>2. k = j + 1
      BY <1>3, <1>4, <1>7, <3>1
    <3>3. k # 1 /\ k - 1 = j
      BY <3>2
    <3>4. f.from = path[k - 1] /\ e.to = path[j]
      BY <1>3, <3>1, <3>3
    <3>5. QED
      BY <3>3, <3>4
  <2>5. QED
    BY <2>1, <2>2, <2>3, <2>4
<1>8. ASSUME NEW e \in rows \cup events, e.sequence = n + m
      PROVE e.to = path[m]
  <2>1. e \in events
    BY <1>4, <1>8
  <2>2. PICK k \in 1..m : e = event(k)
    BY <1>2, <2>1
  <2>3. k = m
    BY <1>3, <1>4, <1>8, <2>2
  <2>4. QED
    BY <1>3, <2>2, <2>3
<1>9. n + m \in Nat /\ n + m # 0
  BY <1>4
<1>10. QED
  BY <1>5, <1>6, <1>7, <1>8, <1>9 DEF LifeTold, events

\* Events that break no key were numbered by a snapshot that shows the last one.
LEMMA KeyShowsStale ==
  ASSUME NEW rows, NEW stage, NEW n, LifeTold(rows, stage, n),
         NEW last \in Nat, last <= n, NEW from, NEW m \in Nat \ {0}, NEW path, DOMAIN path = 1..m,
         \A e \in Events(from, last, path), f \in rows : e.sequence # f.sequence
  PROVE last = n
<1> SUFFICES ASSUME last # n PROVE FALSE
  OBVIOUS
<1>1. n \in Nat /\ \A i \in 1..n : \E f \in rows : f.sequence = i
  BY DEF LifeTold
<1>2. PICK f \in rows : f.sequence = last + 1
  <2>1. last + 1 \in 1..n
    BY <1>1
  <2>2. QED
    BY <1>1, <2>1
<1> DEFINE event(k) == [sequence |-> last + k, from |-> IF k = 1 THEN from ELSE path[k - 1],
                        to |-> path[k]]
<1>3. Events(from, last, path) = {event(k) : k \in 1..m}
  BY DEF Events
<1>4. event(1).sequence = last + 1
  OBVIOUS
<1> HIDE DEF event
<1>5. event(1) \in Events(from, last, path)
  BY <1>3
<1>6. QED
  BY <1>2, <1>4, <1>5

\* In a step the life of g goes on along a path, or g stays as it is.
Lives(g) ==
  \/ outbox'[g] = outbox[g] /\ StageOf(g)' = StageOf(g)
  \/ \E m \in Nat \ {0} : \E path :
       /\ DOMAIN path = 1..m
       /\ outbox'[g] = outbox[g] \cup Events(StageOf(g), LastSequence(g), path)
       /\ StageOf(g)' = path[m]
       /\ path[m] # "NONE"
       /\ path[m] = "CREATED" => StageOf(g) = "NONE"

\* A life that goes on stays told, and what a snapshot shows of it stays past.
LEMMA LifeGoesOn ==
  ASSUME NEW g \in Aggregate, LifeTold(outbox[g], StageOf(g), LastSequence(g)), Lives(g)
  PROVE /\ LifeTold(outbox'[g], StageOf(g)', LastSequence(g)')
        /\ LastSequence(g) \in Nat /\ LastSequence(g)' \in Nat
        /\ LastSequence(g) <= LastSequence(g)'
        /\ LastSequence(g)' = LastSequence(g) => StageOf(g)' = StageOf(g)
        /\ StageOf(g)' \in {"NONE", "CREATED"} => StageOf(g) \in {"NONE", "CREATED"}
<1> DEFINE n == LastSequence(g)
<1>1. n \in Nat
  BY DEF LifeTold
<1>2. CASE outbox'[g] = outbox[g] /\ StageOf(g)' = StageOf(g)
  <2>1. LastSequence(g)' = n
    BY <1>2 DEF LastSequence
  <2>2. QED
    BY <1>1, <1>2, <2>1
<1>3. CASE ~(outbox'[g] = outbox[g] /\ StageOf(g)' = StageOf(g))
  <2>1. PICK m \in Nat \ {0} : \E path :
          /\ DOMAIN path = 1..m
          /\ outbox'[g] = outbox[g] \cup Events(StageOf(g), n, path)
          /\ StageOf(g)' = path[m]
          /\ path[m] # "NONE"
          /\ path[m] = "CREATED" => StageOf(g) = "NONE"
    BY <1>3 DEF Lives
  <2>2. PICK path :
          /\ DOMAIN path = 1..m
          /\ outbox'[g] = outbox[g] \cup Events(StageOf(g), n, path)
          /\ StageOf(g)' = path[m]
          /\ path[m] # "NONE"
          /\ path[m] = "CREATED" => StageOf(g) = "NONE"
    BY <2>1
  <2>3. LifeTold(outbox'[g], StageOf(g)', n + m)
    BY <2>2, EventsContinue
  <2>4. LastSequence(g)' = n + m
    BY <2>3, LastIsCount DEF LastSequence
  <2>5. QED
    BY <1>1, <2>2, <2>3, <2>4
<1>4. QED
  BY <1>2, <1>3
-----------------------------------------------------------------------------
(* Transactions *)

\* What a pair of insertions leaves in the outbox.
LEMMA InsertEffect ==
  ASSUME TxInv, NEW t \in RunTask, NEW a \in Attempt, NEW events, NEW others,
         Insert(t, events, a, others)
  PROVE /\ outbox' = [g \in Aggregate |-> outbox'[g]]
        /\ outbox'[t] = outbox[t] \cup events
        /\ outbox'[a] = outbox[a] \cup others
        /\ \A g \in Aggregate \ {t, a} : outbox'[g] = outbox[g]
<1>1. t # a /\ t \in Aggregate /\ a \in Aggregate
  BY AggregatesAssumption DEF Aggregate
<1>2. outbox' = [outbox EXCEPT ![t] = @ \cup events, ![a] = @ \cup others]
  BY DEF Insert
<1>3. QED
  BY <1>1, <1>2 DEF TxInv

\* What StageOf says of the rows of attempt a and its RunTask, and of the rest.
LEMMA Stages ==
  /\ \A a \in Attempt : /\ TaskOf[a] \in RunTask
                        /\ StageOf(a) = attempt[a].lifecycle
                        /\ StageOf(a)' = attempt'[a].lifecycle
  /\ \A t \in RunTask : StageOf(t) = task[t].lifecycle /\ StageOf(t)' = task'[t].lifecycle
  /\ Aggregate = RunTask \cup Attempt
  BY OwnersAssumption, AggregatesAssumption DEF StageOf, Aggregate

\* The paths of the lifecycle edges.
LEMMA Paths ==
  /\ \A stage : \E m \in Nat \ {0} :
       DOMAIN TaskStart(stage) = 1..m /\ TaskStart(stage)[m] = "RUNNING"
  /\ \A stage : \E m \in Nat \ {0} :
       DOMAIN AttemptStart(stage) = 1..m /\ AttemptStart(stage)[m] = "RUNNING"
  /\ DOMAIN TaskPreparation("CREATED") = 1..5 /\ TaskPreparation("CREATED")[5] = "PREPARING"
  /\ DOMAIN AttemptPreparation("CREATED") = 1..1 /\ AttemptPreparation("CREATED")[1] = "PREPARING"
  /\ \A stage, last : stage # "CREATED" =>
       /\ Events(stage, last, TaskPreparation(stage)) = {}
       /\ Events(stage, last, AttemptPreparation(stage)) = {}
  /\ \A outcome \in Outcome : \E m \in Nat \ {0} :
       DOMAIN TaskCompletion(outcome) = 1..m /\ TaskCompletion(outcome)[m] = "COMPLETED"
  /\ \A outcome : /\ DOMAIN AttemptCompletion(outcome) = 1..2
                  /\ AttemptCompletion(outcome)[2] = "COMPLETED"
<1> DEFINE Stage == {"SNAPSHOTTED", "VALIDATING", "WAITING_RESOURCE", "DISPATCHING", "PREPARING",
                     "RUNNING"}
<1>1. ASSUME NEW s \in Seq(Stage), NEW e \in Stage
      PROVE \E m \in Nat \ {0} : DOMAIN (s \o <<e>>) = 1..m /\ (s \o <<e>>)[m] = e
  <2> HIDE DEF Stage
  <2> DEFINE t == s \o <<e>>
  <2>1. <<e>> \in Seq(Stage) /\ Len(<<e>>) = 1 /\ <<e>>[1] = e
    OBVIOUS
  <2>2. /\ t \in Seq(Stage) /\ Len(t) = Len(s) + 1 /\ Len(s) \in Nat
        /\ t[Len(s) + 1] = e
    BY <2>1, ConcatProperties
  <2> HIDE DEF t
  <2>3. DOMAIN t = 1..Len(t) /\ Len(t) \in Nat \ {0} /\ t[Len(t)] = e
    BY <2>2
  <2>4. QED
    BY <2>3 DEF t
<1>2. \A stage : \E m \in Nat \ {0} :
        DOMAIN TaskStart(stage) = 1..m /\ TaskStart(stage)[m] = "RUNNING"
  <2>1. /\ << >> \in Seq(Stage)
        /\ <<"SNAPSHOTTED", "VALIDATING", "WAITING_RESOURCE", "DISPATCHING", "PREPARING">>
             \in Seq(Stage)
    OBVIOUS
  <2>2. \A stage : TaskPreparation(stage) \in Seq(Stage)
    BY <2>1 DEF TaskPreparation
  <2>3. QED
    BY <1>1, <2>2 DEF TaskStart
<1>3. \A stage : \E m \in Nat \ {0} :
        DOMAIN AttemptStart(stage) = 1..m /\ AttemptStart(stage)[m] = "RUNNING"
  <2>1. << >> \in Seq(Stage) /\ <<"PREPARING">> \in Seq(Stage)
    OBVIOUS
  <2>2. \A stage : AttemptPreparation(stage) \in Seq(Stage)
    BY <2>1 DEF AttemptPreparation
  <2>3. QED
    BY <1>1, <2>2 DEF AttemptStart
<1>4. /\ DOMAIN TaskPreparation("CREATED") = 1..5 /\ TaskPreparation("CREATED")[5] = "PREPARING"
      /\ DOMAIN AttemptPreparation("CREATED") = 1..1
      /\ AttemptPreparation("CREATED")[1] = "PREPARING"
  BY DEF TaskPreparation, AttemptPreparation
<1>5. \A stage, last : stage # "CREATED" =>
        /\ Events(stage, last, TaskPreparation(stage)) = {}
        /\ Events(stage, last, AttemptPreparation(stage)) = {}
  BY DEF TaskPreparation, AttemptPreparation, Events
<1>6. ASSUME NEW outcome \in Outcome
      PROVE \E m \in Nat \ {0} :
              DOMAIN TaskCompletion(outcome) = 1..m /\ TaskCompletion(outcome)[m] = "COMPLETED"
  <2>1. CASE outcome = "CANCELLED"
    <3>1. DOMAIN TaskCompletion(outcome) = 1..2 /\ TaskCompletion(outcome)[2] = "COMPLETED"
      BY <2>1 DEF TaskCompletion
    <3>2. QED
      BY <3>1
  <2>2. CASE outcome # "CANCELLED"
    <3>1. DOMAIN TaskCompletion(outcome) = 1..1 /\ TaskCompletion(outcome)[1] = "COMPLETED"
      BY <2>2 DEF TaskCompletion
    <3>2. QED
      BY <3>1
  <2>3. QED
    BY <2>1, <2>2
<1>7. \A outcome : /\ DOMAIN AttemptCompletion(outcome) = 1..2
                   /\ AttemptCompletion(outcome)[2] = "COMPLETED"
  BY DEF AttemptCompletion
<1>8. QED
  BY <1>2, <1>3, <1>4, <1>5, <1>6, <1>7

\* Attempts and RunTasks that no step of the owners touches live on as they are.
LEMMA OthersLive ==
  ASSUME TxInv, UNCHANGED <<task, attempt, outbox>>
  PROVE \A g \in Aggregate : Lives(g)
  BY DEF Lives, StageOf

\* A life goes on along any path that ends in a stage after the first.
LEMMA PathLives ==
  ASSUME NEW g, NEW m \in Nat \ {0}, NEW path, DOMAIN path = 1..m,
         outbox'[g] = outbox[g] \cup Events(StageOf(g), LastSequence(g), path),
         StageOf(g)' = path[m], path[m] # "NONE", path[m] = "CREATED" => StageOf(g) = "NONE"
  PROVE Lives(g)
  BY DEF Lives

\* Events that broke no key continue a life the snapshot has the end of.
LEMMA EdgesLive ==
  ASSUME NEW g \in Aggregate, LifeTold(outbox[g], StageOf(g), LastSequence(g)),
         NEW stage, NEW last, ShowsPast(g, stage, last),
         NEW m \in Nat \ {0}, NEW path, DOMAIN path = 1..m,
         \A e \in Events(stage, last, path), f \in outbox[g] : e.sequence # f.sequence,
         outbox'[g] = outbox[g] \cup Events(stage, last, path),
         StageOf(g)' = path[m], path[m] \notin {"NONE", "CREATED"}
  PROVE last = LastSequence(g) /\ stage = StageOf(g) /\ Lives(g)
<1>1. last = LastSequence(g)
  BY KeyShowsStale DEF ShowsPast
<1>2. stage = StageOf(g)
  BY <1>1 DEF ShowsPast
<1>3. QED
  BY <1>1, <1>2 DEF Lives

\* create_execution_attempt
LEMMA AttemptLives ==
  ASSUME TxInv, NEW c \in Call, NEW a \in Attempt, CommitAttempt(c, a)
  PROVE /\ CreateAnyway(a)
        /\ outbox' = [g \in Aggregate |-> outbox'[g]]
        /\ \A g \in Aggregate : Lives(g)
<1>1. CreateAnyway(a)
  BY DEF CommitAttempt, CreateAnyway
<1>2. TaskOf[a] \in RunTask /\ a \in Aggregate /\ TaskOf[a] # a
  BY Stages, AggregatesAssumption
<1>3. /\ outbox' = [g \in Aggregate |-> outbox'[g]]
      /\ outbox'[TaskOf[a]] = outbox[TaskOf[a]] \cup {}
      /\ outbox'[a] = outbox[a] \cup Creation
      /\ \A g \in Aggregate \ {TaskOf[a], a} : outbox'[g] = outbox[g]
  BY <1>2, InsertEffect DEF CommitAttempt
<1>4. /\ \A b \in Attempt \ {a} : attempt'[b] = attempt[b]
      /\ attempt[a].lifecycle = "NONE" /\ attempt'[a].lifecycle = "CREATED"
      /\ UNCHANGED task
  BY DEF CommitAttempt, TxInv, TypeOK, AttemptRow
<1>5. StageOf(a) = "NONE" /\ StageOf(a)' = "CREATED" /\ LastSequence(a) = 0
  BY <1>2, <1>4, Stages DEF TxInv, EvidenceTold, LifeTold
<1>6. Lives(a)
  <2> DEFINE path == <<"CREATED">>
  <2>1. DOMAIN path = 1..1 /\ path[1] = "CREATED" /\ 1 \in Nat \ {0}
    OBVIOUS
  <2>2. outbox'[a] = outbox[a] \cup Events(StageOf(a), LastSequence(a), path)
    BY <1>3, <1>5 DEF Creation
  <2> HIDE DEF path
  <2>3. QED
    BY <1>5, <2>1, <2>2, PathLives
<1>7. \A g \in Aggregate \ {a} : Lives(g)
  BY <1>2, <1>3, <1>4, Stages DEF Lives
<1>8. QED
  BY <1>1, <1>3, <1>6, <1>7

\* create.  The RunTask its snapshot shows CREATED is so still, or another edge has taken the
\* sequence; one that it shows PREPARING is left as it is, as CreateBinding leaves it.
LEMMA BindingLives ==
  ASSUME TxInv, NEW c \in Call, NEW a \in Attempt, NEW i \in Identity, NEW s \in Slot,
         CommitBinding(c, a, i, s)
  PROVE /\ CreateBinding(a, i, s)
        /\ outbox' = [g \in Aggregate |-> outbox'[g]]
        /\ \A g \in Aggregate : Lives(g)
<1> DEFINE t == TaskOf[a]
           found == seen[c].task
           taskEdges == Events(found, seen[c].taskLast, TaskPreparation(found))
           row == attempt[a].lifecycle
           attemptEdges == Events(row, seen[c].attemptLast, AttemptPreparation(row))
<1>1. t \in RunTask /\ t \in Aggregate /\ a \in Aggregate /\ t # a
  BY Stages, AggregatesAssumption
<1>2. seen[c] # NoCall /\ seen[c].op = "CREATE_BINDING" /\ seen[c].attempt = a
  BY DEF CommitBinding, Committing
<1>3. /\ ShowsPast(t, found, seen[c].taskLast)
      /\ ShowsPast(a, seen[c].row, seen[c].attemptLast)
      /\ found \in {"CREATED", "PREPARING"}
      /\ found = "PREPARING" => task[t].lifecycle \notin {"NONE", "CREATED"}
  BY <1>2 DEF TxInv, SnapshotsShowPast
<1>4. /\ outbox' = [g \in Aggregate |-> outbox'[g]]
      /\ outbox'[t] = outbox[t] \cup taskEdges
      /\ outbox'[a] = outbox[a] \cup attemptEdges
      /\ \A g \in Aggregate \ {t, a} : outbox'[g] = outbox[g]
      /\ \A e \in taskEdges, f \in outbox[t] : e.sequence # f.sequence
      /\ \A e \in attemptEdges, f \in outbox[a] : e.sequence # f.sequence
  <2>1. Insert(t, taskEdges, a, attemptEdges)
    BY DEF CommitBinding
  <2> HIDE DEF t, taskEdges, attemptEdges
  <2>2. /\ \A e \in taskEdges, f \in outbox[t] : e.sequence # f.sequence
        /\ \A e \in attemptEdges, f \in outbox[a] : e.sequence # f.sequence
    BY <2>1 DEF Insert
  <2>3. QED
    BY <1>1, <2>1, <2>2, InsertEffect
<1>5. /\ \A b \in Attempt \ {a} : attempt'[b] = attempt[b]
      /\ row \in {"CREATED", "PREPARING"} /\ attempt'[a].lifecycle = "PREPARING"
      /\ \A u \in RunTask \ {t} : task'[u] = task[u]
      /\ task'[t].lifecycle = IF found = "CREATED" THEN "PREPARING" ELSE task[t].lifecycle
  BY <1>1 DEF CommitBinding, Admissible, BindResources, TxInv, TypeOK, AttemptRow, Task
<1>6. /\ LifeTold(outbox[t], StageOf(t), LastSequence(t))
      /\ LifeTold(outbox[a], StageOf(a), LastSequence(a))
  BY <1>1 DEF TxInv, EvidenceTold
<1> HIDE DEF t, found, row
<1>7. Lives(t) /\ (found = "CREATED" => task[t].lifecycle = "CREATED")
  <2>1. CASE found = "CREATED"
    <3>1. StageOf(t)' = "PREPARING"
      BY <1>1, <1>5, <2>1, Stages
    <3>0. PICK path : path = TaskPreparation(found)
      OBVIOUS
    <3>2. PICK m \in Nat \ {0} : DOMAIN path = 1..m /\ path[m] = "PREPARING"
      <4>1. DOMAIN path = 1..5 /\ path[5] = "PREPARING"
        BY <2>1, <3>0, Paths
      <4>2. QED
        BY <4>1
    <3>3. /\ outbox'[t] = outbox[t] \cup Events(found, seen[c].taskLast, path)
          /\ \A e \in Events(found, seen[c].taskLast, path), f \in outbox[t] :
               e.sequence # f.sequence
      BY <1>4, <3>0
    <3>4. found = StageOf(t) /\ Lives(t)
      <4>1. StageOf(t)' = path[m] /\ path[m] \notin {"NONE", "CREATED"}
        BY <3>1, <3>2
      <4>2. QED
        BY <1>1, <1>3, <1>6, <3>2, <3>3, <4>1, EdgesLive
    <3>5. QED
      BY <1>1, <2>1, <3>4, Stages
  <2>2. CASE found # "CREATED"
    <3>1. outbox'[t] = outbox[t] /\ StageOf(t)' = StageOf(t)
      BY <1>1, <1>4, <1>5, <2>2, Paths, Stages
    <3>2. QED
      BY <2>2, <3>1 DEF Lives
  <2>3. QED
    BY <2>1, <2>2
<1>8. Lives(a)
  <2>1. CASE row = "CREATED"
    <3>1. StageOf(a)' = "PREPARING" /\ row = StageOf(a)
      BY <1>1, <1>5, Stages DEF row
    <3>0. PICK path : path = AttemptPreparation(row)
      OBVIOUS
    <3>2. PICK m \in Nat \ {0} : DOMAIN path = 1..m /\ path[m] = "PREPARING"
      <4>1. DOMAIN path = 1..1 /\ path[1] = "PREPARING"
        BY <2>1, <3>0, Paths
      <4>2. QED
        BY <4>1
    <3>3. /\ outbox'[a] = outbox[a] \cup Events(row, seen[c].attemptLast, path)
          /\ \A e \in Events(row, seen[c].attemptLast, path), f \in outbox[a] :
               e.sequence # f.sequence
      BY <1>4, <3>0
    <3>4. seen[c].attemptLast = LastSequence(a)
      <4>1. seen[c].attemptLast \in Nat /\ seen[c].attemptLast <= LastSequence(a)
        BY <1>3 DEF ShowsPast
      <4>2. QED
        BY <1>6, <3>2, <3>3, <4>1, KeyShowsStale
    <3>5. QED
      BY <3>1, <3>2, <3>3, <3>4, PathLives
  <2>2. CASE row # "CREATED"
    BY <1>1, <1>4, <1>5, <2>2, Paths, Stages DEF Lives, row
  <2>3. QED
    BY <2>1, <2>2
<1>9. \A g \in Aggregate \ {t, a} : Lives(g)
  BY <1>1, <1>4, <1>5, Stages DEF Lives
<1>10. CreateBinding(a, i, s)
  <2>1. /\ Admissible(a, i, s)
        /\ BindResources(a, i, s, found)
    BY DEF CommitBinding, found
  <2>2. \/ found = task[t].lifecycle
        \/ found # "CREATED" /\ task[t].lifecycle # "CREATED"
    BY <1>3, <1>7
  <2>3. (IF found = "CREATED" THEN "PREPARING" ELSE task[t].lifecycle)
          = IF task[t].lifecycle = "CREATED" THEN "PREPARING" ELSE task[t].lifecycle
    BY <2>2
  <2>4. BindResources(a, i, s, task[t].lifecycle)
    BY <2>1, <2>2 DEF BindResources, t
  <2>5. QED
    BY <2>1, <2>4 DEF CreateBinding, t
<1>11. QED
  BY <1>4, <1>7, <1>8, <1>9, <1>10

\* start.  Both owners are as its snapshot shows them, or their sequences are taken.
LEMMA StartLives ==
  ASSUME TxInv, NEW c \in Call, NEW a \in Attempt, CommitStart(c, a)
  PROVE /\ StartAnyway(a)
        /\ outbox' = [g \in Aggregate |-> outbox'[g]]
        /\ \A g \in Aggregate : Lives(g)
<1>0. PICK t \in RunTask : t = TaskOf[a]
  BY Stages
<1>1. t \in Aggregate /\ a \in Aggregate /\ t # a
  BY <1>0, Stages, AggregatesAssumption
<1>2. PICK stage, last, row, rowLast :
        /\ stage = seen[c].task /\ last = seen[c].taskLast
        /\ row = seen[c].row /\ rowLast = seen[c].attemptLast
  OBVIOUS
<1>3. /\ seen[c] # NoCall /\ seen[c].op = "START" /\ seen[c].attempt = a
      /\ binding[a].status = "READY" /\ LeasesHeld(a) /\ GenerationsMatch(a)
      /\ RunOwners(a)
  BY DEF CommitStart, Committing
<1>4. /\ ShowsPast(t, stage, last)
      /\ ShowsPast(a, row, rowLast)
      /\ stage \in {"CREATED", "PREPARING"} /\ row \in {"CREATED", "PREPARING"}
  BY <1>0, <1>2, <1>3 DEF TxInv, SnapshotsShowPast
<1>5. PICK path, rowPath : path = TaskStart(stage) /\ rowPath = AttemptStart(row)
  OBVIOUS
<1>6. PICK m \in Nat \ {0}, n \in Nat \ {0} :
        /\ DOMAIN path = 1..m /\ path[m] = "RUNNING"
        /\ DOMAIN rowPath = 1..n /\ rowPath[n] = "RUNNING"
  BY <1>5, Paths
<1>7. PICK edges, rowEdges :
        edges = Events(stage, last, path) /\ rowEdges = Events(row, rowLast, rowPath)
  OBVIOUS
<1>8. Insert(t, edges, a, rowEdges)
  BY <1>0, <1>2, <1>5, <1>7 DEF CommitStart
<1>9. /\ outbox' = [g \in Aggregate |-> outbox'[g]]
      /\ outbox'[t] = outbox[t] \cup edges
      /\ outbox'[a] = outbox[a] \cup rowEdges
      /\ \A g \in Aggregate \ {t, a} : outbox'[g] = outbox[g]
  BY <1>8, InsertEffect
<1>10. /\ \A e \in edges, f \in outbox[t] : e.sequence # f.sequence
       /\ \A e \in rowEdges, f \in outbox[a] : e.sequence # f.sequence
  BY <1>8 DEF Insert
<1>11. /\ \A b \in Attempt \ {a} : attempt'[b] = attempt[b]
       /\ attempt'[a].lifecycle = "RUNNING"
       /\ \A u \in RunTask \ {t} : task'[u] = task[u]
       /\ task'[t].lifecycle = "RUNNING"
  BY <1>0, <1>3 DEF RunOwners, TxInv, TypeOK
<1>12. /\ LifeTold(outbox[t], StageOf(t), LastSequence(t))
       /\ LifeTold(outbox[a], StageOf(a), LastSequence(a))
  BY <1>1 DEF TxInv, EvidenceTold
<1>13. stage = StageOf(t) /\ Lives(t)
  <2>1. StageOf(t)' = path[m] /\ path[m] \notin {"NONE", "CREATED"}
    BY <1>6, <1>11, Stages
  <2>2. QED
    BY <1>1, <1>4, <1>6, <1>7, <1>9, <1>10, <1>12, <2>1, EdgesLive
<1>14. row = StageOf(a) /\ Lives(a)
  <2>1. StageOf(a)' = rowPath[n] /\ rowPath[n] \notin {"NONE", "CREATED"}
    BY <1>6, <1>11, Stages
  <2>2. QED
    BY <1>1, <1>4, <1>6, <1>7, <1>9, <1>10, <1>12, <2>1, EdgesLive
<1>15. \A g \in Aggregate \ {t, a} : Lives(g)
  BY <1>0, <1>9, <1>11, Stages DEF Lives
<1>16. StartAnyway(a)
  <2>1. attempt[a].lifecycle \in {"CREATED", "PREPARING"} /\ task[t].lifecycle = stage
    BY <1>4, <1>13, <1>14, Stages
  <2>2. attempt[a].status = "READY"
    BY <2>1 DEF TxInv, ReadyBeforeRun
  <2>3. Preparable(TaskOf[a])
    BY <1>0, <1>4, <2>1 DEF Preparable
  <2>4. QED
    BY <1>3, <2>1, <2>2, <2>3 DEF StartAnyway
<1>17. QED
  BY <1>9, <1>13, <1>14, <1>15, <1>16

\* create_run_task
LEMMA RunTaskLives ==
  ASSUME TxInv, NEW t \in RunTask, RecordedCreateRunTask(t)
  PROVE /\ outbox' = [g \in Aggregate |-> outbox'[g]]
        /\ \A g \in Aggregate : Lives(g)
<1>1. t \in Aggregate
  BY Stages
<1>2. /\ \A u \in RunTask \ {t} : task'[u] = task[u]
      /\ task[t].lifecycle = "NONE" /\ task'[t].lifecycle = "CREATED"
      /\ UNCHANGED attempt
      /\ outbox' = [outbox EXCEPT ![t] = Creation]
  BY DEF RecordedCreateRunTask, CreateRunTask, TxInv, TypeOK, Task
<1>3. StageOf(t) = "NONE" /\ StageOf(t)' = "CREATED" /\ LastSequence(t) = 0
  BY <1>1, <1>2, Stages DEF TxInv, EvidenceTold, LifeTold
<1>4. outbox[t] = {}
  BY <1>1, <1>3 DEF TxInv, EvidenceTold, LifeTold
<1>5. PICK path : path = <<"CREATED">>
  OBVIOUS
<1>6. /\ outbox' = [g \in Aggregate |-> outbox'[g]]
      /\ outbox'[t] = outbox[t] \cup Events("NONE", 0, path)
      /\ \A g \in Aggregate \ {t} : outbox'[g] = outbox[g]
  BY <1>1, <1>2, <1>4, <1>5 DEF TxInv, Creation
<1>7. Lives(t)
  <2>1. DOMAIN path = 1..1 /\ path[1] = "CREATED" /\ 1 \in Nat \ {0}
    BY <1>5
  <2>2. QED
    BY <1>3, <1>6, <2>1, PathLives
<1>8. \A g \in Aggregate \ {t} : Lives(g)
  BY <1>2, <1>6, Stages DEF Lives
<1>9. QED
  BY <1>6, <1>7, <1>8

\* Whoever completes an execution finds both owners RUNNING.
LEMMA FinishLives ==
  ASSUME TxInv, NEW a \in Attempt, NEW outcome \in Outcome, RecordedFinish(a, outcome)
  PROVE /\ outbox' = [g \in Aggregate |-> outbox'[g]]
        /\ \A g \in Aggregate : Lives(g)
<1>0. PICK t \in RunTask : t = TaskOf[a]
  BY Stages
<1>1. t \in Aggregate /\ a \in Aggregate /\ t # a
  BY <1>0, Stages, AggregatesAssumption
<1>2. PICK path, rowPath : path = TaskCompletion(outcome) /\ rowPath = AttemptCompletion(outcome)
  OBVIOUS
<1>3. PICK m \in Nat \ {0}, n \in Nat \ {0} :
        /\ DOMAIN path = 1..m /\ path[m] = "COMPLETED"
        /\ DOMAIN rowPath = 1..n /\ rowPath[n] = "COMPLETED"
  <2>1. DOMAIN rowPath = 1..2 /\ rowPath[2] = "COMPLETED"
    BY <1>2, Paths
  <2>2. PICK m \in Nat \ {0} : DOMAIN path = 1..m /\ path[m] = "COMPLETED"
    BY <1>2, Paths
  <2>3. QED
    BY <2>1, <2>2
<1>4. /\ \A b \in Attempt \ {a} : attempt'[b] = attempt[b]
      /\ attempt[a].lifecycle = "RUNNING" /\ attempt'[a].lifecycle = "COMPLETED"
      /\ \A u \in RunTask \ {t} : task'[u] = task[u]
      /\ task[t].lifecycle = "RUNNING" /\ task'[t].lifecycle = "COMPLETED"
  BY <1>0 DEF RecordedFinish, Finish, EndExecution, TxInv, TypeOK
<1>5. /\ StageOf(t) = "RUNNING" /\ StageOf(t)' = path[m]
      /\ StageOf(a) = "RUNNING" /\ StageOf(a)' = rowPath[n]
  BY <1>3, <1>4, Stages
<1>6. Insert(t, Events("RUNNING", LastSequence(t), path), a, Events("RUNNING", LastSequence(a), rowPath))
  BY <1>0, <1>2 DEF RecordedFinish
<1>7. /\ outbox' = [g \in Aggregate |-> outbox'[g]]
      /\ outbox'[t] = outbox[t] \cup Events(StageOf(t), LastSequence(t), path)
      /\ outbox'[a] = outbox[a] \cup Events(StageOf(a), LastSequence(a), rowPath)
      /\ \A g \in Aggregate \ {t, a} : outbox'[g] = outbox[g]
  BY <1>5, <1>6, InsertEffect
<1>8. Lives(t) /\ Lives(a)
  BY <1>3, <1>5, <1>7, PathLives
<1>9. \A g \in Aggregate \ {t, a} : Lives(g)
  BY <1>4, <1>7, Stages DEF Lives
<1>10. QED
  BY <1>7, <1>8, <1>9

\* A step of ExecutionTransactions is one of ExecutionBinding, up to what it knows of Runners,
\* and every owner's life goes on with it.
LEMMA TxStep ==
  ASSUME TxInv, [TxNext]_txVars
  PROVE /\ [LooseNext]_vars
        /\ outbox' = [g \in Aggregate |-> outbox'[g]]
        /\ \A g \in Aggregate : Lives(g)
<1> DEFINE Goal == /\ [LooseNext]_vars
                   /\ outbox' = [g \in Aggregate |-> outbox'[g]]
                   /\ \A g \in Aggregate : Lives(g)
<1>1. ASSUME UNCHANGED <<task, attempt, outbox>>, [LooseNext]_vars PROVE Goal
  BY <1>1, OthersLive DEF TxInv
<1>2. ASSUME UNCHANGED <<vars, outbox>> PROVE Goal
  BY <1>1, <1>2 DEF vars
<1>3. ASSUME NEW c \in Call, NEW a \in Attempt, NEW op, Begin(c, op, a) PROVE Goal
  BY <1>2, <1>3 DEF Begin
<1>4. ASSUME NEW c \in Call, NEW a \in Attempt, CommitAttempt(c, a) PROVE Goal
  BY <1>4, AttemptLives DEF LooseNext
<1>5. ASSUME NEW c \in Call, NEW a \in Attempt, NEW i \in Identity, NEW s \in Slot,
             CommitBinding(c, a, i, s)
      PROVE Goal
  BY <1>5, BindingLives DEF LooseNext
<1>6. ASSUME NEW c \in Call, NEW a \in Attempt, CommitStart(c, a) PROVE Goal
  BY <1>6, StartLives DEF LooseNext
<1>7. ASSUME NEW c \in Call, RollBack(c) PROVE Goal
  BY <1>2, <1>7 DEF RollBack
<1>8. ASSUME NEW t \in RunTask, RecordedCreateRunTask(t) PROVE Goal
  BY <1>8, RunTaskLives DEF LooseNext, RecordedCreateRunTask
<1>9. ASSUME NEW a \in Attempt, NEW outcome \in Outcome, RecordedFinish(a, outcome) PROVE Goal
  BY <1>9, FinishLives DEF LooseNext, RecordedFinish
<1>10. ASSUME NEW o \in Operator, NEW a \in Attempt, Command(o, a), UNCHANGED <<outbox, seen>>
       PROVE Goal
  <2>1. [LooseNext]_vars
    BY <1>10 DEF Command, LooseNext
  <2>2. UNCHANGED <<task, attempt>>
    BY <1>10 DEF Command, Read, Consume, Renew, Release, Recover
  <2>3. QED
    BY <1>1, <1>10, <2>1, <2>2
<1>11. ASSUME Tick, UNCHANGED <<outbox, seen>> PROVE Goal
  BY <1>1, <1>11 DEF Tick, LooseNext
<1>12. ASSUME NEW r \in Runner, NEW s \in RunnerStatus, RunnerChanges(r, s),
              UNCHANGED <<outbox, seen>>
       PROVE Goal
  BY <1>1, <1>12 DEF RunnerChanges, LooseNext
<1>13. ASSUME UNCHANGED txVars PROVE Goal
  BY <1>2, <1>13 DEF txVars
<1> HIDE DEF Goal
<1>14. Goal
  BY <1>3, <1>4, <1>5, <1>6, <1>7, <1>8, <1>9, <1>10, <1>11, <1>12, <1>13 DEF TxNext
<1>15. QED
  BY <1>14 DEF Goal

\* A step keeps a snapshot, drops it, or takes it of the rows as they are.
LEMMA SeenStep ==
  ASSUME TxInv, [TxNext]_txVars
  PROVE /\ seen' = [c \in Call |-> seen'[c]]
        /\ \A c \in Call :
             \/ seen'[c] = seen[c]
             \/ seen'[c] = NoCall
             \/ \E op \in {"CREATE_ATTEMPT", "CREATE_BINDING", "START"}, a \in Attempt :
                  /\ Acceptable(op, a) /\ seen'[c] = Snapshot(op, a)
                  /\ UNCHANGED <<vars, outbox>>
<1> DEFINE Goal ==
      /\ seen' = [c \in Call |-> seen'[c]]
      /\ \A c \in Call :
           \/ seen'[c] = seen[c]
           \/ seen'[c] = NoCall
           \/ \E op \in {"CREATE_ATTEMPT", "CREATE_BINDING", "START"}, a \in Attempt :
                /\ Acceptable(op, a) /\ seen'[c] = Snapshot(op, a)
                /\ UNCHANGED <<vars, outbox>>
<1>0. seen = [c \in Call |-> seen[c]]
  BY DEF TxInv
<1>1. ASSUME UNCHANGED seen PROVE Goal
  BY <1>0, <1>1
<1>2. ASSUME NEW c \in Call, seen' = [seen EXCEPT ![c] = NoCall] PROVE Goal
  BY <1>0, <1>2
<1>3. ASSUME NEW c \in Call, NEW a \in Attempt,
             NEW op \in {"CREATE_ATTEMPT", "CREATE_BINDING", "START"}, Begin(c, op, a)
      PROVE Goal
  <2>1. PICK snapshot : snapshot = Snapshot(op, a)
    OBVIOUS
  <2>2. seen' = [seen EXCEPT ![c] = snapshot] /\ Acceptable(op, a) /\ UNCHANGED <<vars, outbox>>
    BY <1>3, <2>1 DEF Begin
  <2>3. seen' = [d \in Call |-> seen'[d]]
    BY <1>0, <2>2
  <2>4. \A d \in Call : seen'[d] = seen[d] \/ seen'[d] = snapshot
    BY <1>0, <2>2
  <2>5. QED
    BY <2>1, <2>2, <2>3, <2>4
<1> HIDE DEF Goal
<1>4. ASSUME NEW c \in Call, NEW a \in Attempt, NEW op, Committing(c, op, a) PROVE Goal
  BY <1>2, <1>4 DEF Committing
<1>5. Goal
  <2>1. CASE \E c \in Call, a \in Attempt : Begin(c, "CREATE_ATTEMPT", a)
    BY <1>3, <2>1
  <2>2. CASE \E c \in Call, a \in Attempt : Begin(c, "CREATE_BINDING", a)
    BY <1>3, <2>2
  <2>3. CASE \E c \in Call, a \in Attempt : Begin(c, "START", a)
    BY <1>3, <2>3
  <2>4. CASE \E c \in Call, a \in Attempt : CommitAttempt(c, a)
    BY <1>4, <2>4 DEF CommitAttempt
  <2>5. CASE \E c \in Call, a \in Attempt, i \in Identity, s \in Slot : CommitBinding(c, a, i, s)
    BY <1>4, <2>5 DEF CommitBinding
  <2>6. CASE \E c \in Call, a \in Attempt : CommitStart(c, a)
    BY <1>4, <2>6 DEF CommitStart
  <2>7. CASE \E c \in Call : RollBack(c)
    BY <1>2, <2>7 DEF RollBack
  <2>8. CASE UNCHANGED seen
    BY <1>1, <2>8
  <2>9. QED
    BY <2>1, <2>2, <2>3, <2>4, <2>5, <2>6, <2>7, <2>8
       DEF TxNext, txVars, RecordedCreateRunTask, RecordedFinish
<1>6. QED
  BY <1>5 DEF Goal

\* Results come with a run.
LEMMA ReadyStep == TypeOK /\ ReadyBeforeRun /\ [LooseNext]_vars => ReadyBeforeRun'
<1> SUFFICES ASSUME TypeOK, ReadyBeforeRun, [LooseNext]_vars, NEW b \in Attempt,
                    attempt'[b].lifecycle \in {"NONE", "CREATED", "PREPARING"}
             PROVE attempt'[b].status = "READY"
  BY DEF ReadyBeforeRun
<1>0. attempt \in [Attempt -> AttemptRow]
  BY DEF TypeOK
<1>1. ASSUME UNCHANGED attempt PROVE attempt'[b].status = "READY"
  BY <1>1 DEF ReadyBeforeRun
<1>2. ASSUME NEW a \in Attempt, CreateAnyway(a) PROVE attempt'[b].status = "READY"
  BY <1>0, <1>2 DEF CreateAnyway, ReadyBeforeRun, AttemptRow
<1>3. ASSUME NEW a \in Attempt, NEW i \in Identity, NEW s \in Slot, CreateBinding(a, i, s)
      PROVE attempt'[b].status = "READY"
  <2>1. attempt[a].lifecycle \in {"CREATED", "PREPARING"}
    BY <1>3 DEF CreateBinding, Admissible
  <2>2. attempt' = [attempt EXCEPT ![a].lifecycle = "PREPARING"]
    BY <1>3 DEF CreateBinding, BindResources
  <2>3. QED
    BY <1>0, <2>1, <2>2 DEF ReadyBeforeRun, AttemptRow
<1>4. ASSUME NEW a \in Attempt, StartAnyway(a) PROVE attempt'[b].status = "READY"
  <2>1. attempt' = [attempt EXCEPT ![a] = [lifecycle |-> "RUNNING", status |-> "RUNNING"]]
    BY <1>4 DEF StartAnyway, RunOwners
  <2>2. QED
    BY <1>0, <2>1 DEF ReadyBeforeRun
<1>5. ASSUME NEW a \in Attempt, NEW outcome \in Outcome, Finish(a, outcome)
      PROVE attempt'[b].status = "READY"
  <2>1. attempt' = [attempt EXCEPT ![a] = [lifecycle |-> "COMPLETED", status |-> outcome]]
    BY <1>5 DEF Finish, EndExecution
  <2>2. QED
    BY <1>0, <2>1 DEF ReadyBeforeRun
<1>6. QED
  BY <1>1, <1>2, <1>3, <1>4, <1>5
     DEF LooseNext, vars, CreateRunTask, Read, Consume, Renew, Release, Recover, Tick,
         RunnerChanges

\* Snapshots stay past.
LEMMA SnapshotStep ==
  ASSUME TxInv, [TxNext]_txVars
  PROVE EvidenceTold' /\ SnapshotsShowPast'
<1>1. ASSUME NEW g \in Aggregate
      PROVE /\ LifeTold(outbox'[g], StageOf(g)', LastSequence(g)')
            /\ LastSequence(g) \in Nat /\ LastSequence(g)' \in Nat
            /\ LastSequence(g) <= LastSequence(g)'
            /\ LastSequence(g)' = LastSequence(g) => StageOf(g)' = StageOf(g)
            /\ StageOf(g)' \in {"NONE", "CREATED"} => StageOf(g) \in {"NONE", "CREATED"}
  <2>1. LifeTold(outbox[g], StageOf(g), LastSequence(g)) /\ Lives(g)
    BY TxStep DEF TxInv, EvidenceTold
  <2>2. QED
    BY <2>1, LifeGoesOn
<1>2. EvidenceTold'
  BY <1>1 DEF EvidenceTold
<1>3. ASSUME NEW g \in Aggregate, NEW stage, NEW last, ShowsPast(g, stage, last)
      PROVE /\ last \in Nat
            /\ last <= LastSequence(g)'
            /\ last = LastSequence(g)' => stage = StageOf(g)'
  BY <1>1, <1>3 DEF ShowsPast
<1>4. ASSUME NEW c \in Call, seen'[c] # NoCall
      PROVE \E a \in Attempt :
              /\ a = seen'[c].attempt
              /\ seen'[c].taskLast \in Nat
              /\ seen'[c].taskLast <= LastSequence(TaskOf[a])'
              /\ seen'[c].taskLast = LastSequence(TaskOf[a])' =>
                   seen'[c].task = StageOf(TaskOf[a])'
              /\ seen'[c].attemptLast \in Nat
              /\ seen'[c].attemptLast <= LastSequence(a)'
              /\ seen'[c].attemptLast = LastSequence(a)' => seen'[c].row = StageOf(a)'
              /\ seen'[c].op \in {"CREATE_BINDING", "START"} =>
                   seen'[c].task \in {"CREATED", "PREPARING"}
              /\ seen'[c].task = "PREPARING" =>
                   task'[TaskOf[a]].lifecycle \notin {"NONE", "CREATED"}
              /\ seen'[c].op = "START" => seen'[c].row \in {"CREATED", "PREPARING"}
  <2>1. CASE seen'[c] = seen[c]
    <3>1. PICK a \in Attempt : a = seen[c].attempt
      BY <1>4, <2>1 DEF TxInv, SnapshotsShowPast
    <3>2. /\ ShowsPast(TaskOf[a], seen[c].task, seen[c].taskLast)
          /\ ShowsPast(a, seen[c].row, seen[c].attemptLast)
          /\ seen[c].op \in {"CREATE_BINDING", "START"} =>
               seen[c].task \in {"CREATED", "PREPARING"}
          /\ seen[c].task = "PREPARING" => task[TaskOf[a]].lifecycle \notin {"NONE", "CREATED"}
          /\ seen[c].op = "START" => seen[c].row \in {"CREATED", "PREPARING"}
      BY <1>4, <2>1, <3>1 DEF TxInv, SnapshotsShowPast
    <3>3. TaskOf[a] \in RunTask /\ TaskOf[a] \in Aggregate /\ a \in Aggregate
      BY Stages
    <3>4. /\ seen[c].taskLast \in Nat
          /\ seen[c].taskLast <= LastSequence(TaskOf[a])'
          /\ seen[c].taskLast = LastSequence(TaskOf[a])' => seen[c].task = StageOf(TaskOf[a])'
          /\ seen[c].attemptLast \in Nat
          /\ seen[c].attemptLast <= LastSequence(a)'
          /\ seen[c].attemptLast = LastSequence(a)' => seen[c].row = StageOf(a)'
      BY <1>3, <3>2, <3>3
    <3>5. seen[c].task = "PREPARING" => task'[TaskOf[a]].lifecycle \notin {"NONE", "CREATED"}
      <4>1. /\ StageOf(TaskOf[a]) = task[TaskOf[a]].lifecycle
            /\ StageOf(TaskOf[a])' = task'[TaskOf[a]].lifecycle
        BY <3>3, Stages
      <4>2. QED
        BY <1>1, <3>2, <3>3, <4>1
    <3>6. QED
      BY <2>1, <3>1, <3>2, <3>4, <3>5
  <2>2. CASE \E op \in {"CREATE_ATTEMPT", "CREATE_BINDING", "START"}, a \in Attempt :
               /\ Acceptable(op, a) /\ seen'[c] = Snapshot(op, a)
               /\ UNCHANGED <<vars, outbox>>
    <3>1. PICK op \in {"CREATE_ATTEMPT", "CREATE_BINDING", "START"}, a \in Attempt :
            /\ Acceptable(op, a) /\ seen'[c] = Snapshot(op, a)
            /\ UNCHANGED <<vars, outbox>>
      BY <2>2
    <3>2. TaskOf[a] \in RunTask /\ TaskOf[a] \in Aggregate /\ a \in Aggregate
      BY Stages
    <3>3. UNCHANGED <<task, attempt, outbox>>
      BY <3>1 DEF vars
    <3>4. \A g \in Aggregate : LastSequence(g)' = LastSequence(g) /\ StageOf(g)' = StageOf(g)
      BY <3>3 DEF LastSequence, StageOf
    <3>5. /\ seen'[c].op = op /\ seen'[c].attempt = a
          /\ seen'[c].task = StageOf(TaskOf[a]) /\ seen'[c].row = StageOf(a)
          /\ seen'[c].taskLast = LastSequence(TaskOf[a])
          /\ seen'[c].attemptLast = LastSequence(a)
      <4>1. StageOf(TaskOf[a]) = task[TaskOf[a]].lifecycle /\ StageOf(a) = attempt[a].lifecycle
        BY <3>2, Stages
      <4>2. QED
        BY <3>1, <4>1 DEF Snapshot
    <3>6. /\ op \in {"CREATE_BINDING", "START"} => StageOf(TaskOf[a]) \in {"CREATED", "PREPARING"}
          /\ op = "START" => StageOf(a) \in {"CREATED", "PREPARING"}
      <4>1. StageOf(TaskOf[a]) = task[TaskOf[a]].lifecycle /\ StageOf(a) = attempt[a].lifecycle
        BY <3>2, Stages
      <4>2. QED
        BY <3>1, <4>1 DEF Acceptable, Preparable
    <3>7. /\ LastSequence(TaskOf[a]) \in Nat /\ LastSequence(a) \in Nat
      BY <1>1, <3>2
    <3>8. StageOf(TaskOf[a]) = "PREPARING" => task'[TaskOf[a]].lifecycle \notin {"NONE", "CREATED"}
      BY <3>2, <3>3, Stages
    <3>9. QED
      BY <3>2, <3>4, <3>5, <3>6, <3>7, <3>8
  <2>3. QED
    BY <1>4, <2>1, <2>2, SeenStep
<1>5. SnapshotsShowPast'
  <2>1. ASSUME NEW c \in Call, seen'[c] # NoCall, NEW a, a = seen'[c].attempt
        PROVE /\ a \in Attempt
              /\ ShowsPast(TaskOf[a], seen[c].task, seen[c].taskLast)'
              /\ ShowsPast(a, seen[c].row, seen[c].attemptLast)'
              /\ seen'[c].op \in {"CREATE_BINDING", "START"} =>
                   seen'[c].task \in {"CREATED", "PREPARING"}
              /\ seen'[c].task = "PREPARING" =>
                   task'[TaskOf[a]].lifecycle \notin {"NONE", "CREATED"}
              /\ seen'[c].op = "START" => seen'[c].row \in {"CREATED", "PREPARING"}
    BY <1>4, <2>1 DEF ShowsPast
  <2>2. QED
    BY <2>1 DEF SnapshotsShowPast
<1>6. QED
  BY <1>2, <1>5

LEMMA TxPreserved == TxInv /\ [TxNext]_txVars => TxInv'
<1> SUFFICES ASSUME TxInv, [TxNext]_txVars PROVE TxInv'
  OBVIOUS
<1>1. TypeOK' /\ ReadyBeforeRun'
  BY TxStep, TypeStep, ReadyStep DEF TxInv
<1>2. /\ outbox' = [g \in Aggregate |-> outbox'[g]]
      /\ seen' = [c \in Call |-> seen'[c]]
  BY TxStep, SeenStep
<1>3. QED
  BY <1>1, <1>2, SnapshotStep DEF TxInv

LEMMA TxInitially == TxInit => TxInv
<1> SUFFICES ASSUME TxInit PROVE TxInv
  OBVIOUS
<1>1. TypeOK
  BY TypeInit DEF TxInit
<1>2. ReadyBeforeRun
  BY DEF TxInit, Init, ReadyBeforeRun
<1>3. EvidenceTold
  <2>1. ASSUME NEW g \in Aggregate PROVE LifeTold(outbox[g], StageOf(g), LastSequence(g))
    <3>1. outbox[g] = {} /\ StageOf(g) = "NONE"
      BY DEF TxInit, Init, StageOf, Aggregate
    <3>2. LifeTold({}, "NONE", 0)
      BY DEF LifeTold
    <3>3. LastSequence(g) = 0
      BY <3>1, <3>2, LastIsCount DEF LastSequence
    <3>4. QED
      BY <3>1, <3>2, <3>3
  <2>2. QED
    BY <2>1 DEF EvidenceTold
<1>4. SnapshotsShowPast
  BY DEF TxInit, SnapshotsShowPast
<1>5. QED
  BY <1>1, <1>2, <1>3, <1>4 DEF TxInit, TxInv

LEMMA TxInvariant == TxSpec => []TxInv
<1>1. TxInit => TxInv
  BY TxInitially
<1>2. TxInv /\ [TxNext]_txVars => TxInv'
  BY TxPreserved
<1>3. QED
  BY <1>1, <1>2, PTL DEF TxSpec

LEMMA TxIsLoose == TxSpec => LooseSpec
<1>1. TxInit => Init
  BY DEF TxInit
<1>2. TxInv /\ [TxNext]_txVars => [LooseNext]_vars
  BY TxStep
<1>3. QED
  BY <1>1, <1>2, TxInvariant, PTL DEF TxSpec, LooseSpec


\* The outbox rows of a told life are as many as its last number.
LEMMA AsManyRows ==
  ASSUME NEW rows, NEW stage, NEW n, LifeTold(rows, stage, n)
  PROVE Cardinality(rows) = n
<1> DEFINE row == [i \in 1..n |-> CHOOSE e \in rows : e.sequence = i]
<1>1. n \in Nat
  BY DEF LifeTold
<1>2. \A i \in 1..n : row[i] \in rows /\ row[i].sequence = i
  <2>1. \A i \in 1..n : \E e \in rows : e.sequence = i
    BY DEF LifeTold
  <2>2. QED
    BY <2>1
<1>3. row \in [1..n -> rows]
  BY <1>2
<1> HIDE DEF row
<1>4. \A i, j \in 1..n : row[i] = row[j] => i = j
  BY <1>2
<1>5. \A e \in rows : \E i \in 1..n : row[i] = e
  <2>1. ASSUME NEW e \in rows PROVE e.sequence \in 1..n /\ row[e.sequence] = e
    BY <1>2 DEF LifeTold
  <2>2. QED
    BY <2>1
<1>6. ExistsBijection(1..n, rows)
  BY <1>3, <1>4, <1>5 DEF ExistsBijection, Bijection, Injection, Surjection, IsInjective
<1>7. QED
  BY <1>1, <1>6, FS_CountingElements

LEMMA ToldReplays == TxInv => EvidenceReplays
<1> SUFFICES ASSUME TxInv, NEW g \in Aggregate
             PROVE LET rows == outbox[g]
                       stage == IF g \in RunTask THEN task[g].lifecycle ELSE attempt[g].lifecycle
                       last == Cardinality(rows)
                   IN /\ {e.sequence : e \in rows} = 1..last
                      /\ \A e, f \in rows : f.sequence = e.sequence + 1 => f.from = e.to
                      /\ \A e \in rows : e.sequence = last => e.to = stage
  BY DEF EvidenceReplays
<1>1. LifeTold(outbox[g], StageOf(g), LastSequence(g))
  BY DEF TxInv, EvidenceTold
<1>2. Cardinality(outbox[g]) = LastSequence(g)
  BY <1>1, AsManyRows
<1>3. QED
  BY <1>1, <1>2 DEF LifeTold, StageOf

\* Whoever finds every Runner READY takes the steps of owners that do not look at it.
LEMMA LooseAtReady ==
  ASSUME [LooseNext]_vars, <<task, attempt>>' # <<task, attempt>>
  PROVE  \E reading \in [Runner -> RunnerStatus] : At(reading)!Next
<1> DEFINE ready == [r \in Runner |-> "READY"]
<1>1. ready \in [Runner -> RunnerStatus] /\ \A a \in Attempt : ready[RunnerOf[a]] = "READY"
  BY OwnersAssumption DEF RunnerStatus
<1>2. UNCHANGED ready
  OBVIOUS
<1> HIDE DEF ready
<1>3. ASSUME NEW t \in RunTask, CreateRunTask(t) PROVE At(ready)!CreateRunTask(t)
  BY <1>2, <1>3 DEF CreateRunTask, At!CreateRunTask
<1>4. ASSUME NEW a \in Attempt, CreateAnyway(a) PROVE At(ready)!CreateAttempt(a)
  BY <1>1, <1>2, <1>4 DEF CreateAnyway, At!CreateAttempt, Preparable, At!Preparable
<1>5. At(ready)!Kind = Kind /\ At(ready)!Resource = Resource /\ At(ready)!TTL = TTL
  <2>1. At(ready)!Kind = Kind /\ At(ready)!Resource = Resource
    BY DEF At!Kind, At!Resource
  <2> HIDE DEF Kind
  <2>2. QED
    BY <2>1 DEF At!TTL, TTL
<1>6. ASSUME NEW a \in Attempt
      PROVE /\ At(ready)!LeasesHeld(a) <=> LeasesHeld(a)
            /\ At(ready)!GenerationsMatch(a) <=> GenerationsMatch(a)
            /\ At(ready)!Live(a) <=> Live(a)
            /\ At(ready)!Preparable(TaskOf[a]) <=> Preparable(TaskOf[a])
            /\ \A s : At(ready)!SetBinding(a, s) <=> SetBinding(a, s)
            /\ \A s : At(ready)!CloseLeases(a, s) <=> CloseLeases(a, s)
            /\ \A f : At(ready)!Acquire(a, f) <=> Acquire(a, f)
  BY <1>5 DEF LeasesHeld, GenerationsMatch, Live, Preparable, SetBinding, CloseLeases, Acquire,
              At!LeasesHeld, At!GenerationsMatch, At!Live, At!Preparable, At!SetBinding,
              At!CloseLeases, At!Acquire
<1>7. ASSUME NEW a \in Attempt, NEW i \in Identity, NEW s \in Slot, CreateBinding(a, i, s)
      PROVE At(ready)!CreateBinding(a, i, s)
  <2>1. At(ready)!Admissible(a, i, s)
    BY <1>1, <1>7, <1>5 DEF CreateBinding, Admissible, RunnerAdmits, Available,
                            At!Admissible, At!RunnerAdmits, At!Available
  <2>2. At(ready)!BindResources(a, i, s, task[TaskOf[a]].lifecycle)
    BY <1>2, <1>7, <1>5, <1>6 DEF CreateBinding, BindResources, At!BindResources
  <2>3. QED
    BY <2>1, <2>2 DEF At!CreateBinding
<1>8. ASSUME NEW a \in Attempt, StartAnyway(a) PROVE At(ready)!StartExecution(a)
  <2>1. At(ready)!Startable(a) /\ At(ready)!Preparable(TaskOf[a])
    BY <1>1, <1>8, <1>6 DEF StartAnyway, At!Startable
  <2>2. At(ready)!RunOwners(a)
    BY <1>2, <1>8, <1>6 DEF StartAnyway, RunOwners, At!RunOwners
  <2>3. QED
    BY <2>1, <2>2 DEF At!StartExecution
<1>9. ASSUME NEW a \in Attempt, NEW outcome \in Outcome, Finish(a, outcome)
      PROVE At(ready)!Finish(a, outcome)
  <2>1. outcome # "FAILED" => At(ready)!CommandHolds(a)
    BY <1>9, <1>6 DEF Finish, CommandHolds, At!CommandHolds
  <2>2. At(ready)!ResultOf(outcome) = ResultOf(outcome)
    BY DEF ResultOf, At!ResultOf
  <2>3. At(ready)!EndExecution(a, outcome)
    BY <1>2, <1>9, <1>6, <2>2 DEF Finish, EndExecution, At!EndExecution
  <2>4. QED
    BY <2>1, <2>3 DEF At!Finish
<1>10. At(ready)!Next
  <2>1. \/ \E t \in RunTask : CreateRunTask(t)
        \/ \E a \in Attempt : CreateAnyway(a)
        \/ \E a \in Attempt, i \in Identity, s \in Slot : CreateBinding(a, i, s)
        \/ \E a \in Attempt : StartAnyway(a)
        \/ \E a \in Attempt, outcome \in Outcome : Finish(a, outcome)
    BY DEF LooseNext, vars, Read, Consume, Renew, Release, Recover, Tick, RunnerChanges
  <2>2. QED
    BY <1>3, <1>4, <1>7, <1>8, <1>9, <2>1 DEF At!Next, Outcome, At!Outcome
<1>11. QED
  BY <1>1, <1>10

-----------------------------------------------------------------------------
(* Theorems *)

\* Every reachable state of the owners, bindings, leases and views is well typed.
THEOREM TypeCorrect ==
  /\ Spec => []TypeOK
  /\ TxSpec => []TypeOK
  BY SpecIsLoose, TxIsLoose, LooseTypeCorrect, PTL

\* Whatever commands, executions and expiries interleave, a binding and its two lease rows
\* close together and no closed binding keeps a resource.
THEOREM BindingLeasesCoherent ==
  /\ Spec => []BindingLeaseCoherent
  /\ TxSpec => []BindingLeaseCoherent
  BY SpecIsLoose, TxIsLoose, LooseBindingLeasesCoherent, PTL

\* A generation is issued once per resource, and an ACTIVE lease has the newest.
THEOREM GenerationsFence ==
  /\ Spec => []FencingSound
  /\ TxSpec => []FencingSound
  BY SpecIsLoose, TxIsLoose, LooseGenerationsFence, PTL

\* No resource serves two ACTIVE leases: a consequence of fencing, by uniqueness.
THEOREM LeasesExclude ==
  /\ Spec => []LeaseExclusive
  /\ TxSpec => []LeaseExclusive
  BY SpecIsLoose, TxIsLoose, LooseLeasesExclude, PTL

\* A RunTask is RUNNING exactly while one attempt of it is: two sibling attempts, both
\* prepared and bound, never run together, and an ending execution finds its RunTask RUNNING.
THEOREM OwnersStayTogether ==
  /\ Spec => []OwnersAgree
  /\ TxSpec => []OwnersAgree
  BY SpecIsLoose, TxIsLoose, LooseOwnersStayTogether, PTL

\* A completed owner never changes, and a RunTask gets its result from the attempt that ran,
\* in the step that completes both.
THEOREM VerdictsAreFinal ==
  /\ Spec => VerdictFinal
  /\ TxSpec => VerdictFinal
  BY SpecIsLoose, TxIsLoose, LooseVerdictsAreFinal, PTL

\* expected_version protects an operator's decision: a command accepted at the version the
\* operator read acts on the status the operator saw.
THEOREM VersionsIdentify ==
  /\ Spec => []VersionIdentifiesStatus
  /\ TxSpec => []VersionIdentifiesStatus
  BY SpecIsLoose, TxIsLoose, LooseVersionsIdentify, PTL

\* RELEASED and EXPIRED are final for the binding and for its lease rows.
THEOREM TerminalBindingsFreeze ==
  /\ Spec => TerminalBindingFrozen
  /\ TxSpec => TerminalBindingFrozen
  BY SpecIsLoose, TxIsLoose, LooseTerminalBindingsFreeze, PTL

\* Execution bindings implement the reservation service: both resources or neither, fresh
\* tokens, one reservation per attempt.
THEOREM BindingsReserve ==
  /\ Spec => ImplementsReservation
  /\ TxSpec => ImplementsReservation
  BY SpecIsLoose, TxIsLoose, LooseBindingsReserve, PTL

\* The outbox tells the life of every owner, however the transactions that wrote it overlapped:
\* numbered from 1 without a gap or a double, edge after edge, up to the stage of the row.
THEOREM EvidenceIsComplete == TxSpec => []EvidenceReplays
  BY TxInvariant, ToldReplays, PTL

\* Overlapping creations and starts change the owners only as atomic transactions would: what a
\* stale snapshot gets away with is no more than an old reading of a Runner.
THEOREM StepsStayAtomic == TxSpec => StepsAreAtomic
<1>1. TxInv /\ [TxNext]_txVars =>
        [<<task, attempt>>' # <<task, attempt>> =>
           \E reading \in [Runner -> RunnerStatus] : At(reading)!Next]_<<task, attempt>>
  BY TxStep, LooseAtReady
<1>2. QED
  BY <1>1, TxInvariant, PTL DEF TxSpec, StepsAreAtomic
===============================================================================
