----------------------- MODULE KnativeDeployerProofs -----------------------
(***************************************************************************)
(* The deployer, for any operations on any functions, any number of        *)
(* attempts, faults and writes of Knative's controllers.                   *)
(*                                                                         *)
(* Of a step of one operation the others see little: those on the same     *)
(* function have not begun or have ended (Serial), those on other          *)
(* functions share the workspace's objects only.  So every action is shown *)
(* to have that shape (Shape) and to keep what is said of its own          *)
(* operation (Own); the rest follows for all of them at once (OthersKeep). *)
(* That the deployer implements ClusterPromise then takes only what each   *)
(* step does to the service of its own function (Keeps).                   *)
(***************************************************************************)
EXTENDS KnativeDeployer, TLAPS

DeploySteps == {"get", "create", "secret", "cmGet", "cmWrite", "svcGet", "svcWrite"}
DeleteSteps == {"delGet", "delService", "delConfigMap"}
JobSet == [pc : Steps, at : 1..3, seen : Nat, managed : BOOLEAN, attempt : 1..MaxAttempts]

\* The operations on a function follow each other.
Serial ==
  \A i \in Jobs, j \in Jobs :
    i < j /\ Op(i).fn = Op(j).fn /\ job[j].pc # "idle" => Ended(i)

KindOf(j) ==
  /\ job[j].pc \in DeploySteps => Op(j).kind = "deploy"
  /\ job[j].pc \in DeleteSteps => Op(j).kind = "delete"

\* The ConfigMap is written before the service is touched.
WrittenOf(j) ==
  job[j].pc \in {"svcGet", "svcWrite"} /\ Op(j).managed =>
    configMap[Op(j).fn].rv # 0 /\ configMap[Op(j).fn].version = Op(j).version

\* The service is removed before the ConfigMap.
RemovedOf(j) == job[j].pc = "delConfigMap" => service[Op(j).fn].rv = 0

\* What a lost attempt can be put down to: an object that somebody created, a
\* fault, a write of a controller.
There(o) == IF o \in objects THEN 1 ELSE 0
Existing == There("namespace") + There("role") + There("binding")
Causes   == Existing + faults + reconciles

\* Every attempt lost so far has a cause of its own, and so does one that is
\* bound to be lost, of an object created or written since it was looked at.
PaidOf(j) ==
  /\ job[j].pc \in DeploySteps \cup {"idle"} => job[j].attempt - 1 <= Causes
  /\ job[j].pc = "create" => job[j].attempt - 1 <= Causes - There(Ensured[job[j].at])
  /\ job[j].pc = "cmWrite" /\ job[j].seen # configMap[Op(j).fn].rv => job[j].attempt <= Causes
  /\ job[j].pc = "svcWrite" /\ job[j].seen # service[Op(j).fn].rv => job[j].attempt <= Causes
  /\ job[j].pc = "failed" /\ Op(j).kind = "deploy" => MaxAttempts <= Causes

ShowsOf(j) ==
  LET s == service[Op(j).fn]
      c == configMap[Op(j).fn]
  IN
  Latest(j) =>
    IF Op(j).kind = "delete" THEN s.rv = 0
    ELSE /\ s.rv # 0
         /\ s.version = Op(j).version
         /\ s.local = ~ Op(j).public
         /\ Op(j).managed => c.rv # 0 /\ c.version = Op(j).version

Own(j) == KindOf(j) /\ WrittenOf(j) /\ RemovedOf(j) /\ PaidOf(j) /\ ShowsOf(j)

IInv == TypeOK /\ Serial /\ \A j \in Jobs : Own(j)

\* A step of operation j as the others see it.
Shape(j) ==
  /\ TypeOK'
  /\ \A i \in Jobs \ {j} : job'[i] = job[i]
  /\ ~ Ended(j) /\ job'[j].pc # "idle"
  /\ job[j].pc = "idle" => \A i \in Jobs : i < j /\ Op(i).fn = Op(j).fn => Ended(i)
  /\ \A f \in Functions \ {Op(j).fn} : configMap'[f] = configMap[f] /\ service'[f] = service[f]
  /\ objects \subseteq objects' /\ faults' >= faults /\ reconciles' = reconciles

-----------------------------------------------------------------------------
(* What the operators return. *)

LEMMA ElementIn ==
  ASSUME NEW S, NEW q \in Seq(S), NEW i \in DOMAIN q
  PROVE  q[i] \in S /\ i \in Nat
  OBVIOUS

LEMMA OpType ==
  ASSUME NEW j \in Jobs
  PROVE  /\ j \in Nat
         /\ Op(j).kind \in {"deploy", "delete"}
         /\ Op(j).fn \in Functions
         /\ Op(j).version \in Versions /\ Op(j).version \in Nat \ {0}
         /\ Op(j).public \in BOOLEAN /\ Op(j).managed \in BOOLEAN
<1> DEFINE S == [kind : {"deploy", "delete"}, fn : Functions, version : Nat \ {0},
                 public : BOOLEAN, managed : BOOLEAN]
<1>1. Script \in Seq(S) /\ j \in DOMAIN Script
  BY DeployerAssumption DEF Jobs
<1>2. Script[j] \in S /\ j \in Nat
  <2> HIDE DEF S
  <2> QED
    BY <1>1, ElementIn
<1> QED
  BY <1>1, <1>2 DEF Op, Versions

LEMMA GoEffect ==
  ASSUME TypeOK, NEW j \in Jobs, NEW pc \in Steps, Go(j, pc)
  PROVE  /\ job' \in [Jobs -> JobSet]
         /\ \A i \in Jobs \ {j} : job'[i] = job[i]
         /\ job'[j].pc = pc
         /\ job'[j].attempt = job[j].attempt /\ job'[j].at = job[j].at
         /\ job'[j].seen = job[j].seen
  BY DEF TypeOK, JobSet, Go

LEMMA FurtherEffect ==
  ASSUME TypeOK, NEW j \in Jobs, Further(j)
  PROVE  /\ job' \in [Jobs -> JobSet]
         /\ \A i \in Jobs \ {j} : job'[i] = job[i]
         /\ job'[j].pc \in {"get", "secret"}
         /\ job'[j].attempt = job[j].attempt
<1>1. CASE job[j].at < 3
  BY <1>1 DEF TypeOK, JobSet, Further, Steps
<1>2. CASE ~ (job[j].at < 3)
  BY <1>2, GoEffect DEF Further, Steps
<1> QED
  BY <1>1, <1>2

LEMMA RetryEffect ==
  ASSUME TypeOK, NEW j \in Jobs, Retry(j)
  PROVE  /\ job' \in [Jobs -> JobSet]
         /\ \A i \in Jobs \ {j} : job'[i] = job[i]
         /\ \/ job'[j].pc = "get" /\ job'[j].attempt = job[j].attempt + 1
            \/ job'[j].pc = "failed" /\ job[j].attempt = MaxAttempts
<1>1. MaxAttempts \in Nat \ {0} /\ job[j].attempt \in 1..MaxAttempts
  BY DeployerAssumption DEF TypeOK
<1>2. CASE job[j].attempt < MaxAttempts
  BY <1>1, <1>2 DEF Retry, TypeOK, JobSet, Steps
<1>3. CASE ~ (job[j].attempt < MaxAttempts)
  BY <1>1, <1>3, GoEffect DEF Retry, Steps
<1> QED
  BY <1>2, <1>3

\* The causes only grow, and by no less than what a job at "create" disregards.
LEMMA CausesGrow ==
  ASSUME TypeOK, TypeOK', objects \subseteq objects', faults' >= faults,
         reconciles' >= reconciles
  PROVE  /\ Causes \in Nat /\ Causes' \in Nat
         /\ Causes' >= Causes + (faults' - faults) + (reconciles' - reconciles)
         /\ \A n \in 1..3 : /\ There(Ensured[n]) \in 0..1 /\ There(Ensured[n])' \in 0..1
                            /\ There(Ensured[n])' >= There(Ensured[n])
                            /\ Causes' - There(Ensured[n])' >= Causes - There(Ensured[n])
<1>1. {faults, reconciles, faults', reconciles'} \subseteq Nat
  BY DeployerAssumption DEF TypeOK
<1>2. \A o \in {"namespace", "role", "binding"} :
        There(o) \in 0..1 /\ There(o)' \in 0..1 /\ There(o)' >= There(o)
  BY DEF There
<1>3. Ensured[1] = "namespace" /\ Ensured[2] = "role" /\ Ensured[3] = "binding"
  BY DEF Ensured
<1>4. \A n \in 1..3 : n = 1 \/ n = 2 \/ n = 3
  OBVIOUS
<1>5. /\ Causes = There("namespace") + There("role") + There("binding") + faults + reconciles
      /\ Causes' = There("namespace")' + There("role")' + There("binding")' + faults'
                     + reconciles'
  BY DEF Causes, Existing
<1> HIDE DEF There, Causes, Existing
<1>6. /\ Causes \in Nat /\ Causes' \in Nat
      /\ Causes' >= Causes + (faults' - faults) + (reconciles' - reconciles)
  BY <1>1, <1>2, <1>5
<1>7. ASSUME NEW n \in 1..3
      PROVE  /\ There(Ensured[n]) \in 0..1 /\ There(Ensured[n])' \in 0..1
             /\ There(Ensured[n])' >= There(Ensured[n])
             /\ Causes' - There(Ensured[n])' >= Causes - There(Ensured[n])
  <2>1. CASE n = 1
    BY <1>1, <1>2, <1>3, <1>5, <2>1
  <2>2. CASE n = 2
    BY <1>1, <1>2, <1>3, <1>5, <2>2
  <2>3. CASE n = 3
    BY <1>1, <1>2, <1>3, <1>5, <2>3
  <2> QED
    BY <1>4, <2>1, <2>2, <2>3
<1> QED
  BY <1>6, <1>7

-----------------------------------------------------------------------------
(* The other operations. *)

\* While an operation is under way, the others on its function are not.
LEMMA Alone ==
  ASSUME IInv, NEW j \in Jobs, Shape(j), NEW i \in Jobs \ {j}, Op(i).fn = Op(j).fn
  PROVE  /\ i < j => Ended(i)
         /\ i > j => job[i].pc = "idle"
         /\ i < j \/ i > j
<1>1. i \in Nat /\ j \in Nat
  BY OpType
<1>2. CASE i < j
  BY <1>1, <1>2 DEF IInv, Serial, Shape
<1>3. CASE i > j
  BY <1>1, <1>3 DEF IInv, Serial, Shape
<1> QED
  BY <1>1, <1>2, <1>3

LEMMA SerialKept ==
  ASSUME IInv, NEW j \in Jobs, Shape(j)
  PROVE  Serial'
<1> SUFFICES ASSUME NEW i \in Jobs, NEW k \in Jobs, i < k, Op(i).fn = Op(k).fn,
                    job'[k].pc # "idle"
             PROVE  job'[i].pc \in {"done", "failed"}
  BY DEF Serial, Ended, Op
<1>0. i \in Nat /\ k \in Nat /\ i # k
  BY OpType
<1>1. CASE i # j /\ k # j
  BY <1>1 DEF IInv, Serial, Shape, Ended
<1>2. CASE i # j /\ k = j
  BY <1>0, <1>2, Alone DEF Shape, Ended
<1>3. CASE i = j
  BY <1>0, <1>3, Alone DEF Shape
<1> QED
  BY <1>1, <1>2, <1>3

\* What is said of an operation i survives every step of another one.
LEMMA OthersKeep ==
  ASSUME IInv, NEW j \in Jobs, Shape(j), NEW i \in Jobs \ {j}
  PROVE  Own(i)'
<1> DEFINE f == Op(i).fn
<1>1. /\ Own(i) /\ TypeOK /\ TypeOK' /\ job'[i] = job[i] /\ f \in Functions
      /\ job[i] \in JobSet /\ Op(i)' = Op(i)
  BY OpType DEF IInv, Shape, TypeOK, JobSet, Op
<1>2. Op(i).fn = Op(j).fn => job[i].pc \in {"idle", "done", "failed"}
  BY Alone DEF Ended
<1>3. Op(i).fn # Op(j).fn => configMap'[f] = configMap[f] /\ service'[f] = service[f]
  BY <1>1 DEF Shape
<1>4. KindOf(i)'
  BY <1>1 DEF Own, KindOf
<1>5. WrittenOf(i)' /\ RemovedOf(i)'
  BY <1>1, <1>2, <1>3 DEF Own, WrittenOf, RemovedOf
<1>6. PaidOf(i)'
  <2>1. PICK n \in 1..3 : n = job[i].at
    BY <1>1 DEF JobSet
  <2>2. /\ Causes \in Nat /\ Causes' \in Nat /\ Causes' >= Causes
        /\ Causes' - There(Ensured[n])' >= Causes - There(Ensured[n])
        /\ There(Ensured[n]) \in 0..1 /\ There(Ensured[n])' \in 0..1
        /\ job[i].attempt \in Nat /\ MaxAttempts \in Nat
    <3>1. /\ job[i].attempt \in Nat /\ MaxAttempts \in Nat
          /\ faults \in Nat /\ faults' \in Nat /\ reconciles \in Nat
      BY <1>1, DeployerAssumption DEF JobSet, TypeOK
    <3>2. objects \subseteq objects' /\ faults' >= faults /\ reconciles' = reconciles
      BY DEF Shape
    <3>3. reconciles' >= reconciles
      BY <3>1, <3>2
    <3> HIDE DEF There, Causes
    <3> QED
      BY <1>1, <3>1, <3>2, <3>3, CausesGrow
  <2>3. job'[i].at = n
    BY <1>1, <2>1
  <2>4. PaidOf(i)
    BY <1>1 DEF Own
  <2> HIDE DEF There, Causes
  <2> QED
    BY <1>1, <1>2, <1>3, <2>1, <2>2, <2>3, <2>4 DEF PaidOf
<1>7. ShowsOf(i)'
  <2> SUFFICES ASSUME Latest(i)'
               PROVE  IF Op(i).kind = "delete" THEN service'[f].rv = 0
                      ELSE /\ service'[f].rv # 0
                           /\ service'[f].version = Op(i).version
                           /\ service'[f].local = ~ Op(i).public
                           /\ Op(i).managed => /\ configMap'[f].rv # 0
                                               /\ configMap'[f].version = Op(i).version
    BY <1>1 DEF ShowsOf
  <2>1. job[i].pc = "done" /\ \A k \in Jobs : k > i /\ Op(k).fn = f => job'[k].pc = "idle"
    BY <1>1 DEF Latest, Op
  <2>2. Op(j).fn # f
    <3> SUFFICES ASSUME Op(j).fn = f PROVE FALSE
      OBVIOUS
    <3>1. i < j /\ j \in Nat /\ i \in Nat
      BY <2>1, Alone, OpType
    <3> QED
      BY <2>1, <3>1 DEF Shape
  <2>3. Latest(i)
    BY <2>1, <2>2 DEF Latest, Shape
  <2> QED
    BY <1>1, <1>3, <2>2, <2>3 DEF Own, ShowsOf
<1> QED
  BY <1>4, <1>5, <1>6, <1>7 DEF Own

LEMMA StepKeeps ==
  ASSUME IInv, NEW j \in Jobs, Shape(j), Own(j)'
  PROVE  IInv'
<1>1. TypeOK'
  BY DEF Shape
<1>2. \A i \in Jobs : Own(i)'
  BY OthersKeep
<1> QED
  BY <1>1, <1>2, SerialKept DEF IInv

-----------------------------------------------------------------------------
(* The steps of an operation. *)

Objects   == {"namespace", "role", "binding", "secret"}
ConfigSet == [rv : Nat, version : Versions \cup {0}]
ServiceSet == [rv : Nat, version : Versions \cup {0}, local : BOOLEAN, managed : BOOLEAN]

\* The job of operation j moves on and those of the others stay.
Moves(j) ==
  /\ job' \in [Jobs -> JobSet]
  /\ \A i \in Jobs \ {j} : job'[i] = job[i]
  /\ job'[j].pc # "idle"

LEMMA ShapeOf ==
  ASSUME IInv, NEW j \in Jobs, Moves(j),
         \/ job[j].pc \in DeploySteps \cup DeleteSteps
         \/ /\ job[j].pc = "idle"
            /\ \A i \in Jobs : i < j /\ Op(i).fn = Op(j).fn => Ended(i),
         objects' \subseteq Objects, objects \subseteq objects',
         UNCHANGED faults \/ Fault,
         reconciles' = reconciles, revision' \in Nat,
         \/ configMap' = configMap
         \/ \E c \in ConfigSet : configMap' = [configMap EXCEPT ![Op(j).fn] = c],
         \/ service' = service
         \/ \E s \in ServiceSet : service' = [service EXCEPT ![Op(j).fn] = s]
  PROVE  Shape(j)
<1>1. TypeOK /\ Op(j).fn \in Functions
  BY OpType DEF IInv
<1>2. faults' \in 0..MaxFaults /\ faults' >= faults
  BY <1>1, DeployerAssumption DEF TypeOK, Fault
<1>3. /\ configMap' \in [Functions -> ConfigSet]
      /\ \A f \in Functions \ {Op(j).fn} : configMap'[f] = configMap[f]
  BY <1>1 DEF TypeOK, ConfigSet
<1>4. /\ service' \in [Functions -> ServiceSet]
      /\ \A f \in Functions \ {Op(j).fn} : service'[f] = service[f]
  BY <1>1 DEF TypeOK, ServiceSet
<1>5. TypeOK'
  BY <1>1, <1>2, <1>3, <1>4 DEF TypeOK, Moves, JobSet, Objects, ConfigSet, ServiceSet
<1>6. ~ Ended(j)
  BY DEF Ended, DeploySteps, DeleteSteps
<1>7. job[j].pc = "idle" => \A i \in Jobs : i < j /\ Op(i).fn = Op(j).fn => Ended(i)
  BY DEF DeploySteps, DeleteSteps
<1> QED
  BY <1>2, <1>3, <1>4, <1>5, <1>6, <1>7 DEF Shape, Moves

\* The shape of the steps before Deploy and of those that only read.
LEMMA ShapeOfQuiet ==
  ASSUME IInv, NEW j \in Jobs, Moves(j), job[j].pc \in DeploySteps \cup DeleteSteps,
         objects' \subseteq Objects, objects \subseteq objects',
         UNCHANGED faults \/ Fault,
         UNCHANGED <<configMap, service, revision, reconciles>>
  PROVE  Shape(j)
<1>1. /\ revision' \in Nat /\ configMap' = configMap /\ service' = service
      /\ reconciles' = reconciles
  BY DEF IInv, TypeOK
<1> QED
  BY <1>1, ShapeOf

\* What is known of an operation before its step.
LEMMA Before ==
  ASSUME IInv, NEW j \in Jobs
  PROVE  /\ TypeOK /\ Own(j) /\ job \in [Jobs -> JobSet] /\ job[j] \in JobSet
         /\ objects \subseteq Objects
         /\ configMap \in [Functions -> ConfigSet] /\ service \in [Functions -> ServiceSet]
         /\ revision \in Nat /\ revision + 1 \in Nat \ {0}
         /\ job[j].attempt \in Nat /\ job[j].at \in 1..3 /\ MaxAttempts \in Nat
         /\ Ensured[job[j].at] \in Objects
<1>1. TypeOK /\ Own(j) /\ job \in [Jobs -> JobSet] /\ revision \in Nat /\ MaxAttempts \in Nat
  BY DeployerAssumption DEF IInv, TypeOK, JobSet
<1>2. job[j] \in JobSet
  BY <1>1
<1>3. job[j].attempt \in Nat /\ job[j].at \in 1..3
  BY <1>1, <1>2 DEF JobSet
<1>4. Ensured[job[j].at] \in Objects
  BY <1>3 DEF Ensured, Objects
<1> QED
  BY <1>1, <1>2, <1>3, <1>4 DEF TypeOK, Objects, ConfigSet, ServiceSet

LEMMA ShapeCauses ==
  ASSUME IInv, NEW j \in Jobs, Shape(j)
  PROVE  /\ Causes \in Nat /\ Causes' \in Nat /\ Causes' >= Causes
         /\ Fault => Causes' >= Causes + 1
         /\ There(Ensured[job[j].at]) \in 0..1
<1>1. TypeOK /\ TypeOK' /\ objects \subseteq objects' /\ faults' >= faults
      /\ reconciles' = reconciles
  BY DEF IInv, Shape
<1>2. /\ faults \in Nat /\ faults' \in Nat /\ reconciles \in Nat /\ job[j].at \in 1..3
  BY <1>1, Before, DeployerAssumption DEF TypeOK
<1>3. Fault => faults' = faults + 1
  BY DEF Fault
<1> HIDE DEF There, Causes, Fault
<1> QED
  BY <1>1, <1>2, <1>3, CausesGrow

\* On to a step of a deployment at which nothing has been looked at.
LEMMA OnwardOwn ==
  ASSUME NEW j \in Jobs, Op(j).kind = "deploy",
         job'[j].pc \in {"get", "secret", "cmGet", "svcGet"},
         job'[j].pc = "svcGet" /\ Op(j).managed =>
           configMap'[Op(j).fn].rv # 0 /\ configMap'[Op(j).fn].version = Op(j).version,
         job'[j].attempt - 1 <= Causes'
  PROVE  Own(j)'
<1>1. KindOf(j)' /\ WrittenOf(j)' /\ RemovedOf(j)'
  BY DEF KindOf, WrittenOf, RemovedOf, Op, DeploySteps, DeleteSteps
<1>2. PaidOf(j)'
  BY DEF PaidOf
<1>3. ShowsOf(j)'
  BY DEF ShowsOf, Latest
<1> QED
  BY <1>1, <1>2, <1>3 DEF Own

\* An attempt may fail when there is a cause for it.
LEMMA RetryOwn ==
  ASSUME IInv, NEW j \in Jobs, Op(j).kind = "deploy", Retry(j),
         Causes' \in Nat, job[j].attempt <= Causes'
  PROVE  Own(j)'
<1>1. TypeOK /\ job[j].attempt \in Nat
  BY Before
<1>2. CASE job'[j].pc = "get" /\ job'[j].attempt = job[j].attempt + 1
  <2>1. job'[j].attempt - 1 <= Causes'
    BY <1>1, <1>2
  <2> QED
    BY <1>2, <2>1, OnwardOwn
<1>3. CASE job'[j].pc = "failed" /\ job[j].attempt = MaxAttempts
  <2>1. KindOf(j)' /\ WrittenOf(j)' /\ RemovedOf(j)'
    BY <1>3 DEF KindOf, WrittenOf, RemovedOf, Op, DeploySteps, DeleteSteps
  <2>2. PaidOf(j)'
    BY <1>3 DEF PaidOf, DeploySteps
  <2>3. ShowsOf(j)'
    BY <1>3 DEF ShowsOf, Latest
  <2> QED
    BY <2>1, <2>2, <2>3 DEF Own
<1> QED
  BY <1>1, <1>2, <1>3, RetryEffect

LEMMA RetryMoves ==
  ASSUME IInv, NEW j \in Jobs, Retry(j)
  PROVE  Moves(j)
  BY RetryEffect DEF IInv, Moves

LEMMA FurtherMoves ==
  ASSUME IInv, NEW j \in Jobs, Further(j)
  PROVE  Moves(j)
  BY FurtherEffect DEF IInv, Moves

LEMMA GoMoves ==
  ASSUME IInv, NEW j \in Jobs, NEW pc \in Steps \ {"idle"}, Go(j, pc)
  PROVE  Moves(j)
  BY GoEffect DEF IInv, Moves

LEMMA StartKeeps ==
  ASSUME IInv, NEW j \in Jobs, Start(j)
  PROVE  IInv'
<1>1. /\ job[j].pc = "idle" /\ \A i \in Jobs : i < j /\ Op(i).fn = Op(j).fn => Ended(i)
      /\ UNCHANGED <<objects, configMap, service, revision, faults, reconciles>>
  BY DEF Start
<1>2. PICK pc \in {"get", "delGet"} : Go(j, pc) /\ (pc = "get" <=> Op(j).kind = "deploy")
  BY DEF Start
<1>3. pc \in Steps \ {"idle"}
  BY DEF Steps
<1>4. Moves(j)
  BY <1>2, <1>3, GoMoves
<1>5. Shape(j)
  <2>1. revision' \in Nat /\ objects' \subseteq Objects
    BY <1>1, Before
  <2> QED
    BY <1>1, <1>4, <2>1, ShapeOf
<1>6. job'[j].pc = pc /\ job'[j].attempt = job[j].attempt
  BY <1>2, <1>3, Before, GoEffect
<1>7. CASE pc = "get"
  <2>1. job'[j].attempt - 1 <= Causes'
    BY <1>1, <1>6, Before DEF Own, PaidOf, Causes, Existing, There
  <2> QED
    BY <1>2, <1>5, <1>6, <1>7, <2>1, OnwardOwn, StepKeeps
<1>8. CASE pc = "delGet"
  <2>1. Op(j).kind = "delete"
    BY <1>2, <1>8, OpType
  <2>2. Own(j)'
    BY <1>6, <1>8, <2>1
       DEF Own, KindOf, WrittenOf, RemovedOf, PaidOf, ShowsOf, Latest, Op, DeploySteps, DeleteSteps
  <2> QED
    BY <1>5, <2>2, StepKeeps
<1> QED
  BY <1>7, <1>8

LEMMA EnsureGetKeeps ==
  ASSUME IInv, NEW j \in Jobs, EnsureGet(j)
  PROVE  IInv'
<1> DEFINE o == Ensured[job[j].at]
<1>1. /\ job[j].pc = "get"
      /\ UNCHANGED <<objects, configMap, service, revision, reconciles>>
      /\ \/ Further(j) /\ (UNCHANGED faults \/ Fault)
         \/ o \notin objects /\ Go(j, "create") /\ UNCHANGED faults
         \/ Fault /\ Retry(j)
  BY DEF EnsureGet
<1>2. "create" \in Steps \ {"idle"} /\ job[j].pc \in DeploySteps
  BY <1>1 DEF Steps, DeploySteps
<1>3. Moves(j)
  BY <1>1, <1>2, RetryMoves, FurtherMoves, GoMoves
<1>4. Shape(j)
  BY <1>1, <1>2, <1>3, Before, ShapeOfQuiet
<1>5. /\ Op(j).kind = "deploy" /\ job[j].attempt - 1 <= Causes /\ job[j].attempt \in Nat
      /\ Causes \in Nat /\ Causes' \in Nat /\ Causes' >= Causes
      /\ Fault => Causes' >= Causes + 1
  BY <1>2, <1>4, Before, ShapeCauses DEF Own, KindOf, PaidOf
<1>6. CASE Further(j)
  <2>1. job'[j].pc \in {"get", "secret"} /\ job'[j].attempt = job[j].attempt
    BY <1>6, Before, FurtherEffect
  <2>2. job'[j].attempt - 1 <= Causes'
    BY <1>5, <2>1
  <2> QED
    BY <1>4, <1>5, <2>1, <2>2, OnwardOwn, StepKeeps
<1>7. CASE o \notin objects /\ Go(j, "create") /\ UNCHANGED faults
  <2>1. /\ job'[j].pc = "create" /\ job'[j].at = job[j].at
        /\ job'[j].attempt = job[j].attempt
    BY <1>2, <1>7, Before, GoEffect
  <2>2. PICK n \in 1..3 : n = job[j].at
    BY Before
  <2>3. There(Ensured[n])' = 0
    BY <1>1, <1>7, <2>2 DEF There
  <2>4. PaidOf(j)'
    <3> HIDE DEF Causes, There
    <3> QED
      BY <1>5, <2>1, <2>2, <2>3 DEF PaidOf
  <2>5. KindOf(j)' /\ WrittenOf(j)' /\ RemovedOf(j)' /\ ShowsOf(j)'
    BY <1>5, <2>1 DEF KindOf, WrittenOf, RemovedOf, ShowsOf, Latest, Op, DeploySteps, DeleteSteps
  <2> QED
    BY <1>4, <2>4, <2>5, StepKeeps DEF Own
<1>8. CASE Fault /\ Retry(j)
  BY <1>4, <1>5, <1>8, RetryOwn, StepKeeps
<1> QED
  BY <1>1, <1>6, <1>7, <1>8

LEMMA EnsureCreateKeeps ==
  ASSUME IInv, NEW j \in Jobs, EnsureCreate(j)
  PROVE  IInv'
<1> DEFINE o == Ensured[job[j].at]
<1>1. /\ job[j].pc = "create"
      /\ objects' \in {objects, objects \cup {o}}
      /\ UNCHANGED <<configMap, service, revision, reconciles>>
      /\ \/ Further(j) /\ UNCHANGED faults
         \/ o \in objects /\ Retry(j) /\ UNCHANGED faults
         \/ Fault /\ Retry(j)
  BY DEF EnsureCreate
<1>2. job[j].pc \in DeploySteps
  BY <1>1 DEF DeploySteps
<1>3. Moves(j)
  BY <1>1, RetryMoves, FurtherMoves
<1>4. objects' \subseteq Objects /\ objects \subseteq objects'
  BY <1>1, Before
<1>5. Shape(j)
  BY <1>1, <1>2, <1>3, <1>4, ShapeOfQuiet
<1>6. /\ Op(j).kind = "deploy" /\ job[j].attempt - 1 <= Causes - There(o)
      /\ job[j].attempt \in Nat /\ There(o) \in 0..1
      /\ Causes \in Nat /\ Causes' \in Nat /\ Causes' >= Causes
      /\ Fault => Causes' >= Causes + 1
  BY <1>1, <1>2, <1>5, Before, ShapeCauses DEF Own, KindOf, PaidOf
<1>7. CASE Further(j)
  <2>1. job'[j].pc \in {"get", "secret"} /\ job'[j].attempt = job[j].attempt
    BY <1>7, Before, FurtherEffect
  <2>2. job'[j].attempt - 1 <= Causes'
    BY <1>6, <2>1
  <2> QED
    BY <1>5, <1>6, <2>1, <2>2, OnwardOwn, StepKeeps
<1>8. CASE Retry(j) /\ (o \in objects \/ Fault)
  <2>1. o \in objects => There(o) = 1
    BY DEF There
  <2>2. job[j].attempt <= Causes'
    <3> HIDE DEF o, There, Causes
    <3> QED
      BY <1>6, <1>8, <2>1
  <2> QED
    BY <1>5, <1>6, <1>8, <2>2, RetryOwn, StepKeeps
<1> QED
  BY <1>1, <1>7, <1>8

\* At a step of Deploy or before, what is known of the attempts.
LEMMA Attempts ==
  ASSUME IInv, NEW j \in Jobs, Shape(j), job[j].pc \in DeploySteps
  PROVE  /\ Op(j).kind = "deploy" /\ job[j].attempt - 1 <= Causes /\ job[j].attempt \in Nat
         /\ Causes \in Nat /\ Causes' \in Nat /\ Causes' >= Causes
         /\ job[j].attempt - 1 <= Causes'
         /\ Fault => job[j].attempt <= Causes'
<1>1. /\ Op(j).kind = "deploy" /\ job[j].attempt - 1 <= Causes /\ job[j].attempt \in Nat
      /\ Causes \in Nat /\ Causes' \in Nat /\ Causes' >= Causes
      /\ Fault => Causes' >= Causes + 1
  BY Before, ShapeCauses DEF Own, KindOf, PaidOf
<1> HIDE DEF Causes
<1> QED
  BY <1>1

LEMMA CopySecretKeeps ==
  ASSUME IInv, NEW j \in Jobs, CopySecret(j)
  PROVE  IInv'
<1>1. /\ job[j].pc = "secret"
      /\ objects' \in {objects, objects \cup {"secret"}}
      /\ UNCHANGED <<configMap, service, revision, reconciles>>
      /\ \/ Go(j, DeployStep(j)) /\ UNCHANGED faults
         \/ Fault /\ Retry(j)
  BY DEF CopySecret
<1>2. /\ job[j].pc \in DeploySteps
      /\ DeployStep(j) \in Steps \ {"idle"} /\ DeployStep(j) \in {"cmGet", "svcGet"}
      /\ DeployStep(j) = "svcGet" => ~ Op(j).managed
  BY <1>1 DEF DeploySteps, DeployStep, Steps
<1>3. Moves(j)
  BY <1>1, <1>2, RetryMoves, GoMoves
<1>4. objects' \subseteq Objects /\ objects \subseteq objects'
  BY <1>1, Before DEF Objects
<1>5. Shape(j)
  BY <1>1, <1>2, <1>3, <1>4, ShapeOfQuiet
<1>6. CASE Go(j, DeployStep(j))
  <2>1. job'[j].pc = DeployStep(j) /\ job'[j].attempt = job[j].attempt
    BY <1>2, <1>6, Before, GoEffect
  <2> QED
    BY <1>2, <1>5, <2>1, Attempts, OnwardOwn, StepKeeps
<1>7. CASE Fault /\ Retry(j)
  BY <1>2, <1>5, <1>7, Attempts, RetryOwn, StepKeeps
<1> QED
  BY <1>1, <1>6, <1>7

\* An object has been looked at: it was as it is now, or the look failed.
LEMMA LookOwn ==
  ASSUME IInv, NEW j \in Jobs, Shape(j), job[j].pc \in {"cmGet", "svcGet"},
         UNCHANGED <<configMap, service>>, job'[j].attempt = job[j].attempt,
         \/ /\ job[j].pc = "cmGet" /\ job'[j].pc = "cmWrite"
            /\ (job'[j].seen = configMap[Op(j).fn].rv \/ Fault)
         \/ /\ job[j].pc = "svcGet" /\ job'[j].pc = "svcWrite"
            /\ (job'[j].seen = service[Op(j).fn].rv \/ Fault)
  PROVE  Own(j)'
<1>1. Own(j) /\ job[j].pc \in DeploySteps
  BY Before DEF DeploySteps
<1>2. /\ Op(j).kind = "deploy" /\ job'[j].attempt - 1 <= Causes'
      /\ Fault => job'[j].attempt <= Causes'
  BY <1>1, Attempts
<1>3. KindOf(j)' /\ RemovedOf(j)' /\ ShowsOf(j)'
  BY <1>2 DEF KindOf, RemovedOf, ShowsOf, Latest, Op, DeploySteps, DeleteSteps
<1>4. WrittenOf(j)'
  BY <1>1 DEF Own, WrittenOf, Op
<1>5. PaidOf(j)'
  <2> HIDE DEF Causes
  <2> QED
    BY <1>2 DEF PaidOf, Op
<1> QED
  BY <1>3, <1>4, <1>5 DEF Own

LEMMA ConfigMapGetKeeps ==
  ASSUME IInv, NEW j \in Jobs, ConfigMapGet(j)
  PROVE  IInv'
<1>1. /\ job[j].pc = "cmGet"
      /\ UNCHANGED <<objects, configMap, service, revision, reconciles>>
  BY DEF ConfigMapGet
<1>2. PICK seen \in Nat : /\ job' = [job EXCEPT ![j].pc = "cmWrite", ![j].seen = seen]
                          /\ (seen = configMap[Op(j).fn].rv /\ UNCHANGED faults) \/ Fault
  BY Before, OpType DEF ConfigMapGet, ConfigSet
<1>3. /\ Moves(j) /\ job'[j].pc = "cmWrite" /\ job'[j].seen = seen
      /\ job'[j].attempt = job[j].attempt
  BY <1>2, Before DEF Moves, JobSet, Steps
<1>4. job[j].pc \in DeploySteps /\ objects' \subseteq Objects
  BY <1>1, Before DEF DeploySteps
<1>5. Shape(j)
  BY <1>1, <1>2, <1>3, <1>4, ShapeOfQuiet
<1>6. Own(j)'
  BY <1>1, <1>2, <1>3, <1>5, LookOwn
<1> QED
  BY <1>5, <1>6, StepKeeps

LEMMA ServiceGetKeeps ==
  ASSUME IInv, NEW j \in Jobs, ServiceGet(j)
  PROVE  IInv'
<1>1. /\ job[j].pc = "svcGet"
      /\ UNCHANGED <<objects, configMap, service, revision, reconciles>>
  BY DEF ServiceGet
<1>2. PICK seen \in Nat : /\ job' = [job EXCEPT ![j].pc = "svcWrite", ![j].seen = seen]
                          /\ (seen = service[Op(j).fn].rv /\ UNCHANGED faults) \/ Fault
  BY Before, OpType DEF ServiceGet, ServiceSet
<1>3. /\ Moves(j) /\ job'[j].pc = "svcWrite" /\ job'[j].seen = seen
      /\ job'[j].attempt = job[j].attempt
  BY <1>2, Before DEF Moves, JobSet, Steps
<1>4. job[j].pc \in DeploySteps /\ objects' \subseteq Objects
  BY <1>1, Before DEF DeploySteps
<1>5. Shape(j)
  BY <1>1, <1>2, <1>3, <1>4, ShapeOfQuiet
<1>6. Own(j)'
  BY <1>1, <1>2, <1>3, <1>5, LookOwn
<1> QED
  BY <1>5, <1>6, StepKeeps

LEMMA ConfigMapWriteKeeps ==
  ASSUME IInv, NEW j \in Jobs, ConfigMapWrite(j)
  PROVE  IInv'
<1> DEFINE f == Op(j).fn
           c == [rv |-> revision + 1, version |-> Op(j).version]
           written == [configMap EXCEPT ![f] = c]
           stale == job[j].seen # configMap[f].rv
<1>1. /\ job[j].pc = "cmWrite" /\ UNCHANGED <<objects, service, reconciles>>
      /\ \/ configMap' = written /\ revision' = revision + 1
         \/ UNCHANGED <<configMap, revision>>
      /\ UNCHANGED faults \/ Fault
      /\ \/ configMap' = written /\ Go(j, "svcGet")
         \/ Retry(j) /\ (stale \/ Fault)
  BY DEF ConfigMapWrite
<1>2. /\ job[j].pc \in DeploySteps /\ "svcGet" \in Steps \ {"idle"}
      /\ f \in Functions /\ c \in ConfigSet /\ c.rv # 0 /\ c.version = Op(j).version
      /\ revision' \in Nat /\ configMap \in [Functions -> ConfigSet]
  BY <1>1, Before, OpType DEF DeploySteps, Steps, ConfigSet
<1>3. Moves(j)
  BY <1>1, <1>2, RetryMoves, GoMoves
<1>4. objects' \subseteq Objects /\ objects \subseteq objects'
  BY <1>1, Before
<1>5. Shape(j)
  <2>1. configMap' = configMap \/ \E x \in ConfigSet : configMap' = [configMap EXCEPT ![f] = x]
    BY <1>1, <1>2
  <2>2. service' = service /\ reconciles' = reconciles
    BY <1>1
  <2> QED
    BY <1>1, <1>2, <1>3, <1>4, <2>1, <2>2, ShapeOf
<1>6. CASE configMap' = written /\ Go(j, "svcGet")
  <2>1. job'[j].pc = "svcGet" /\ job'[j].attempt = job[j].attempt
    BY <1>2, <1>6, Before, GoEffect
  <2>2. configMap'[f].rv # 0 /\ configMap'[f].version = Op(j).version
    BY <1>2, <1>6
  <2> QED
    BY <1>2, <1>5, <2>1, <2>2, Attempts, OnwardOwn, StepKeeps
<1>7. CASE Retry(j) /\ (stale \/ Fault)
  <2>1. stale => job[j].attempt <= Causes
    BY <1>1, Before DEF Own, PaidOf
  <2>2. job[j].attempt <= Causes' /\ Causes' \in Nat /\ Op(j).kind = "deploy"
    <3> HIDE DEF Causes
    <3> QED
      BY <1>2, <1>5, <1>7, <2>1, Attempts
  <2> QED
    BY <1>5, <1>7, <2>2, RetryOwn, StepKeeps
<1> QED
  BY <1>1, <1>6, <1>7

LEMMA ServiceWriteKeeps ==
  ASSUME IInv, NEW j \in Jobs, ServiceWrite(j)
  PROVE  IInv'
<1> DEFINE f == Op(j).fn
           s == Built(j)
           written == [service EXCEPT ![f] = s]
           stale == job[j].seen # service[f].rv
<1>1. /\ job[j].pc = "svcWrite" /\ UNCHANGED <<objects, configMap, reconciles>>
      /\ \/ service' = written /\ revision' = revision + 1
         \/ UNCHANGED <<service, revision>>
      /\ UNCHANGED faults \/ Fault
      /\ \/ service' = written /\ Go(j, "done")
         \/ Retry(j) /\ (stale \/ Fault)
  BY DEF ServiceWrite
<1>2. /\ job[j].pc \in DeploySteps /\ "done" \in Steps \ {"idle"}
      /\ f \in Functions /\ s \in ServiceSet /\ s.rv # 0 /\ s.version = Op(j).version
      /\ s.local = ~ Op(j).public
      /\ revision' \in Nat /\ service \in [Functions -> ServiceSet]
  BY <1>1, Before, OpType DEF DeploySteps, Steps, ServiceSet, Built
<1> HIDE DEF s
<1>3. Moves(j)
  BY <1>1, <1>2, RetryMoves, GoMoves
<1>4. objects' \subseteq Objects /\ objects \subseteq objects'
  BY <1>1, Before
<1>5. Shape(j)
  <2>1. service' = service \/ \E x \in ServiceSet : service' = [service EXCEPT ![f] = x]
    BY <1>1, <1>2
  <2>2. configMap' = configMap /\ reconciles' = reconciles
    BY <1>1
  <2> QED
    BY <1>1, <1>2, <1>3, <1>4, <2>1, <2>2, ShapeOf
<1>6. CASE service' = written /\ Go(j, "done")
  <2>1. job'[j].pc = "done"
    BY <1>2, <1>6, Before, GoEffect
  <2>2. Op(j).kind = "deploy"
    BY <1>2, <1>5, Attempts
  <2>3. KindOf(j)' /\ WrittenOf(j)' /\ RemovedOf(j)'
    BY <2>1 DEF KindOf, WrittenOf, RemovedOf, DeploySteps, DeleteSteps
  <2>4. PaidOf(j)'
    BY <2>1 DEF PaidOf, DeploySteps
  <2>5. service'[f] = s /\ configMap'[f] = configMap[f]
    BY <1>1, <1>2, <1>6
  <2>6. Op(j).managed => configMap[f].rv # 0 /\ configMap[f].version = Op(j).version
    BY <1>1, Before DEF Own, WrittenOf
  <2>7. ShowsOf(j)'
    BY <1>2, <2>2, <2>5, <2>6 DEF ShowsOf, Op
  <2> QED
    BY <1>5, <2>3, <2>4, <2>7, StepKeeps DEF Own
<1>7. CASE Retry(j) /\ (stale \/ Fault)
  <2>1. stale => job[j].attempt <= Causes
    BY <1>1, Before DEF Own, PaidOf
  <2>2. job[j].attempt <= Causes' /\ Causes' \in Nat /\ Op(j).kind = "deploy"
    <3> HIDE DEF Causes
    <3> QED
      BY <1>2, <1>5, <1>7, <2>1, Attempts
  <2> QED
    BY <1>5, <1>7, <2>2, RetryOwn, StepKeeps
<1> QED
  BY <1>1, <1>6, <1>7

\* A deletion costs no attempt; what it is about is where it goes from here.
LEMMA DeletionOwn ==
  ASSUME IInv, NEW j \in Jobs, Op(j).kind = "delete",
         job'[j].pc \in {"delService", "delConfigMap", "done", "failed"},
         job'[j].pc \in {"delConfigMap", "done"} => service'[Op(j).fn].rv = 0
  PROVE  Own(j)'
<1>1. KindOf(j)' /\ WrittenOf(j)' /\ RemovedOf(j)'
  BY DEF KindOf, WrittenOf, RemovedOf, Op, DeploySteps, DeleteSteps
<1>2. PaidOf(j)'
  BY DEF PaidOf, Op, DeploySteps
<1>3. ShowsOf(j)'
  BY DEF ShowsOf, Latest, Op
<1> QED
  BY <1>1, <1>2, <1>3 DEF Own

LEMMA DeleteGetKeeps ==
  ASSUME IInv, NEW j \in Jobs, DeleteGet(j)
  PROVE  IInv'
<1>1. /\ job[j].pc = "delGet" /\ UNCHANGED <<objects, configMap, service, revision, reconciles>>
      /\ UNCHANGED faults \/ Fault
  BY DEF DeleteGet
<1>2. job[j].pc \in DeploySteps \cup DeleteSteps /\ Op(j).kind = "delete" /\ objects' \subseteq Objects
  BY <1>1, Before DEF Own, KindOf, DeleteSteps
<1>3. Moves(j) /\ job'[j].pc \in {"delService", "failed"}
  <2>1. CASE Go(j, "failed")
    <3>1. "failed" \in Steps \ {"idle"}
      BY DEF Steps
    <3> QED
      BY <2>1, <3>1, Before, GoEffect, GoMoves
  <2>2. ASSUME NEW managed \in BOOLEAN, NEW pc \in {"delService", "failed"},
               job' = [job EXCEPT ![j].pc = pc, ![j].managed = managed]
        PROVE  Moves(j) /\ job'[j].pc \in {"delService", "failed"}
    BY <2>2, Before DEF Moves, JobSet, Steps
  <2>3. service[Op(j).fn].managed \in BOOLEAN
    BY Before, OpType DEF ServiceSet
  <2> QED
    BY <2>1, <2>2, <2>3 DEF DeleteGet
<1>4. Shape(j)
  BY <1>1, <1>2, <1>3, ShapeOfQuiet
<1> QED
  BY <1>2, <1>3, <1>4, DeletionOwn, StepKeeps

LEMMA DeleteServiceKeeps ==
  ASSUME IInv, NEW j \in Jobs, DeleteService(j)
  PROVE  IInv'
<1> DEFINE f == Op(j).fn
           none == [rv |-> 0, version |-> 0, local |-> FALSE, managed |-> FALSE]
<1>1. /\ job[j].pc = "delService" /\ UNCHANGED <<objects, configMap, revision, reconciles>>
      /\ UNCHANGED faults \/ Fault
      /\ service' = service \/ service' = [service EXCEPT ![f] = none]
  BY DEF DeleteService
<1>2. PICK pc \in {"delConfigMap", "done", "failed"} :
        Go(j, pc) /\ (pc # "failed" => service' = [service EXCEPT ![f] = none])
  BY DEF DeleteService
<1>3. /\ job[j].pc \in DeploySteps \cup DeleteSteps /\ Op(j).kind = "delete"
      /\ objects' \subseteq Objects /\ objects \subseteq objects' /\ pc \in Steps \ {"idle"}
      /\ none \in ServiceSet /\ f \in Functions /\ service \in [Functions -> ServiceSet]
      /\ revision' \in Nat
  BY <1>1, Before, OpType DEF Own, KindOf, DeleteSteps, Steps, ServiceSet
<1>4. Moves(j) /\ job'[j].pc = pc
  BY <1>2, <1>3, Before, GoEffect, GoMoves
<1>5. Shape(j)
  <2>1. service' = service \/ \E s \in ServiceSet : service' = [service EXCEPT ![f] = s]
    BY <1>1, <1>3
  <2>2. configMap' = configMap /\ reconciles' = reconciles
    BY <1>1
  <2> QED
    BY <1>1, <1>3, <1>4, <2>1, <2>2, ShapeOf
<1>6. pc # "failed" => service'[f].rv = 0
  BY <1>2, <1>3
<1> QED
  BY <1>3, <1>4, <1>5, <1>6, DeletionOwn, StepKeeps

LEMMA DeleteConfigMapKeeps ==
  ASSUME IInv, NEW j \in Jobs, DeleteConfigMap(j)
  PROVE  IInv'
<1> DEFINE f == Op(j).fn
           none == [rv |-> 0, version |-> 0]
<1>1. /\ job[j].pc = "delConfigMap" /\ UNCHANGED <<objects, service, revision, reconciles>>
      /\ UNCHANGED faults \/ Fault
      /\ configMap' = configMap \/ configMap' = [configMap EXCEPT ![f] = none]
      /\ Go(j, "done")
  BY DEF DeleteConfigMap
<1>2. /\ job[j].pc \in DeploySteps \cup DeleteSteps /\ Op(j).kind = "delete"
      /\ objects' \subseteq Objects /\ objects \subseteq objects' /\ "done" \in Steps \ {"idle"}
      /\ none \in ConfigSet /\ revision' \in Nat /\ service'[f].rv = 0
  BY <1>1, Before DEF Own, KindOf, RemovedOf, DeleteSteps, Steps, ConfigSet
<1>3. Moves(j) /\ job'[j].pc = "done"
  BY <1>1, <1>2, Before, GoEffect, GoMoves
<1>4. Shape(j)
  <2>1. configMap' = configMap \/ \E c \in ConfigSet : configMap' = [configMap EXCEPT ![f] = c]
    BY <1>1, <1>2
  <2>2. service' = service /\ reconciles' = reconciles
    BY <1>1
  <2> QED
    BY <1>1, <1>2, <1>3, <2>1, <2>2, ShapeOf
<1> QED
  BY <1>2, <1>3, <1>4, DeletionOwn, StepKeeps

\* A controller's write changes the version of a service that is there, for
\* which an operation between its look and its write loses one attempt.
LEMMA ReconcileKeeps ==
  ASSUME IInv, NEW f \in Functions, Reconcile(f)
  PROVE  IInv'
<1>1. /\ service[f].rv # 0 /\ UNCHANGED <<objects, configMap, job, faults>>
      /\ reconciles' = reconciles + 1 /\ revision' = revision + 1
      /\ service' = [service EXCEPT ![f].rv = revision + 1] /\ TypeOK
      /\ reconciles < MaxReconciles
  BY DEF Reconcile, IInv
<1>2. revision + 1 \in Nat \ {0} /\ service \in [Functions -> ServiceSet]
  BY <1>1 DEF TypeOK, ServiceSet
<1>3. /\ service' \in [Functions -> ServiceSet]
      /\ \A g \in Functions : /\ service'[g].rv = 0 <=> service[g].rv = 0
                              /\ service'[g].version = service[g].version
                              /\ service'[g].local = service[g].local
  BY <1>1, <1>2 DEF ServiceSet
<1>4. TypeOK'
  BY <1>1, <1>2, <1>3, DeployerAssumption DEF TypeOK, ServiceSet
<1>5. ASSUME NEW j \in Jobs PROVE Own(j)'
  <2>1. /\ Own(j) /\ job'[j] = job[j] /\ Op(j).fn \in Functions
        /\ job[j].attempt \in Nat /\ job[j].at \in 1..3
    BY <1>1, Before, OpType
  <2>2. KindOf(j)' /\ WrittenOf(j)' /\ RemovedOf(j)'
    BY <1>1, <1>3, <2>1 DEF Own, KindOf, WrittenOf, RemovedOf, Op
  <2>3. ShowsOf(j)'
    BY <1>1, <1>3, <2>1 DEF Own, ShowsOf, Latest, Op
  <2>4. PaidOf(j)'
    <3>1. /\ Causes' = Causes + 1 /\ Causes \in Nat
      <4>1. Causes \in Nat
        <5>1. faults \in Nat /\ reconciles \in Nat
          BY <1>1, DeployerAssumption DEF TypeOK
        <5> QED
          BY <5>1 DEF Causes, Existing, There
      <4>2. reconciles \in Nat /\ faults \in Nat
        BY <1>1, DeployerAssumption DEF TypeOK
      <4>3. Existing' = Existing /\ Existing \in Nat
        BY <1>1 DEF Existing, There
      <4> QED
        BY <1>1, <4>1, <4>2, <4>3 DEF Causes
    <3>2. PICK n \in 1..3 : n = job[j].at
      BY <2>1
    <3>3. There(Ensured[n])' = There(Ensured[n]) /\ There(Ensured[n]) \in 0..1
      BY <1>1 DEF There
    <3>4. MaxAttempts \in Nat
      BY DeployerAssumption
    <3>5. PaidOf(j)
      BY <2>1 DEF Own
    <3>6. job[j].pc = "svcWrite" => job[j].attempt <= Causes'
      <4> HIDE DEF Causes
      <4> QED
        BY <2>1, <3>1, <3>5 DEF PaidOf, DeploySteps
    <3> HIDE DEF Causes, There
    <3> QED
      BY <1>1, <2>1, <3>1, <3>2, <3>3, <3>4, <3>5, <3>6 DEF PaidOf, Op
  <2> QED
    BY <2>2, <2>3, <2>4 DEF Own
<1>6. Serial'
  BY <1>1 DEF IInv, Serial, Ended, Op
<1> QED
  BY <1>4, <1>5, <1>6 DEF IInv

-----------------------------------------------------------------------------
(* The theorems. *)

LEMMA IInvInit == Init => IInv
<1> SUFFICES ASSUME Init PROVE IInv
  OBVIOUS
<1>1. MaxAttempts \in Nat \ {0} /\ 0 \in 0..MaxFaults /\ 0 \in 0..MaxReconciles
  BY DeployerAssumption
<1>2. TypeOK
  BY <1>1 DEF Init, TypeOK, Steps
<1>3. \A j \in Jobs : job[j].pc = "idle" /\ job[j].attempt = 1
  BY DEF Init
<1>4. Serial
  BY <1>3 DEF Serial
<1>5. ASSUME NEW j \in Jobs PROVE Own(j)
  <2>1. Causes \in Nat
    BY DEF Init, Causes, Existing, There
  <2>2. PaidOf(j)
    <3> HIDE DEF Causes
    <3> QED
      BY <1>3, <2>1 DEF PaidOf
  <2> QED
    BY <1>3, <2>2
       DEF Own, KindOf, WrittenOf, RemovedOf, ShowsOf, Latest, DeploySteps, DeleteSteps
<1> QED
  BY <1>2, <1>4, <1>5 DEF IInv

LEMMA UnchangedKeeps ==
  ASSUME IInv, UNCHANGED vars
  PROVE  IInv'
<1>1. UNCHANGED <<objects, configMap, service, revision, job, faults, reconciles>>
  BY DEF vars
<1>2. TypeOK' /\ Serial'
  BY <1>1 DEF IInv, TypeOK, Serial, Ended, Op
<1>3. ASSUME NEW j \in Jobs PROVE Own(j)'
  <2>1. Own(j)
    BY DEF IInv
  <2> QED
    BY <1>1, <2>1 DEF Own, KindOf, WrittenOf, RemovedOf, PaidOf, ShowsOf, Latest, Op,
                      Causes, Existing, There
<1> QED
  BY <1>2, <1>3 DEF IInv

LEMMA IInvStep == IInv /\ [Next]_vars => IInv'
<1> SUFFICES ASSUME IInv, [Next]_vars PROVE IInv'
  OBVIOUS
<1>1. ASSUME NEW j \in Jobs, Step(j) PROVE IInv'
  <2>1. CASE Start(j)
    BY <2>1, StartKeeps
  <2>2. CASE EnsureGet(j)
    BY <2>2, EnsureGetKeeps
  <2>3. CASE EnsureCreate(j)
    BY <2>3, EnsureCreateKeeps
  <2>4. CASE CopySecret(j)
    BY <2>4, CopySecretKeeps
  <2>5. CASE ConfigMapGet(j) \/ ConfigMapWrite(j)
    BY <2>5, ConfigMapGetKeeps, ConfigMapWriteKeeps
  <2>6. CASE ServiceGet(j) \/ ServiceWrite(j)
    BY <2>6, ServiceGetKeeps, ServiceWriteKeeps
  <2>7. CASE DeleteGet(j) \/ DeleteService(j) \/ DeleteConfigMap(j)
    BY <2>7, DeleteGetKeeps, DeleteServiceKeeps, DeleteConfigMapKeeps
  <2> QED
    BY <1>1, <2>1, <2>2, <2>3, <2>4, <2>5, <2>6, <2>7 DEF Step
<1>2. CASE \E f \in Functions : Reconcile(f)
  BY <1>2, ReconcileKeeps
<1>3. CASE UNCHANGED vars
  BY <1>3, UnchangedKeeps
<1> QED
  BY <1>1, <1>2, <1>3 DEF Next

\* Every reachable state of the cluster and the operations is well typed; in
\* particular no operation has more attempts than the queue delivers.
THEOREM TypeCorrect == Spec => []TypeOK
<1>1. IInv => TypeOK
  BY DEF IInv
<1> QED
  BY IInvInit, IInvStep, <1>1, PTL DEF Spec

\* Operations on a function one after the other leave the last one's outcome
\* on the cluster, whatever failed and was tried again on the way, however the
\* operations on other functions and Knative's controllers interleave.
THEOREM Shown == Spec => []LastOperationShows
<1>1. IInv => LastOperationShows
  <2> SUFFICES ASSUME IInv, NEW j \in Jobs PROVE ShowsOf(j)
    BY DEF LastOperationShows, ShowsOf
  <2> QED
    BY DEF IInv, Own
<1> QED
  BY IInvInit, IInvStep, <1>1, PTL DEF Spec

\* A deployment fails for good only if all but three of its attempts can be put
\* down to faults and writes of controllers: the races for the objects of the
\* workspace, however many deployments run at once, cost each at most three.
FailuresCaused ==
  \A j \in Jobs : Op(j).kind = "deploy" /\ job[j].pc = "failed" =>
    MaxAttempts <= Len(Ensured) + faults + reconciles

LEMMA IInvCaused == IInv => FailuresCaused
<1> SUFFICES ASSUME IInv, NEW j \in Jobs, Op(j).kind = "deploy", job[j].pc = "failed"
             PROVE  MaxAttempts <= Len(Ensured) + faults + reconciles
  BY DEF FailuresCaused
<1>1. /\ MaxAttempts <= Causes /\ MaxAttempts \in Nat /\ faults \in Nat /\ reconciles \in Nat
  BY Before, DeployerAssumption DEF Own, PaidOf, TypeOK
<1>2. Existing \in 0..3
  BY DEF Existing, There
<1>3. Len(Ensured) = 3
  BY DEF Ensured
<1> QED
  BY <1>1, <1>2, <1>3 DEF Causes

\* The races of deployments for the objects of their workspace never use up
\* more than three deliveries, whatever else fails.
THEOREM RacesBounded == Spec => []FailuresCaused
  BY IInvInit, IInvStep, IInvCaused, PTL DEF Spec

\* So the four deliveries of the queue are enough when nothing else fails or
\* writes, for any number of deployments at once.
THEOREM Budgeted ==
  ASSUME MaxAttempts >= 4
  PROVE  Spec => []WithinBudget
<1>1. FailuresCaused => WithinBudget
  <2> SUFFICES ASSUME FailuresCaused, faults = 0, reconciles = 0, NEW j \in Jobs,
                      Op(j).kind = "deploy", job[j].pc = "failed"
               PROVE  FALSE
    BY DEF WithinBudget
  <2>1. Len(Ensured) = 3 /\ MaxAttempts \in Nat
    BY DeployerAssumption DEF Ensured
  <2> QED
    BY <2>1 DEF FailuresCaused
<1> QED
  BY RacesBounded, <1>1, PTL

-----------------------------------------------------------------------------
(* The deployer implements ClusterPromise. *)

\* A step under way leaves what the cluster shows of its function or makes it what
\* the operation asks for, and does not end as done before that.
Keeps(j) ==
  LET f == Op(j).fn IN
  /\ Moves(j) /\ job[j].pc \notin {"idle", "done", "failed"}
  /\ \A g \in Functions \ {f} : Showing(g)' = Showing(g)
  /\ Showing(f)' = Showing(f) \/ Showing(f)' = Wanted(j)
  /\ job'[j].pc = "done" => Showing(f)' = Wanted(j)

LEMMA KeepsPromise ==
  ASSUME IInv, NEW j \in Jobs, Keeps(j)
  PROVE  Promise!Next \/ UNCHANGED Promise!vars
<1> DEFINE f == Op(j).fn
           display == [g \in Functions |-> Showing(g)]
           stages  == [i \in Jobs |-> Stage(i)]
<1>1. /\ \A i \in Jobs \ {j} : Stage(i)' = Stage(i)
      /\ Stage(j) = "active" /\ Stage(j)' \in {"active", "done", "failed"}
      /\ Stage(j)' = "done" <=> job'[j].pc = "done"
  BY DEF Keeps, Moves, Stage
<1>2. /\ \A g \in Functions \ {f} : Showing(g)' = Showing(g)
      /\ Showing(f)' = Showing(f) \/ Showing(f)' = Wanted(j)
      /\ Stage(j)' = "done" => Showing(f)' = Wanted(j)
      /\ f \in Functions
  BY <1>1, OpType DEF Keeps
<1>3. stages' = [stages EXCEPT ![j] = Stage(j)']
  BY <1>1
<1>4. Showing(f)' = Wanted(j) => display' = [display EXCEPT ![f] = Wanted(j)]
  BY <1>2
<1>5. Showing(f)' = Showing(f) => display' = display
  BY <1>2
<1>6. Stage(j)' = "active" => stages' = stages
  BY <1>1
<1>7. stages[j] = "active"
  BY <1>1
<1>8. /\ Promise!vars = <<display, stages>>
      /\ [i \in Jobs |-> Op(i).fn][j] = f /\ [i \in Jobs |-> Wanted(i)][j] = Wanted(j)
  BY DEF Promise!vars
<1>9. CASE Stage(j)' = "active" /\ Showing(f)' = Wanted(j)
  <2>1. Promise!Apply(j)
    BY <1>4, <1>6, <1>7, <1>8, <1>9 DEF Promise!Apply, Promise!Put
  <2> QED
    BY <2>1 DEF Promise!Next
<1>10. CASE Stage(j)' = "active" /\ Showing(f)' = Showing(f)
  BY <1>5, <1>6, <1>10 DEF Promise!vars
<1>11. CASE Stage(j)' = "done"
  <2>1. Promise!Succeed(j)
    BY <1>2, <1>3, <1>4, <1>7, <1>8, <1>11 DEF Promise!Succeed, Promise!Put
  <2> QED
    BY <2>1 DEF Promise!Next
<1>12. CASE Stage(j)' = "failed"
  <2>1. Promise!Fail(j)
    BY <1>2, <1>3, <1>4, <1>5, <1>7, <1>8, <1>12 DEF Promise!Fail, Promise!Put
  <2> QED
    BY <2>1 DEF Promise!Next
<1> QED
  BY <1>1, <1>2, <1>9, <1>10, <1>11, <1>12

LEMMA StartBegins ==
  ASSUME IInv, NEW j \in Jobs, Start(j)
  PROVE  Promise!Next
<1> DEFINE stages == [i \in Jobs |-> Stage(i)]
           target == [i \in Jobs |-> Op(i).fn]
<1>1. /\ job[j].pc = "idle" /\ \A i \in Jobs : i < j /\ Op(i).fn = Op(j).fn => Ended(i)
      /\ service' = service
  BY DEF Start
<1>2. PICK pc \in {"get", "delGet"} : Go(j, pc)
  BY DEF Start
<1>3. /\ \A i \in Jobs \ {j} : job'[i] = job[i]
      /\ job'[j].pc = pc
  BY <1>2, Before, GoEffect DEF Steps
<1>4. stages[j] = "waiting" /\ stages' = [stages EXCEPT ![j] = "active"]
  BY <1>1, <1>3 DEF Stage
<1>5. \A i \in Jobs : i < j /\ target[i] = target[j] => stages[i] \in {"done", "failed"}
  BY <1>1 DEF Stage, Ended
<1>6. UNCHANGED [g \in Functions |-> Showing(g)]
  BY <1>1 DEF Showing
<1>7. Promise!Begin(j)
  BY <1>4, <1>5, <1>6 DEF Promise!Begin
<1> QED
  BY <1>7 DEF Promise!Next

\* The steps that do not touch the service.
LEMMA QuietKeeps ==
  ASSUME IInv, NEW j \in Jobs, Moves(j), service' = service, job'[j].pc # "done",
         job[j].pc \notin {"idle", "done", "failed"}
  PROVE  Keeps(j)
<1>1. \A g : Showing(g)' = Showing(g)
  BY DEF Showing
<1> QED
  BY <1>1 DEF Keeps

LEMMA EnsureKeepsPromise ==
  ASSUME IInv, NEW j \in Jobs, EnsureGet(j) \/ EnsureCreate(j) \/ CopySecret(j)
  PROVE  Keeps(j)
<1>1. /\ job[j].pc \in {"get", "create", "secret"} /\ service' = service
      /\ \/ Further(j) \/ Retry(j)
         \/ \E pc \in {"create", "cmGet", "svcGet"} : Go(j, pc)
  BY DEF EnsureGet, EnsureCreate, CopySecret, DeployStep
<1>2. CASE Further(j)
  BY <1>1, <1>2, Before, FurtherEffect, FurtherMoves, QuietKeeps
<1>3. CASE Retry(j)
  BY <1>1, <1>3, Before, RetryEffect, RetryMoves, QuietKeeps
<1>4. CASE \E pc \in {"create", "cmGet", "svcGet"} : Go(j, pc)
  <2>1. PICK pc \in {"create", "cmGet", "svcGet"} : Go(j, pc)
    BY <1>4
  <2>2. pc \in Steps \ {"idle"}
    BY DEF Steps
  <2> QED
    BY <1>1, <2>1, <2>2, Before, GoEffect, GoMoves, QuietKeeps
<1> QED
  BY <1>1, <1>2, <1>3, <1>4

LEMMA LookKeepsPromise ==
  ASSUME IInv, NEW j \in Jobs, ConfigMapGet(j) \/ ServiceGet(j)
  PROVE  Keeps(j)
<1>1. job[j].pc \in {"cmGet", "svcGet"} /\ service' = service
  BY DEF ConfigMapGet, ServiceGet
<1>2. PICK seen \in Nat, pc \in {"cmWrite", "svcWrite"} :
        job' = [job EXCEPT ![j].pc = pc, ![j].seen = seen]
  BY Before, OpType DEF ConfigMapGet, ServiceGet, ConfigSet, ServiceSet
<1>3. Moves(j) /\ job'[j].pc # "done"
  BY <1>2, Before DEF Moves, JobSet, Steps
<1> QED
  BY <1>1, <1>3, QuietKeeps

LEMMA ConfigMapWriteKeepsPromise ==
  ASSUME IInv, NEW j \in Jobs, ConfigMapWrite(j)
  PROVE  Keeps(j)
<1>1. /\ job[j].pc = "cmWrite" /\ service' = service
      /\ Go(j, "svcGet") \/ Retry(j)
  BY DEF ConfigMapWrite
<1>2. CASE Go(j, "svcGet")
  <2>1. "svcGet" \in Steps \ {"idle"}
    BY DEF Steps
  <2> QED
    BY <1>1, <1>2, <2>1, Before, GoEffect, GoMoves, QuietKeeps
<1>3. CASE Retry(j)
  BY <1>1, <1>3, Before, RetryEffect, RetryMoves, QuietKeeps
<1> QED
  BY <1>1, <1>2, <1>3

LEMMA ServiceWriteKeepsPromise ==
  ASSUME IInv, NEW j \in Jobs, ServiceWrite(j)
  PROVE  Keeps(j)
<1> DEFINE f == Op(j).fn
           written == [service EXCEPT ![f] = Built(j)]
<1>1. /\ job[j].pc = "svcWrite"
      /\ \/ service' = written /\ (Go(j, "done") \/ Retry(j))
         \/ service' = service /\ Retry(j)
  BY DEF ServiceWrite
<1>2. Op(j).kind = "deploy"
  BY <1>1, Before DEF Own, KindOf, DeploySteps
<1>3. CASE service' = service /\ Retry(j)
  BY <1>1, <1>3, Before, RetryEffect, RetryMoves, QuietKeeps
<1>4. CASE service' = written /\ (Go(j, "done") \/ Retry(j))
  <2>1. service'[f] = Built(j) /\ \A g \in Functions \ {f} : service'[g] = service[g]
    BY <1>4, Before, OpType
  <2>2. revision + 1 # 0
    BY Before
  <2>3. Showing(f)' = Wanted(j)
    BY <1>2, <2>1, <2>2 DEF Showing, Built, Wanted
  <2>4. \A g \in Functions \ {f} : Showing(g)' = Showing(g)
    BY <2>1 DEF Showing
  <2>5. "done" \in Steps \ {"idle"}
    BY DEF Steps
  <2>6. Moves(j)
    BY <1>4, <2>5, RetryMoves, GoMoves
  <2> QED
    BY <1>1, <2>3, <2>4, <2>6 DEF Keeps
<1> QED
  BY <1>1, <1>3, <1>4

LEMMA DeleteKeepsPromise ==
  ASSUME IInv, NEW j \in Jobs, DeleteGet(j) \/ DeleteService(j) \/ DeleteConfigMap(j)
  PROVE  Keeps(j)
<1> DEFINE f == Op(j).fn
           none == [rv |-> 0, version |-> 0, local |-> FALSE, managed |-> FALSE]
           removed == [service EXCEPT ![f] = none]
<1>0. job[j].pc \in DeleteSteps
  BY DEF DeleteGet, DeleteService, DeleteConfigMap, DeleteSteps
<1>1. Op(j).kind = "delete" /\ Wanted(j) = {}
  BY <1>0, Before DEF Own, KindOf, Wanted
<1>2. CASE DeleteGet(j)
  <2>1. service' = service /\ job[j].pc = "delGet"
    BY <1>2 DEF DeleteGet
  <2>2. PICK m \in BOOLEAN, pc \in {"delService", "failed"} :
          job' = [job EXCEPT ![j].pc = pc, ![j].managed = m]
    <3>1. CASE Go(j, "failed")
      <4>1. job' = [job EXCEPT ![j].pc = "failed", ![j].managed = job[j].managed]
        BY <3>1, Before DEF Go, JobSet
      <4>2. job[j].managed \in BOOLEAN
        BY Before DEF JobSet
      <4> QED
        BY <4>1, <4>2
    <3>2. service[f].managed \in BOOLEAN
      BY Before, OpType DEF ServiceSet
    <3> QED
      BY <1>2, <3>1, <3>2 DEF DeleteGet
  <2>3. Moves(j) /\ job'[j].pc # "done"
    BY <2>2, Before DEF Moves, JobSet, Steps
  <2> QED
    BY <2>1, <2>3, QuietKeeps
<1>3. CASE DeleteService(j)
  <2>1. job[j].pc = "delService"
    BY <1>3 DEF DeleteService
  <2>2. PICK pc \in {"delConfigMap", "done", "failed"} :
          Go(j, pc) /\ (service' = removed \/ (service' = service /\ pc = "failed"))
    BY <1>3 DEF DeleteService
  <2>3. pc \in Steps \ {"idle"}
    BY DEF Steps
  <2>4. Moves(j) /\ job'[j].pc = pc
    BY <2>2, <2>3, Before, GoEffect, GoMoves
  <2>5. CASE service' = removed
    <3>1. service'[f] = none /\ \A g \in Functions \ {f} : service'[g] = service[g]
      BY <2>5, Before, OpType
    <3>2. Showing(f)' = {} /\ \A g \in Functions \ {f} : Showing(g)' = Showing(g)
      BY <3>1 DEF Showing
    <3> QED
      BY <1>1, <2>1, <2>4, <3>2 DEF Keeps
  <2>6. CASE service' = service /\ pc = "failed"
    BY <2>1, <2>4, <2>6, QuietKeeps
  <2> QED
    BY <2>2, <2>5, <2>6
<1>4. CASE DeleteConfigMap(j)
  <2>1. /\ job[j].pc = "delConfigMap" /\ service' = service /\ Go(j, "done")
        /\ service[f].rv = 0
    BY <1>4, Before DEF DeleteConfigMap, Own, RemovedOf
  <2>2. "done" \in Steps \ {"idle"}
    BY DEF Steps
  <2>3. Moves(j)
    BY <2>1, <2>2, GoMoves
  <2>4. Showing(f)' = {} /\ \A g : Showing(g)' = Showing(g)
    BY <2>1 DEF Showing
  <2> QED
    BY <1>1, <2>1, <2>3, <2>4 DEF Keeps
<1> QED
  BY <1>2, <1>3, <1>4

\* A controller's write shows nothing else than before.
LEMMA ReconcileHidden ==
  ASSUME IInv, NEW f \in Functions, Reconcile(f)
  PROVE  UNCHANGED Promise!vars
<1>1. /\ service[f].rv # 0 /\ job' = job /\ TypeOK
      /\ service' = [service EXCEPT ![f].rv = revision + 1]
  BY DEF Reconcile, IInv
<1>2. revision + 1 # 0 /\ service \in [Functions -> ServiceSet]
  BY <1>1 DEF TypeOK, ServiceSet
<1>3. \A g \in Functions : /\ service'[g].rv = 0 <=> service[g].rv = 0
                           /\ service'[g].version = service[g].version
                           /\ service'[g].local = service[g].local
                           /\ service'[g].managed = service[g].managed
  BY <1>1, <1>2 DEF ServiceSet
<1>4. \A g \in Functions : Showing(g)' = Showing(g)
  BY <1>3 DEF Showing
<1>5. \A j \in Jobs : Stage(j)' = Stage(j)
  BY <1>1 DEF Stage
<1> QED
  BY <1>4, <1>5 DEF Promise!vars

\* What the cluster shows of a function is at every moment what one operation asked
\* for, put there in one piece while that operation was under way: the deployer
\* implements ClusterPromise, with any faults, lost answers, refused writes and
\* retries, for any operations on any functions.
THEOREM ImplementsPromise == Spec => ShowsWhatWasAsked
<1>1. Init => Promise!Init
  <2> SUFFICES ASSUME Init PROVE Promise!Init
    OBVIOUS
  <2>1. \A j \in Jobs : Stage(j) = "waiting"
    BY DEF Init, Stage
  <2>2. \A f \in Functions : Showing(f) = {}
    BY DEF Init, Showing
  <2>3. {[j \in Jobs |-> Op(j).fn][i] : i \in Jobs} = Functions
    BY DEF Functions, Jobs, Op
  <2> QED
    BY <2>1, <2>2, <2>3 DEF Promise!Init
<1>2. IInv /\ [Next]_vars => [Promise!Next]_(Promise!vars)
  <2> SUFFICES ASSUME IInv, [Next]_vars PROVE Promise!Next \/ UNCHANGED Promise!vars
    OBVIOUS
  <2>1. ASSUME NEW j \in Jobs, Step(j) PROVE Promise!Next \/ UNCHANGED Promise!vars
    <3>1. CASE Start(j)
      BY <3>1, StartBegins
    <3>2. CASE ~ Start(j)
      <4>1. Keeps(j)
        BY <2>1, <3>2, EnsureKeepsPromise, LookKeepsPromise, ConfigMapWriteKeepsPromise,
           ServiceWriteKeepsPromise, DeleteKeepsPromise DEF Step
      <4> QED
        BY <4>1, KeepsPromise
    <3> QED
      BY <3>1, <3>2
  <2>2. CASE \E f \in Functions : Reconcile(f)
    BY <2>2, ReconcileHidden
  <2>3. CASE UNCHANGED vars
    BY <2>3 DEF vars, Promise!vars, Stage, Showing
  <2> QED
    BY <2>1, <2>2, <2>3 DEF Next
<1> QED
  BY IInvInit, IInvStep, <1>1, <1>2, PTL DEF Spec, ShowsWhatWasAsked, Promise!Spec
=============================================================================
