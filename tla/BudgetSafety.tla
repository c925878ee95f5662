---------------------------- MODULE BudgetSafety ----------------------------
(***************************************************************************)
(* Proofs about the budget gate, for every configuration: a pool of any    *)
(* size, any role budgets, any choice of external agents and options.      *)
(***************************************************************************)
EXTENDS BudgetGate, FiniteSetTheorems, TLAPS

\* Invocations that may wait for their answers together: no role takes part in two.
Apart(invocations) ==
  /\ invocations \subseteq InvocationType
  /\ \A i \in invocations : i.pool \subseteq i.roles
  /\ \A i, j \in invocations : i # j => i.roles \cap j.roles = {}

Held(invocations) == UNION {i.pool : i \in invocations}
Busy(invocations) == UNION {i.roles : i \in invocations}

StageNames == {"core", "vision", "planner", "governance", "coders", "second coder",
               "reviewer", "debate", "judge", "advisory", "repair"}

-----------------------------------------------------------------------------
(* The invocations of a stage.                                             *)

LEMMA AgentShape ==
  ASSUME NEW r \in Roles
  PROVE  /\ Agent(r) \in InvocationType
         /\ Agent(r).pool \subseteq Agent(r).roles
         /\ Agent(r).roles = {r}
BY DEF Agent, InvocationType

LEMMA ModelShape ==
  ASSUME NEW what \in {"model_planner", "task_governance", "live_patch",
                       "pre_judge_debate", "live_advisory"},
         NEW rs \in SUBSET Roles
  PROVE  Apart({Model(what, rs)})
BY DEF Apart, Model, InvocationType

LEMMA ExternalsApart ==
  ASSUME NEW rs \in SUBSET Roles
  PROVE  Apart(Externals(rs))
<1>1. \A r \in rs \cap setting.external :
        /\ Agent(r) \in InvocationType
        /\ Agent(r).pool \subseteq Agent(r).roles
        /\ Agent(r).roles = {r}
  BY AgentShape
<1>2. \A i, j \in Externals(rs) : i # j => i.roles \cap j.roles = {}
  <2> SUFFICES ASSUME NEW p \in rs \cap setting.external, NEW q \in rs \cap setting.external,
                      Agent(p) # Agent(q)
               PROVE  Agent(p).roles \cap Agent(q).roles = {}
    BY DEF Externals
  <2>1. p # q
    OBVIOUS
  <2> QED
    BY <1>1, <2>1
<1> QED
  BY <1>1, <1>2 DEF Apart, Externals

LEMMA NoneApart == Apart({})
BY DEF Apart

LEMMA AgentApart ==
  ASSUME NEW r \in Roles
  PROVE  Apart({Agent(r)})
BY AgentShape DEF Apart

\* Whatever a stage asks for, its invocations share no role.
LEMMA StageApart ==
  ASSUME NEW stage \in StageNames, setting \in SettingType
  PROVE  Apart(Asks(stage))
<1>1. Apart(Planning)
  BY NoneApart, AgentApart, ModelShape DEF Planning, Roles
<1>2. Apart(Coding)
  <2>1. LiveCoders \in SUBSET Roles /\ NativeCoders \in SUBSET Roles
    BY DEF LiveCoders, NativeCoders, Roles
  <2> QED
    BY <2>1, ModelShape, ExternalsApart DEF Coding
<1>3. AdvisoryRoles \in SUBSET Roles
  BY DEF AdvisoryRoles, Roles, SettingType
<1>4. Apart(Externals(NativeCoders \ {"coder_a"}))
  BY ExternalsApart DEF NativeCoders, Roles
<1>5. /\ Apart(Externals({"core"})) /\ Apart(Externals({"reviewer"}))
      /\ Apart(Externals({"judge"})) /\ Apart(Externals({"repairer"}))
  BY ExternalsApart DEF Roles
<1>6. Apart({Model("task_governance", {"planner"})})
  BY ModelShape DEF Roles
<1>7. Apart(When(setting.liveVision, Agent("vision")))
  BY NoneApart, AgentApart DEF When, Roles
<1>8. Apart(When(setting.liveAdvisory /\ setting.parallel,
                 Model("pre_judge_debate", {"reviewer", "judge"})))
  BY NoneApart, ModelShape DEF When, Roles
<1>9. Apart(When(setting.liveAdvisory \/ setting.readOnly,
                 Model("live_advisory", AdvisoryRoles)))
  BY <1>3, NoneApart, ModelShape DEF When
<1> QED
  BY <1>1, <1>2, <1>4, <1>5, <1>6, <1>7, <1>8, <1>9, NoneApart DEF Asks, StageNames

LEMMA StageNamed ==
  /\ Len(Stages) = 10
  /\ \A i \in Nat \ {0} : StageAt(i) \in StageNames
<1>1. Len(Stages) = 10
  BY DEF Stages
<1>2. ASSUME NEW i \in Nat \ {0}
      PROVE  StageAt(i) \in StageNames
  <2>1. CASE i <= 10
    <3>1. StageAt(i) = Stages[i]
      BY <1>1, <2>1 DEF StageAt
    <3>2. \/ i = 1 \/ i = 2 \/ i = 3 \/ i = 4 \/ i = 5
          \/ i = 6 \/ i = 7 \/ i = 8 \/ i = 9 \/ i = 10
      BY <2>1
    <3>3. /\ Stages[1] = "core" /\ Stages[2] = "vision" /\ Stages[3] = "planner"
          /\ Stages[4] = "governance" /\ Stages[5] = "coders"
          /\ Stages[6] = "second coder" /\ Stages[7] = "reviewer"
          /\ Stages[8] = "debate" /\ Stages[9] = "judge" /\ Stages[10] = "advisory"
      BY DEF Stages
    <3> QED
      BY <3>1, <3>2, <3>3 DEF StageNames
  <2>2. CASE ~(i <= 10)
    BY <1>1, <2>2 DEF StageAt, StageNames
  <2> QED
    BY <2>1, <2>2
<1> QED
  BY <1>1, <1>2

\* What a step of the run asks for, and how much of the pool it can take.
LEMMA StepApart ==
  ASSUME setting \in SettingType, NEW i \in Nat \ {0}
  PROVE  /\ Apart(Asks(StageAt(i)))
         /\ \A o \in SUBSET Asks(StageAt(i)) :
              /\ Apart(o)
              /\ Held(o) \subseteq PoolOf(StageAt(i))
              /\ PoolOf(StageAt(i)) \subseteq Roles
<1>1. Apart(Asks(StageAt(i)))
  BY StageApart, StageNamed
<1> QED
  BY <1>1 DEF Apart, Held, PoolOf, InvocationType

LEMMA RolesFinite ==
  /\ IsFiniteSet(Roles)
  /\ \A S \in SUBSET Roles : IsFiniteSet(S) /\ Cardinality(S) \in Nat
<1> DEFINE R1 == {"core"}
           R2 == R1 \cup {"vision"}
           R3 == R2 \cup {"planner"}
           R4 == R3 \cup {"coder_a"}
           R5 == R4 \cup {"coder_b"}
           R6 == R5 \cup {"reviewer"}
           R7 == R6 \cup {"judge"}
           R8 == R7 \cup {"repairer"}
<1>1. IsFiniteSet(Roles)
  <2>1. IsFiniteSet(R1)
    BY FS_Singleton
  <2> HIDE DEF R1
  <2>2. IsFiniteSet(R2)
    BY <2>1, FS_AddElement
  <2> HIDE DEF R2
  <2>3. IsFiniteSet(R3)
    BY <2>2, FS_AddElement
  <2> HIDE DEF R3
  <2>4. IsFiniteSet(R4)
    BY <2>3, FS_AddElement
  <2> HIDE DEF R4
  <2>5. IsFiniteSet(R5)
    BY <2>4, FS_AddElement
  <2> HIDE DEF R5
  <2>6. IsFiniteSet(R6)
    BY <2>5, FS_AddElement
  <2> HIDE DEF R6
  <2>7. IsFiniteSet(R7)
    BY <2>6, FS_AddElement
  <2> HIDE DEF R7
  <2>8. IsFiniteSet(R8)
    BY <2>7, FS_AddElement
  <2>9. R8 = Roles
    BY DEF Roles, R1, R2, R3, R4, R5, R6, R7
  <2> QED
    BY <2>8, <2>9
<1> QED
  BY <1>1, FS_Subset, FS_CardinalityType

-----------------------------------------------------------------------------
(* Type correctness.                                                       *)

\* Every variable keeps its type, for every configuration of the budgets.
THEOREM TypeCorrect == Spec => []TypeOK
<1>1. Init => TypeOK
  BY SettingsAssumption DEF Init, TypeOK, LastStep, SettingType, Stages
<1>2. TypeOK /\ [Next]_vars => TypeOK'
  <2> SUFFICES ASSUME TypeOK, [Next]_vars
               PROVE  TypeOK'
    OBVIOUS
  <2>1. setting \in SettingType /\ setting' = setting
    BY SettingsAssumption DEF TypeOK, Next, Ask, PassOver, Commit, Release, Finish, vars
  <2>2. LastStep' = LastStep /\ LastStep \in Nat
    BY <2>1, StageNamed DEF LastStep, SettingType
  <2>3. step \in Nat \ {0}
    BY <2>2 DEF TypeOK
  <2>4. CASE Ask
    <3>1. Asks(StageAt(step)) \subseteq InvocationType
      BY <2>1, <2>3, StepApart DEF Apart
    <3>2. open' \subseteq InvocationType
      BY <2>4, <3>1 DEF Ask
    <3> QED
      BY <2>1, <2>2, <2>4, <3>2 DEF Ask, TypeOK
  <2>5. CASE PassOver
    BY <2>1, <2>2, <2>5 DEF PassOver, TypeOK
  <2>6. CASE Commit
    <3>1. PICK i \in open :
            /\ open' = open \ {i}
            /\ used' = used + Cardinality(i.pool)
            /\ roleUsed' = [r \in Roles |-> IF r \in i.roles \cap setting.capped
                                            THEN roleUsed[r] + 1 ELSE roleUsed[r]]
      BY <2>6 DEF Commit
    <3>2. Cardinality(i.pool) \in Nat
      BY RolesFinite DEF TypeOK, InvocationType
    <3>3. roleUsed' \in [Roles -> Nat]
      BY <3>1 DEF TypeOK
    <3> QED
      BY <2>1, <2>2, <2>6, <3>1, <3>2, <3>3 DEF Commit, TypeOK
  <2>7. CASE Release
    BY <2>1, <2>2, <2>7 DEF Release, TypeOK
  <2>8. CASE Finish
    BY <2>1, <2>2, <2>8 DEF Finish, TypeOK
  <2>9. CASE UNCHANGED vars
    BY <2>1, <2>2, <2>9 DEF vars, TypeOK
  <2> QED
    BY <2>4, <2>5, <2>6, <2>7, <2>8, <2>9 DEF Next
<1> QED
  BY <1>1, <1>2, PTL DEF Spec

-----------------------------------------------------------------------------
(* The pool.                                                               *)

\* The calls that are committed and those that are reserved together overdraw the
\* pool by less than one batch.
PoolKept ==
  used + Cardinality(Held(open)) > setting.maxCalls =>
    /\ setting.maxCalls > 0
    /\ \E s \in 1 .. LastStep :
         used + Cardinality(Held(open)) < setting.maxCalls + Cardinality(PoolOf(StageAt(s)))

PoolInv == Apart(open) /\ PoolKept

\* The stages of a run do not change while it goes on.
LEMMA StagesStay ==
  ASSUME setting' = setting
  PROVE  /\ LastStep' = LastStep
         /\ \A s : PoolOf(StageAt(s))' = PoolOf(StageAt(s))
BY DEF LastStep, PoolOf, StageAt, Asks, Planning, Coding, Externals, When, Agent, Model,
       LiveCoders, NativeCoders, AdvisoryRoles

\* An invocation that is settled takes exactly its own calls out of those held.
LEMMA SettleOne ==
  ASSUME NEW o, Apart(o), NEW i \in o
  PROVE  /\ Apart(o \ {i})
         /\ Busy(o \ {i}) = Busy(o) \ i.roles
         /\ i.roles \subseteq Busy(o)
         /\ Cardinality(Held(o)) \in Nat
         /\ Cardinality(i.pool) \in Nat
         /\ Cardinality(Held(o \ {i})) = Cardinality(Held(o)) - Cardinality(i.pool)
<1>1. Apart(o \ {i})
  BY DEF Apart
<1>2. Busy(o \ {i}) = Busy(o) \ i.roles /\ i.roles \subseteq Busy(o)
  BY DEF Apart, Busy
<1>3. Held(o \ {i}) = Held(o) \ i.pool
  <2>1. \A j \in o : j # i => j.pool \cap i.pool = {}
    BY DEF Apart
  <2> QED
    BY <2>1 DEF Held
<1>4. Held(o) \subseteq Roles /\ i.pool \subseteq Roles /\ Held(o) \cap i.pool = i.pool
  BY DEF Held, Apart, InvocationType
<1>5. IsFiniteSet(Held(o)) /\ Cardinality(Held(o)) \in Nat /\ Cardinality(i.pool) \in Nat
  BY <1>4, RolesFinite
<1>6. Cardinality(Held(o) \ i.pool) = Cardinality(Held(o)) - Cardinality(Held(o) \cap i.pool)
  BY <1>5, FS_Difference
<1> QED
  BY <1>1, <1>2, <1>3, <1>4, <1>5, <1>6

LEMMA PoolInvKept ==
  ASSUME TypeOK, PoolInv, [Next]_vars
  PROVE  PoolInv'
<1>1. setting \in SettingType /\ setting' = setting
  BY SettingsAssumption DEF TypeOK, Next, Ask, PassOver, Commit, Release, Finish, vars
<1>2. /\ LastStep' = LastStep
      /\ \A s : PoolOf(StageAt(s))' = PoolOf(StageAt(s))
  BY <1>1, StagesStay
<1>3. Cardinality(Held({})) = 0
  <2>1. Held({}) = {}
    BY DEF Held
  <2> QED
    BY <2>1, FS_EmptySet
<1>4. step \in Nat \ {0} /\ LastStep \in Nat /\ used \in Nat /\ setting.maxCalls \in Nat
  BY <1>1, StageNamed DEF TypeOK, LastStep, SettingType
<1>5. CASE Ask
  <2> DEFINE asked == Asks(StageAt(step))
             refused == {i \in asked : ~Allows(i)}
  <2>1. /\ open = {} /\ step \in 1 .. LastStep
        /\ open' = asked \ refused
        /\ used' = used
    BY <1>4, <1>5 DEF Ask
  <2>2. Apart(open') /\ Held(open') \subseteq PoolOf(StageAt(step))
        /\ PoolOf(StageAt(step)) \subseteq Roles
    BY <1>1, <1>4, <2>1, StepApart
  <2>3. CASE Held(open') = {}
    <3>1. Cardinality(Held(open')) = Cardinality(Held(open))
      BY <1>3, <2>1, <2>3, FS_EmptySet
    <3> QED
      BY <1>1, <1>2, <2>1, <2>2, <3>1 DEF PoolInv, PoolKept
  <2>4. CASE Held(open') # {}
    <3>1. PICK i \in open' : i.pool # {}
      BY <2>4 DEF Held
    <3>2. i \in asked /\ Allows(i) /\ i.pool \subseteq i.roles
      BY <2>1, <2>2 DEF Apart
    <3>3. used < setting.maxCalls
      BY <3>1, <3>2 DEF Allows, AllowsCall
    <3>4. /\ Cardinality(Held(open')) <= Cardinality(PoolOf(StageAt(step)))
          /\ Cardinality(Held(open')) \in Nat
          /\ Cardinality(PoolOf(StageAt(step))) \in Nat
      BY <2>2, RolesFinite, FS_Subset
    <3>5. used + Cardinality(Held(open'))
            < setting.maxCalls + Cardinality(PoolOf(StageAt(step)))
      BY <1>4, <3>3, <3>4
    <3>6. setting.maxCalls > 0
      BY <1>4, <3>3
    <3>7. \E s \in (1 .. LastStep)' : used' + Cardinality(Held(open'))
            < setting'.maxCalls + Cardinality(PoolOf(StageAt(s))')
      <4>1. step \in (1 .. LastStep)'
        BY <1>2, <2>1
      <4> QED
        BY <1>1, <1>2, <2>1, <3>5, <4>1
    <3>8. PoolKept'
      BY <1>1, <3>6, <3>7 DEF PoolKept
    <3> QED
      BY <2>2, <3>8 DEF PoolInv
  <2> QED
    BY <2>3, <2>4
<1>6. ASSUME NEW i \in open, open' = open \ {i}, used' \in {used, used + Cardinality(i.pool)}
      PROVE  PoolInv'
  <2>1. Apart(open)
    BY DEF PoolInv
  <2>2. /\ Apart(open')
        /\ Cardinality(Held(open)) \in Nat
        /\ Cardinality(i.pool) \in Nat
        /\ Cardinality(Held(open')) = Cardinality(Held(open)) - Cardinality(i.pool)
    BY <1>6, <2>1, SettleOne
  <2>3. used' + Cardinality(Held(open')) <= used + Cardinality(Held(open))
    BY <1>4, <1>6, <2>2
  <2>4. \A s \in 1 .. LastStep : Cardinality(PoolOf(StageAt(s))) \in Nat
    BY <1>1, StepApart, RolesFinite
  <2>5. used' + Cardinality(Held(open')) \in Int
    BY <1>4, <1>6, <2>2
  <2> DEFINE total == used + Cardinality(Held(open))
             rest == used' + Cardinality(Held(open'))
  <2>6. total \in Int /\ rest \in Int /\ rest <= total
    BY <1>4, <2>2, <2>3, <2>5
  <2>7. total > setting.maxCalls =>
          /\ setting.maxCalls > 0
          /\ \E s \in 1 .. LastStep :
               total < setting.maxCalls + Cardinality(PoolOf(StageAt(s)))
    BY DEF PoolInv, PoolKept
  <2> HIDE DEF total, rest
  <2>8. rest > setting.maxCalls =>
          /\ setting.maxCalls > 0
          /\ \E s \in 1 .. LastStep :
               rest < setting.maxCalls + Cardinality(PoolOf(StageAt(s)))
    BY <1>4, <2>4, <2>6, <2>7
  <2> QED
    BY <1>1, <1>2, <2>2, <2>8 DEF PoolInv, PoolKept, rest
<1>7. CASE Commit
  BY <1>6, <1>7 DEF Commit
<1>8. CASE Release
  BY <1>6, <1>8 DEF Release
<1>9. CASE UNCHANGED <<open, used>>
  BY <1>1, <1>2, <1>9 DEF PoolInv, PoolKept
<1> QED
  BY <1>5, <1>7, <1>8, <1>9 DEF Next, PassOver, Finish, vars

\* The strong-agent pool is overdrawn by less than the calls of one stage, whatever
\* the configuration and the order in which the answers come.
THEOREM OvershootBounded == Spec => []OvershootIsOneBatch
<1>1. Init => PoolInv
  <2> SUFFICES ASSUME Init
               PROVE  PoolInv
    OBVIOUS
  <2>1. Held({}) = {}
    BY DEF Held
  <2>2. used + Cardinality(Held(open)) = 0
    BY <2>1, FS_EmptySet DEF Init
  <2>3. setting.maxCalls \in Nat
    BY SettingsAssumption DEF Init, SettingType
  <2> QED
    BY <2>2, <2>3, NoneApart DEF Init, PoolInv, PoolKept
<1>2. TypeOK /\ PoolInv /\ [Next]_vars => PoolInv'
  BY PoolInvKept
<1>3. TypeOK /\ PoolInv => OvershootIsOneBatch
  <2> SUFFICES ASSUME TypeOK, PoolInv
               PROVE  OvershootIsOneBatch
    OBVIOUS
  <2>1. Held(open) \in SUBSET Roles
    BY DEF PoolInv, Apart, Held, InvocationType
  <2>2. Cardinality(Held(open)) \in Nat
    BY <2>1, RolesFinite
  <2>3. setting \in SettingType /\ setting.maxCalls \in Nat /\ used \in Nat
    BY SettingsAssumption DEF TypeOK, SettingType
  <2>4. \A s \in 1 .. LastStep : Cardinality(PoolOf(StageAt(s))) \in Nat
    BY <2>3, StepApart, RolesFinite
  <2> QED
    BY <2>2, <2>3, <2>4 DEF PoolInv, PoolKept, OvershootIsOneBatch
<1> QED
  BY <1>1, <1>2, <1>3, TypeCorrect, PTL DEF Spec

\* A run none of whose stages makes two calls of the pool stays within the cap.
THEOREM SequentialKeepsCap ==
  Spec => []((\A s \in 1 .. LastStep : Cardinality(PoolOf(StageAt(s))) <= 1)
               => CallsWithinCap)
<1>1. TypeOK /\ OvershootIsOneBatch =>
        ((\A s \in 1 .. LastStep : Cardinality(PoolOf(StageAt(s))) <= 1) => CallsWithinCap)
  <2> SUFFICES ASSUME TypeOK, OvershootIsOneBatch,
                      \A s \in 1 .. LastStep : Cardinality(PoolOf(StageAt(s))) <= 1
               PROVE  CallsWithinCap
    OBVIOUS
  <2>1. setting \in SettingType /\ setting.maxCalls \in Nat /\ used \in Nat
    BY SettingsAssumption DEF TypeOK, SettingType
  <2>2. \A s \in 1 .. LastStep : Cardinality(PoolOf(StageAt(s))) \in Nat
    BY <2>1, StepApart, RolesFinite
  <2> QED
    BY <2>1, <2>2 DEF OvershootIsOneBatch, CallsWithinCap
<1> QED
  BY <1>1, TypeCorrect, OvershootBounded, PTL

-----------------------------------------------------------------------------
(* The budgets of single roles.                                            *)

\* What a role has committed and what it holds stay within its own budget.
RoleInv ==
  /\ Apart(open)
  /\ \A r \in setting.capped :
       /\ roleUsed[r] <= setting.roleMax[r]
       /\ r \in Busy(open) => roleUsed[r] < setting.roleMax[r]

LEMMA RoleInvKept ==
  ASSUME TypeOK, RoleInv, [Next]_vars
  PROVE  RoleInv'
<1>1. setting \in SettingType /\ setting' = setting
  BY SettingsAssumption DEF TypeOK, Next, Ask, PassOver, Commit, Release, Finish, vars
<1>2. step \in Nat \ {0}
  BY <1>1, StageNamed DEF TypeOK, LastStep, SettingType
<1>3. setting.capped \subseteq Roles /\ setting.roleMax \in [Roles -> Nat]
  BY <1>1 DEF SettingType
<1>4. CASE Ask
  <2>1. Apart(open')
    BY <1>1, <1>2, <1>4, StepApart DEF Ask
  <2>2. \A i \in open' : Allows(i)
    BY <1>4 DEF Ask
  <2>3. \A r \in setting.capped : r \in Busy(open') => roleUsed[r] < setting.roleMax[r]
    BY <2>2 DEF Busy, Allows, AllowsCall
  <2>4. roleUsed' = roleUsed
    BY <1>4 DEF Ask
  <2> QED
    BY <1>1, <2>1, <2>3, <2>4 DEF RoleInv
<1>5. CASE Commit
  <2>1. PICK i \in open :
          /\ open' = open \ {i}
          /\ roleUsed' = [r \in Roles |-> IF r \in i.roles \cap setting.capped
                                          THEN roleUsed[r] + 1 ELSE roleUsed[r]]
    BY <1>5 DEF Commit
  <2>2. /\ Apart(open')
        /\ Busy(open') = Busy(open) \ i.roles
        /\ i.roles \subseteq Busy(open)
    BY <2>1, SettleOne DEF RoleInv
  <2>3. ASSUME NEW r \in setting.capped
        PROVE  /\ roleUsed'[r] <= setting.roleMax[r]
               /\ r \in Busy(open') => roleUsed'[r] < setting.roleMax[r]
    <3>1. r \in Roles /\ roleUsed[r] \in Nat /\ setting.roleMax[r] \in Nat
      BY <1>3 DEF TypeOK
    <3>2. CASE r \in i.roles
      <4>1. roleUsed[r] < setting.roleMax[r] /\ r \notin Busy(open')
        BY <2>2, <3>2 DEF RoleInv
      <4>2. roleUsed'[r] = roleUsed[r] + 1
        BY <2>1, <3>1, <3>2
      <4> QED
        BY <3>1, <4>1, <4>2
    <3>3. CASE r \notin i.roles
      <4>1. roleUsed'[r] = roleUsed[r]
        BY <2>1, <3>1, <3>3
      <4> QED
        BY <2>2, <4>1 DEF RoleInv
    <3> QED
      BY <3>2, <3>3
  <2> QED
    BY <1>1, <2>2, <2>3 DEF RoleInv
<1>6. CASE Release
  <2>1. PICK i \in open : open' = open \ {i}
    BY <1>6 DEF Release
  <2>2. Apart(open') /\ Busy(open') \subseteq Busy(open)
    BY <2>1, SettleOne DEF RoleInv
  <2>3. roleUsed' = roleUsed
    BY <1>6 DEF Release
  <2> QED
    BY <1>1, <2>2, <2>3 DEF RoleInv
<1>7. CASE UNCHANGED <<open, roleUsed>>
  BY <1>1, <1>7 DEF RoleInv
<1> QED
  BY <1>4, <1>5, <1>6, <1>7 DEF Next, PassOver, Finish, vars

\* No role makes more calls than a budget of its own allows.
THEOREM RoleBudgetKept == Spec => []RoleBudgetHolds
<1>1. Init => RoleInv
  <2>1. Busy({}) = {}
    BY DEF Busy
  <2> QED
    BY <2>1, NoneApart, SettingsAssumption DEF Init, RoleInv, SettingType
<1>2. TypeOK /\ RoleInv /\ [Next]_vars => RoleInv'
  BY RoleInvKept
<1>3. RoleInv => RoleBudgetHolds
  BY DEF RoleInv, RoleBudgetHolds
<1> QED
  BY <1>1, <1>2, <1>3, TypeCorrect, PTL DEF Spec
=============================================================================
