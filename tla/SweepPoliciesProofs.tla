------------------------ MODULE SweepPoliciesProofs -------------------------
(***************************************************************************)
(* Theorems about SweepPolicies, for every set of policies and warnings.   *)
(* TypeOK and RunsHavePolicy are inductive together; the action properties *)
(* follow from TypeOK alone, because only the handlers write policy rows.  *)
(***************************************************************************)
EXTENDS SweepPolicies, TLAPS

\* A handler writes rows of the right shape when it changes one row.
LEMMA RowUpdate ==
  ASSUME TypeOK, NEW q \in Policies, NEW row \in PolicyRow,
         row.acked \subseteq row.warnings,
         row.status = "absent" => row = NoPolicy,
         policy' = [policy EXCEPT ![q] = row],
         UNCHANGED <<risks, poller>>,
         runs' \subseteq Policies, source' \in [Policies -> SourceState]
  PROVE  /\ TypeOK'
         /\ policy'[q] = row
         /\ \A p \in Policies \ {q} : policy'[p] = policy[p]
<1>1. /\ policy'[q] = row
      /\ \A p \in Policies \ {q} : policy'[p] = policy[p]
      /\ policy' \in [Policies -> PolicyRow]
  BY DEF TypeOK
<1>2. \A p \in Policies :
        /\ policy'[p].acked \subseteq policy'[p].warnings
        /\ policy'[p].status = "absent" => policy'[p] = NoPolicy
  <2> TAKE p \in Policies
  <2>1. CASE p = q
    BY <1>1, <2>1
  <2>2. CASE p # q
    BY <1>1, <2>2 DEF TypeOK, Present
  <2> QED BY <2>1, <2>2
<1> QED BY <1>1, <1>2 DEF TypeOK, Present

LEMMA NoPolicyType ==
  NoPolicy \in PolicyRow /\ NoPolicy.acked \subseteq NoPolicy.warnings
  /\ NoPolicy.status = "absent" /\ NoPolicy.warnings = {} /\ NoPolicy.acked = {}
BY DEF NoPolicy, PolicyRow, Cap

LEMMA RowType ==
  ASSUME TypeOK, NEW p \in Policies
  PROVE  /\ policy[p] \in PolicyRow
         /\ policy[p].acked \subseteq policy[p].warnings
         /\ policy[p].warnings \subseteq Warnings
BY DEF TypeOK, PolicyRow

LEMMA SafetyWarningsType ==
  ASSUME TypeOK, NEW p \in Policies, NEW cap \in Cap
  PROVE  SafetyWarnings(p, cap) \subseteq Warnings
BY DEF TypeOK, SafetyWarnings, Warnings

LEMMA RecomputeType ==
  ASSUME TypeOK, NEW p \in Policies, NEW cap \in Cap
  PROVE  /\ Recompute(p, cap) \in PolicyRow
         /\ Recompute(p, cap).status = policy[p].status
         /\ Recompute(p, cap).warnings = SafetyWarnings(p, cap)
         /\ Recompute(p, cap).acked = policy[p].acked \cap SafetyWarnings(p, cap)
<1> PICK row \in PolicyRow : row = policy[p]
  BY RowType
<1> PICK S \in SUBSET Warnings : S = SafetyWarnings(p, cap)
  BY SafetyWarningsType
<1> QED BY DEF Recompute, PolicyRow

-----------------------------------------------------------------------------
(***************************************************************************)
(* What a step may do to one row.                                          *)
(***************************************************************************)
Created(old, new) == old.status = "absent" /\ new.status = "disabled" /\ new.acked = {}
Saved(old, new) ==
  /\ old.status # "absent" /\ Loads(old) /\ new.status # "absent" /\ Loads(new)
  /\ old.acked \cap new.warnings \subseteq new.acked

RowStep(p) ==
  LET old == policy[p]
      new == policy'[p]
  IN \/ new = old
     \/ Created(old, new)
     \/ Saved(old, new)
     \/ p \notin runs /\ p \notin runs' /\ Loads(old) /\ old.status = "disabled" /\ new = NoPolicy

IInv == TypeOK /\ RunsHavePolicy

\* The initial states are typed and have no executions.
LEMMA InitIInv == Init => IInv
<1> SUFFICES ASSUME Init PROVE IInv
  OBVIOUS
<1>1. \A p \in Policies : policy[p] = NoPolicy
  BY DEF Init
<1>2. policy \in [Policies -> PolicyRow]
  BY NoPolicyType DEF Init
<1>3. poller \in [pc : {"idle", "cycle"}, todo : SUBSET Policies]
  BY DEF Init
<1> QED BY <1>1, <1>2, <1>3, NoPolicyType DEF IInv, TypeOK, RunsHavePolicy, Init, SourceState

\* The handlers that change one policy.
LEMMA HandlerStep ==
  ASSUME TypeOK, NEW q \in Policies, NEW cap \in Cap,
         \/ CreateSweepPolicy(q, cap) \/ UpdateSweepPolicy(q, cap)
         \/ DeleteSweepPolicy(q) \/ AcknowledgeWarnings(q)
         \/ EnableSweepPolicy(q) \/ DisableSweepPolicy(q)
  PROVE  TypeOK' /\ runs' = runs /\ \A p \in Policies : RowStep(p)
<1>0. runs \subseteq Policies /\ source \in [Policies -> SourceState]
  BY DEF TypeOK
<1>0a. PICK old \in PolicyRow : old = policy[q] /\ old.acked \subseteq old.warnings
  BY RowType
<1> SUFFICES ASSUME NEW new \in PolicyRow,
                    policy' = [policy EXCEPT ![q] = new],
                    new.acked \subseteq new.warnings,
                    new.status = "absent" => new = NoPolicy,
                    UNCHANGED <<risks, runs, source, poller>>,
                    \/ Created(old, new)
                    \/ Saved(old, new)
                    \/ /\ q \notin runs
                       /\ Loads(old) /\ old.status = "disabled" /\ new = NoPolicy
             PROVE  TypeOK' /\ runs' = runs /\ \A p \in Policies : RowStep(p)
  <2>1. CASE CreateSweepPolicy(q, cap)
    <3>1. PICK S \in SUBSET Warnings : S = SafetyWarnings(q, cap)
      BY SafetyWarningsType
    <3>2. PICK new \in PolicyRow : new = [status |-> "disabled", cap |-> cap, warnings |-> S, acked |-> {}]
      BY DEF PolicyRow
    <3> QED BY <2>1, <3>1, <3>2, <1>0a DEF CreateSweepPolicy, Created, Present
  <2>2. CASE UpdateSweepPolicy(q, cap)
    <3>1. PICK new \in PolicyRow : new = Recompute(q, cap)
      BY RecomputeType
    <3>2. /\ new.status = old.status
          /\ new.warnings = SafetyWarnings(q, cap)
          /\ new.acked = old.acked \cap SafetyWarnings(q, cap)
      BY <3>1, <1>0a, RecomputeType
    <3>3. old.status # "absent" /\ Loads(old) /\ Loads(new)
      BY <2>2, <3>1, <1>0a DEF UpdateSweepPolicy, Readable, Present
    <3>4. Saved(old, new)
      BY <3>2, <3>3 DEF Saved
    <3> QED BY <2>2, <3>1, <3>2, <3>3, <3>4 DEF UpdateSweepPolicy
  <2>3. CASE DeleteSweepPolicy(q)
    <3>1. old.status = "disabled" /\ Loads(old) /\ q \notin runs
      BY <2>3, <1>0a DEF DeleteSweepPolicy, Readable, Present, Enabled, PolicyRow
    <3> QED BY <2>3, <3>1, NoPolicyType DEF DeleteSweepPolicy
  <2>4. CASE AcknowledgeWarnings(q)
    <3>1. PICK new \in PolicyRow : new = [old EXCEPT !.acked = old.warnings]
      BY DEF PolicyRow
    <3>2. /\ new.status = old.status
          /\ new.warnings = old.warnings
          /\ new.acked = old.warnings
      BY <3>1 DEF PolicyRow
    <3>3. old.status # "absent" /\ Loads(old)
      BY <2>4, <1>0a DEF AcknowledgeWarnings, Readable, Present
    <3>4. Saved(old, new)
      BY <3>2, <3>3 DEF Saved, Loads
    <3>5. policy' = [policy EXCEPT ![q] = new]
      BY <2>4, <3>1, <1>0a DEF AcknowledgeWarnings
    <3> QED BY <2>4, <3>2, <3>3, <3>4, <3>5 DEF AcknowledgeWarnings
  <2>5. CASE EnableSweepPolicy(q)
    <3>1. PICK new \in PolicyRow : new = [old EXCEPT !.status = "enabled"]
      BY DEF PolicyRow
    <3>2. /\ new.status = "enabled"
          /\ new.warnings = old.warnings
          /\ new.acked = old.acked
      BY <3>1 DEF PolicyRow
    <3>3. old.status # "absent" /\ Loads(old) /\ old.warnings \subseteq old.acked
      BY <2>5, <1>0a DEF EnableSweepPolicy, Readable, Present
    <3>4. Saved(old, new)
      BY <3>2, <3>3 DEF Saved, Loads
    <3>5. policy' = [policy EXCEPT ![q] = new]
      BY <2>5, <3>1, <1>0a DEF EnableSweepPolicy
    <3> QED BY <2>5, <3>2, <3>4, <3>5, <1>0a DEF EnableSweepPolicy
  <2>6. CASE DisableSweepPolicy(q)
    <3>1. PICK new \in PolicyRow : new = [old EXCEPT !.status = "disabled"]
      BY DEF PolicyRow
    <3>2. /\ new.status = "disabled"
          /\ new.warnings = old.warnings
          /\ new.acked = old.acked
      BY <3>1 DEF PolicyRow
    <3>3. old.status # "absent" /\ Loads(old)
      BY <2>6, <1>0a DEF DisableSweepPolicy, Readable, Present
    <3>4. Saved(old, new)
      BY <3>2, <3>3 DEF Saved, Loads
    <3>5. policy' = [policy EXCEPT ![q] = new]
      BY <2>6, <3>1, <1>0a DEF DisableSweepPolicy
    <3> QED BY <2>6, <3>2, <3>4, <3>5, <1>0a DEF DisableSweepPolicy
  <2> QED BY <2>1, <2>2, <2>3, <2>4, <2>5, <2>6
<1>1. /\ TypeOK'
      /\ policy'[q] = new
      /\ \A p \in Policies \ {q} : policy'[p] = policy[p]
  BY <1>0, RowUpdate
<1>2. ASSUME NEW p \in Policies PROVE RowStep(p)
  <2>1. CASE p = q
    BY <1>0a, <1>1, <2>1 DEF RowStep
  <2>2. CASE p # q
    BY <1>1, <2>2 DEF RowStep
  <2> QED BY <2>1, <2>2
<1> QED BY <1>1, <1>2

\* The bulk statements of pause-all and resume-all.
LEMMA SetAllStep ==
  ASSUME TypeOK, NEW status \in {"disabled", "enabled"}, SetAll(status)
  PROVE  /\ TypeOK'
         /\ Present' = Present
         /\ runs' = runs
         /\ \A p \in Policies :
              /\ p \notin Present => policy'[p] = policy[p]
              /\ p \in Present => /\ policy'[p].status = status
                                  /\ policy'[p].warnings = policy[p].warnings
                                  /\ policy'[p].acked = policy[p].acked
<1>1. ASSUME NEW p \in Policies
      PROVE  /\ policy'[p] \in PolicyRow
             /\ policy'[p].acked \subseteq policy'[p].warnings
             /\ policy'[p].status = "absent" => policy'[p] = NoPolicy
             /\ p \notin Present => policy'[p] = policy[p]
             /\ p \in Present => /\ policy'[p].status = status
                                 /\ policy'[p].warnings = policy[p].warnings
                                 /\ policy'[p].acked = policy[p].acked
  <2>1. PICK old \in PolicyRow : old = policy[p] /\ old.acked \subseteq old.warnings
    BY RowType
  <2>2. CASE p \in Present
    <3>1. PICK new \in PolicyRow : new = [old EXCEPT !.status = status]
      BY DEF PolicyRow
    <3>2. /\ new.status = status
          /\ new.warnings = old.warnings
          /\ new.acked = old.acked
      BY <3>1 DEF PolicyRow
    <3>3. policy'[p] = new
      BY <2>1, <2>2, <3>1 DEF SetAll
    <3> QED BY <2>1, <2>2, <3>2, <3>3
  <2>3. CASE p \notin Present
    <3>1. policy'[p] = policy[p]
      BY <2>3 DEF SetAll
    <3> QED BY <2>1, <2>3, <3>1 DEF TypeOK
  <2> QED BY <2>2, <2>3
<1>2. policy' = [p \in Policies |-> policy'[p]]
  BY DEF SetAll
<1>3. policy' \in [Policies -> PolicyRow]
  BY <1>1, <1>2
<1>4. Present' = Present
  BY <1>1 DEF Present
<1>5. UNCHANGED <<risks, runs, source, poller>>
  BY DEF SetAll
<1> QED BY <1>1, <1>3, <1>4, <1>5 DEF TypeOK, Present

\* The deletion of a holding.
LEMMA ForgetStep ==
  ASSUME TypeOK, NEW q \in Policies, ForgetHolding(q)
  PROVE  /\ TypeOK'
         /\ policy'[q] = NoPolicy
         /\ \A p \in Policies \ {q} : policy'[p] = policy[p]
         /\ runs' = runs \ {q}
<1>1. /\ policy' = [policy EXCEPT ![q] = NoPolicy]
      /\ UNCHANGED <<risks, poller>>
      /\ runs' = runs \ {q} /\ source' \in [Policies -> SourceState]
      /\ runs \subseteq Policies /\ source \in [Policies -> SourceState]
  BY DEF ForgetHolding, TypeOK, SourceState
<1> QED BY <1>1, RowUpdate, NoPolicyType

\* Steps of the environment and of the poller write no policy.
LEMMA OtherStep ==
  ASSUME TypeOK, EnvNext \/ PollBegin \/ CycleNext \/ UNCHANGED vars
  PROVE  TypeOK' /\ policy' = policy /\ runs' \subseteq runs \cup Present
<1>1. /\ policy' = policy
      /\ risks' \in [Policies -> SUBSET Risks]
      /\ runs' \subseteq Policies
      /\ runs' \subseteq runs \cup Present
      /\ source' \in [Policies -> SourceState]
  <2>1. CASE EnvNext
    BY <2>1 DEF EnvNext, HoldingChanges, BalanceChanges, SourceRefused, SourceMended, SourceState, TypeOK
  <2>2. CASE PollBegin \/ CycleNext
    BY <2>2 DEF PollBegin, CycleNext, PollSkips, PollRaises, TriggerSweep, TriggerRaises, PollEnd, TypeOK
  <2>3. CASE UNCHANGED vars
    BY <2>3 DEF vars, TypeOK
  <2> QED BY <2>1, <2>2, <2>3
<1>2. poller' \in [pc : {"idle", "cycle"}, todo : SUBSET Policies]
  <2>1. CASE EnvNext \/ UNCHANGED vars
    BY <2>1 DEF EnvNext, HoldingChanges, BalanceChanges, SourceRefused, SourceMended, vars, TypeOK
  <2>2. CASE PollBegin
    BY <2>2 DEF PollBegin, Enabled
  <2>3. CASE CycleNext
    <3>1. PICK pl \in [pc : {"idle", "cycle"}, todo : SUBSET Policies] : pl = poller
      BY DEF TypeOK
    <3>2. ASSUME NEW p \in Policies, PollSkips(p) \/ TriggerSweep(p)
          PROVE  poller' \in [pc : {"idle", "cycle"}, todo : SUBSET Policies]
      <4>1. poller' = [pl EXCEPT !.todo = pl.todo \ {p}]
        BY <3>1, <3>2 DEF PollSkips, TriggerSweep
      <4> QED BY <4>1
    <3> QED BY <2>3, <3>2 DEF CycleNext, PollRaises, TriggerRaises, PollEnd
  <2> QED BY <2>1, <2>2, <2>3
<1> QED BY <1>1, <1>2 DEF TypeOK, Present

\* Every step is one of three kinds.
LEMMA StepKinds ==
  ASSUME TypeOK, [Next]_vars
  PROVE  /\ TypeOK'
         /\ runs' \subseteq runs \cup Present
         /\ \/ \A p \in Policies : RowStep(p)
            \/ PauseAll
            \/ ResumeAll
            \/ \E q \in Policies : ForgetHolding(q)
<1>1. CASE PauseAll
  BY <1>1, SetAllStep DEF PauseAll
<1>2. CASE ResumeAll
  BY <1>2, SetAllStep DEF ResumeAll
<1>3. CASE \E q \in Policies : ForgetHolding(q)
  BY <1>3, ForgetStep
<1>4. CASE EnvNext \/ PollBegin \/ CycleNext \/ UNCHANGED vars
  BY <1>4, OtherStep DEF RowStep
<1>5. CASE \E q \in Policies, cap \in Cap :
             \/ CreateSweepPolicy(q, cap) \/ UpdateSweepPolicy(q, cap)
             \/ DeleteSweepPolicy(q) \/ AcknowledgeWarnings(q)
             \/ EnableSweepPolicy(q) \/ DisableSweepPolicy(q)
  BY <1>5, HandlerStep
<1>6. "none" \in Cap
  BY DEF Cap
<1> QED BY <1>1, <1>2, <1>3, <1>4, <1>5, <1>6 DEF Next, PolicyNext

-----------------------------------------------------------------------------
(***************************************************************************)
(* Theorems.                                                               *)
(***************************************************************************)

\* IInv is inductive: rows keep their shape, and neither the deletion of a
\* policy, nor that of a holding, nor a late trigger of the poller leaves an
\* execution without its policy.
THEOREM SweepPoliciesIInv == Spec => []IInv
<1>1. Init => IInv
  BY InitIInv
<1>2. ASSUME IInv, [Next]_vars PROVE IInv'
  <2>1. TypeOK /\ TypeOK' /\ runs \subseteq Present
    BY <1>2, StepKinds DEF IInv, RunsHavePolicy
  <2>2. runs' \subseteq Present
    BY <1>2, <2>1, StepKinds
  <2>3. CASE \A p \in Policies : RowStep(p)
    <3>1. ASSUME NEW p \in runs' PROVE p \in Present'
      BY <2>2, <2>3, NoPolicyType DEF RowStep, Created, Saved, Present
    <3> QED BY <2>1, <3>1 DEF IInv, RunsHavePolicy
  <2>4. CASE PauseAll
    BY <2>1, <2>4, SetAllStep DEF PauseAll, IInv, RunsHavePolicy
  <2>5. CASE ResumeAll
    BY <2>1, <2>5, SetAllStep DEF ResumeAll, IInv, RunsHavePolicy
  <2>6. ASSUME NEW q \in Policies, ForgetHolding(q) PROVE IInv'
    BY <2>1, <2>6, ForgetStep DEF IInv, RunsHavePolicy, Present
  <2> QED BY <1>2, <2>1, <2>3, <2>4, <2>5, <2>6, StepKinds
<1> QED BY <1>1, <1>2, PTL DEF Spec

\* Acknowledged warnings are always among the warnings of the row, and absent
\* rows are empty, whatever the handlers do.
THEOREM SweepPoliciesTypeOK == Spec => []TypeOK
BY SweepPoliciesIInv, PTL DEF IInv

\* Every sweep_execution row refers to a policy that exists.
THEOREM SweepPoliciesRunsHavePolicy == Spec => []RunsHavePolicy
BY SweepPoliciesIInv, PTL DEF IInv

\* Only resume-all turns a readable policy into one whose every read raises.
THEOREM SweepPoliciesOnlyResumeAllBreaks == Spec => OnlyResumeAllBreaks
<1>1. ASSUME TypeOK, [Next]_vars PROVE [Unreadable' \subseteq Unreadable \/ ResumeAll]_vars
  <2>1. CASE \A p \in Policies : RowStep(p)
    BY <2>1, NoPolicyType DEF RowStep, Created, Saved, Unreadable, Present, Loads
  <2>2. CASE PauseAll
    BY <1>1, <2>2, SetAllStep DEF PauseAll, Unreadable, Present, Loads
  <2>3. ASSUME NEW q \in Policies, ForgetHolding(q) PROVE Unreadable' \subseteq Unreadable
    BY <1>1, <2>3, ForgetStep, NoPolicyType DEF Unreadable, Present, Loads
  <2> QED BY <1>1, <2>1, <2>2, <2>3, StepKinds
<1> QED BY <1>1, SweepPoliciesTypeOK, PTL DEF Spec, OnlyResumeAllBreaks

\* No handler that works on one policy repairs an unreadable one: pause-all and
\* the deletion of a holding are the only ways out.
THEOREM SweepPoliciesUnreadableUntilPaused == Spec => UnreadableUntilPaused
<1>1. ASSUME TypeOK, [Next]_vars
      PROVE  [Unreadable \subseteq Unreadable' \/ PauseAll \/ \E p \in Policies : ForgetHolding(p)]_vars
  <2>1. CASE \A p \in Policies : RowStep(p)
    BY <2>1 DEF RowStep, Created, Saved, Unreadable, Present, Loads
  <2>2. CASE ResumeAll
    BY <1>1, <2>2, SetAllStep DEF ResumeAll, Unreadable, Present, Loads
  <2> QED BY <1>1, <2>1, <2>2, StepKinds
<1> QED BY <1>1, SweepPoliciesTypeOK, PTL DEF Spec, UnreadableUntilPaused

\* No step drops the acknowledgement of a warning that the policy keeps.
THEOREM SweepPoliciesAcknowledgementKept == Spec => AcknowledgementKept
<1> DEFINE Kept == \A p \in Present :
      p \in Present' => policy[p].acked \cap policy'[p].warnings \subseteq policy'[p].acked
<1>1. ASSUME TypeOK, [Next]_vars PROVE [Kept]_vars
  <2>1. CASE \A p \in Policies : RowStep(p)
    BY <2>1, NoPolicyType DEF RowStep, Created, Saved, Present
  <2>2. CASE PauseAll \/ ResumeAll
    BY <1>1, <2>2, SetAllStep DEF PauseAll, ResumeAll, Present
  <2>3. ASSUME NEW q \in Policies, ForgetHolding(q) PROVE Kept
    BY <1>1, <2>3, ForgetStep, NoPolicyType DEF Present
  <2> QED BY <1>1, <2>1, <2>2, <2>3, StepKinds
<1> QED BY <1>1, SweepPoliciesTypeOK, PTL DEF Spec, AcknowledgementKept
=============================================================================
