--------------------------- MODULE SweepPolicies ----------------------------
(***************************************************************************)
(* Sweep policies: the safety warnings that must be acknowledged before a  *)
(* policy is enabled, the handlers that change a policy, and the           *)
(* SelfCustodyPoller that runs the threshold policies in cycles.           *)
(*                                                                         *)
(* A policy row is turned into a SweepPolicy object whenever it is read,   *)
(* and the constructor raises for one that is enabled with a warning that  *)
(* is not acknowledged.  A handler that meets such a row ends with an      *)
(* error and commits nothing; a bulk UPDATE does not read rows.  The same  *)
(* is true of the holding a policy sweeps from: the constructor of Holding *)
(* refuses some rows that the metadata repair writes (see Holdings).       *)
(*                                                                         *)
(* The backend runs one handler at a time and each is one database         *)
(* transaction; the poller is a thread of the worker process.              *)
(***************************************************************************)
CONSTANTS
  Policies,   \* ids of sweep_policy rows, all with a threshold trigger
  Risks,      \* warnings that depend on the holdings and the provider
  NoCap,      \* the warning no_maximum_cap_set
  Vaults      \* policies (no dry runs) whose source is a Vault declared long-term

ASSUME SweepPoliciesAssumption == NoCap \notin Risks /\ Vaults \subseteq Policies

VARIABLES
  policy,   \* table sweep_policy
  risks,    \* what the validator would warn about now, from the holdings
  runs,     \* policies with a row in sweep_execution
  source,   \* the source holding of each policy, as the poller finds it
  poller    \* the cycle of the SelfCustodyPoller

vars == <<policy, risks, runs, source, poller>>

Warnings == Risks \cup {NoCap}

Cap == {"none", "set"}   \* maximum_per_period_sats

PolicyRow == [status : {"absent", "disabled", "enabled"}, cap : Cap,
              warnings : SUBSET Warnings, acked : SUBSET Warnings]

\* The balance is over the threshold ("due") or not, or the row of the holding
\* is one that Holding.__post_init__ refuses.
SourceState == {"quiet", "due", "refused"}

NoPolicy == [status |-> "absent", cap |-> "none", warnings |-> {}, acked |-> {}]

Present == {p \in Policies : policy[p].status # "absent"}
Enabled == {p \in Policies : policy[p].status = "enabled"}
Due     == {p \in Policies : source[p] = "due"}
Refused == {p \in Policies : source[p] = "refused"}

\* SweepPolicy.__post_init__ accepts the row.
Loads(row) == row.status = "enabled" => row.warnings \subseteq row.acked

Readable(p) == p \in Present /\ Loads(policy[p])
Unreadable  == {p \in Present : ~Loads(policy[p])}

\* _compute_safety_warnings
SafetyWarnings(p, cap) == risks[p] \cup (IF cap = "none" THEN {NoCap} ELSE {})

Init ==
  /\ policy = [p \in Policies |-> NoPolicy]
  /\ risks \in [Policies -> SUBSET Risks]
  /\ runs = {}
  /\ source = [p \in Policies |-> "quiet"]
  /\ poller = [pc |-> "idle", todo |-> {}]

-----------------------------------------------------------------------------
(***************************************************************************)
(* Handlers of api/v1/treasury.py.  The validator loads the holdings: with *)
(* a refused one creation and update end in an error.                      *)
(***************************************************************************)
CreateSweepPolicy(p, cap) ==
  /\ p \notin Present
  /\ p \notin Refused
  /\ policy' = [policy EXCEPT ![p] =
       [status |-> "disabled", cap |-> cap,
        warnings |-> SafetyWarnings(p, cap), acked |-> {}]]
  /\ UNCHANGED <<risks, runs, source, poller>>

\* Seeded fault: the validator forgets what was acknowledged.
RecomputeAfresh(p, cap) ==
  [policy[p] EXCEPT !.cap = cap,
                    !.warnings = SafetyWarnings(p, cap),
                    !.acked = {}]

\* The validator runs again and carries over what was acknowledged.
Recompute(p, cap) ==
  [policy[p] EXCEPT !.cap = cap,
                    !.warnings = SafetyWarnings(p, cap),
                    !.acked = @ \cap SafetyWarnings(p, cap)]

\* Seeded fault: the updated row is committed without being loaded.
UpdateUnloaded(p, cap) ==
  /\ Readable(p)
  /\ p \notin Refused
  /\ policy[p].cap = "set" => cap = "set"
  /\ policy' = [policy EXCEPT ![p] = Recompute(p, cap)]
  /\ UNCHANGED <<risks, runs, source, poller>>

\* The updated row is loaded before the commit.  A cap cannot be removed:
\* None means that the field is left alone.
UpdateSweepPolicy(p, cap) ==
  /\ Readable(p)
  /\ p \notin Refused
  /\ policy[p].cap = "set" => cap = "set"
  /\ Loads(Recompute(p, cap))
  /\ policy' = [policy EXCEPT ![p] = Recompute(p, cap)]
  /\ UNCHANGED <<risks, runs, source, poller>>

\* Seeded fault: the foreign key does not restrict the deletion.
DeleteUnrestricted(p) ==
  /\ Readable(p)
  /\ p \notin Enabled
  /\ policy' = [policy EXCEPT ![p] = NoPolicy]
  /\ UNCHANGED <<risks, runs, source, poller>>

\* Executions are kept with a RESTRICT foreign key.
DeleteSweepPolicy(p) ==
  /\ Readable(p)
  /\ p \notin Enabled
  /\ p \notin runs
  /\ policy' = [policy EXCEPT ![p] = NoPolicy]
  /\ UNCHANGED <<risks, runs, source, poller>>

\* Seeded fault: the acknowledgement does not load the policy first.
AcknowledgeUnloaded(p) ==
  /\ p \in Present
  /\ policy' = [policy EXCEPT ![p].acked = policy[p].warnings]
  /\ UNCHANGED <<risks, runs, source, poller>>

AcknowledgeWarnings(p) ==
  /\ Readable(p)
  /\ policy' = [policy EXCEPT ![p].acked = policy[p].warnings]
  /\ UNCHANGED <<risks, runs, source, poller>>

EnableSweepPolicy(p) ==
  /\ Readable(p)
  /\ policy[p].warnings \subseteq policy[p].acked
  /\ policy' = [policy EXCEPT ![p].status = "enabled"]
  /\ UNCHANGED <<risks, runs, source, poller>>

DisableSweepPolicy(p) ==
  /\ Readable(p)
  /\ policy' = [policy EXCEPT ![p].status = "disabled"]
  /\ UNCHANGED <<risks, runs, source, poller>>

SetAll(status) ==
  /\ policy' = [p \in Policies |->
       IF p \in Present THEN [policy[p] EXCEPT !.status = status] ELSE policy[p]]
  /\ UNCHANGED <<risks, runs, source, poller>>

PauseAll  == SetAll("disabled")
ResumeAll == SetAll("enabled")

\* DELETE /holdings/{id} removes the policies of the holding and their
\* executions with bulk statements.
ForgetHolding(p) ==
  /\ p \in Present
  /\ policy' = [policy EXCEPT ![p] = NoPolicy]
  /\ runs' = runs \ {p}
  /\ source' \in {source, [source EXCEPT ![p] = "quiet"]}   \* the destination, or the source
  /\ UNCHANGED <<risks, poller>>

\* A holding changes its type or its declared security, or the provider's
\* whitelist is verified: policies keep the warnings they were saved with.
HoldingChanges(p, S) ==
  /\ risks[p] # S
  /\ risks' = [risks EXCEPT ![p] = S]
  /\ UNCHANGED <<policy, runs, source, poller>>

\* Deposits and payments move the source balance across the threshold.
BalanceChanges(p) ==
  /\ p \notin Refused
  /\ source' = [source EXCEPT ![p] = IF @ = "due" THEN "quiet" ELSE "due"]
  /\ UNCHANGED <<policy, risks, runs, poller>>

\* The metadata repair writes a source holding that no longer loads (MarkedByFix
\* of Holdings), and a change of its type can make it load again.
SourceRefused(p) ==
  /\ p \notin Refused
  /\ source' = [source EXCEPT ![p] = "refused"]
  /\ UNCHANGED <<policy, risks, runs, poller>>

SourceMended(p, s) ==
  /\ p \in Refused /\ s # "refused"
  /\ source' = [source EXCEPT ![p] = s]
  /\ UNCHANGED <<policy, risks, runs, poller>>

-----------------------------------------------------------------------------
(***************************************************************************)
(* The SelfCustodyPoller.                                                  *)
(***************************************************************************)

\* Seeded fault: the list is not filtered by is_enabled.
PollBeginAll ==
  /\ poller.pc = "idle"
  /\ Enabled \cap Unreadable = {}
  /\ poller' = [pc |-> "cycle", todo |-> Present]
  /\ UNCHANGED <<policy, risks, runs, source>>

\* The enabled policies are read once per cycle, in no particular order.  When
\* one of them does not load the read raises and there is no cycle.
PollBegin ==
  /\ poller.pc = "idle"
  /\ Enabled \cap Unreadable = {}
  /\ poller' = [pc |-> "cycle", todo |-> Enabled]
  /\ UNCHANGED <<policy, risks, runs, source>>

\* Seeded fault: the loop returns where it should continue.
SkipReturns(p) ==
  /\ poller.pc = "cycle" /\ p \in poller.todo
  /\ source[p] = "quiet"
  /\ poller' = [pc |-> "idle", todo |-> {}]
  /\ UNCHANGED <<policy, risks, runs, source>>

\* The source is gone, or its balance is not over the threshold.
PollSkips(p) ==
  /\ poller.pc = "cycle" /\ p \in poller.todo
  /\ source[p] = "quiet"
  /\ poller' = [poller EXCEPT !.todo = @ \ {p}]
  /\ UNCHANGED <<policy, risks, runs, source>>

\* Loading the source raises, and nothing in the loop catches it: the policies
\* behind this one wait for the next cycle.
PollRaises(p) ==
  /\ poller.pc = "cycle" /\ p \in poller.todo
  /\ p \in Refused
  /\ poller' = [pc |-> "idle", todo |-> {}]
  /\ UNCHANGED <<policy, risks, runs, source>>

\* An execution is created for the policy as it was read.
TriggerSweep(p) ==
  /\ poller.pc = "cycle" /\ p \in poller.todo
  /\ p \in Due /\ p \in Present /\ p \notin Vaults
  /\ runs' = runs \cup {p}
  /\ poller' = [poller EXCEPT !.todo = @ \ {p}]
  /\ UNCHANGED <<policy, risks, source>>

\* The builder answers a Vault's request with a question instead of a payment
\* request, which the poller does not expect; a policy that was deleted
\* meanwhile has no row the execution could refer to.  Either ends the cycle.
TriggerRaises(p) ==
  /\ poller.pc = "cycle" /\ p \in poller.todo
  /\ p \in Due /\ (p \in Vaults \/ p \notin Present)
  /\ poller' = [pc |-> "idle", todo |-> {}]
  /\ UNCHANGED <<policy, risks, runs, source>>

PollEnd ==
  /\ poller.pc = "cycle" /\ poller.todo = {}
  /\ poller' = [pc |-> "idle", todo |-> {}]
  /\ UNCHANGED <<policy, risks, runs, source>>

-----------------------------------------------------------------------------
PolicyNext ==
  \/ \E p \in Policies, cap \in Cap :
       CreateSweepPolicy(p, cap) \/ UpdateSweepPolicy(p, cap)
  \/ \E p \in Policies :
       \/ DeleteSweepPolicy(p) \/ AcknowledgeWarnings(p)
       \/ EnableSweepPolicy(p) \/ DisableSweepPolicy(p) \/ ForgetHolding(p)
  \/ PauseAll \/ ResumeAll

EnvNext ==
  \/ \E p \in Policies, S \in SUBSET Risks : HoldingChanges(p, S)
  \/ \E p \in Policies : BalanceChanges(p) \/ SourceRefused(p)
  \/ \E p \in Policies, s \in SourceState : SourceMended(p, s)

CycleNext ==
  \/ \E p \in Policies :
       PollSkips(p) \/ PollRaises(p) \/ TriggerSweep(p) \/ TriggerRaises(p)
  \/ PollEnd

Next == PolicyNext \/ EnvNext \/ PollBegin \/ CycleNext

\* The poller wakes up at a fixed interval and finishes the cycle it began.
Spec     == Init /\ [][Next]_vars
FairSpec == Spec /\ WF_vars(PollBegin) /\ WF_vars(CycleNext)

-----------------------------------------------------------------------------
(***************************************************************************)
(* Properties.                                                             *)
(***************************************************************************)

\* The type invariant, with what every row satisfies: only warnings that the
\* row has are acknowledged, and an absent row is empty.
TypeOK ==
  /\ policy \in [Policies -> PolicyRow]
  /\ \A p \in Policies :
       /\ policy[p].acked \subseteq policy[p].warnings
       /\ p \notin Present => policy[p] = NoPolicy
  /\ risks \in [Policies -> SUBSET Risks]
  /\ runs \subseteq Policies
  /\ source \in [Policies -> SourceState]
  /\ poller \in [pc : {"idle", "cycle"}, todo : SUBSET Policies]

\* Executions keep their policy: sweep_execution.sweep_policy_id always refers
\* to a row, although policies and holdings are deleted while the poller works
\* from the list it read before.
RunsHavePolicy == runs \subseteq Present

\* A policy becomes unreadable in one way only: resume-all enables it behind
\* the check of enable_sweep_policy.  Every other handler, the recomputation of
\* warnings after a change of holdings included, leaves readable rows readable.
OnlyResumeAllBreaks ==
  [][Unreadable' \subseteq Unreadable \/ ResumeAll]_vars

\* An unreadable policy cannot be repaired one by one: acknowledging,
\* disabling, updating and deleting it all load it first.  Only pause-all and
\* the deletion of a holding get rid of it.
UnreadableUntilPaused ==
  [][Unreadable \subseteq Unreadable' \/ PauseAll \/ \E p \in Policies : ForgetHolding(p)]_vars

\* An acknowledgement carries over for as long as the policy keeps the warning
\* (_compute_safety_warnings), through every handler.
AcknowledgementKept ==
  [][\A p \in Present :
       p \in Present' => policy[p].acked \cap policy'[p].warnings \subseteq policy'[p].acked]_vars

\* Nothing stands in the way of policy p: it is enabled and over its threshold,
\* every row loads, and no policy of the cycle is deleted, has a source that
\* does not load, or is a due Vault.
Serviceable(p) ==
  /\ p \in Enabled \cap Due
  /\ Unreadable = {}
  /\ poller.todo \subseteq Present
  /\ poller.todo \cap Refused = {}
  /\ poller.todo \cap Due \cap Vaults = {}

\* "for every enabled threshold SweepPolicy ... When balance > threshold,
\* creates a SweepExecution": the poller serves a policy again and again when
\* nothing ends its cycles early.
PollerServes ==
  \A p \in Policies : <>[]Serviceable(p) => []<><<TriggerSweep(p)>>_vars

\* A pause takes effect, late: the poller works from the list it read, so a
\* policy can still be served after the pause, but only in the cycle under way.
PauseTakesEffect == <>[](Enabled = {}) => <>[](poller.todo = {})

-----------------------------------------------------------------------------
(***************************************************************************)
(* What the repository's text says and the code does not do.  No run has   *)
(* these: TLC refutes each of them on the instance of the passing run.     *)
(***************************************************************************)

\* "The policy cannot be enabled until all warnings are acknowledged".
EnabledIsAcknowledged ==
  \A p \in Enabled : policy[p].warnings \subseteq policy[p].acked
=============================================================================
