------------------------- MODULE WithdrawalsProofs --------------------------
(***************************************************************************)
(* Theorems about Withdrawals, for every number of executions, foreign     *)
(* withdrawals and transactions, every amount and every tolerance.         *)
(*                                                                         *)
(* CompletedIsConfirmed is not inductive: that the amounts and transaction *)
(* ids of a row agree with the provider's withdrawal rests on what the     *)
(* handler holds between the call and its commit (HandlerOK) and on what   *)
(* the poll copied (RowOK).  LinkedIsTiny rests on what the reconciler     *)
(* holds between its query and its commit (ReconcilerOK).                  *)
(***************************************************************************)
EXTENDS Withdrawals, FiniteSetTheorems, TLAPS

Live == {"requested", "dispatched", "onchain_pending", "completed"}

WithdrawalOK ==
  \A x \in Entries :
    /\ wd[x].state # "none" => wd[x].amount >= Smallest
    /\ wd[x].state = "sent" => wd[x].tx \in Txs

RowOK ==
  \A e \in Execs :
    /\ exec[e].status \in Live => wd[e].state # "none" /\ wd[e].amount = exec[e].amount
    /\ exec[e].txid # None =>
         exec[e].status \in Live /\ wd[e].state = "sent" /\ wd[e].tx = exec[e].txid
    /\ exec[e].status \in {"onchain_pending", "completed"} => exec[e].txid # None
    /\ exec[e].status = "completed" => exec[e].txid \in mined

HandlerOK ==
  /\ backend.pc \in {"call", "taken", "error"} =>
       backend.exec \in Execs /\ exec[backend.exec].status = "absent"
  /\ backend.pc = "call" => wd[backend.exec].state = "none"
  /\ backend.pc = "taken" =>
       wd[backend.exec].state # "none" /\ wd[backend.exec].amount = backend.amount
  /\ \A x \in backend.entries : wd[x].state # "none"

Tiny(x, e) ==
  /\ x \in Entries /\ wd[x].state # "none"
  /\ e \in Execs /\ exec[e].status \in Live
  /\ wd[x].amount + exec[e].amount <= Floor

ReconcilerOK ==
  /\ \A x \in bus : wd[x].state # "none"
  /\ recon # NoMatch => Tiny(recon.entry, recon.exec)
  /\ \A x \in Entries : link[x] # None => Tiny(x, link[x])

NoticesOK == \A tx \in Txs : tx \notin mined => notices[tx] <= 1

IInv == TypeOK /\ WithdrawalOK /\ RowOK /\ HandlerOK /\ ReconcilerOK /\ NoticesOK

-----------------------------------------------------------------------------
(***************************************************************************)
(* The tolerance, for all amounts.                                         *)
(***************************************************************************)

\* A debit and a positive intended amount are within the tolerance only when
\* their sum is within the floor: two percent of the amount never helps.
LEMMA ToleranceOfDebit ==
  ASSUME NEW a \in Nat, NEW b \in Nat, a > 0, WithinTolerance(-a, b)
  PROVE  a + b <= Floor
<1>1. Floor \in Nat
  BY WithdrawalsAssumption
<1>2. (b * 2) \div 100 <= b
  OBVIOUS
<1>3. Abs((-a) - b) = a + b
  BY DEF Abs
<1> QED BY <1>1, <1>2, <1>3 DEF WithinTolerance

-----------------------------------------------------------------------------
LEMMA Facts ==
  ASSUME TypeOK
  PROVE  /\ balance \in Int /\ known \in Int
         /\ \A x \in Entries : wd[x] \in Withdrawal /\ wd[x].amount \in Nat
         /\ \A e \in Execs : exec[e] \in Row /\ e \in Entries
         /\ Smallest \in Nat /\ Smallest > 0 /\ Floor \in Nat /\ MaxBalance \in Nat
         /\ None \notin Execs /\ None \notin Txs
BY WithdrawalsAssumption DEF TypeOK, Withdrawal, Amount, Entries

LEMMA InitIInv == Init => IInv
<1> SUFFICES ASSUME Init PROVE IInv
  OBVIOUS
<1>1. NoWithdrawal \in Withdrawal /\ NoRow \in Row
  BY WithdrawalsAssumption DEF NoWithdrawal, NoRow, Withdrawal, Row, Amount, Status
<1>2. TypeOK
  <2>1. balance \in Amount /\ known \in Amount /\ faults \in 0 .. MaxFaults
    BY WithdrawalsAssumption DEF Init, Amount
  <2>2. wd \in [Entries -> Withdrawal] /\ exec \in [Execs -> Row]
    BY <1>1 DEF Init
  <2>3. backend \in Handler
    BY DEF Init, Idle, Handler
  <2>4. recon \in [entry : Entries \cup {None}, exec : Execs \cup {None}, seen : Status]
    BY DEF Init, NoMatch, Status
  <2>5. notices \in [Txs -> 0 .. 2] /\ mined \subseteq Txs /\ bus \subseteq Entries
    BY DEF Init
  <2>6. entry \in [Entries -> {"absent", "new", "reconciled"}] /\ link \in [Entries -> Execs \cup {None}]
    BY DEF Init
  <2> QED BY <2>1, <2>2, <2>3, <2>4, <2>5, <2>6 DEF TypeOK
<1>3. WithdrawalOK
  BY DEF Init, WithdrawalOK, NoWithdrawal
<1>4. RowOK
  BY DEF Init, RowOK, NoRow, Live
<1>5. HandlerOK
  BY DEF Init, HandlerOK, Idle
<1>6. ReconcilerOK
  BY DEF Init, ReconcilerOK
<1>7. NoticesOK
  BY DEF Init, NoticesOK
<1> QED BY <1>2, <1>3, <1>4, <1>5, <1>6, <1>7 DEF IInv

-----------------------------------------------------------------------------
(***************************************************************************)
(* Steps that change no withdrawal and no execution.                       *)
(***************************************************************************)
LEMMA QuietStep ==
  ASSUME IInv, wd' = wd, exec' = exec,
         \/ \E e \in Execs : \E a \in Explicit \cup {SweepAmount} : ExecuteBegin(e, a)
         \/ BackendCrash \/ ProviderRefuses \/ AnswerLost \/ Deposit
         \/ \E tx \in Txs : Mine(tx) \/ NoticeLost(tx)
         \/ Fetch \/ PollPublish
         \/ \E x \in Entries : \E e \in Execs : ReconcileMatch(x, e)
         \/ \E x \in Entries : ReconcileUnmatched(x) \/ EventLost(x)
         \/ UNCHANGED vars
  PROVE  IInv'
<1> USE DEF chainVars, ledgerVars
<1>a. TypeOK /\ WithdrawalOK /\ RowOK /\ HandlerOK /\ ReconcilerOK /\ NoticesOK
  BY DEF IInv
<1>b. PICK b \in Handler : b = backend
  BY <1>a DEF TypeOK
<1>c. Idle \in Handler
  BY DEF Idle, Handler
<1>d. WithdrawalOK'
  BY <1>a DEF WithdrawalOK
<1>e. mined \subseteq mined' => RowOK'
  BY <1>a DEF RowOK, Live
<1>f. \A x, e : Tiny(x, e) => Tiny(x, e)'
  BY DEF Tiny
<1>g. link' = link /\ recon' = recon /\ bus' \subseteq bus => ReconcilerOK'
  BY <1>a, <1>f DEF ReconcilerOK
<1>h. SweepAmount \in Int /\ Explicit \subseteq Int
  BY <1>a, WithdrawalsAssumption DEF SweepAmount, TypeOK, Amount
<1>1. ASSUME NEW e \in Execs, NEW a \in Explicit \cup {SweepAmount}, ExecuteBegin(e, a) PROVE IInv'
  <2>1. backend' = [Idle EXCEPT !.pc = "call", !.exec = e, !.amount = a] /\ a \in Int
    BY <1>1, <1>h DEF ExecuteBegin
  <2>2. backend' = [pc |-> "call", exec |-> e, amount |-> a, entries |-> {}]
    BY <2>1 DEF Idle
  <2>2a. backend' \in Handler
    BY <2>1, <2>2 DEF Handler
  <2>2b. backend'.pc = "call" /\ backend'.exec = e /\ backend'.entries = {}
    BY <2>2
  <2>3. TypeOK'
    BY <1>1, <1>a, <2>2a DEF ExecuteBegin, TypeOK
  <2>4. HandlerOK'
    BY <1>1, <2>2b DEF ExecuteBegin, HandlerOK
  <2>5. NoticesOK'
    BY <1>1, <1>a DEF ExecuteBegin, NoticesOK
  <2> QED BY <1>1, <1>d, <1>e, <1>g, <2>3, <2>4, <2>5 DEF ExecuteBegin, IInv
<1>2. CASE BackendCrash
  <2>1. TypeOK'
    BY <1>2, <1>a, <1>c, WithdrawalsAssumption DEF BackendCrash, Fault, TypeOK
  <2>2. HandlerOK'
    BY <1>2 DEF BackendCrash, HandlerOK, Idle
  <2>3. NoticesOK'
    BY <1>2, <1>a DEF BackendCrash, NoticesOK
  <2> QED BY <1>2, <1>d, <1>e, <1>g, <2>1, <2>2, <2>3 DEF BackendCrash, IInv
<1>3. CASE ProviderRefuses \/ AnswerLost
  <2>1. PICK n \in Handler :
          n = [b EXCEPT !.pc = "error"]
    BY DEF Handler
  <2>2. backend' = n /\ b.pc \in {"call", "taken"}
    BY <1>3, <1>b, <2>1 DEF ProviderRefuses, AnswerLost
  <2>3. n.pc = "error" /\ n.exec = b.exec /\ n.entries = b.entries
    BY <2>1 DEF Handler
  <2>4. TypeOK'
    BY <1>3, <1>a, <2>2, WithdrawalsAssumption DEF ProviderRefuses, AnswerLost, Fault, TypeOK
  <2>5. HandlerOK'
    BY <1>3, <1>a, <1>b, <2>2, <2>3 DEF HandlerOK
  <2>6. NoticesOK'
    BY <1>3, <1>a DEF ProviderRefuses, AnswerLost, NoticesOK
  <2> QED BY <1>3, <1>d, <1>e, <1>g, <2>4, <2>5, <2>6 DEF ProviderRefuses, AnswerLost, IInv
<1>4. CASE Deposit
  <2>1. TypeOK'
    BY <1>4, <1>a, WithdrawalsAssumption DEF Deposit, TypeOK, Amount
  <2>2. HandlerOK' /\ NoticesOK'
    BY <1>4, <1>a DEF Deposit, HandlerOK, NoticesOK
  <2> QED BY <1>4, <1>d, <1>e, <1>g, <2>1, <2>2 DEF Deposit, IInv
<1>5. ASSUME NEW tx \in Txs, Mine(tx) \/ NoticeLost(tx) PROVE IInv'
  <2>1. /\ notices' \in [Txs -> 0 .. 2]
        /\ NoticesOK'
    BY <1>5, <1>a DEF Mine, NoticeLost, NoticesOK, TypeOK
  <2>2. TypeOK'
    BY <1>5, <1>a, <2>1, WithdrawalsAssumption DEF Mine, NoticeLost, Fault, TypeOK
  <2>3. HandlerOK'
    BY <1>5, <1>a DEF Mine, NoticeLost, HandlerOK
  <2> QED BY <1>5, <1>d, <1>e, <1>g, <2>1, <2>2, <2>3 DEF Mine, NoticeLost, IInv
<1>6. CASE Fetch
  <2>1. PICK new \in SUBSET Entries : PollFetch(new)
    BY <1>6 DEF Fetch
  <2>2. backend' = [pc |-> "publish", exec |-> None, amount |-> 0, entries |-> new]
    BY <2>1 DEF PollFetch, Idle
  <2>3. entry' \in [Entries -> {"absent", "new", "reconciled"}]
    BY <2>1, <1>a DEF PollFetch, TypeOK
  <2>3a. backend' \in Handler
    BY <2>2 DEF Handler
  <2>4. TypeOK'
    BY <2>1, <1>a, <2>3, <2>3a DEF PollFetch, TypeOK
  <2>5. \A x \in new : wd[x].state # "none"
    BY <2>1 DEF PollFetch, NewEntries
  <2>6. HandlerOK'
    BY <2>2, <2>5 DEF HandlerOK
  <2>7. NoticesOK'
    BY <2>1, <1>a DEF PollFetch, NoticesOK
  <2> QED BY <2>1, <1>d, <1>e, <1>g, <2>4, <2>6, <2>7 DEF PollFetch, IInv
<1>7. CASE PollPublish
  <2>1. backend' = [pc |-> "check", exec |-> None, amount |-> 0, entries |-> {}]
    BY <1>7 DEF PollPublish, Idle
  <2>2. bus' \subseteq Entries
    BY <1>7, <1>a, <1>b DEF PollPublish, TypeOK, Handler
  <2>2a. backend' \in Handler
    BY <2>1 DEF Handler
  <2>3. TypeOK'
    BY <1>7, <1>a, <2>2, <2>2a DEF PollPublish, TypeOK
  <2>4. HandlerOK'
    BY <2>1 DEF HandlerOK
  <2>5. NoticesOK'
    BY <1>7, <1>a DEF PollPublish, NoticesOK
  <2>6. ReconcilerOK'
    BY <1>7, <1>a, <1>f DEF PollPublish, ReconcilerOK, HandlerOK
  <2> QED BY <1>7, <1>d, <1>e, <2>3, <2>4, <2>5, <2>6 DEF PollPublish, IInv
<1>8. ASSUME NEW x \in Entries, NEW e \in Execs, ReconcileMatch(x, e) PROVE IInv'
  <2>1. x \in bus /\ e \in Candidates(x)
    BY <1>8 DEF ReconcileMatch
  <2>2. exec[e].status \in {"requested", "dispatched"} /\ WithinTolerance(-wd[x].amount, exec[e].amount)
    BY <2>1 DEF Candidates, LedgerAmount
  <2>3. /\ wd[x].state # "none" /\ wd[x].amount \in Nat /\ wd[x].amount > 0
        /\ exec[e].amount \in Nat
    BY <2>1, <2>2, <1>a, Facts DEF ReconcilerOK, WithdrawalOK, RowOK, Live
  <2>4. Tiny(x, e)
    BY <2>2, <2>3, ToleranceOfDebit DEF Tiny, Live
  <2>5. recon' = [entry |-> x, exec |-> e, seen |-> exec[e].status]
    BY <1>8 DEF ReconcileMatch
  <2>6. ReconcilerOK'
    <3>1. Tiny(recon'.entry, recon'.exec)
      BY <2>4, <2>5
    <3>2. Tiny(recon.entry, recon.exec)'
      BY <3>1 DEF Tiny
    <3> QED BY <1>8, <1>a, <1>f, <3>2 DEF ReconcileMatch, ReconcilerOK
  <2>7. TypeOK'
    BY <1>8, <1>a, <2>2, <2>5 DEF ReconcileMatch, TypeOK, Status
  <2>8. HandlerOK' /\ NoticesOK'
    BY <1>8, <1>a DEF ReconcileMatch, HandlerOK, NoticesOK
  <2> QED BY <1>8, <1>d, <1>e, <2>6, <2>7, <2>8 DEF ReconcileMatch, IInv
<1>9. ASSUME NEW x \in Entries, ReconcileUnmatched(x) \/ EventLost(x) PROVE IInv'
  <2>1. TypeOK'
    BY <1>9, <1>a, WithdrawalsAssumption DEF ReconcileUnmatched, EventLost, Fault, TypeOK
  <2>2. HandlerOK' /\ NoticesOK'
    BY <1>9, <1>a DEF ReconcileUnmatched, EventLost, HandlerOK, NoticesOK
  <2> QED BY <1>9, <1>d, <1>e, <1>g, <2>1, <2>2 DEF ReconcileUnmatched, EventLost, IInv
<1>10. CASE UNCHANGED vars
  <2>1. TypeOK' /\ HandlerOK' /\ NoticesOK'
    BY <1>10, <1>a DEF vars, TypeOK, HandlerOK, NoticesOK
  <2> QED BY <1>10, <1>d, <1>e, <1>g, <2>1 DEF vars, IInv
<1> QED BY <1>1, <1>2, <1>3, <1>4, <1>5, <1>6, <1>7, <1>8, <1>9, <1>10

-----------------------------------------------------------------------------
(***************************************************************************)
(* Steps of the provider: a withdrawal is taken, or it is sent.            *)
(***************************************************************************)
WdStep(x) ==
  \/ wd'[x] = wd[x]
  \/ wd[x].state = "none" /\ wd'[x].state = "taken" /\ wd'[x].amount >= Smallest
  \/ /\ wd[x].state = "taken" /\ wd'[x].state = "sent"
     /\ wd'[x].tx \in Txs /\ wd'[x].amount = wd[x].amount

LEMMA WdStepKeeps ==
  ASSUME IInv, exec' = exec, mined' = mined, \A x \in Entries : WdStep(x)
  PROVE  /\ WithdrawalOK' /\ RowOK'
         /\ link' = link /\ recon' = recon /\ bus' = bus => ReconcilerOK'
<1>a. TypeOK /\ WithdrawalOK /\ RowOK /\ ReconcilerOK
  BY DEF IInv
<1>1. WithdrawalOK'
  BY <1>a DEF WithdrawalOK, WdStep
<1>2. RowOK'
  <2>1. ASSUME NEW e \in Execs
        PROVE  /\ exec[e].status \in Live => wd'[e].state # "none" /\ wd'[e].amount = exec[e].amount
               /\ exec[e].txid # None =>
                    exec[e].status \in Live /\ wd'[e].state = "sent" /\ wd'[e].tx = exec[e].txid
    BY <1>a, Facts DEF RowOK, WdStep
  <2> QED BY <1>a, <2>1 DEF RowOK
<1>3. \A x, e : Tiny(x, e) => Tiny(x, e)'
  <2> SUFFICES ASSUME NEW x, NEW e, Tiny(x, e) PROVE Tiny(x, e)'
    OBVIOUS
  <2>1. x \in Entries /\ wd[x].state # "none" /\ WdStep(x)
    BY DEF Tiny
  <2>2. wd'[x].state # "none" /\ wd'[x].amount = wd[x].amount
    BY <2>1 DEF WdStep
  <2> QED BY <2>2 DEF Tiny
<1>4. \A x \in Entries : wd[x].state # "none" => wd'[x].state # "none"
  BY DEF WdStep
<1>5. ASSUME link' = link /\ recon' = recon /\ bus' = bus PROVE ReconcilerOK'
  <2>1. bus \subseteq Entries
    BY <1>a DEF TypeOK
  <2> QED BY <1>a, <1>3, <1>4, <1>5, <2>1 DEF ReconcilerOK
<1> QED BY <1>1, <1>2, <1>5

LEMMA ProviderStep ==
  ASSUME IInv,
         \/ ProviderTakes
         \/ \E f \in Foreign, a \in Amount : ForeignWithdrawal(f, a)
         \/ \E S \in SUBSET Execs, tx \in Txs : ProviderSends(S, tx)
  PROVE  IInv'
<1> USE DEF chainVars, ledgerVars
<1>a. TypeOK /\ WithdrawalOK /\ RowOK /\ HandlerOK /\ ReconcilerOK /\ NoticesOK
  BY DEF IInv
<1>b. PICK b \in Handler : b = backend
  BY <1>a DEF TypeOK
<1>c. b.entries \subseteq Entries
  BY DEF Handler
<1>1. CASE ProviderTakes
  <2>0. b.amount \in Amount
    <3>1. b.amount \in Int
      BY DEF Handler
    <3>2. b.amount >= Smallest /\ b.amount <= balance
      BY <1>1, <1>b DEF ProviderTakes
    <3> QED BY <3>1, <3>2, <1>a, Facts DEF TypeOK, Amount
  <2>1. PICK w \in Withdrawal : w = [state |-> "taken", amount |-> b.amount, tx |-> None]
    BY <2>0 DEF Withdrawal
  <2>2. w.state = "taken" /\ w.amount = b.amount /\ b.amount >= Smallest
    BY <2>1, <1>1, <1>b DEF ProviderTakes
  <2>3. b.exec \in Execs /\ b.exec \in Entries /\ wd[b.exec].state = "none" /\ exec[b.exec].status = "absent"
    BY <1>1, <1>a, <1>b DEF ProviderTakes, HandlerOK, Entries
  <2>4. wd' = [wd EXCEPT ![b.exec] = w]
    BY <1>1, <1>b, <2>1 DEF ProviderTakes
  <2>5. /\ wd' \in [Entries -> Withdrawal] /\ wd'[b.exec] = w
        /\ \A x \in Entries \ {b.exec} : wd'[x] = wd[x]
    BY <2>3, <2>4, <1>a DEF TypeOK
  <2>6. \A x \in Entries : WdStep(x)
    BY <2>2, <2>3, <2>5 DEF WdStep
  <2>7. PICK n \in Handler : n = [b EXCEPT !.pc = "taken"]
    BY DEF Handler
  <2>8. backend' = n /\ n.pc = "taken" /\ n.exec = b.exec /\ n.amount = b.amount /\ n.entries = b.entries
    BY <1>1, <1>b, <2>7 DEF ProviderTakes, Handler
  <2>9. balance' \in Amount
    BY <1>1, <1>a, <1>b, <2>2, Facts DEF ProviderTakes, TypeOK, Amount, Handler
  <2>10. TypeOK'
    BY <1>1, <1>a, <2>5, <2>8, <2>9 DEF ProviderTakes, TypeOK
  <2>11. HandlerOK'
    <3>1. exec' = exec
      BY <1>1 DEF ProviderTakes
    <3>2. \A x \in b.entries : wd'[x].state # "none"
      BY <1>a, <1>b, <1>c, <2>6 DEF HandlerOK, WdStep
    <3> QED BY <3>1, <3>2, <2>2, <2>3, <2>5, <2>8 DEF HandlerOK
  <2>12. NoticesOK'
    BY <1>1, <1>a DEF ProviderTakes, NoticesOK
  <2> QED BY <1>1, <2>6, <2>10, <2>11, <2>12, WdStepKeeps DEF ProviderTakes, IInv
<1>2. ASSUME NEW f \in Foreign, NEW a \in Amount, ForeignWithdrawal(f, a) PROVE IInv'
  <2>1. PICK w \in Withdrawal : w = [state |-> "taken", amount |-> a, tx |-> None]
    BY DEF Withdrawal
  <2>2. w.state = "taken" /\ w.amount = a /\ a >= Smallest /\ f \in Entries /\ f \notin Execs
    BY <2>1, <1>2, WithdrawalsAssumption DEF ForeignWithdrawal, Entries
  <2>3. wd' = [wd EXCEPT ![f] = w] /\ wd[f].state = "none"
    BY <1>2, <2>1 DEF ForeignWithdrawal
  <2>4. /\ wd' \in [Entries -> Withdrawal] /\ wd'[f] = w
        /\ \A x \in Entries \ {f} : wd'[x] = wd[x]
    BY <2>2, <2>3, <1>a DEF TypeOK
  <2>5. \A x \in Entries : WdStep(x)
    BY <2>2, <2>3, <2>4 DEF WdStep
  <2>6. TypeOK'
    BY <1>2, <1>a, <2>2, <2>4, Facts DEF ForeignWithdrawal, TypeOK, Amount
  <2>7. HandlerOK'
    <3>1. exec' = exec /\ backend' = backend
      BY <1>2 DEF ForeignWithdrawal
    <3>2. \A x \in b.entries : wd'[x].state # "none"
      BY <1>a, <1>b, <1>c, <2>5 DEF HandlerOK, WdStep
    <3>3. \A e \in Execs : wd'[e] = wd[e]
      BY <2>2, <2>4 DEF Entries
    <3> QED BY <3>1, <3>2, <3>3, <1>a, <1>b DEF HandlerOK
  <2>8. NoticesOK'
    BY <1>2, <1>a DEF ForeignWithdrawal, NoticesOK
  <2> QED BY <1>2, <2>5, <2>6, <2>7, <2>8, WdStepKeeps DEF ForeignWithdrawal, IInv
<1>3. ASSUME NEW S \in SUBSET Execs, NEW tx \in Txs, ProviderSends(S, tx) PROVE IInv'
  <2>1. ASSUME NEW x \in Entries PROVE wd'[x] \in Withdrawal /\ WdStep(x)
    <3>1. PICK v \in Withdrawal : v = wd[x]
      BY <1>a, Facts
    <3>2. CASE x \in S
      <4>1. PICK w \in Withdrawal : w = [v EXCEPT !.state = "sent", !.tx = tx]
        BY DEF Withdrawal
      <4>2. w.state = "sent" /\ w.tx = tx /\ w.amount = v.amount
        BY <4>1 DEF Withdrawal
      <4>3. wd'[x] = w /\ v.state = "taken"
        BY <1>3, <3>1, <3>2, <4>1 DEF ProviderSends
      <4> QED BY <3>1, <4>2, <4>3 DEF WdStep
    <3>3. CASE x \notin S
      BY <1>3, <3>1, <3>3 DEF ProviderSends, WdStep
    <3> QED BY <3>2, <3>3
  <2>2. wd' \in [Entries -> Withdrawal]
    <3>1. wd' = [x \in Entries |-> wd'[x]]
      BY <1>3 DEF ProviderSends
    <3> QED BY <2>1, <3>1
  <2>3. notices' \in [Txs -> 0 .. 2] /\ NoticesOK'
    <3>1. notices' = [notices EXCEPT ![tx] = 1] /\ mined' = mined
      BY <1>3 DEF ProviderSends
    <3>2. notices \in [Txs -> 0 .. 2]
      BY <1>a DEF TypeOK
    <3> QED BY <1>a, <3>1, <3>2 DEF NoticesOK
  <2>4. TypeOK'
    BY <1>3, <1>a, <2>2, <2>3 DEF ProviderSends, TypeOK
  <2>5. HandlerOK'
    <3>1. exec' = exec /\ backend' = backend
      BY <1>3 DEF ProviderSends
    <3>2. \A x \in b.entries : wd'[x].state # "none"
      BY <1>a, <1>b, <1>c, <2>1 DEF HandlerOK, WdStep
    <3>3. b.pc = "call" => wd'[b.exec].state = "none"
      <4>1. \A e \in Execs : wd[e].state = "none" => wd'[e] = wd[e]
        BY <1>3, <1>a, Facts DEF ProviderSends
      <4> QED BY <1>a, <1>b, <4>1 DEF HandlerOK
    <3>4. b.pc = "taken" => wd'[b.exec].state # "none" /\ wd'[b.exec].amount = b.amount
      BY <1>a, <1>b, <2>1, Facts DEF HandlerOK, WdStep
    <3> QED BY <3>1, <3>2, <3>3, <3>4, <1>a, <1>b DEF HandlerOK
  <2> QED BY <1>3, <2>1, <2>3, <2>4, <2>5, WdStepKeeps DEF ProviderSends, IInv
<1> QED BY <1>1, <1>2, <1>3

-----------------------------------------------------------------------------
(***************************************************************************)
(* Steps that write executions.                                            *)
(***************************************************************************)
RowStep(e) ==
  \/ exec'[e] = exec[e]
  \/ exec[e].status = "absent"
  \/ exec[e].status \in Live /\ exec'[e].status \in Live /\ exec'[e].amount = exec[e].amount

LEMMA RowStepKeeps ==
  ASSUME IInv, wd' = wd, \A e \in Execs : RowStep(e)
  PROVE  /\ WithdrawalOK'
         /\ \A x, e : Tiny(x, e) => Tiny(x, e)'
<1>1. WithdrawalOK'
  BY DEF IInv, WithdrawalOK
<1>2. ASSUME NEW x, NEW e, Tiny(x, e) PROVE Tiny(x, e)'
  <2>1. e \in Execs /\ exec[e].status \in Live /\ RowStep(e)
    BY <1>2 DEF Tiny
  <2>2. exec'[e].status \in Live /\ exec'[e].amount = exec[e].amount
    BY <2>1 DEF RowStep, Live
  <2> QED BY <1>2, <2>2 DEF Tiny
<1> QED BY <1>1, <1>2

LEMMA ExecuteEnds ==
  ASSUME IInv, ExecuteCommit \/ ExecuteFails
  PROVE  IInv' /\ \A e \in Execs : exec'[e] = exec[e] \/ exec[e].status = "absent"
<1> USE DEF chainVars, ledgerVars
<1>a. TypeOK /\ WithdrawalOK /\ RowOK /\ HandlerOK /\ ReconcilerOK /\ NoticesOK
  BY DEF IInv
<1>b. PICK b \in Handler : b = backend
  BY <1>a DEF TypeOK
<1>1. PICK row \in Row :
        /\ exec' = [exec EXCEPT ![b.exec] = row]
        /\ row.txid = None
        /\ \/ row.status = "failed"
           \/ row.status = "requested" /\ row.amount = b.amount /\ b.pc = "taken"
  <2>1. b.amount \in Int
    BY DEF Handler
  <2>2. CASE ExecuteCommit
    <3>1. PICK row \in Row : row = [status |-> "requested", amount |-> b.amount, wid |-> "set", txid |-> None]
      BY <2>1 DEF Row, Status
    <3> QED BY <2>2, <3>1, <1>b DEF ExecuteCommit
  <2>3. CASE ExecuteFails
    <3>1. PICK row \in Row : row = [status |-> "failed", amount |-> b.amount, wid |-> "none", txid |-> None]
      BY <2>1 DEF Row, Status
    <3> QED BY <2>3, <3>1, <1>b DEF ExecuteFails
  <2> QED BY <2>2, <2>3
<1>2. /\ b.exec \in Execs /\ exec[b.exec].status = "absent"
      /\ b.pc = "taken" => wd[b.exec].state # "none" /\ wd[b.exec].amount = b.amount
  BY <1>a, <1>b DEF ExecuteCommit, ExecuteFails, HandlerOK
<1>3. /\ exec' \in [Execs -> Row] /\ exec'[b.exec] = row
      /\ \A e \in Execs \ {b.exec} : exec'[e] = exec[e]
  BY <1>1, <1>2, <1>a DEF TypeOK
<1>4. UNCHANGED <<balance, known, wd, mined, notices, entry, link, bus, recon, faults>> /\ backend' = Idle
  BY DEF ExecuteCommit, ExecuteFails
<1>5. \A e \in Execs : RowStep(e)
  BY <1>2, <1>3 DEF RowStep
<1>6. Idle \in Handler /\ Idle.pc = "idle" /\ Idle.entries = {}
  BY DEF Idle, Handler
<1>7. TypeOK'
  BY <1>a, <1>3, <1>4, <1>6 DEF TypeOK
<1>8. RowOK'
  <2>1. ASSUME NEW e \in Execs
        PROVE  /\ exec'[e].status \in Live => wd[e].state # "none" /\ wd[e].amount = exec'[e].amount
               /\ exec'[e].txid # None =>
                    exec'[e].status \in Live /\ wd[e].state = "sent" /\ wd[e].tx = exec'[e].txid
               /\ exec'[e].status \in {"onchain_pending", "completed"} => exec'[e].txid # None
               /\ exec'[e].status = "completed" => exec'[e].txid \in mined
    <3>1. CASE e = b.exec
      BY <1>1, <1>2, <1>3, <3>1 DEF Live
    <3>2. CASE e # b.exec
      BY <1>a, <1>3, <3>2 DEF RowOK
    <3> QED BY <3>1, <3>2
  <2> QED BY <1>4, <2>1 DEF RowOK
<1>9. HandlerOK'
  BY <1>4, <1>6 DEF HandlerOK
<1>10. ReconcilerOK'
  BY <1>a, <1>4, <1>5, RowStepKeeps DEF ReconcilerOK
<1>11. NoticesOK'
  BY <1>a, <1>4 DEF NoticesOK
<1> QED BY <1>2, <1>3, <1>4, <1>5, <1>7, <1>8, <1>9, <1>10, <1>11, RowStepKeeps DEF IInv

LEMMA PollCheckStep ==
  ASSUME IInv, NEW answered \in BOOLEAN, PollCheck(answered)
  PROVE  /\ IInv'
         /\ \A e \in Execs : \/ exec'[e] = exec[e]
                             \/ exec[e].status = "requested" /\ exec'[e].status = "onchain_pending"
<1> USE DEF chainVars, ledgerVars
<1>a. TypeOK /\ WithdrawalOK /\ RowOK /\ HandlerOK /\ ReconcilerOK /\ NoticesOK
  BY DEF IInv
<1>1. ASSUME NEW e \in Execs
      PROVE  /\ exec'[e] \in Row
             /\ \/ exec'[e] = exec[e]
                \/ /\ exec[e].status = "requested" /\ exec'[e].status = "onchain_pending"
                   /\ exec'[e].amount = exec[e].amount
                   /\ exec'[e].txid = wd[e].tx /\ wd[e].state = "sent" /\ wd[e].tx \in Txs
  <2>1. PICK old \in Row : old = exec[e]
    BY <1>a, Facts
  <2>2. CASE answered /\ AwaitsTxid(e) /\ wd[e].state = "sent"
    <3>1. wd[e].tx \in Txs
      BY <2>2, <1>a, Facts DEF WithdrawalOK
    <3>2. PICK new \in Row : new = [old EXCEPT !.status = "onchain_pending", !.txid = wd[e].tx]
      BY <3>1 DEF Row, Status
    <3>3. new.status = "onchain_pending" /\ new.amount = old.amount /\ new.txid = wd[e].tx
      BY <3>2 DEF Row
    <3>4. exec'[e] = new
      BY <2>1, <2>2, <3>2 DEF PollCheck
    <3> QED BY <2>1, <2>2, <3>1, <3>3, <3>4 DEF AwaitsTxid
  <2>3. CASE ~(answered /\ AwaitsTxid(e) /\ wd[e].state = "sent")
    BY <2>1, <2>3 DEF PollCheck
  <2> QED BY <2>2, <2>3
<1>2. exec' \in [Execs -> Row]
  <2>1. exec' = [e \in Execs |-> exec'[e]]
    BY DEF PollCheck
  <2> QED BY <1>1, <2>1
<1>3. UNCHANGED <<balance, known, wd, mined, notices, entry, link, bus, recon, faults>> /\ backend' = Idle
  BY DEF PollCheck
<1>4. Idle \in Handler /\ Idle.pc = "idle" /\ Idle.entries = {}
  BY DEF Idle, Handler
<1>5. TypeOK'
  BY <1>a, <1>2, <1>3, <1>4 DEF TypeOK
<1>6. RowOK'
  <2>1. ASSUME NEW e \in Execs
        PROVE  /\ exec'[e].status \in Live => wd[e].state # "none" /\ wd[e].amount = exec'[e].amount
               /\ exec'[e].txid # None =>
                    exec'[e].status \in Live /\ wd[e].state = "sent" /\ wd[e].tx = exec'[e].txid
               /\ exec'[e].status \in {"onchain_pending", "completed"} => exec'[e].txid # None
               /\ exec'[e].status = "completed" => exec'[e].txid \in mined
    BY <1>1, <1>a, Facts DEF RowOK, Live
  <2> QED BY <1>3, <2>1 DEF RowOK
<1>7. \A e \in Execs : RowStep(e)
  BY <1>1 DEF RowStep, Live
<1>8. HandlerOK' /\ NoticesOK'
  BY <1>a, <1>3, <1>4 DEF HandlerOK, NoticesOK
<1>9. ReconcilerOK'
  BY <1>a, <1>3, <1>7, RowStepKeeps DEF ReconcilerOK
<1> QED BY <1>1, <1>3, <1>5, <1>6, <1>7, <1>8, <1>9, RowStepKeeps DEF IInv

LEMMA ListenerStep ==
  ASSUME IInv, NEW tx \in Txs, ListenerHandles(tx)
  PROVE  /\ IInv'
         /\ \A e \in Execs : \/ exec'[e] = exec[e]
                             \/ exec[e].status = "onchain_pending" /\ exec'[e].status = "completed"
<1> USE DEF chainVars, ledgerVars
<1>a. TypeOK /\ WithdrawalOK /\ RowOK /\ HandlerOK /\ ReconcilerOK /\ NoticesOK
  BY DEF IInv
<1>1. ASSUME NEW e \in Execs
      PROVE  /\ exec'[e] \in Row
             /\ \/ exec'[e] = exec[e]
                \/ /\ exec[e].status = "onchain_pending" /\ exec'[e].status = "completed"
                   /\ exec'[e].amount = exec[e].amount
                   /\ exec'[e].txid = exec[e].txid /\ exec[e].txid \in mined
  <2>1. PICK old \in Row : old = exec[e]
    BY <1>a, Facts
  <2>2. CASE Completes(e, tx)
    <3>1. PICK new \in Row : new = [old EXCEPT !.status = "completed"]
      BY DEF Row, Status
    <3>2. new.status = "completed" /\ new.amount = old.amount /\ new.txid = old.txid
      BY <3>1 DEF Row
    <3>3. exec'[e] = new
      BY <2>1, <2>2, <3>1 DEF ListenerHandles
    <3>4. old.txid = tx /\ tx \in mined /\ old.status = "onchain_pending"
      BY <2>1, <2>2 DEF Completes, ByExpectedTxid
    <3> QED BY <2>1, <3>2, <3>3, <3>4
  <2>3. CASE ~Completes(e, tx)
    BY <2>1, <2>3 DEF ListenerHandles
  <2> QED BY <2>2, <2>3
<1>2. exec' \in [Execs -> Row]
  <2>1. exec' = [e \in Execs |-> exec'[e]]
    BY DEF ListenerHandles
  <2> QED BY <1>1, <2>1
<1>3. /\ UNCHANGED <<balance, known, wd, mined, entry, link, bus, recon, faults, backend>>
      /\ notices' = [notices EXCEPT ![tx] = notices[tx] - 1] /\ notices[tx] > 0
  BY DEF ListenerHandles
<1>4. notices' \in [Txs -> 0 .. 2] /\ NoticesOK'
  <2>1. notices \in [Txs -> 0 .. 2]
    BY <1>a DEF TypeOK
  <2> QED BY <1>a, <1>3, <2>1 DEF NoticesOK
<1>5. TypeOK'
  BY <1>a, <1>2, <1>3, <1>4 DEF TypeOK
<1>6. RowOK'
  <2>1. ASSUME NEW e \in Execs
        PROVE  /\ exec'[e].status \in Live => wd[e].state # "none" /\ wd[e].amount = exec'[e].amount
               /\ exec'[e].txid # None =>
                    exec'[e].status \in Live /\ wd[e].state = "sent" /\ wd[e].tx = exec'[e].txid
               /\ exec'[e].status \in {"onchain_pending", "completed"} => exec'[e].txid # None
               /\ exec'[e].status = "completed" => exec'[e].txid \in mined
    BY <1>1, <1>a, Facts DEF RowOK, Live
  <2> QED BY <1>3, <2>1 DEF RowOK
<1>7. \A e \in Execs : RowStep(e)
  BY <1>1 DEF RowStep, Live
<1>8. HandlerOK'
  <2>1. ASSUME NEW e \in Execs, exec[e].status = "absent" PROVE exec'[e].status = "absent"
    BY <1>1, <2>1
  <2> QED BY <1>a, <1>3, <2>1 DEF HandlerOK
<1>9. ReconcilerOK'
  BY <1>a, <1>3, <1>7, RowStepKeeps DEF ReconcilerOK
<1> QED BY <1>1, <1>3, <1>4, <1>5, <1>6, <1>7, <1>8, <1>9, RowStepKeeps DEF IInv

LEMMA ReconcileCommitStep ==
  ASSUME IInv, ReconcileCommit
  PROVE  IInv' /\ Tiny(recon.entry, recon.exec)
<1> USE DEF chainVars, ledgerVars
<1>a. TypeOK /\ WithdrawalOK /\ RowOK /\ HandlerOK /\ ReconcilerOK /\ NoticesOK
  BY DEF IInv
<1>b. PICK rx \in Entries, re \in Execs : rx = recon.entry /\ re = recon.exec /\ Tiny(rx, re)
  BY <1>a DEF ReconcileCommit, ReconcilerOK, Tiny
<1>1. PICK row \in Row :
        /\ exec' = [exec EXCEPT ![re] = row]
        /\ row.amount = exec[re].amount /\ row.txid = exec[re].txid
        /\ row.status = exec[re].status \/ row.status = "dispatched"
  <2>1. PICK old \in Row : old = exec[re]
    BY <1>a, Facts
  <2>2. CASE recon.seen = "dispatched"
    <3>1. exec' = [exec EXCEPT ![re] = old]
      BY <1>a, <2>1, <2>2 DEF ReconcileCommit, TypeOK
    <3> QED BY <2>1, <3>1
  <2>3. CASE recon.seen # "dispatched"
    <3>1. PICK new \in Row : new = [old EXCEPT !.status = "dispatched"]
      BY DEF Row, Status
    <3>2. new.status = "dispatched" /\ new.amount = old.amount /\ new.txid = old.txid
      BY <3>1 DEF Row
    <3>3. exec' = [exec EXCEPT ![re] = new]
      BY <1>b, <2>1, <2>3, <3>1 DEF ReconcileCommit
    <3> QED BY <2>1, <3>2, <3>3
  <2> QED BY <2>2, <2>3
<1>2. /\ exec' \in [Execs -> Row] /\ exec'[re] = row
      /\ \A e \in Execs \ {re} : exec'[e] = exec[e]
  BY <1>1, <1>a DEF TypeOK
<1>3. /\ UNCHANGED <<balance, known, wd, mined, notices, bus, faults, backend>>
      /\ recon' = NoMatch
      /\ entry' = [entry EXCEPT ![rx] = "reconciled"]
      /\ link' = [link EXCEPT ![rx] = re]
  BY <1>b DEF ReconcileCommit
<1>4. exec[re].status \in Live /\ row.status \in Live
  BY <1>b, <1>1 DEF Tiny, Live
<1>5. \A e \in Execs : RowStep(e)
  BY <1>1, <1>2, <1>4 DEF RowStep
<1>6. TypeOK'
  <2>1. NoMatch \in [entry : Entries \cup {None}, exec : Execs \cup {None}, seen : Status]
    BY DEF NoMatch, Status
  <2>2. entry' \in [Entries -> {"absent", "new", "reconciled"}] /\ link' \in [Entries -> Execs \cup {None}]
    BY <1>a, <1>3 DEF TypeOK
  <2> QED BY <1>a, <1>2, <1>3, <2>1, <2>2 DEF TypeOK
<1>7. RowOK'
  <2>1. ASSUME NEW e \in Execs
        PROVE  /\ exec'[e].status \in Live => wd[e].state # "none" /\ wd[e].amount = exec'[e].amount
               /\ exec'[e].txid # None =>
                    exec'[e].status \in Live /\ wd[e].state = "sent" /\ wd[e].tx = exec'[e].txid
               /\ exec'[e].status \in {"onchain_pending", "completed"} => exec'[e].txid # None
               /\ exec'[e].status = "completed" => exec'[e].txid \in mined
    <3>1. CASE e = re
      BY <1>a, <1>1, <1>2, <1>4, <3>1 DEF RowOK, Live
    <3>2. CASE e # re
      BY <1>a, <1>2, <3>2 DEF RowOK
    <3> QED BY <3>1, <3>2
  <2> QED BY <1>3, <2>1 DEF RowOK
<1>8. HandlerOK'
  <2>1. ASSUME NEW e \in Execs, exec[e].status = "absent" PROVE exec'[e].status = "absent"
    BY <1>2, <1>4, <2>1 DEF Live
  <2> QED BY <1>a, <1>3, <2>1 DEF HandlerOK
<1>9. ReconcilerOK'
  <2>1. \A x, e : Tiny(x, e) => Tiny(x, e)'
    BY <1>3, <1>5, RowStepKeeps
  <2>2. Tiny(rx, re)'
    BY <1>b, <2>1
  <2>3. link \in [Entries -> Execs \cup {None}]
    BY <1>a DEF TypeOK
  <2>4. ASSUME NEW x \in Entries, link'[x] # None PROVE Tiny(x, link[x])'
    <3>1. CASE x = rx
      <4>1. link'[x] = re
        BY <1>3, <2>3, <3>1
      <4> QED BY <2>2, <3>1, <4>1 DEF Tiny
    <3>2. CASE x # rx
      <4>1. link'[x] = link[x]
        BY <1>3, <2>3, <3>2
      <4>2. Tiny(x, link[x])
        BY <1>a, <2>4, <4>1 DEF ReconcilerOK
      <4>3. PICK l \in Execs : l = link[x]
        BY <4>2 DEF Tiny
      <4>4. Tiny(x, l)'
        BY <2>1, <4>2, <4>3
      <4> QED BY <4>1, <4>3, <4>4 DEF Tiny
    <3> QED BY <3>1, <3>2
  <2> QED BY <1>a, <1>3, <2>4 DEF ReconcilerOK
<1>10. NoticesOK'
  BY <1>a, <1>3 DEF NoticesOK
<1> QED BY <1>b, <1>3, <1>5, <1>6, <1>7, <1>8, <1>9, <1>10, RowStepKeeps DEF IInv

-----------------------------------------------------------------------------
\* Every step is of one of these kinds.
QuietNext ==
  \/ \E e \in Execs : \E a \in Explicit \cup {SweepAmount} : ExecuteBegin(e, a)
  \/ BackendCrash \/ ProviderRefuses \/ AnswerLost \/ Deposit
  \/ \E tx \in Txs : Mine(tx) \/ NoticeLost(tx)
  \/ Fetch \/ PollPublish
  \/ \E x \in Entries : \E e \in Execs : ReconcileMatch(x, e)
  \/ \E x \in Entries : ReconcileUnmatched(x) \/ EventLost(x)
  \/ UNCHANGED vars

TakeNext ==
  \/ ProviderTakes
  \/ \E f \in Foreign, a \in Amount : ForeignWithdrawal(f, a)
  \/ \E S \in SUBSET Execs, tx \in Txs : ProviderSends(S, tx)

LEMMA QuietFrame == QuietNext => wd' = wd /\ exec' = exec
BY DEF QuietNext, ExecuteBegin, BackendCrash, ProviderRefuses, AnswerLost, Deposit, Mine,
       NoticeLost, Fetch, PollFetch, PollPublish, ReconcileMatch, ReconcileUnmatched,
       EventLost, vars

LEMMA TakeFrame == TakeNext => exec' = exec
BY DEF TakeNext, ProviderTakes, ForeignWithdrawal, ProviderSends

LEMMA StepKinds ==
  [Next]_vars => \/ QuietNext \/ TakeNext
                 \/ ExecuteCommit \/ ExecuteFails
                 \/ \E answered \in BOOLEAN : PollCheck(answered)
                 \/ \E tx \in Txs : ListenerHandles(tx)
                 \/ ReconcileCommit
BY DEF Next, ExecuteNext, ProviderNext, PollNext, ReconcileNext, QuietNext, TakeNext

LEMMA NextIInv == IInv /\ [Next]_vars => IInv'
<1> SUFFICES ASSUME IInv, [Next]_vars PROVE IInv'
  OBVIOUS
<1>1. CASE QuietNext
  BY <1>1, QuietFrame, QuietStep DEF QuietNext
<1>2. CASE TakeNext
  BY <1>2, ProviderStep DEF TakeNext
<1> QED BY <1>1, <1>2, StepKinds, ExecuteEnds, PollCheckStep, ListenerStep, ReconcileCommitStep

-----------------------------------------------------------------------------
(***************************************************************************)
(* Theorems.                                                               *)
(***************************************************************************)

\* The inductive invariant holds: rows, withdrawals, the running handler and
\* the reconciler agree about amounts and transaction ids.
THEOREM WithdrawalsIInv == Spec => []IInv
<1>1. Init => IInv
  BY InitIInv
<1>2. IInv /\ [Next]_vars => IInv'
  BY NextIInv
<1> QED BY <1>1, <1>2, PTL DEF Spec

\* Tables, handler and messages keep their types, in particular the stored
\* balance stays one the provider reported.
THEOREM WithdrawalsTypeOK == Spec => []TypeOK
BY WithdrawalsIInv, PTL DEF IInv

\* The listener completes only executions whose own withdrawal, with the
\* execution's amount, is in a block.
THEOREM WithdrawalsCompletedIsConfirmed == Spec => []CompletedIsConfirmed
<1>1. IInv => CompletedIsConfirmed
  BY DEF IInv, RowOK, Live, CompletedIsConfirmed
<1> QED BY <1>1, WithdrawalsIInv, PTL

\* The reconciler never links an entry unless both amounts fit into the floor.
THEOREM WithdrawalsLinkedIsTiny == Spec => []LinkedIsTiny
<1>1. IInv => LinkedIsTiny
  BY DEF IInv, ReconcilerOK, Tiny, LinkedIsTiny
<1> QED BY <1>1, WithdrawalsIInv, PTL

\* Only a step of the reconciler's commit moves an execution backward, and only
\* the one it links.
LEMMA BackwardIsALink ==
  ASSUME IInv, IInv', [Next]_vars, NEW e \in Execs
  PROVE  MovesForward(e) \/ (ReconcileCommit /\ recon.exec = e)
<1>1. CASE QuietNext \/ TakeNext
  BY <1>1, QuietFrame, TakeFrame DEF MovesForward
<1>2. CASE ExecuteCommit \/ ExecuteFails
  <2>1. exec'[e] = exec[e] \/ exec[e].status = "absent"
    BY <1>2, ExecuteEnds
  <2>2. exec'[e].status \in Status
    BY DEF IInv, TypeOK, Row
  <2> QED BY <2>1, <2>2 DEF Rank, Status, MovesForward
<1>3. CASE \E answered \in BOOLEAN : PollCheck(answered)
  BY <1>3, PollCheckStep DEF Rank, MovesForward
<1>4. CASE \E tx \in Txs : ListenerHandles(tx)
  BY <1>4, ListenerStep DEF Rank, MovesForward
<1>5. CASE ReconcileCommit
  <2>1. exec' = exec \/ exec' = [exec EXCEPT ![recon.exec].status = "dispatched"]
    BY <1>5 DEF ReconcileCommit
  <2>2. recon.exec # e => exec'[e] = exec[e]
    BY <2>1 DEF IInv, TypeOK
  <2> QED BY <1>5, <2>2 DEF MovesForward
<1>6. CASE UNCHANGED vars
  BY <1>6 DEF vars, MovesForward
<1> QED BY <1>1, <1>2, <1>3, <1>4, <1>5, <1>6, StepKinds

\* Executions only move forward and finished ones stay, although every status
\* update is unconditional, unless the reconciler links a tiny amount.
THEOREM WithdrawalsExecForward == Spec => ExecForward
<1> DEFINE Exact == \A e \in Execs :
       \/ MovesForward(e)
       \/ recon.exec = e /\ wd[recon.entry].amount + exec[e].amount <= Floor
<1>1. ASSUME IInv, IInv', [Next]_vars PROVE [Exact]_vars
  <2>1. ASSUME NEW e \in Execs, ReconcileCommit, recon.exec = e
        PROVE  wd[recon.entry].amount + exec[e].amount <= Floor
    BY <1>1, <2>1 DEF ReconcileCommit, IInv, ReconcilerOK, Tiny
  <2> QED BY <1>1, <2>1, BackwardIsALink
<1> QED BY <1>1, WithdrawalsIInv, PTL DEF Spec, ExecForward

\* When two withdrawals never fit into the floor, no execution moves backward.
THEOREM WithdrawalsNeverBack ==
  ASSUME Floor < 2 * Smallest
  PROVE  Spec => [][\A e \in Execs : MovesForward(e)]_vars
<1> DEFINE Forward == \A e \in Execs : MovesForward(e)
<1>1. ASSUME IInv, IInv', [Next]_vars PROVE [Forward]_vars
  <2>1. ~ReconcileCommit
    <3> SUFFICES ASSUME ReconcileCommit PROVE FALSE
      OBVIOUS
    <3>1. PICK x \in Entries, e \in Execs :
            /\ wd[x].state # "none" /\ exec[e].status \in Live
            /\ wd[x].amount + exec[e].amount <= Floor
      BY <1>1, ReconcileCommitStep DEF Tiny
    <3>2. /\ wd[x].amount \in Nat /\ wd[e].amount \in Nat
          /\ Smallest \in Nat /\ Floor \in Nat
          /\ wd[x].amount >= Smallest /\ wd[e].amount >= Smallest
          /\ exec[e].amount = wd[e].amount
      BY <1>1, <3>1, Facts DEF IInv, WithdrawalOK, RowOK
    <3> QED BY <3>1, <3>2
  <2> QED BY <1>1, <2>1, BackwardIsALink
<1> QED BY <1>1, WithdrawalsIInv, PTL DEF Spec

-----------------------------------------------------------------------------
(***************************************************************************)
(* Withdrawals that nothing follows.  A lost answer is paid for when it is *)
(* lost, before the row says FAILED: Doomed counts it from there on.       *)
(***************************************************************************)
Doomed ==
  {e \in Execs : /\ wd[e].state # "none" /\ exec[e].status \in {"absent", "failed"}
                 /\ backend.exec # e \/ backend.pc = "error"}

FreeHandler == backend.pc \in {"idle", "publish", "check"} => backend.exec = None

LostInv == FreeHandler /\ IsFiniteSet(Doomed) /\ Cardinality(Doomed) <= faults

LEMMA InitLost == Init => LostInv
<1> SUFFICES ASSUME Init PROVE LostInv
  OBVIOUS
<1>1. Doomed = {}
  BY DEF Init, Doomed, NoWithdrawal, Entries
<1>2. FreeHandler
  BY DEF Init, FreeHandler, Idle
<1> QED BY <1>1, <1>2, FS_EmptySet DEF LostInv, Init

\* A step that costs a fault may lose one more withdrawal, any other step none.
LEMMA LostStep ==
  ASSUME LostInv, TypeOK, FreeHandler', faults' \in Int,
         \/ Doomed' \subseteq Doomed /\ faults' >= faults
         \/ Doomed' \subseteq Doomed \cup {backend.exec} /\ faults' = faults + 1
  PROVE  LostInv'
<1>0. faults \in Int
  BY WithdrawalsAssumption DEF TypeOK
<1>1. PICK D : D = Doomed /\ IsFiniteSet(D) /\ Cardinality(D) <= faults /\ Cardinality(D) \in Nat
  BY FS_CardinalityType DEF LostInv
<1>2. PICK E : E = Doomed'
  OBVIOUS
<1>3. CASE E \subseteq D /\ faults' >= faults
  <2>1. IsFiniteSet(E) /\ Cardinality(E) <= Cardinality(D)
    BY <1>1, <1>3, FS_Subset
  <2>2. Cardinality(E) \in Nat
    BY <2>1, FS_CardinalityType
  <2>3. Cardinality(E) <= faults'
    BY <1>0, <1>1, <1>3, <2>1, <2>2
  <2> QED BY <1>2, <2>1, <2>3 DEF LostInv
<1>4. CASE E \subseteq D \cup {backend.exec} /\ faults' = faults + 1
  <2>1. PICK F : F = D \cup {backend.exec}
    OBVIOUS
  <2>2. IsFiniteSet(F) /\ Cardinality(F) <= Cardinality(D) + 1
    BY <1>1, <2>1, FS_AddElement
  <2>3. IsFiniteSet(E) /\ Cardinality(E) <= Cardinality(F)
    BY <1>4, <2>1, <2>2, FS_Subset
  <2>4. Cardinality(E) \in Nat /\ Cardinality(F) \in Nat
    BY <2>2, <2>3, FS_CardinalityType
  <2>5. Cardinality(E) <= faults'
    BY <1>0, <1>1, <1>4, <2>2, <2>3, <2>4
  <2> QED BY <1>2, <2>3, <2>5 DEF LostInv
<1> QED BY <1>1, <1>2, <1>3, <1>4

LEMMA NextLost == IInv /\ LostInv /\ [Next]_vars => LostInv'
<1> SUFFICES ASSUME IInv, LostInv, [Next]_vars PROVE LostInv'
  OBVIOUS
<1> USE DEF chainVars, ledgerVars
<1>a. TypeOK /\ HandlerOK /\ RowOK
  BY DEF IInv
<1>b. PICK b \in Handler : b = backend
  BY <1>a DEF TypeOK
<1>c. faults \in Nat
  BY <1>a, WithdrawalsAssumption DEF TypeOK
<1>d. Idle.pc = "idle" /\ Idle.exec = None
  BY DEF Idle
<1>e. None \notin Execs
  BY WithdrawalsAssumption
<1>1. ASSUME NEW e \in Execs, NEW a, ExecuteBegin(e, a)
      PROVE  LostInv'
  <2>1. backend' = [pc |-> "call", exec |-> e, amount |-> a, entries |-> {}]
    BY <1>1 DEF ExecuteBegin, Idle
  <2>2. backend'.pc = "call" /\ backend'.exec = e /\ backend.exec = None /\ wd[e].state = "none"
    BY <1>1, <2>1 DEF ExecuteBegin, LostInv, FreeHandler
  <2>3. Doomed' \subseteq Doomed /\ faults' = faults
    BY <1>1, <1>e, <2>2 DEF ExecuteBegin, Doomed
  <2> QED BY <1>a, <1>c, <2>2, <2>3, LostStep DEF FreeHandler
<1>2. CASE BackendCrash
  <2>1. Doomed' \subseteq Doomed \cup {backend.exec} /\ faults' = faults + 1 /\ backend' = Idle
    BY <1>2 DEF BackendCrash, Fault, Doomed
  <2> QED BY <1>a, <1>c, <1>d, <2>1, LostStep DEF FreeHandler
<1>3. CASE ProviderRefuses
  <2>1. backend'.pc = "error" /\ backend'.exec = b.exec /\ b.pc = "call"
    BY <1>3, <1>b DEF ProviderRefuses, Handler
  <2>2. wd[b.exec].state = "none"
    BY <1>a, <1>b, <2>1 DEF HandlerOK
  <2>3. Doomed' \subseteq Doomed /\ faults' = faults
    BY <1>3, <1>b, <2>1, <2>2 DEF ProviderRefuses, Doomed
  <2> QED BY <1>a, <1>c, <2>1, <2>3, LostStep DEF FreeHandler
<1>4. CASE AnswerLost
  <2>1. backend'.pc = "error" /\ backend'.exec = b.exec
    BY <1>4, <1>b DEF AnswerLost, Handler
  <2>2. Doomed' \subseteq Doomed \cup {backend.exec} /\ faults' = faults + 1
    BY <1>4, <1>b, <2>1 DEF AnswerLost, Fault, Doomed
  <2> QED BY <1>a, <1>c, <2>1, <2>2, LostStep DEF FreeHandler
<1>5. ASSUME UNCHANGED <<wd, exec, backend>>, faults' = faults \/ faults' = faults + 1
      PROVE  LostInv'
  <2>1. Doomed' = Doomed /\ FreeHandler'
    BY <1>5 DEF Doomed, LostInv, FreeHandler
  <2> QED BY <1>a, <1>c, <1>5, <2>1, LostStep
<1>6. CASE Deposit \/ \E tx \in Txs : Mine(tx) \/ NoticeLost(tx)
  BY <1>5, <1>6 DEF Deposit, Mine, NoticeLost, Fault
<1>7. CASE Fetch
  <2>1. PICK new \in SUBSET Entries : PollFetch(new)
    BY <1>7 DEF Fetch
  <2>2. backend' = [pc |-> "publish", exec |-> None, amount |-> 0, entries |-> new]
    BY <2>1 DEF PollFetch, Idle
  <2>a. backend'.pc = "publish" /\ backend'.exec = None
    BY <2>2
  <2>b. backend.pc = "idle"
    BY <2>1 DEF PollFetch, Idle
  <2>3. backend'.pc = "publish" /\ backend'.exec = None /\ backend.exec = None
    BY <2>a, <2>b DEF LostInv, FreeHandler
  <2>4. Doomed' \subseteq Doomed /\ faults' = faults
    BY <1>e, <2>1, <2>3 DEF PollFetch, Doomed
  <2> QED BY <1>a, <1>c, <2>3, <2>4, LostStep DEF FreeHandler
<1>8. CASE PollPublish
  <2>2. backend' = [pc |-> "check", exec |-> None, amount |-> 0, entries |-> {}]
    BY <1>8 DEF PollPublish, Idle
  <2>3. backend'.pc = "check" /\ backend'.exec = None /\ backend.exec = None
    BY <1>8, <2>2 DEF PollPublish, LostInv, FreeHandler
  <2>4. Doomed' \subseteq Doomed /\ faults' = faults
    BY <1>8, <1>e, <2>3 DEF PollPublish, Doomed
  <2> QED BY <1>a, <1>c, <2>3, <2>4, LostStep DEF FreeHandler
<1>9. CASE \/ \E x \in Entries : \E e \in Execs : ReconcileMatch(x, e)
           \/ \E x \in Entries : ReconcileUnmatched(x) \/ EventLost(x)
           \/ UNCHANGED vars
  BY <1>5, <1>9 DEF ReconcileMatch, ReconcileUnmatched, EventLost, Fault, vars
<1>10. CASE ProviderTakes
  <2>1. backend'.pc = "taken" /\ backend'.exec = b.exec /\ b.pc = "call" /\ b.exec \in Execs
    BY <1>10, <1>a, <1>b DEF ProviderTakes, Handler, HandlerOK
  <2>2. \A e \in Execs : e # b.exec => wd'[e] = wd[e]
    BY <1>10, <1>a, <1>b DEF ProviderTakes, TypeOK, Entries
  <2>3. Doomed' \subseteq Doomed /\ faults' = faults
    BY <1>10, <1>b, <2>1, <2>2 DEF ProviderTakes, Doomed
  <2> QED BY <1>a, <1>c, <2>1, <2>3, LostStep DEF FreeHandler
<1>11. ASSUME NEW f \in Foreign, NEW a, ForeignWithdrawal(f, a)
       PROVE  LostInv'
  <2>1. \A e \in Execs : wd'[e] = wd[e]
    BY <1>11, <1>a, WithdrawalsAssumption DEF ForeignWithdrawal, TypeOK, Entries
  <2>2. Doomed' \subseteq Doomed /\ faults' = faults /\ FreeHandler'
    BY <1>11, <2>1 DEF ForeignWithdrawal, Doomed, LostInv, FreeHandler
  <2> QED BY <1>a, <1>c, <2>2, LostStep
<1>12. ASSUME NEW S \in SUBSET Execs, NEW tx \in Txs, ProviderSends(S, tx)
       PROVE  LostInv'
  <2>1. ASSUME NEW e \in Execs PROVE wd'[e].state # "none" => wd[e].state # "none"
    BY <1>12 DEF ProviderSends, Entries
  <2>2. Doomed' \subseteq Doomed /\ faults' = faults /\ FreeHandler'
    BY <1>12, <2>1 DEF ProviderSends, Doomed, LostInv, FreeHandler
  <2> QED BY <1>a, <1>c, <2>2, LostStep
<1>13. CASE ExecuteCommit
  <2>1. exec'[b.exec].status = "requested" /\ \A e \in Execs : e # b.exec => exec'[e] = exec[e]
    BY <1>13, <1>a, <1>b DEF ExecuteCommit, TypeOK, HandlerOK
  <2>2. Doomed' \subseteq Doomed /\ faults' = faults /\ backend' = Idle
    BY <1>13, <1>b, <1>d, <2>1 DEF ExecuteCommit, Doomed
  <2> QED BY <1>a, <1>c, <1>d, <2>2, LostStep DEF FreeHandler
<1>14. CASE ExecuteFails
  <2>1. exec[b.exec].status = "absent" /\ b.pc = "error" /\ \A e \in Execs : e # b.exec => exec'[e] = exec[e]
    BY <1>14, <1>a, <1>b DEF ExecuteFails, TypeOK, HandlerOK
  <2>2. Doomed' \subseteq Doomed /\ faults' = faults /\ backend' = Idle
    BY <1>14, <1>b, <1>d, <2>1 DEF ExecuteFails, Doomed
  <2> QED BY <1>a, <1>c, <1>d, <2>2, LostStep DEF FreeHandler
<1>15. ASSUME NEW answered \in BOOLEAN, PollCheck(answered)
       PROVE  LostInv'
  <2>1. \A e \in Execs : exec'[e] = exec[e] \/ exec'[e].status = "onchain_pending"
    BY <1>15, PollCheckStep
  <2>2. backend.exec = None /\ backend' = Idle /\ wd' = wd /\ faults' = faults
    BY <1>15 DEF PollCheck, LostInv, FreeHandler
  <2>3. Doomed' \subseteq Doomed
    BY <1>d, <1>e, <2>1, <2>2 DEF Doomed
  <2> QED BY <1>a, <1>c, <1>d, <2>2, <2>3, LostStep DEF FreeHandler
<1>16. ASSUME NEW tx \in Txs, ListenerHandles(tx)
       PROVE  LostInv'
  <2>1. \A e \in Execs : exec'[e] = exec[e] \/ exec'[e].status = "completed"
    BY <1>16, ListenerStep
  <2>2. Doomed' \subseteq Doomed /\ faults' = faults /\ FreeHandler'
    BY <1>16, <2>1 DEF ListenerHandles, Doomed, LostInv, FreeHandler
  <2> QED BY <1>a, <1>c, <2>2, LostStep
<1>17. CASE ReconcileCommit
  <2>1. exec' = exec \/ exec' = [exec EXCEPT ![recon.exec].status = "dispatched"]
    BY <1>17 DEF ReconcileCommit
  <2>2. \A e \in Execs : exec'[e] = exec[e] \/ exec'[e].status = "dispatched"
    BY <2>1, <1>a DEF TypeOK, Row
  <2>3. Doomed' \subseteq Doomed /\ faults' = faults /\ FreeHandler'
    BY <1>17, <2>2 DEF ReconcileCommit, Doomed, LostInv, FreeHandler
  <2> QED BY <1>a, <1>c, <2>3, LostStep
<1> QED BY <1>1, <1>2, <1>3, <1>4, <1>6, <1>7, <1>8, <1>9, <1>10, <1>11, <1>12, <1>13, <1>14,
           <1>15, <1>16, <1>17, StepKinds DEF QuietNext, TakeNext

\* Every withdrawal that no row follows was paid for with a fault of its own,
\* whatever the number of executions.
THEOREM WithdrawalsUntrackedCostsFault == Spec => []UntrackedCostsFault
<1>1. LostInv /\ IInv => UntrackedCostsFault
  <2> SUFFICES ASSUME LostInv, IInv PROVE UntrackedCostsFault
    OBVIOUS
  <2>1. Untracked \subseteq Doomed
    BY DEF Untracked, Doomed
  <2>2. Cardinality(Untracked) <= Cardinality(Doomed) /\ IsFiniteSet(Untracked)
    BY <2>1, FS_Subset DEF LostInv
  <2>3. Cardinality(Untracked) \in Nat /\ Cardinality(Doomed) \in Nat
    BY <2>2, FS_CardinalityType DEF LostInv
  <2>4. faults \in Int
    BY WithdrawalsAssumption DEF IInv, TypeOK
  <2> QED BY <2>2, <2>3, <2>4 DEF LostInv, UntrackedCostsFault
<1>2. Init => LostInv
  BY InitLost
<1>3. IInv /\ LostInv /\ [Next]_vars => LostInv'
  BY NextLost
<1> QED BY <1>1, <1>2, <1>3, WithdrawalsIInv, PTL DEF Spec
=============================================================================
