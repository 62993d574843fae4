----------------------- MODULE ChainProjectionProofs ------------------------
(***************************************************************************)
(* Theorems about ChainProjection, for all transactions, descriptors,      *)
(* holdings and invoices, every queue bound and any number of faults.      *)
(*                                                                         *)
(* None of the properties is inductive.                                    *)
(*   - That an insert by the rescan cannot undo the listener rests on      *)
(*     ScanOK: what an open rescan has inserted stays absent for everyone  *)
(*     else, because an insert of the same outpoint waits.                 *)
(*   - That a settled invoice is credited rests on InvoicesOK: its address *)
(*     is one that the listener watches.                                   *)
(*   - That the ledger adds up rests on the order of the notifications     *)
(*     (OrderOK): a spender comes after the coins it spends, so the first  *)
(*     entry of a transaction has its whole effect (SeenOK).  Sums are     *)
(*     folds over finite sets; the first section shows how they split.     *)
(*   - That a mined coin gets its height rests on the block being queued   *)
(*     behind the announcement (BlocksOK), on a transaction that concerns  *)
(*     one descriptor never having two entries (OneEntry), so that its     *)
(*     lookups do not raise, and on the listener finding all outputs of    *)
(*     such a transaction at once (FoundWhole).                            *)
(***************************************************************************)
EXTENDS ChainProjection, TLAPS, FiniteSetTheorems, WellFoundedInduction

-----------------------------------------------------------------------------
(***************************************************************************)
(* Sums.  A sum of integers is the number of its units less the number of  *)
(* its debts: that gives the fold of the community modules, which chooses  *)
(* an order, a value that does not depend on one.                          *)
(***************************************************************************)
Ints(f, S) == \A x \in S : f[x] \in Int

Units(f, S) == UNION {{x} \X (1..f[x]) : x \in S}
Debts(f, S) == UNION {{x} \X (1..(-f[x])) : x \in S}
Count(f, S) == Cardinality(Units(f, S)) - Cardinality(Debts(f, S))

\* A row of n units has n of them.
LEMMA RowCount ==
  ASSUME NEW x, NEW n \in Int
  PROVE  /\ IsFiniteSet({x} \X (1..n))
         /\ Cardinality({x} \X (1..n)) = IF n > 0 THEN n ELSE 0
<1>1. PICK I : I = 1..n
  OBVIOUS
<1>2. IsFiniteSet(I) /\ Cardinality(I) = IF 1 > n THEN 0 ELSE n - 1 + 1
  BY <1>1, FS_Interval
<1>3. IsFiniteSet({x}) /\ Cardinality({x}) = 1
  BY FS_Singleton
<1>4. IsFiniteSet({x} \X I) /\ Cardinality({x} \X I) = Cardinality({x}) * Cardinality(I)
  BY <1>2, <1>3, FS_Product
<1>5. PICK c : c = Cardinality({x} \X I) /\ c = 1 * Cardinality(I)
  BY <1>3, <1>4
<1> QED BY <1>1, <1>2, <1>4, <1>5

\* Units and debts of a finite set are finite.
LEMMA UnitsFinite ==
  ASSUME NEW S, IsFiniteSet(S), NEW f, Ints(f, S)
  PROVE  IsFiniteSet(Units(f, S)) /\ IsFiniteSet(Debts(f, S))
<1>1. PICK U, D : U = {{x} \X (1..f[x]) : x \in S} /\ D = {{x} \X (1..(-f[x])) : x \in S}
  OBVIOUS
<1>2. IsFiniteSet(U) /\ IsFiniteSet(D)
  <2>1. PICK u, d : u = [x \in S |-> {x} \X (1..f[x])] /\ d = [x \in S |-> {x} \X (1..(-f[x]))]
    OBVIOUS
  <2>2. u \in Surjection(S, U) /\ d \in Surjection(S, D)
    <3>1. u \in [S -> U] /\ \A t \in U : \E s \in S : u[s] = t
      BY <1>1, <2>1, Zenon
    <3>2. d \in [S -> D] /\ \A t \in D : \E s \in S : d[s] = t
      BY <1>1, <2>1, Zenon
    <3> QED BY <3>1, <3>2 DEF Surjection
  <2> QED BY <2>2, FS_Surjection
<1>3. \A T \in U : IsFiniteSet(T)
  <2> SUFFICES ASSUME NEW x \in S PROVE IsFiniteSet({x} \X (1..f[x]))
    BY <1>1
  <2> QED BY RowCount DEF Ints
<1>4. \A T \in D : IsFiniteSet(T)
  <2> SUFFICES ASSUME NEW x \in S PROVE IsFiniteSet({x} \X (1..(-f[x])))
    BY <1>1
  <2>1. -f[x] \in Int
    BY DEF Ints
  <2> QED BY <2>1, RowCount
<1>5. IsFiniteSet(UNION U) /\ IsFiniteSet(UNION D)
  BY <1>2, <1>3, <1>4, FS_UNION
<1> QED BY <1>1, <1>5 DEF Units, Debts

\* A count is an integer.
LEMMA CountInt ==
  ASSUME NEW S, IsFiniteSet(S), NEW f, Ints(f, S)
  PROVE  Count(f, S) \in Int
BY UnitsFinite, FS_CardinalityType DEF Count

\* The count of a disjoint union is the sum of the counts.
LEMMA CountUnion ==
  ASSUME NEW S, IsFiniteSet(S), NEW T, IsFiniteSet(T), S \cap T = {}, NEW f, Ints(f, S \cup T)
  PROVE  Count(f, S \cup T) = Count(f, S) + Count(f, T)
<1>1. Ints(f, S) /\ Ints(f, T)
  BY DEF Ints
<1>2. PICK A, B, C, D, E, F : /\ A = Units(f, S) /\ B = Units(f, T) /\ C = Units(f, S \cup T)
                              /\ D = Debts(f, S) /\ E = Debts(f, T) /\ F = Debts(f, S \cup T)
  OBVIOUS
<1>3. IsFiniteSet(A) /\ IsFiniteSet(B) /\ IsFiniteSet(D) /\ IsFiniteSet(E)
  BY <1>1, <1>2, UnitsFinite
<1>4. A \cup B = C /\ D \cup E = F
  BY <1>2 DEF Units, Debts
<1>5. A \cap B = {} /\ D \cap E = {}
  BY <1>2 DEF Units, Debts
<1>6. /\ Cardinality(C) = Cardinality(A) + Cardinality(B)
      /\ Cardinality(F) = Cardinality(D) + Cardinality(E)
  <2>1. ASSUME NEW X, NEW Y, IsFiniteSet(X), IsFiniteSet(Y), X \cap Y = {}
        PROVE  Cardinality(X \cup Y) = Cardinality(X) + Cardinality(Y)
    <3>1. Cardinality(X \cup Y) = Cardinality(X) + Cardinality(Y) - Cardinality(X \cap Y)
      BY <2>1, FS_Union
    <3>2. PICK k : k = Cardinality(X \cap Y) /\ k = 0
      BY <2>1, FS_EmptySet
    <3>3. Cardinality(X) \in Nat /\ Cardinality(Y) \in Nat
      BY <2>1, FS_CardinalityType
    <3> QED BY <3>1, <3>2, <3>3
  <2>2. Cardinality(A \cup B) = Cardinality(A) + Cardinality(B)
    BY <1>3, <1>5, <2>1
  <2>3. Cardinality(D \cup E) = Cardinality(D) + Cardinality(E)
    BY <1>3, <1>5, <2>1
  <2> QED BY <1>4, <2>2, <2>3
<1>7. /\ Cardinality(A) \in Nat /\ Cardinality(B) \in Nat
      /\ Cardinality(D) \in Nat /\ Cardinality(E) \in Nat
  BY <1>3, FS_CardinalityType
<1> QED BY <1>2, <1>6, <1>7 DEF Count

\* Nothing has no units.
LEMMA CountEmpty == ASSUME NEW f PROVE Count(f, {}) = 0
<1>1. Units(f, {}) = {} /\ Debts(f, {}) = {}
  BY DEF Units, Debts
<1> QED BY <1>1, FS_EmptySet DEF Count

\* One number counts for itself.
LEMMA CountOne ==
  ASSUME NEW x, NEW f, f[x] \in Int
  PROVE  Count(f, {x}) = f[x]
<1>1. Units(f, {x}) = {x} \X (1..f[x]) /\ Debts(f, {x}) = {x} \X (1..(-f[x]))
  BY DEF Units, Debts
<1>2. PICK n \in Int : n = -f[x]
  OBVIOUS
<1>3. Cardinality(Units(f, {x})) = (IF f[x] > 0 THEN f[x] ELSE 0)
  BY <1>1, RowCount
<1>4. Cardinality(Debts(f, {x})) = (IF n > 0 THEN n ELSE 0)
  BY <1>1, <1>2, RowCount
<1> QED BY <1>2, <1>3, <1>4 DEF Count

\* A set of finite sets has one that is minimal: induction by the smallest
\* counterexample.
LEMMA SmallestFinite ==
  ASSUME NEW S, NEW F \in SUBSET FiniteSubsetsOf(S), F # {}
  PROVE  \E x \in F : \A y \in F : ~(y \subseteq x /\ y # x)
<1>1. PICK R : R = StrictSubsetOrdering(S)
  OBVIOUS
<1>2. IsWellFoundedOn(R, FiniteSubsetsOf(S))
  BY <1>1, FS_StrictSubsetOrderingWellFounded
<1>3. \E x \in F : \A y \in F : ~(<<y, x>> \in R)
  BY <1>2, WFMin
<1>4. \A x, y \in FiniteSubsetsOf(S) : y \subseteq x /\ x # y => <<y, x>> \in R
  BY <1>1 DEF StrictSubsetOrdering, FiniteSubsetsOf
<1> QED BY <1>3, <1>4

\* The equation that the fold solves.
Any(s) == CHOOSE x \in s : TRUE

IsFold(g, f, S) ==
  g = [s \in SUBSET S |-> IF s = {} THEN 0 ELSE f[Any(s)] + g[s \ {Any(s)}]]

\* The count follows the recursion of the fold.
LEMMA CountStep ==
  ASSUME NEW S, IsFiniteSet(S), NEW f, Ints(f, S), NEW s \in SUBSET S, s # {}
  PROVE  Any(s) \in s /\ Count(f, s) = f[Any(s)] + Count(f, s \ {Any(s)})
<1>1. Any(s) \in s
  BY DEF Any
<1>2. PICK x, r : x = Any(s) /\ r = s \ {x}
  OBVIOUS
<1>3. s = r \cup {x} /\ r \cap {x} = {} /\ x \in S
  BY <1>1, <1>2
<1>4. IsFiniteSet(s) /\ IsFiniteSet(r) /\ IsFiniteSet({x})
  BY <1>2, FS_Subset, FS_Singleton
<1>5. Ints(f, r \cup {x}) /\ Ints(f, r) /\ f[x] \in Int
  BY <1>2, <1>3 DEF Ints
<1>6. Count(f, r \cup {x}) = Count(f, r) + Count(f, {x})
  BY <1>3, <1>4, <1>5, CountUnion
<1>7. Count(f, {x}) = f[x] /\ Count(f, r) \in Int
  BY <1>4, <1>5, CountOne, CountInt
<1>8. Count(f, s) = f[x] + Count(f, r)
  BY <1>3, <1>5, <1>6, <1>7
<1> QED BY <1>1, <1>2, <1>8

\* The fold is well defined: the count solves its equation.
LEMMA CountIsFold ==
  ASSUME NEW S, IsFiniteSet(S), NEW f, Ints(f, S)
  PROVE  \E g : IsFold(g, f, S)
<1>1. PICK g : g = [s \in SUBSET S |-> Count(f, s)]
  OBVIOUS
<1>2. ASSUME NEW s \in SUBSET S
      PROVE  g[s] = IF s = {} THEN 0 ELSE f[Any(s)] + g[s \ {Any(s)}]
  <2>1. CASE s = {}
    BY <1>1, <2>1, CountEmpty
  <2>2. CASE s # {}
    <3>1. s \ {Any(s)} \in SUBSET S
      OBVIOUS
    <3>2. g[s] = Count(f, s) /\ g[s \ {Any(s)}] = Count(f, s \ {Any(s)})
      BY <1>1, <3>1
    <3> QED BY <2>2, <3>2, CountStep
  <2> QED BY <2>1, <2>2
<1>3. PICK e : e = [s \in SUBSET S |-> IF s = {} THEN 0 ELSE f[Any(s)] + g[s \ {Any(s)}]]
  OBVIOUS
<1>4. \A s \in SUBSET S : g[s] = e[s]
  BY <1>2, <1>3
<1>5. g = e
  BY <1>1, <1>3, <1>4
<1> QED BY <1>3, <1>5 DEF IsFold

\* Whatever solves the equation of the fold is the count.
LEMMA FoldsAgree ==
  ASSUME NEW S, IsFiniteSet(S), NEW f, Ints(f, S), NEW g, IsFold(g, f, S)
  PROVE  g[S] = Count(f, S)
<1>1. \A s \in SUBSET S : g[s] = IF s = {} THEN 0 ELSE f[Any(s)] + g[s \ {Any(s)}]
  BY DEF IsFold
<1>2. PICK B : B = {s \in SUBSET S : g[s] # Count(f, s)}
  OBVIOUS
<1>3. B \in SUBSET FiniteSubsetsOf(S)
  BY <1>2, FS_Subset DEF FiniteSubsetsOf
<1>4. SUFFICES ASSUME B # {} PROVE FALSE
  BY <1>2
<1>5. PICK s \in B : \A y \in B : ~(y \subseteq s /\ y # s)
  BY <1>3, <1>4, SmallestFinite
<1>6. s \in SUBSET S /\ g[s] # Count(f, s)
  BY <1>2
<1>7. CASE s = {}
  BY <1>1, <1>6, <1>7, CountEmpty
<1>8. CASE s # {}
  <2>1. Any(s) \in s /\ Count(f, s) = f[Any(s)] + Count(f, s \ {Any(s)})
    BY <1>6, <1>8, CountStep
  <2>2. PICK r : r = s \ {Any(s)}
    OBVIOUS
  <2>3. r \in SUBSET S /\ r \subseteq s /\ r # s
    BY <1>6, <2>1, <2>2
  <2>4. g[r] = Count(f, r)
    BY <1>2, <1>5, <2>3
  <2> QED BY <1>1, <1>6, <1>8, <2>1, <2>2, <2>4
<1> QED BY <1>7, <1>8

\* The sum of the community modules solves the equation.
LEMMA SumIsFold ==
  ASSUME NEW S, NEW f, NEW g, IsFold(g, f, S)
  PROVE  \E h : IsFold(h, f, S) /\ SumFunctionOnSet(f, S) = h[S]
BY DEF IsFold, SumFunctionOnSet, FoldFunctionOnSet, MapThenFoldSet, Any

\* The sum is the count.
LEMMA SumIsCount ==
  ASSUME NEW S, IsFiniteSet(S), NEW f, Ints(f, S)
  PROVE  SumFunctionOnSet(f, S) = Count(f, S)
<1>1. PICK g : IsFold(g, f, S)
  BY CountIsFold
<1>2. PICK h : IsFold(h, f, S) /\ SumFunctionOnSet(f, S) = h[S]
  BY <1>1, SumIsFold
<1> QED BY <1>2, FoldsAgree

\* The count depends on the values of the elements only.
LEMMA CountSame ==
  ASSUME NEW S, NEW f, NEW g, \A x \in S : f[x] = g[x]
  PROVE  Count(f, S) = Count(g, S)
<1>1. Units(f, S) = Units(g, S) /\ Debts(f, S) = Debts(g, S)
  BY DEF Units, Debts
<1> QED BY <1>1 DEF Count

\* What is used of a sum over a finite set of integers.
LEMMA SumFacts ==
  ASSUME NEW S, IsFiniteSet(S), NEW f, Ints(f, S)
  PROVE  /\ SumFunctionOnSet(f, S) \in Int
         /\ S = {} => SumFunctionOnSet(f, S) = 0
         /\ \A g : (\A x \in S : g[x] = f[x]) => SumFunctionOnSet(g, S) = SumFunctionOnSet(f, S)
         /\ \A x : S = {x} => SumFunctionOnSet(f, S) = f[x]
<1>1. SumFunctionOnSet(f, S) = Count(f, S)
  BY SumIsCount
<1>2. SumFunctionOnSet(f, S) \in Int
  BY <1>1, CountInt
<1>3. S = {} => SumFunctionOnSet(f, S) = 0
  BY <1>1, CountEmpty
<1>4. ASSUME NEW g, \A x \in S : g[x] = f[x]
      PROVE  SumFunctionOnSet(g, S) = SumFunctionOnSet(f, S)
  <2>1. Ints(g, S)
    BY <1>4 DEF Ints
  <2>2. SumFunctionOnSet(g, S) = Count(g, S)
    BY <2>1, SumIsCount
  <2>3. Count(g, S) = Count(f, S)
    BY <1>4, CountSame
  <2> QED BY <1>1, <2>2, <2>3
<1>5. ASSUME NEW x, S = {x}
      PROVE  SumFunctionOnSet(f, S) = f[x]
  <2>1. f[x] \in Int
    BY <1>5 DEF Ints
  <2> QED BY <1>1, <1>5, <2>1, CountOne
<1> QED BY <1>2, <1>3, <1>4, <1>5

\* The sum over a disjoint union is the sum of the sums.
LEMMA SumUnion ==
  ASSUME NEW S, IsFiniteSet(S), NEW T, IsFiniteSet(T), S \cap T = {}, NEW f, Ints(f, S \cup T)
  PROVE  SumFunctionOnSet(f, S \cup T) = SumFunctionOnSet(f, S) + SumFunctionOnSet(f, T)
<1>1. IsFiniteSet(S \cup T)
  BY FS_Union
<1>2. Ints(f, S) /\ Ints(f, T)
  BY DEF Ints
<1>3. /\ SumFunctionOnSet(f, S \cup T) = Count(f, S \cup T)
      /\ SumFunctionOnSet(f, S) = Count(f, S) /\ SumFunctionOnSet(f, T) = Count(f, T)
  BY <1>1, <1>2, SumIsCount
<1> QED BY <1>3, CountUnion

-----------------------------------------------------------------------------
(***************************************************************************)
(* The parts of the invariant for rows, queue, rescan and invoices.        *)
(***************************************************************************)
RowsOK ==
  /\ coin \in [Outs -> {"absent", "unspent", "spent"}]
  /\ spentBy \in [Outs -> Txs \cup {None}]
  /\ \A o \in Outs : coin[o] # "absent" => Owned(o)
  /\ \A o \in Outs : coin[o] = "spent" => spentBy[o] \in Txs

QueueOK ==
  /\ notif \in Seq({"tx", "block"} \X Txs)
  /\ listener \in ListenerState
  /\ listener.pc = "fetched" => listener.tx \in Txs

ScanOK ==
  /\ scan \in ScanState
  /\ scan.pc # "idle" =>
       \A o \in scan.new : Owned(o) /\ DescriptorOf[Address[o]] = scan.descriptor /\ coin[o] = "absent"

InvoicesOK ==
  /\ invoice \in [Invoices -> InvoiceRow]
  /\ cancelling \in Invoices \cup {None}
  /\ attached \subseteq Descriptors
  /\ \A i \in Invoices :
       /\ invoice[i].status \in {"open", "paid"} => invoice[i].address \in Addresses
       /\ invoice[i].address \in Addresses => DescriptorOf[invoice[i].address] \in attached
       /\ invoice[i].tx # None => invoice[i].address \in Addresses

IInv == RowsOK /\ QueueOK /\ ScanOK /\ InvoicesOK /\ CoinsAreInLedger /\ PaidInvoiceIsCredited

-----------------------------------------------------------------------------
(***************************************************************************)
(* What one transaction does to the tables.                                *)
(***************************************************************************)

\* An output that is discovered, and an input that is known, belong to a
\* holding that is affected, so there is a link once the links are written.
LEMMA AffectedIsLinked ==
  ASSUME NEW t, NEW o \in SpentInputs(t) \cup Discovered(t), LinkHoldings(t)
  PROVE  <<t, Holder(o)>> \in linked'
<1>1. Holder(o) \in Affected(t)
  BY DEF Affected
<1>2. <<t, Holder(o)>> \in {t} \X Affected(t)
  BY <1>1
<1>3. <<t, Holder(o)>> \in linked \/ <<t, Holder(o)>> \in NewLinks(t)
  BY <1>2 DEF NewLinks
<1> QED BY <1>3 DEF LinkHoldings

\* How the rows of utxo change when a transaction is applied.
LEMMA AppliedRows ==
  ASSUME RowsOK, NEW t \in Txs, MarkCoins(t), NEW o \in Outs
  PROVE  /\ o \in SpentInputs(t) => coin'[o] = "spent" /\ coin[o] # "absent"
         /\ o \notin SpentInputs(t) /\ o \in NewCoins(t) => coin'[o] = "unspent"
         /\ o \notin SpentInputs(t) /\ o \notin NewCoins(t) => coin'[o] = coin[o]
         /\ o \in SpentInputs(t) /\ coin[o] = "unspent" => spentBy'[o] = t
         /\ ~(o \in SpentInputs(t) /\ coin[o] = "unspent") => spentBy'[o] = spentBy[o]
<1>1. o \in SpentInputs(t) => coin[o] # "absent"
  BY DEF SpentInputs
<1> QED BY <1>1 DEF MarkCoins, RowsOK

\* Applying a transaction keeps the rows in order.
LEMMA AppliedRowsOK ==
  ASSUME RowsOK, NEW t \in Txs, MarkCoins(t)
  PROVE  RowsOK'
<1>1. coin' \in [Outs -> {"absent", "unspent", "spent"}]
  BY DEF MarkCoins, RowsOK
<1>2. spentBy' \in [Outs -> Txs \cup {None}]
  BY DEF MarkCoins, RowsOK
<1>3. ASSUME NEW o \in Outs, coin'[o] # "absent"
      PROVE  Owned(o)
  <2>1. o \in NewCoins(t) => Owned(o)
    BY DEF NewCoins, Discovered, Watched
  <2> QED BY <1>3, <2>1, AppliedRows DEF RowsOK
<1>4. ASSUME NEW o \in Outs, coin'[o] = "spent"
      PROVE  spentBy'[o] \in Txs
  BY <1>4, AppliedRows DEF RowsOK
<1> QED BY <1>1, <1>2, <1>3, <1>4 DEF RowsOK, Owned

-----------------------------------------------------------------------------
(***************************************************************************)
(* The invariant.                                                          *)
(***************************************************************************)

\* The tables are written by two actions only.
LEMMA WhoWrites ==
  ASSUME [Next]_vars
  PROVE  \/ ListenerApplies \/ ScanCommit
         \/ UNCHANGED <<coin, spentBy, height, known, linked, amount, entries>>
BY DEF Next, NodeNext, ListenerNext, ListenerTx, BackendNext, vars, coinVars, ledgerVars,
       Accept, Mine, Evict, ListenerFetch, ListenerFetchNoHeader, ListenerSkip, ListenerIgnores,
       ListenerRaises, NotificationLost, WorkerCrash, AttachDescriptor, ScanExternal, ScanChange,
       ScanFails, CreateInvoice, CancelReads, CancelWrites

\* The history variables never go back, and descriptors are never detached.
LEMMA Monotone ==
  ASSUME [Next]_vars
  PROVE  /\ attached \subseteq attached'
         /\ imported => imported'
         /\ dropped => dropped'
<1>1. attached \subseteq attached'
  BY DEF Next, NodeNext, ListenerNext, ListenerTx, BackendNext, vars,
       Accept, Mine, Evict, ListenerFetch, ListenerFetchNoHeader, ListenerSkip, ListenerIgnores,
       ListenerApplies, ListenerRaises, NotificationLost, WorkerCrash, AttachDescriptor,
       ScanExternal, ScanChange, ScanCommit, ScanFails, CreateInvoice, CancelReads, CancelWrites
<1>3. imported => imported'
  BY DEF Next, NodeNext, ListenerNext, ListenerTx, BackendNext, vars, histVars,
       Accept, Mine, Evict, ListenerFetch, ListenerFetchNoHeader, ListenerSkip, ListenerIgnores,
       ListenerApplies, ListenerRaises, NotificationLost, WorkerCrash, AttachDescriptor,
       ScanExternal, ScanChange, ScanCommit, ScanFails, CreateInvoice, CancelReads, CancelWrites
<1>2. dropped => dropped'
  BY DEF Next, NodeNext, ListenerNext, ListenerTx, BackendNext, vars, histVars, Drop,
       Accept, Mine, Evict, ListenerFetch, ListenerFetchNoHeader, ListenerSkip, ListenerIgnores,
       ListenerApplies, ListenerRaises, NotificationLost, WorkerCrash, AttachDescriptor,
       ScanExternal, ScanChange, ScanCommit, ScanFails, CreateInvoice, CancelReads, CancelWrites
<1> QED BY <1>1, <1>2, <1>3

\* Steps of bitcoind and the listener that leave the tables alone.
Quiet ==
  \/ \E t \in Txs : Accept(t) \/ Mine(t) \/ Evict(t)
  \/ ListenerFetch \/ ListenerFetchNoHeader \/ ListenerSkip
  \/ ListenerIgnores \/ ListenerRaises \/ NotificationLost \/ WorkerCrash

\* What is queued and what the listener holds is always of its type.
LEMMA QueueStep ==
  ASSUME QueueOK, [Next]_vars
  PROVE  QueueOK'
<1> USE DEF QueueOK, ListenerState
<1>1. IdleListener \in ListenerState /\ IdleListener.pc # "fetched"
  BY DEF IdleListener
<1>2. ASSUME notif # <<>>
      PROVE  Head(notif) \in {"tx", "block"} \X Txs /\ Tail(notif) \in Seq({"tx", "block"} \X Txs)
  BY <1>2
<1>3. ASSUME NEW t \in Txs, Accept(t)
      PROVE  QueueOK'
  <2>1. <<"tx", t>> \in {"tx", "block"} \X Txs
    OBVIOUS
  <2> QED BY <1>3, <2>1 DEF Accept
<1>4. ASSUME NEW t \in Txs, Mine(t)
      PROVE  QueueOK'
  <2>1. << <<"tx", t>>, <<"block", t>> >> \in Seq({"tx", "block"} \X Txs)
    OBVIOUS
  <2> QED BY <1>4, <2>1 DEF Mine
<1>5. CASE \E t \in Txs : Evict(t)
  BY <1>5 DEF Evict
<1>6. CASE ListenerFetch
  <2>1. Head(notif)[2] \in Txs /\ notif' \in Seq({"tx", "block"} \X Txs)
    BY <1>2, <1>6 DEF ListenerFetch
  <2> QED BY <1>6, <2>1 DEF ListenerFetch
<1>7. CASE ListenerFetchNoHeader
  <2>1. Head(notif)[2] \in Txs /\ notif' \in Seq({"tx", "block"} \X Txs)
    BY <1>2, <1>7 DEF ListenerFetchNoHeader
  <2> QED BY <1>7, <2>1 DEF ListenerFetchNoHeader
<1>8. CASE ListenerSkip
  BY <1>2, <1>8 DEF ListenerSkip
<1>9. CASE ListenerTx
  BY <1>1, <1>9 DEF ListenerTx, ListenerIgnores, ListenerApplies, ListenerRaises, nodeVars
<1>10. CASE NotificationLost
  BY <1>2, <1>10 DEF NotificationLost
<1>11. CASE WorkerCrash
  <2>1. <<>> \in Seq({"tx", "block"} \X Txs)
    OBVIOUS
  <2> QED BY <1>1, <1>11, <2>1 DEF WorkerCrash
<1>12. CASE BackendNext
  BY <1>1, <1>12 DEF BackendNext, AttachDescriptor, ScanExternal, ScanChange, ScanCommit, ScanFails,
       CreateInvoice, CancelReads, CancelWrites, nodeVars
<1>13. CASE UNCHANGED vars
  BY <1>13 DEF vars
<1> QED BY <1>3, <1>4, <1>5, <1>6, <1>7, <1>8, <1>9, <1>10, <1>11, <1>12, <1>13
         DEF Next, NodeNext, ListenerNext

\* Without a step of the tables, their part of the invariant stays.
LEMMA TablesUnchanged ==
  ASSUME IInv, UNCHANGED <<attached, coin, spentBy, known, linked, paidVars, scan>>
  PROVE  RowsOK' /\ ScanOK' /\ InvoicesOK' /\ CoinsAreInLedger' /\ PaidInvoiceIsCredited'
BY DEF IInv, RowsOK, ScanOK, InvoicesOK, CoinsAreInLedger, PaidInvoiceIsCredited, paidVars,
       Owned, Holder

\* Rows that an open rescan has inserted are not inserted by the listener.
LEMMA AppliesKeepsScan ==
  ASSUME IInv, ListenerApplies
  PROVE  ScanOK'
<1> DEFINE t == listener.tx
<1>1. t \in Txs /\ MarkCoins(t) /\ ~Blocked(t) /\ scan' = scan
  BY DEF IInv, QueueOK, ListenerApplies
<1>2. ASSUME NEW o \in scan.new, scan.pc # "idle"
      PROVE  coin'[o] = "absent"
  <2>1. o \in Outs /\ coin[o] = "absent"
    BY <1>2 DEF IInv, ScanOK, ScanState
  <2>2. o \notin NewCoins(t)
    BY <1>1, <1>2 DEF Blocked
  <2> QED BY <1>1, <2>1, <2>2, AppliedRows DEF IInv
<1> QED BY <1>1, <1>2 DEF IInv, ScanOK, Owned

\* Coins that the listener adds or marks are in the ledger.
LEMMA AppliesKeepsLedger ==
  ASSUME IInv, ListenerApplies
  PROVE  CoinsAreInLedger'
<1>1. PICK t \in Txs : /\ t = listener.tx /\ MarkCoins(t) /\ LinkHoldings(t)
                       /\ known' = known \cup {t}
  BY DEF IInv, QueueOK, ListenerApplies
<1>2. linked \subseteq linked'
  BY <1>1 DEF LinkHoldings
<1>3. ASSUME NEW o \in Outs, coin'[o] # "absent"
      PROVE  Creator[o] \in known' /\ <<Creator[o], Holder(o)>> \in linked'
  <2>1. CASE coin[o] # "absent"
    BY <1>1, <1>2, <2>1 DEF IInv, CoinsAreInLedger
  <2>2. CASE coin[o] = "absent"
    <3>1. o \in NewCoins(t)
      BY <1>1, <1>3, <2>2, AppliedRows DEF IInv
    <3>2. o \in Discovered(t) /\ Creator[o] = t
      BY <3>1 DEF NewCoins, Discovered, Outputs
    <3> QED BY <1>1, <3>2, AffectedIsLinked
  <2> QED BY <2>1, <2>2
<1>4. ASSUME NEW o \in Outs, coin'[o] = "spent"
      PROVE  spentBy'[o] \in known' /\ <<spentBy'[o], Holder(o)>> \in linked'
  <2>1. CASE o \in SpentInputs(t) /\ coin[o] = "unspent"
    BY <1>1, <2>1, AppliedRows, AffectedIsLinked DEF IInv
  <2>2. CASE ~(o \in SpentInputs(t) /\ coin[o] = "unspent")
    <3>1. coin[o] = "spent" /\ spentBy'[o] = spentBy[o]
      BY <1>1, <1>4, <2>2, AppliedRows DEF IInv, RowsOK
    <3> QED BY <1>1, <1>2, <3>1 DEF IInv, CoinsAreInLedger
  <2> QED BY <2>1, <2>2
<1> QED BY <1>3, <1>4 DEF CoinsAreInLedger, Holder

\* The output that pays an invoice is one the listener watches, so the holding
\* of the invoice is linked by the same step.
LEMMA AppliesKeepsInvoices ==
  ASSUME IInv, ListenerApplies
  PROVE  InvoicesOK' /\ PaidInvoiceIsCredited'
<1>1. PICK t \in Txs : /\ t = listener.tx /\ LinkHoldings(t) /\ SettleInvoice(t)
  BY DEF IInv, QueueOK, ListenerApplies
<1>2. linked \subseteq linked' /\ attached' = attached /\ cancelling' = cancelling
  BY <1>1 DEF LinkHoldings, ListenerApplies
<1>3. CASE invoice' = invoice
  BY <1>2, <1>3 DEF IInv, InvoicesOK, PaidInvoiceIsCredited
<1>4. ASSUME NEW i \in PaidBy(t), invoice' = [invoice EXCEPT ![i].status = "paid", ![i].tx = t]
      PROVE  InvoicesOK' /\ PaidInvoiceIsCredited'
  <2>1. PICK o \in Outputs(t) : Address[o] = invoice[i].address
    BY DEF PaidBy
  <2>2. i \in Invoices /\ invoice[i].status = "open"
    BY DEF PaidBy
  <2>3. invoice[i].address \in Addresses /\ DescriptorOf[invoice[i].address] \in attached
    BY <2>2 DEF IInv, InvoicesOK
  <2>4. o \in Discovered(t)
    BY <2>1, <2>3, ChainAssumption DEF Discovered, Watched, Owned
  <2>5. <<t, HoldingOf[DescriptorOf[invoice[i].address]]>> \in linked'
    BY <1>1, <2>1, <2>4, AffectedIsLinked DEF Holder
  <2>6. /\ invoice' \in [Invoices -> InvoiceRow]
        /\ invoice'[i].address = invoice[i].address /\ invoice'[i].tx = t
        /\ \A j \in Invoices : j # i => invoice'[j] = invoice[j]
    BY <1>4, <2>2 DEF IInv, InvoicesOK, InvoiceRow
  <2> QED BY <1>2, <2>3, <2>5, <2>6 DEF IInv, InvoicesOK, PaidInvoiceIsCredited
<1> QED BY <1>1, <1>3, <1>4 DEF SettleInvoice

\* The two branches of a rescan add outputs that are its descriptor's and absent.
LEMMA BranchOK ==
  ASSUME NEW d, NEW c, NEW new \in Branch(d, c), NEW o \in new
  PROVE  o \in Outs /\ Owned(o) /\ DescriptorOf[Address[o]] = d /\ coin[o] = "absent"
BY DEF Branch, NewUnspent, Unspent

\* A rescan collects outputs that are absent.
LEMMA ScanReads ==
  ASSUME IInv, (\E d \in Descriptors : ScanExternal(d)) \/ ScanChange
  PROVE  ScanOK'
<1>1. ASSUME NEW d \in Descriptors, ScanExternal(d)
      PROVE  ScanOK'
  <2>1. PICK new \in Branch(d, FALSE) : \E first \in Firsts(new) :
          scan' = [pc |-> "external", descriptor |-> d, new |-> new, first |-> first]
    BY <1>1 DEF ScanExternal
  <2>2. PICK first \in Firsts(new) :
          scan' = [pc |-> "external", descriptor |-> d, new |-> new, first |-> first]
    BY <2>1
  <2>3. first \subseteq new
    BY DEF Firsts
  <2>4. coin' = coin
    BY <1>1 DEF ScanExternal, coinVars
  <2>5. \A o \in new : o \in Outs /\ Owned(o) /\ DescriptorOf[Address[o]] = d /\ coin[o] = "absent"
    BY BranchOK
  <2> QED BY <2>2, <2>3, <2>4, <2>5 DEF ScanOK, ScanState, Owned
<1>2. ASSUME ScanChange
      PROVE  ScanOK'
  <2>1. PICK new \in Branch(scan.descriptor, TRUE) :
          \E first \in Firsts({o \in new : \A f \in scan.first : Creator[f] # Creator[o]}) :
            scan' = [pc |-> "change", descriptor |-> scan.descriptor,
                     new |-> scan.new \cup new, first |-> scan.first \cup first]
    BY <1>2 DEF ScanChange
  <2>2. PICK first \in Firsts({o \in new : \A f \in scan.first : Creator[f] # Creator[o]}) :
          scan' = [pc |-> "change", descriptor |-> scan.descriptor,
                   new |-> scan.new \cup new, first |-> scan.first \cup first]
    BY <2>1
  <2>3. first \subseteq new
    BY DEF Firsts
  <2>4. coin' = coin /\ scan.pc = "external"
    BY <1>2 DEF ScanChange, coinVars
  <2>5. \A o \in new : o \in Outs /\ Owned(o) /\ DescriptorOf[Address[o]] = scan.descriptor
                       /\ coin[o] = "absent"
    BY BranchOK
  <2> QED BY <2>2, <2>3, <2>4, <2>5 DEF IInv, ScanOK, ScanState, Owned
<1> QED BY <1>1, <1>2

\* The commit of a rescan keeps rows and ledger together.
LEMMA ScanCommits ==
  ASSUME IInv, ScanCommit
  PROVE  RowsOK' /\ ScanOK' /\ CoinsAreInLedger' /\ InvoicesOK' /\ PaidInvoiceIsCredited'
<1>1. /\ coin' = [o \in Outs |-> IF o \in scan.new THEN "unspent" ELSE coin[o]]
      /\ spentBy' = spentBy
      /\ known' = known \cup {Creator[o] : o \in scan.new}
      /\ linked' = linked \cup ScanLinks
      /\ attached' = attached /\ invoice' = invoice /\ cancelling' = cancelling
  BY DEF ScanCommit, paidVars
<1>2. \A o \in scan.new : /\ o \in Outs /\ Owned(o) /\ coin[o] = "absent"
                          /\ DescriptorOf[Address[o]] = scan.descriptor
  BY DEF IInv, ScanOK, ScanState, ScanCommit
<1>3. RowsOK'
  BY <1>1, <1>2 DEF IInv, RowsOK, Owned
<1>4. ScanOK'
  BY DEF ScanCommit, IdleScan, ScanOK, ScanState
<1>5. ASSUME NEW o \in scan.new
      PROVE  Creator[o] \in known' /\ <<Creator[o], Holder(o)>> \in linked'
  <2>1. Holder(o) = HoldingOf[scan.descriptor]
    BY <1>2 DEF Holder
  <2>2. <<Creator[o], Holder(o)>> \in linked \cup ScanLinks
    BY <2>1 DEF ScanLinks
  <2> QED BY <1>1, <2>2
<1>6. CoinsAreInLedger'
  BY <1>1, <1>2, <1>5 DEF IInv, CoinsAreInLedger, Holder, RowsOK
<1>7. InvoicesOK' /\ PaidInvoiceIsCredited'
  BY <1>1 DEF IInv, InvoicesOK, PaidInvoiceIsCredited
<1> QED BY <1>3, <1>4, <1>6, <1>7

\* The steps of the handlers that change what an invoice may rest on.
LEMMA InvoiceSteps ==
  ASSUME IInv,
         \/ \E d \in Descriptors : AttachDescriptor(d)
         \/ \E i \in Invoices, h \in Holdings : CreateInvoice(i, h)
         \/ \E i \in Invoices : CancelReads(i)
         \/ CancelWrites
  PROVE  InvoicesOK' /\ PaidInvoiceIsCredited'
<1>1. CASE \E d \in Descriptors : AttachDescriptor(d)
  BY <1>1 DEF AttachDescriptor, IInv, InvoicesOK, PaidInvoiceIsCredited, ledgerVars, paidVars
<1>2. ASSUME NEW i \in Invoices, NEW h \in Holdings, CreateInvoice(i, h)
      PROVE  InvoicesOK' /\ PaidInvoiceIsCredited'
  <2>1. PICK a \in Available(h) :
          invoice' = [invoice EXCEPT ![i] = [status |-> "open", address |-> a, tx |-> None]]
    BY <1>2 DEF CreateInvoice
  <2>2. a \in Addresses /\ DescriptorOf[a] \in attached
    BY <1>2 DEF Available, CreateInvoice
  <2>3. linked' = linked /\ attached' = attached /\ cancelling' = cancelling
    BY <1>2 DEF CreateInvoice, ledgerVars
  <2>4. [status |-> "open", address |-> a, tx |-> None] \in InvoiceRow
    BY <2>2 DEF InvoiceRow
  <2> QED BY <2>1, <2>2, <2>3, <2>4 DEF IInv, InvoicesOK, PaidInvoiceIsCredited
<1>3. CASE \E i \in Invoices : CancelReads(i)
  BY <1>3 DEF CancelReads, IInv, InvoicesOK, PaidInvoiceIsCredited, ledgerVars
<1>4. CASE CancelWrites
  <2>1. cancelling \in Invoices /\ cancelling' = None /\ linked' = linked /\ attached' = attached
    BY <1>4 DEF CancelWrites, IInv, InvoicesOK, ledgerVars
  <2>2. CASE invoice' = invoice
    BY <2>1, <2>2 DEF IInv, InvoicesOK, PaidInvoiceIsCredited
  <2>3. CASE invoice' = [invoice EXCEPT ![cancelling].status = "cancelled"]
    <3>1. /\ invoice' \in [Invoices -> InvoiceRow]
          /\ \A i \in Invoices : /\ invoice'[i].address = invoice[i].address
                                 /\ invoice'[i].tx = invoice[i].tx
                                 /\ invoice'[i].status = invoice[i].status
                                    \/ invoice'[i].status = "cancelled"
      BY <2>1, <2>3 DEF IInv, InvoicesOK, InvoiceRow
    <3> QED BY <2>1, <3>1 DEF IInv, InvoicesOK, PaidInvoiceIsCredited
  <2> QED BY <1>4, <2>2, <2>3 DEF CancelWrites
<1> QED BY <1>1, <1>2, <1>3, <1>4

\* The invariant holds at the start.
LEMMA Start == Init => IInv
<1> SUFFICES ASSUME Init PROVE IInv
  OBVIOUS
<1>1. RowsOK
  BY DEF Init, RowsOK
<1>2. QueueOK
  BY DEF Init, QueueOK, ListenerState, IdleListener
<1>3. ScanOK
  BY DEF Init, ScanOK, ScanState, IdleScan
<1>4. InvoicesOK
  BY ChainAssumption DEF Init, InvoicesOK, InvoiceRow
<1>5. CoinsAreInLedger /\ PaidInvoiceIsCredited
  BY DEF Init, CoinsAreInLedger, PaidInvoiceIsCredited
<1> QED BY <1>1, <1>2, <1>3, <1>4, <1>5 DEF IInv

\* Every step keeps the invariant.
LEMMA Step == IInv /\ [Next]_vars => IInv'
<1> SUFFICES ASSUME IInv, [Next]_vars PROVE IInv'
  OBVIOUS
<1>1. QueueOK'
  BY QueueStep DEF IInv
<1> DEFINE Tables == RowsOK /\ ScanOK /\ InvoicesOK /\ CoinsAreInLedger /\ PaidInvoiceIsCredited
<1>2. CASE Quiet
  <2>1. UNCHANGED <<attached, coin, spentBy, known, linked, paidVars, scan>>
    BY <1>2 DEF Quiet, Accept, Mine, Evict, ListenerFetch, ListenerFetchNoHeader, ListenerSkip,
         ListenerIgnores, ListenerRaises, NotificationLost, WorkerCrash, coinVars, ledgerVars
  <2> QED BY <1>1, <2>1, TablesUnchanged DEF IInv
<1>3. CASE ListenerApplies
  <2>1. RowsOK'
    BY <1>3, AppliedRowsOK DEF IInv, QueueOK, ListenerApplies
  <2> QED BY <1>1, <1>3, <2>1, AppliesKeepsScan, AppliesKeepsLedger, AppliesKeepsInvoices DEF IInv
<1>4. CASE (\E d \in Descriptors : ScanExternal(d)) \/ ScanChange
  <2>1. UNCHANGED <<attached, coin, spentBy, known, linked, paidVars>>
    BY <1>4 DEF ScanExternal, ScanChange, coinVars, ledgerVars
  <2>2. RowsOK' /\ InvoicesOK' /\ CoinsAreInLedger' /\ PaidInvoiceIsCredited'
    BY <2>1 DEF IInv, RowsOK, InvoicesOK, CoinsAreInLedger, PaidInvoiceIsCredited, paidVars,
         Owned, Holder
  <2> QED BY <1>1, <1>4, <2>2, ScanReads DEF IInv
<1>5. CASE ScanCommit
  BY <1>1, <1>5, ScanCommits DEF IInv
<1>6. CASE ScanFails
  <2>1. UNCHANGED <<attached, coin, spentBy, known, linked, paidVars>>
    BY <1>6 DEF ScanFails, coinVars, ledgerVars
  <2>2. RowsOK' /\ InvoicesOK' /\ CoinsAreInLedger' /\ PaidInvoiceIsCredited'
    BY <2>1 DEF IInv, RowsOK, InvoicesOK, CoinsAreInLedger, PaidInvoiceIsCredited, paidVars,
         Owned, Holder
  <2>3. ScanOK'
    BY <1>6 DEF ScanFails, IdleScan, ScanOK, ScanState
  <2> QED BY <1>1, <2>2, <2>3 DEF IInv
<1>7. CASE \/ \E d \in Descriptors : AttachDescriptor(d)
           \/ \E i \in Invoices, h \in Holdings : CreateInvoice(i, h)
           \/ \E i \in Invoices : CancelReads(i)
           \/ CancelWrites
  <2>1. UNCHANGED <<coin, spentBy, known, linked, scan>>
    BY <1>7 DEF AttachDescriptor, CreateInvoice, CancelReads, CancelWrites, coinVars, ledgerVars
  <2>2. RowsOK' /\ ScanOK' /\ CoinsAreInLedger'
    BY <2>1 DEF IInv, RowsOK, ScanOK, CoinsAreInLedger, Owned, Holder
  <2> QED BY <1>1, <1>7, <2>2, InvoiceSteps DEF IInv
<1>8. CASE UNCHANGED vars
  <2>1. UNCHANGED <<attached, coin, spentBy, known, linked, paidVars, scan>>
    BY <1>8 DEF vars, paidVars
  <2> QED BY <1>1, <2>1, TablesUnchanged DEF IInv
<1> QED BY <1>2, <1>3, <1>4, <1>5, <1>6, <1>7, <1>8
         DEF Next, NodeNext, ListenerNext, ListenerTx, BackendNext, Quiet

\* The invariant holds always.
LEMMA InvariantHolds == Spec => []IInv
BY Start, Step, PTL DEF Spec

-----------------------------------------------------------------------------
(***************************************************************************)
(* Coins, their ledger entries and invoices.                               *)
(***************************************************************************)

\* Every coin and every spend is in the ledger of its holding, whichever of the
\* listener and the rescan writes it, however their transactions overlap and
\* whatever is lost.
THEOREM ChainCoinsAreInLedger == Spec => []CoinsAreInLedger
<1>1. IInv => CoinsAreInLedger
  BY DEF IInv
<1> QED BY <1>1, InvariantHolds, PTL

\* An invoice that _link_invoice_if_any settled refers to an entry of the
\* holding that the invoice belongs to.
THEOREM ChainPaidInvoiceIsCredited == Spec => []PaidInvoiceIsCredited
<1>1. IInv => PaidInvoiceIsCredited
  BY DEF IInv
<1> QED BY <1>1, InvariantHolds, PTL

\* No step brings back a coin that is spent, or gives it another spender: the
\* unique constraint on the outpoint is enough, no lock is needed.
THEOREM ChainCoinsForward == Spec => CoinsForward
<1>1. ASSUME IInv, [Next]_vars
      PROVE  [\A o \in Outs : CoinForward(o)]_vars
  <2> SUFFICES ASSUME NEW o \in Outs PROVE CoinForward(o)
    OBVIOUS
  <2>1. CASE ListenerApplies
    <3>1. listener.tx \in Txs /\ MarkCoins(listener.tx)
      BY <1>1, <2>1 DEF IInv, QueueOK, ListenerApplies
    <3>2. coin[o] \in {"absent", "unspent", "spent"}
      BY <1>1 DEF IInv, RowsOK
    <3>3. o \in NewCoins(listener.tx) => coin[o] = "absent"
      BY DEF NewCoins
    <3> QED BY <1>1, <3>1, <3>2, <3>3, AppliedRows DEF IInv, CoinForward
  <2>2. CASE ScanCommit
    <3>1. \A x \in scan.new : x \in Outs /\ coin[x] = "absent"
      BY <1>1, <2>2 DEF IInv, ScanOK, ScanState, ScanCommit
    <3> QED BY <2>2, <3>1 DEF ScanCommit, CoinForward
  <2>3. CASE UNCHANGED <<coin, spentBy>>
    BY <2>3 DEF CoinForward
  <2> QED BY <1>1, <2>1, <2>2, <2>3, WhoWrites
<1> QED BY <1>1, InvariantHolds, PTL DEF Spec, CoinsForward
-----------------------------------------------------------------------------
(***************************************************************************)
(* The types of all tables.                                                *)
(***************************************************************************)
\* The columns that IInv leaves out.
ColumnsOK ==
  /\ \A o \in Outs : coin[o] = "spent" <=> spentBy[o] # None
  /\ height \subseteq Outs /\ known \subseteq Txs
  /\ linked \subseteq Txs \X Holdings
  /\ amount \in [Txs \X Holdings -> Int]
  /\ entries \in [Txs -> Nat]
  /\ mempool \subseteq Txs /\ mined \subseteq Txs
  /\ imported \in BOOLEAN /\ dropped \in BOOLEAN
  /\ faults \in Nat

\* Sums of amounts are integers.
LEMMA ValueSum ==
  ASSUME NEW S \in SUBSET Outs
  PROVE  IsFiniteSet(S) /\ Ints(Value, S) /\ SumValues(S) \in Int
<1>1. IsFiniteSet(S) /\ Ints(Value, S)
  BY ChainAssumption, FS_Subset DEF Ints
<1> QED BY <1>1, SumFacts DEF SumValues

\* A transaction affects finitely many holdings.
LEMMA LinksFinite ==
  ASSUME RowsOK, NEW t \in Txs
  PROVE  /\ NewLinks(t) \subseteq Txs \X Holdings
         /\ IsFiniteSet(NewLinks(t)) /\ Cardinality(NewLinks(t)) \in Nat
<1>1. PICK T \in SUBSET Outs : T = SpentInputs(t) \cup Discovered(t)
  BY ChainAssumption DEF SpentInputs, Discovered, Outputs
<1>2. \A o \in T : Owned(o)
  BY <1>1 DEF RowsOK, SpentInputs, Discovered, Watched
<1>3. \A o \in T : Holder(o) \in Holdings
  BY <1>2, ChainAssumption DEF Holder, Owned, Addresses
<1>4. PICK A : A = Affected(t)
  OBVIOUS
<1>5. A = {Holder(o) : o \in T} /\ A \subseteq Holdings
  BY <1>1, <1>3, <1>4 DEF Affected
<1>6. IsFiniteSet(A)
  <2>1. PICK f : f = [o \in T |-> Holder(o)]
    OBVIOUS
  <2>2. f \in [T -> A] /\ \A a \in A : \E o \in T : f[o] = a
    BY <1>5, <2>1
  <2>3. f \in Surjection(T, A)
    BY <2>2 DEF Surjection
  <2> QED BY <2>3, ValueSum, FS_Surjection
<1>7. IsFiniteSet({t} \X A)
  BY <1>6, FS_Singleton, FS_Product
<1>8. NewLinks(t) \in SUBSET ({t} \X A)
  BY <1>4 DEF NewLinks
<1>9. IsFiniteSet(NewLinks(t))
  BY <1>7, <1>8, FS_Subset
<1> QED BY <1>5, <1>8, <1>9, FS_CardinalityType

\* The listener writes what the columns are made for.
LEMMA ColumnsApplied ==
  ASSUME IInv, ColumnsOK, ListenerApplies
  PROVE  ColumnsOK'
<1>1. PICK t \in Txs : /\ t = listener.tx /\ MarkCoins(t) /\ LinkHoldings(t)
                       /\ known' = known \cup {t} /\ height' = HeightsAfter(t, listener.confirmed)
  BY DEF IInv, QueueOK, ListenerApplies
<1>2. \A o \in Outs : coin'[o] = "spent" <=> spentBy'[o] # None
  <2> TAKE o \in Outs
  <2>1. o \in NewCoins(t) => coin[o] = "absent"
    BY DEF NewCoins
  <2> QED BY <1>1, <2>1, AppliedRows, ChainAssumption DEF IInv, RowsOK, ColumnsOK
<1>3. height' \subseteq Outs /\ known' \subseteq Txs
  BY <1>1 DEF HeightsAfter, Discovered, Outputs, ColumnsOK
<1>4. NewLinks(t) \subseteq Txs \X Holdings /\ Cardinality(NewLinks(t)) \in Nat
  BY LinksFinite DEF IInv
<1>5. linked' \subseteq Txs \X Holdings
  BY <1>1, <1>4 DEF LinkHoldings, ColumnsOK
<1>6. \A h : NetAmount(t, h) \in Int
  <2> TAKE h
  <2>1. PICK D \in SUBSET Outs : D = {o \in Discovered(t) : Holder(o) = h}
    BY DEF Discovered, Outputs
  <2>2. PICK I \in SUBSET Outs : I = {i \in SpentInputs(t) : Holder(i) = h}
    BY ChainAssumption DEF SpentInputs
  <2>3. SumValues(D) \in Int /\ SumValues(I) \in Int
    BY ValueSum
  <2>4. NetAmount(t, h) = SumValues(D) - SumValues(I)
    BY <2>1, <2>2 DEF NetAmount
  <2> QED BY <2>3, <2>4
<1>7. amount' \in [Txs \X Holdings -> Int]
  <2>1. PICK N : N = [h \in Holdings |-> NetAmount(t, h)]
    OBVIOUS
  <2>2. N \in [Holdings -> Int]
    BY <1>6, <2>1
  <2>3. amount' = [l \in Txs \X Holdings |-> IF l \in NewLinks(t) THEN N[l[2]] ELSE amount[l]]
    <3>1. \A l \in Txs \X Holdings : l[2] \in Holdings
      OBVIOUS
    <3>2. \A l \in Txs \X Holdings : N[l[2]] = NetAmount(t, l[2])
      BY <2>1, <3>1, Zenon
    <3> QED BY <1>1, <3>2 DEF LinkHoldings
  <2> QED BY <2>2, <2>3 DEF ColumnsOK
<1>8. entries' \in [Txs -> Nat]
  <2>1. PICK n \in Nat : n = EntriesAfter(t)
    BY <1>4 DEF EntriesAfter, ColumnsOK
  <2>2. entries' = [entries EXCEPT ![t] = n]
    BY <1>1, <2>1 DEF LinkHoldings
  <2> QED BY <2>2 DEF ColumnsOK
<1>9. UNCHANGED <<mempool, mined, imported, dropped, faults>>
  BY DEF ListenerApplies, nodeVars, histVars
<1> QED BY <1>2, <1>3, <1>5, <1>7, <1>8, <1>9 DEF ColumnsOK

\* The rescan writes what the columns are made for.
LEMMA ColumnsScanned ==
  ASSUME IInv, ColumnsOK, ScanCommit
  PROVE  ColumnsOK'
<1>1. PICK N \in SUBSET Outs : N = scan.new
  BY DEF IInv, ScanOK, ScanState
<1>2. PICK F \in SUBSET Outs : F = scan.first
  BY DEF IInv, ScanOK, ScanState
<1>3. \A o \in N : coin[o] = "absent" /\ Owned(o) /\ DescriptorOf[Address[o]] = scan.descriptor
  BY <1>1 DEF IInv, ScanOK, ScanCommit
<1>4. \A o \in Outs : coin'[o] = "spent" <=> spentBy'[o] # None
  <2> TAKE o \in Outs
  <2>1. coin' = [p \in Outs |-> IF p \in N THEN "unspent" ELSE coin[p]] /\ spentBy' = spentBy
    BY <1>1 DEF ScanCommit
  <2> QED BY <1>3, <2>1 DEF ColumnsOK
<1>5. height' \subseteq Outs /\ known' \subseteq Txs
  BY <1>1, ChainAssumption DEF ScanCommit, ColumnsOK
<1>6. ScanLinks \subseteq Txs \X Holdings
  <2>1. \A o \in N : Creator[o] \in Txs /\ HoldingOf[scan.descriptor] \in Holdings
    BY <1>3, ChainAssumption DEF Owned, Addresses
  <2> QED BY <1>1, <2>1 DEF ScanLinks
<1>7. linked' \subseteq Txs \X Holdings
  BY <1>6 DEF ScanCommit, ColumnsOK
<1>8. amount' \in [Txs \X Holdings -> Int]
  <2>1. ASSUME NEW l PROVE SumValues({o \in F : Creator[o] = l[1]}) \in Int
    <3>1. {o \in F : Creator[o] = l[1]} \in SUBSET Outs
      OBVIOUS
    <3> QED BY <3>1, ValueSum
  <2>2. PICK S : S = [l \in Txs \X Holdings |-> SumValues({o \in F : Creator[o] = l[1]})]
    OBVIOUS
  <2>3. S \in [Txs \X Holdings -> Int]
    BY <2>1, <2>2
  <2>4. amount' = [l \in Txs \X Holdings |-> IF l \in ScanLinks THEN S[l] ELSE amount[l]]
    BY <1>2, <2>2 DEF ScanCommit
  <2> QED BY <2>3, <2>4 DEF ColumnsOK
<1>9. entries' \in [Txs -> Nat]
  BY DEF ScanCommit, ColumnsOK
<1>10. UNCHANGED <<mempool, mined, dropped, faults>> /\ imported' \in BOOLEAN
  BY DEF ScanCommit, nodeVars, ColumnsOK
<1> QED BY <1>4, <1>5, <1>7, <1>8, <1>9, <1>10 DEF ColumnsOK

\* Every step keeps the types of the columns.
LEMMA ColumnsStep ==
  ASSUME IInv, ColumnsOK, [Next]_vars
  PROVE  ColumnsOK'
<1>1. CASE ListenerApplies
  BY <1>1, ColumnsApplied
<1>2. CASE ScanCommit
  BY <1>2, ColumnsScanned
<1>3. CASE UNCHANGED <<coin, spentBy, height, known, linked, amount, entries>>
  <2>1. mempool' \subseteq Txs /\ mined' \subseteq Txs
    BY DEF ColumnsOK, Next, NodeNext, ListenerNext, ListenerTx, BackendNext, vars, nodeVars,
         Accept, Mine, Evict, ListenerFetch, ListenerFetchNoHeader, ListenerSkip, ListenerIgnores,
         ListenerApplies, ListenerRaises, NotificationLost, WorkerCrash, AttachDescriptor,
         ScanExternal, ScanChange, ScanCommit, ScanFails, CreateInvoice, CancelReads, CancelWrites
  <2>2. imported' \in BOOLEAN /\ dropped' \in BOOLEAN
    BY DEF ColumnsOK, Next, NodeNext, ListenerNext, ListenerTx, BackendNext, vars, histVars, Drop,
         Accept, Mine, Evict, ListenerFetch, ListenerFetchNoHeader, ListenerSkip, ListenerIgnores,
         ListenerApplies, ListenerRaises, NotificationLost, WorkerCrash, AttachDescriptor,
         ScanExternal, ScanChange, ScanCommit, ScanFails, CreateInvoice, CancelReads, CancelWrites
  <2>3. faults' = faults \/ faults' = faults + 1
    BY DEF Next, NodeNext, ListenerNext, ListenerTx, BackendNext, vars, Fault,
         Accept, Mine, Evict, ListenerFetch, ListenerFetchNoHeader, ListenerSkip, ListenerIgnores,
         ListenerApplies, ListenerRaises, NotificationLost, WorkerCrash, AttachDescriptor,
         ScanExternal, ScanChange, ScanCommit, ScanFails, CreateInvoice, CancelReads, CancelWrites
  <2>4. faults' \in Nat
    BY <2>3 DEF ColumnsOK
  <2> QED BY <1>3, <2>1, <2>2, <2>4 DEF ColumnsOK
<1> QED BY <1>1, <1>2, <1>3, WhoWrites

\* The columns have their types always.
LEMMA ColumnsHold == Spec => []ColumnsOK
<1>1. ASSUME Init PROVE ColumnsOK
  <2>1. \A o \in Outs : coin[o] = "spent" <=> spentBy[o] # None
    BY <1>1 DEF Init
  <2>2. amount \in [Txs \X Holdings -> Int] /\ entries \in [Txs -> Nat]
    BY <1>1 DEF Init
  <2> QED BY <1>1, <2>1, <2>2 DEF Init, ColumnsOK
<1>2. IInv /\ ColumnsOK /\ [Next]_vars => ColumnsOK'
  BY ColumnsStep
<1> QED BY <1>1, <1>2, InvariantHolds, PTL DEF Spec

\* All tables keep their types.
THEOREM ChainTypeOK == Spec => []TypeOK
<1>1. IInv /\ ColumnsOK => TypeOK
  BY DEF IInv, RowsOK, QueueOK, ScanOK, InvoicesOK, ColumnsOK, TypeOK
<1> QED BY <1>1, InvariantHolds, ColumnsHold, PTL

-----------------------------------------------------------------------------
(***************************************************************************)
(* The ledger adds up.                                                     *)
(***************************************************************************)
\* An output that was watched before the first transaction.
EarlyOut(o) == Owned(o) /\ DescriptorOf[Address[o]] \in Early

Messages == {"tx", "block"} \X Txs

\* Listener l is working on t.
Handles(l, t) == l.pc = "fetched" /\ l.tx = t

\* In queue q transaction t is announced before position n, or is with l.
Ahead(q, l, t, n) == Handles(l, t) \/ \E j \in 1..(n - 1) : q[j] = <<"tx", t>>

\* Of the transactions A that bitcoind has, the ones with an early output are
\* known or announced, and whoever spends one comes after it.
Ordered(q, l, K, A) ==
  /\ \A o \in Outs : EarlyOut(o) /\ Creator[o] \in A
       => Creator[o] \in K \/ Ahead(q, l, Creator[o], Len(q) + 1)
  /\ \A k \in 1..Len(q) : \A i \in Inputs[q[k][2]] :
       EarlyOut(i) => Creator[i] \in K \/ Ahead(q, l, Creator[i], k)
  /\ l.pc = "fetched" => \A i \in Inputs[l.tx] : EarlyOut(i) => Creator[i] \in K

OrderOK == ~dropped => Ordered(notif, listener, known, mempool \cup mined)

\* What is known has left its traces: links refer to known transactions, spent
\* coins to their spender, and of an undisturbed descriptor all coins are there.
SeenOK ==
  /\ Early \subseteq attached
  /\ \A l \in linked : l[1] \in known
  /\ \A o \in Outs : coin[o] = "spent" => o \in Inputs[spentBy[o]]
  /\ ~imported => \A o \in Outs : EarlyOut(o) /\ Creator[o] \in known => coin[o] # "absent"
  /\ ~imported /\ ~dropped =>
       \A t \in known : \A i \in Inputs[t] : EarlyOut(i) => coin[i] = "spent"

\* q2 is q with messages about t at its end, the first of them its announcement.
Longer(q, q2, t) ==
  /\ Len(q2) > Len(q)
  /\ \A k \in 1..Len(q) : q2[k] = q[k]
  /\ \A k \in (Len(q) + 1)..Len(q2) : q2[k][2] = t
  /\ q2[Len(q) + 1] = <<"tx", t>>

\* Order is kept when bitcoind announces a transaction whose inputs it has.
LEMMA OrderAppends ==
  ASSUME NEW q \in Seq(Messages), NEW q2 \in Seq(Messages), NEW l, NEW K, NEW A, NEW t \in Txs,
         Ordered(q, l, K, A), Longer(q, q2, t), \A i \in Inputs[t] : Creator[i] \in A
  PROVE  Ordered(q2, l, K, A \cup {t})
<1>1. PICK n \in Nat, m \in Nat : n = Len(q) /\ m = Len(q2) /\ n < m
  BY DEF Longer
<1>2. /\ \A k \in 1..n : q2[k] = q[k]
      /\ \A k \in (n + 1)..m : q2[k][2] = t
      /\ q2[n + 1] = <<"tx", t>>
  BY <1>1 DEF Longer
<1>3. ASSUME NEW c, NEW k \in 1..(n + 1), Ahead(q, l, c, k)
      PROVE  \A j \in k..(m + 1) : Ahead(q2, l, c, j)
  BY <1>1, <1>2, <1>3 DEF Ahead
<1>4. ASSUME NEW o \in Outs, EarlyOut(o), Creator[o] \in A
      PROVE  Creator[o] \in K \/ \A k \in (n + 1)..(m + 1) : Ahead(q2, l, Creator[o], k)
  <2>1. Creator[o] \in K \/ Ahead(q, l, Creator[o], n + 1)
    BY <1>1, <1>4 DEF Ordered
  <2> QED BY <1>1, <1>3, <2>1
<1>5. ASSUME NEW o \in Outs, EarlyOut(o), Creator[o] \in A \cup {t}
      PROVE  Creator[o] \in K \/ Ahead(q2, l, Creator[o], m + 1)
  <2>1. CASE Creator[o] = t
    BY <1>1, <1>2, <2>1 DEF Ahead
  <2>2. CASE Creator[o] # t
    BY <1>1, <1>4, <1>5, <2>2
  <2> QED BY <2>1, <2>2
<1>6. ASSUME NEW k \in 1..m, NEW i \in Inputs[q2[k][2]], EarlyOut(i)
      PROVE  Creator[i] \in K \/ Ahead(q2, l, Creator[i], k)
  <2>1. CASE k \in 1..n
    <3>1. Creator[i] \in K \/ Ahead(q, l, Creator[i], k)
      BY <1>1, <1>2, <1>6, <2>1 DEF Ordered
    <3> QED BY <1>1, <1>3, <2>1, <3>1
  <2>2. CASE k \in (n + 1)..m
    <3>1. i \in Inputs[t] /\ i \in Outs
      BY <1>2, <1>6, <2>2, ChainAssumption
    <3> QED BY <1>1, <1>4, <1>6, <2>2, <3>1
  <2> QED BY <1>1, <2>1, <2>2
<1> QED BY <1>1, <1>5, <1>6 DEF Ordered

\* The head of the queue is taken: it is with the listener now, or its
\* transaction is known.
LEMMA OrderPops ==
  ASSUME NEW q \in Seq(Messages), NEW l, NEW l2, NEW K, NEW A,
         Ordered(q, l, K, A), q # <<>>, l.pc = "idle",
         \A c \in Txs : q[1] = <<"tx", c>> => c \in K \/ Handles(l2, c),
         l2.pc = "fetched" => l2.tx = q[1][2]
  PROVE  Ordered(Tail(q), l2, K, A)
<1>1. PICK n \in Nat : n = Len(q) /\ n >= 1
  OBVIOUS
<1>2. PICK r \in Seq(Messages) : r = Tail(q)
  <2>1. Tail(q) \in Seq(Messages)
    OBVIOUS
  <2> QED BY <2>1, Zenon
<1>3. Len(r) = n - 1 /\ \A k \in 1..(n - 1) : r[k] = q[k + 1]
  BY <1>1, <1>2
<1>4. ASSUME NEW o \in Outs, NEW k \in 1..n, Creator[o] \in K \/ Ahead(q, l, Creator[o], k + 1)
      PROVE  Creator[o] \in K \/ Ahead(r, l2, Creator[o], k)
  <2>1. Creator[o] \in Txs
    BY ChainAssumption
  <2>2. SUFFICES ASSUME Creator[o] \notin K PROVE Ahead(r, l2, Creator[o], k)
    OBVIOUS
  <2>3. PICK j \in 1..k : q[j] = <<"tx", Creator[o]>>
    BY <1>4, <2>2 DEF Ahead, Handles
  <2>4. CASE j = 1
    BY <2>1, <2>2, <2>3, <2>4 DEF Ahead
  <2>5. CASE j # 1
    <3>1. j - 1 \in 1..(k - 1) /\ r[j - 1] = <<"tx", Creator[o]>>
      BY <1>1, <1>3, <2>3, <2>5
    <3> QED BY <3>1 DEF Ahead
  <2> QED BY <2>4, <2>5
<1>5. ASSUME NEW o \in Outs, EarlyOut(o), Creator[o] \in A
      PROVE  Creator[o] \in K \/ Ahead(r, l2, Creator[o], n)
  BY <1>1, <1>4, <1>5 DEF Ordered
<1>6. ASSUME NEW k \in 1..(n - 1), NEW i \in Inputs[r[k][2]], EarlyOut(i)
      PROVE  Creator[i] \in K \/ Ahead(r, l2, Creator[i], k)
  <2>1. k + 1 \in 1..n /\ r[k] = q[k + 1] /\ k \in 1..n
    BY <1>1, <1>3
  <2>2. q[k + 1][2] \in Txs
    BY <1>1, <2>1 DEF Messages
  <2>3. i \in Outs
    BY <1>6, <2>1, <2>2, ChainAssumption
  <2>4. Creator[i] \in K \/ Ahead(q, l, Creator[i], k + 1)
    BY <1>1, <1>6, <2>1 DEF Ordered
  <2> QED BY <1>4, <2>1, <2>3, <2>4
<1>7. ASSUME l2.pc = "fetched", NEW i \in Inputs[l2.tx], EarlyOut(i)
      PROVE  Creator[i] \in K
  <2>1. Creator[i] \in K \/ Ahead(q, l, Creator[i], 1)
    BY <1>1, <1>7 DEF Ordered
  <2> QED BY <2>1 DEF Ahead, Handles
<1>8. Len(r) + 1 = n
  BY <1>1, <1>3
<1> QED BY <1>2, <1>3, <1>5, <1>6, <1>7, <1>8 DEF Ordered

\* More is known, and the listener may have ended its work on a transaction.
LEMMA OrderStays ==
  ASSUME NEW q \in Seq(Messages), NEW l, NEW l2, NEW K, NEW K2, NEW A, NEW A2,
         Ordered(q, l, K, A), K \subseteq K2, A2 \subseteq A,
         \/ l2 = l
         \/ /\ l2.pc = "idle"
            /\ \A o \in Outs : EarlyOut(o) /\ Handles(l, Creator[o]) => Creator[o] \in K2
  PROVE  Ordered(q, l2, K2, A2)
<1>1. ASSUME NEW o \in Outs, NEW k, EarlyOut(o), Creator[o] \in K \/ Ahead(q, l, Creator[o], k)
      PROVE  Creator[o] \in K2 \/ Ahead(q, l2, Creator[o], k)
  BY <1>1 DEF Ahead, Handles
<1>2. \A o \in Outs : EarlyOut(o) /\ Creator[o] \in A2
        => Creator[o] \in K2 \/ Ahead(q, l2, Creator[o], Len(q) + 1)
  BY <1>1 DEF Ordered
<1>3. ASSUME NEW k \in 1..Len(q), NEW i \in Inputs[q[k][2]], EarlyOut(i)
      PROVE  Creator[i] \in K2 \/ Ahead(q, l2, Creator[i], k)
  <2>1. q[k][2] \in Txs
    BY DEF Messages
  <2>2. i \in Outs
    BY <2>1, ChainAssumption
  <2>3. Creator[i] \in K \/ Ahead(q, l, Creator[i], k)
    BY <1>3 DEF Ordered
  <2> QED BY <1>1, <1>3, <2>2, <2>3
<1>4. l2.pc = "fetched" => \A i \in Inputs[l2.tx] : EarlyOut(i) => Creator[i] \in K2
  BY DEF Ordered
<1> QED BY <1>2, <1>3, <1>4 DEF Ordered

\* What bitcoind appends to the queue.
LEMMA Announces ==
  ASSUME QueueOK, NEW t \in Txs, Accept(t) \/ Mine(t)
  PROVE  notif \in Seq(Messages) /\ notif' \in Seq(Messages) /\ Longer(notif, notif', t)
<1>1. PICK q \in Seq(Messages), n \in Nat : q = notif /\ n = Len(q)
  BY DEF QueueOK, Messages
<1>2. CASE Accept(t)
  <2>1. PICK m \in Messages : m = <<"tx", t>>
    BY DEF Messages
  <2>2. notif' = Append(q, m)
    BY <1>1, <1>2, <2>1 DEF Accept
  <2>3. /\ notif' \in Seq(Messages) /\ Len(notif') = n + 1
        /\ \A k \in 1..n : notif'[k] = q[k]
        /\ notif'[n + 1] = m
    BY <1>1, <2>2
  <2>4. m[2] = t
    BY <2>1
  <2> QED BY <1>1, <2>1, <2>3, <2>4 DEF Longer
<1>3. CASE Mine(t)
  <2>1. PICK a \in Messages, b \in Messages : a = <<"tx", t>> /\ b = <<"block", t>>
    BY DEF Messages
  <2>2. notif' = q \o <<a, b>>
    BY <1>1, <1>3, <2>1 DEF Mine
  <2>3. PICK w \in Seq(Messages) : w = <<a, b>> /\ Len(w) = 2 /\ w[1] = a /\ w[2] = b
    <3>1. <<a, b>> \in Seq(Messages)
      OBVIOUS
    <3> QED BY <3>1
  <2>4. /\ notif' \in Seq(Messages) /\ Len(notif') = n + 2
        /\ \A k \in 1..n : notif'[k] = q[k]
        /\ notif'[n + 1] = a /\ notif'[n + 2] = b
    BY <1>1, <2>2, <2>3
  <2>5. a[2] = t /\ b[2] = t
    BY <2>1
  <2>6. \A k \in (n + 1)..(n + 2) : k = n + 1 \/ k = n + 2
    OBVIOUS
  <2> QED BY <1>1, <2>1, <2>4, <2>5, <2>6 DEF Longer
<1> QED BY <1>2, <1>3

\* What bitcoind, the listener and the rescan do to the queue, in one step.
LEMMA OrderStep ==
  ASSUME IInv, OrderOK, SeenOK, [Next]_vars
  PROVE  OrderOK'
<1>0. notif \in Seq(Messages)
  BY DEF IInv, QueueOK, Messages
<1>1. ASSUME NEW t \in Txs, Accept(t) \/ Mine(t)
      PROVE  OrderOK'
  <2>1. Longer(notif, notif', t) /\ notif' \in Seq(Messages)
    BY <1>1, Announces DEF IInv
  <2>2. /\ known' = known /\ listener' = listener /\ dropped' = dropped
        /\ mempool' \cup mined' = (mempool \cup mined) \cup {t}
        /\ \A i \in Inputs[t] : Creator[i] \in mempool \cup mined
    BY <1>1 DEF Accept, Mine, coinVars, histVars
  <2>3. ~dropped => Ordered(notif', listener, known, (mempool \cup mined) \cup {t})
    BY <1>0, <2>1, <2>2, OrderAppends DEF OrderOK
  <2> QED BY <2>2, <2>3 DEF OrderOK
<1>2. ASSUME notif # <<>>, notif' = Tail(notif), listener.pc = "idle", known' = known,
             mempool' = mempool, mined' = mined, dropped => dropped',
             \A c \in Txs : notif[1] = <<"tx", c>> /\ ~dropped' => c \in known \/ Handles(listener', c),
             listener'.pc = "fetched" => listener'.tx = notif[1][2]
      PROVE  OrderOK'
  <2> SUFFICES ASSUME ~dropped', ~dropped PROVE Ordered(notif', listener', known', (mempool \cup mined)')
    BY <1>2 DEF OrderOK
  <2>1. Ordered(Tail(notif), listener', known, mempool \cup mined)
    BY <1>0, <1>2, OrderPops DEF OrderOK
  <2> QED BY <1>2, <2>1
<1>3. ASSUME notif' = notif, known \subseteq known', mempool' \cup mined' \subseteq mempool \cup mined,
             dropped => dropped',
             \/ listener' = listener
             \/ /\ listener' = IdleListener
                /\ \A o \in Outs : EarlyOut(o) /\ Handles(listener, Creator[o]) /\ ~dropped'
                                  => Creator[o] \in known'
      PROVE  OrderOK'
  <2> SUFFICES ASSUME ~dropped', ~dropped
               PROVE  Ordered(notif, listener', known', mempool' \cup mined')
    BY <1>3 DEF OrderOK
  <2>1. IdleListener.pc = "idle"
    BY DEF IdleListener
  <2>2. \/ listener' = listener
        \/ /\ listener'.pc = "idle"
           /\ \A o \in Outs : EarlyOut(o) /\ Handles(listener, Creator[o]) => Creator[o] \in known'
    BY <1>3, <2>1
  <2> QED BY <1>0, <1>3, <2>2, OrderStays DEF OrderOK
<1>4. CASE \E t \in Txs : Evict(t)
  BY <1>3, <1>4 DEF Evict, coinVars, histVars
<1>5. CASE ListenerFetch \/ ListenerFetchNoHeader
  <2>1. /\ listener'.pc = "fetched" /\ listener'.tx = Head(notif)[2]
        /\ notif # <<>> /\ notif' = Tail(notif) /\ listener.pc = "idle"
        /\ UNCHANGED <<known, mempool, mined, dropped>>
    BY <1>5 DEF ListenerFetch, ListenerFetchNoHeader, coinVars, histVars
  <2>2. notif[1] = Head(notif)
    BY <1>0, <2>1
  <2>3. \A c \in Txs : notif[1] = <<"tx", c>> => notif[1][2] = c
    OBVIOUS
  <2> QED BY <1>2, <2>1, <2>2, <2>3 DEF Handles
<1>6. CASE ListenerSkip
  <2>1. /\ notif # <<>> /\ notif' = Tail(notif) /\ listener.pc = "idle"
        /\ UNCHANGED <<known, mempool, mined, listener>>
        /\ IF Head(notif)[1] = "tx" THEN Drop({Head(notif)[2]}) ELSE UNCHANGED dropped
    BY <1>6 DEF ListenerSkip, coinVars
  <2>2. notif[1] = Head(notif)
    BY <1>0, <2>1
  <2>3. \A c \in Txs : notif[1] = <<"tx", c>> => notif[1][2] = c /\ notif[1][1] = "tx"
    OBVIOUS
  <2>4. \A c \in Txs : notif[1] = <<"tx", c>> /\ ~dropped' => c \in known
    BY <2>1, <2>2, <2>3 DEF Drop
  <2>5. dropped => dropped'
    BY <2>1 DEF Drop
  <2> QED BY <1>2, <2>1, <2>4, <2>5
<1>7. CASE ListenerIgnores
  <2>1. /\ ~Concerns(listener.tx) /\ listener' = IdleListener
        /\ UNCHANGED <<notif, known, mempool, mined, dropped>>
    BY <1>7 DEF ListenerIgnores, coinVars, nodeVars, histVars
  <2>2. ASSUME NEW o \in Outs, EarlyOut(o), Handles(listener, Creator[o]) PROVE FALSE
    <3>1. o \in Discovered(listener.tx)
      BY <2>2 DEF SeenOK, EarlyOut, Handles, Discovered, Outputs, Watched
    <3> QED BY <2>1, <3>1 DEF Concerns
  <2> QED BY <1>3, <2>1, <2>2
<1>8. CASE ListenerApplies
  <2>1. /\ listener' = IdleListener /\ known' = known \cup {listener.tx}
        /\ UNCHANGED <<notif, mempool, mined, dropped>>
    BY <1>8 DEF ListenerApplies, nodeVars, histVars
  <2> QED BY <1>3, <2>1 DEF Handles
<1>9. CASE ListenerRaises
  <2>1. /\ listener' = IdleListener /\ Drop({listener.tx})
        /\ UNCHANGED <<notif, mempool, mined, known>>
    BY <1>9 DEF ListenerRaises, nodeVars, coinVars
  <2> QED BY <1>3, <2>1 DEF Handles, Drop
<1>10. CASE NotificationLost \/ WorkerCrash
  BY <1>10 DEF NotificationLost, WorkerCrash, OrderOK
<1>11. CASE ScanCommit
  <2>1. /\ known' = known \cup {Creator[o] : o \in scan.new}
        /\ listener' = listener \/ (ConflictsWithScan /\ listener' = IdleListener)
        /\ UNCHANGED <<notif, mempool, mined, dropped>>
    BY <1>11 DEF ScanCommit, nodeVars
  <2>2. ConflictsWithScan => listener.tx \in known'
    BY <2>1 DEF ConflictsWithScan, NewCoins, Discovered, Outputs
  <2> QED BY <1>3, <2>1, <2>2 DEF Handles
<1>12. CASE BackendNext /\ ~ScanCommit
  <2>1. UNCHANGED <<notif, known, mempool, mined, dropped, listener>>
    BY <1>12 DEF BackendNext, AttachDescriptor, ScanExternal, ScanChange, ScanFails, CreateInvoice,
         CancelReads, CancelWrites, coinVars, nodeVars, histVars
  <2> QED BY <1>3, <2>1
<1>13. CASE UNCHANGED vars
  BY <1>3, <1>13 DEF vars
<1> QED BY <1>1, <1>4, <1>5, <1>6, <1>7, <1>8, <1>9, <1>10, <1>11, <1>12, <1>13
         DEF Next, NodeNext, ListenerNext, ListenerTx

\* A rescan that found nothing new writes nothing.
LEMMA EmptyScan ==
  ASSUME IInv, ColumnsOK, ScanCommit, ~imported'
  PROVE  scan.new = {} /\ UNCHANGED <<coin, spentBy, known, linked, amount>>
<1>1. scan.new = {} /\ spentBy' = spentBy
  BY DEF ScanCommit
<1>2. ScanLinks = {}
  BY <1>1 DEF ScanLinks
<1>3. coin' = coin /\ known' = known /\ linked' = linked
  BY <1>1, <1>2 DEF ScanCommit, IInv, RowsOK
<1>4. amount' = amount
  <2>1. amount' = [l \in Txs \X Holdings |-> amount[l]]
    BY <1>2 DEF ScanCommit
  <2> QED BY <2>1 DEF ColumnsOK
<1> QED BY <1>1, <1>3, <1>4

\* What is known has left its traces in the coins.
LEMMA SeenStep ==
  ASSUME IInv, ColumnsOK, OrderOK, SeenOK, [Next]_vars
  PROVE  SeenOK'
<1>1. Early \subseteq attached' /\ (imported => imported') /\ (dropped => dropped')
  BY Monotone DEF SeenOK
<1>2. CASE UNCHANGED <<coin, spentBy, known, linked>>
  BY <1>1, <1>2 DEF SeenOK
<1>3. CASE ListenerApplies
  <2>1. PICK t \in Txs : /\ t = listener.tx /\ listener.pc = "fetched" /\ MarkCoins(t)
                         /\ LinkHoldings(t) /\ known' = known \cup {t}
    BY <1>3 DEF IInv, QueueOK, ListenerApplies
  <2>2. \A l \in linked' : l[1] \in known'
    BY <2>1 DEF LinkHoldings, NewLinks, SeenOK
  <2>3. \A o \in Outs : coin'[o] = "spent" => o \in Inputs[spentBy'[o]]
    <3> SUFFICES ASSUME NEW o \in Outs, coin'[o] = "spent" PROVE o \in Inputs[spentBy'[o]]
      OBVIOUS
    <3>1. coin[o] \in {"absent", "unspent", "spent"}
      BY DEF IInv, RowsOK
    <3>2. CASE o \in SpentInputs(t) /\ coin[o] = "unspent"
      BY <2>1, <3>2, AppliedRows DEF IInv, SpentInputs
    <3>3. CASE ~(o \in SpentInputs(t) /\ coin[o] = "unspent")
      <4>1. coin[o] = "spent" /\ spentBy'[o] = spentBy[o]
        BY <2>1, <3>1, <3>3, AppliedRows DEF IInv
      <4> QED BY <4>1 DEF SeenOK
    <3> QED BY <3>2, <3>3
  <2>4. ASSUME ~imported', NEW o \in Outs, EarlyOut(o), Creator[o] \in known'
        PROVE  coin'[o] # "absent"
    <3>1. CASE Creator[o] \in known
      <4>1. coin[o] # "absent"
        BY <1>1, <2>4, <3>1 DEF SeenOK
      <4> QED BY <2>1, <4>1, AppliedRows DEF IInv
    <3>2. CASE Creator[o] = t
      <4>1. o \in Discovered(t)
        BY <2>4, <3>2 DEF EarlyOut, SeenOK, Discovered, Outputs, Watched
      <4>2. coin[o] = "absent" => o \in NewCoins(t)
        BY <4>1 DEF NewCoins
      <4> QED BY <2>1, <4>2, AppliedRows DEF IInv
    <3> QED BY <2>1, <2>4, <3>1, <3>2
  <2>5. ASSUME ~imported', ~dropped', NEW u \in known', NEW i \in Inputs[u], EarlyOut(i)
        PROVE  coin'[i] = "spent"
    <3>0. u \in Txs /\ i \in Outs
      BY <2>1, ChainAssumption DEF ColumnsOK
    <3>1. CASE u \in known
      <4>1. coin[i] = "spent"
        BY <1>1, <2>5, <3>1 DEF SeenOK
      <4>2. i \notin NewCoins(t)
        BY <4>1 DEF NewCoins
      <4> QED BY <2>1, <3>0, <4>1, <4>2, AppliedRows DEF IInv
    <3>2. CASE u = t
      <4>1. Creator[i] \in known
        BY <1>1, <2>1, <2>5, <3>2 DEF OrderOK, Ordered
      <4>2. coin[i] # "absent"
        BY <1>1, <2>5, <3>0, <4>1 DEF SeenOK
      <4>3. i \in SpentInputs(t)
        BY <2>5, <3>2, <4>2 DEF SpentInputs
      <4> QED BY <2>1, <3>0, <4>3, AppliedRows DEF IInv
    <3> QED BY <2>1, <3>1, <3>2
  <2> QED BY <1>1, <2>2, <2>3, <2>4, <2>5 DEF SeenOK, EarlyOut, Owned
<1>4. CASE ScanCommit
  <2>1. CASE ~imported'
    BY <1>2, <1>4, <2>1, EmptyScan
  <2>2. CASE imported'
    <3>1. /\ linked' = linked \cup ScanLinks /\ known' = known \cup {Creator[o] : o \in scan.new}
          /\ coin' = [o \in Outs |-> IF o \in scan.new THEN "unspent" ELSE coin[o]]
          /\ spentBy' = spentBy
      BY <1>4 DEF ScanCommit
    <3>2. \A l \in linked' : l[1] \in known'
      BY <3>1 DEF ScanLinks, SeenOK
    <3>3. \A o \in Outs : coin'[o] = "spent" => o \in Inputs[spentBy'[o]]
      BY <3>1 DEF SeenOK
    <3> QED BY <1>1, <2>2, <3>2, <3>3 DEF SeenOK
  <2> QED BY <2>1, <2>2
<1> QED BY <1>2, <1>3, <1>4, WhoWrites

\* Coins and the outputs of a rescan have a descriptor that is attached.
WatchedOK ==
  /\ \A o \in Outs : coin[o] # "absent" => Watched(o)
  /\ scan.pc # "idle" => scan.descriptor \in attached

\* Only outputs of attached descriptors become coins.
LEMMA WatchedStep ==
  ASSUME IInv, WatchedOK, [Next]_vars
  PROVE  WatchedOK'
<1>1. attached \subseteq attached'
  BY Monotone
<1>2. scan'.pc # "idle" => scan'.descriptor \in attached'
  <2>1. CASE scan' = scan
    BY <1>1, <2>1 DEF WatchedOK
  <2>2. ASSUME NEW d \in Descriptors, ScanExternal(d) PROVE scan'.descriptor = d /\ d \in attached
    BY <2>2 DEF ScanExternal
  <2>3. CASE ScanChange
    <3>1. scan'.descriptor = scan.descriptor /\ scan.pc = "external"
      BY <2>3 DEF ScanChange
    <3> QED BY <1>1, <3>1 DEF WatchedOK
  <2>4. CASE ScanCommit \/ ScanFails
    BY <2>4 DEF ScanCommit, ScanFails, IdleScan
  <2>5. \/ scan' = scan \/ (\E d \in Descriptors : ScanExternal(d)) \/ ScanChange
        \/ ScanCommit \/ ScanFails
    BY DEF Next, NodeNext, ListenerNext, ListenerTx, BackendNext, vars,
         Accept, Mine, Evict, ListenerFetch, ListenerFetchNoHeader, ListenerSkip, ListenerIgnores,
         ListenerApplies, ListenerRaises, NotificationLost, WorkerCrash, AttachDescriptor,
         CreateInvoice, CancelReads, CancelWrites
  <2> QED BY <1>1, <2>1, <2>2, <2>3, <2>4, <2>5
<1>3. ASSUME NEW o \in Outs, coin'[o] # "absent", coin[o] = "absent"
      PROVE  Watched(o)
  <2>1. CASE ListenerApplies
    <3>1. listener.tx \in Txs /\ MarkCoins(listener.tx)
      BY <2>1 DEF IInv, QueueOK, ListenerApplies
    <3>2. o \in NewCoins(listener.tx)
      BY <1>3, <3>1, AppliedRows DEF IInv
    <3> QED BY <3>2 DEF NewCoins, Discovered
  <2>2. CASE ScanCommit
    <3>1. o \in scan.new /\ scan.pc # "idle"
      BY <1>3, <2>2 DEF ScanCommit
    <3> QED BY <3>1 DEF IInv, ScanOK, WatchedOK, Watched
  <2> QED BY <1>3, <2>1, <2>2, WhoWrites
<1>4. \A o \in Outs : Watched(o) => Watched(o)'
  BY <1>1 DEF Watched, Owned
<1> QED BY <1>2, <1>3, <1>4 DEF WatchedOK

\* A step can only disturb a holding.
LEMMA UndisturbedBefore ==
  ASSUME ColumnsOK, [Next]_vars, NEW h \in Holdings, Undisturbed(h)', ~imported'
  PROVE  Undisturbed(h) /\ ~imported
<1>1. attached \subseteq attached' /\ (imported => imported') /\ (dropped => dropped')
  BY Monotone
<1>2. known \subseteq known'
  BY WhoWrites DEF ListenerApplies, ScanCommit
<1> QED BY <1>1, <1>2 DEF Undisturbed

\* The links of a holding are finite and have integer amounts.
LEMMA LinksOf ==
  ASSUME ColumnsOK, IsFiniteSet(linked), NEW h
  PROVE  /\ IsFiniteSet({l \in linked : l[2] = h})
         /\ Ints(amount, {l \in linked : l[2] = h})
<1>1. {l \in linked : l[2] = h} \in SUBSET linked
  OBVIOUS
<1> QED BY <1>1, FS_Subset DEF ColumnsOK, Ints

\* The balance of an undisturbed holding and the sum of its entries move by the
\* same amount when a transaction is applied.  The first time its whole effect
\* is on coins that were untouched; any other time it has none.
LEMMA AppliedAddsUp ==
  ASSUME IInv, ColumnsOK, ColumnsOK', SeenOK, WatchedOK, IsFiniteSet(linked), ListenerApplies,
         NEW h \in Holdings, Undisturbed(h)', ~imported', [Next]_vars, LedgerTotal(h) = Balance(h)
  PROVE  LedgerTotal(h)' = Balance(h)'
<1>1. PICK t \in Txs : /\ t = listener.tx /\ listener.pc = "fetched" /\ MarkCoins(t)
                       /\ LinkHoldings(t) /\ known' = known \cup {t}
  BY DEF IInv, QueueOK, ListenerApplies
<1>2. Undisturbed(h) /\ ~imported /\ ~dropped
  BY UndisturbedBefore DEF Undisturbed
<1>3. PICK D \in SUBSET Outs : D = {o \in Discovered(t) : Holder(o) = h}
  BY DEF Discovered, Outputs
<1>4. PICK I \in SUBSET Outs : I = {i \in SpentInputs(t) : Holder(i) = h}
  BY ChainAssumption DEF SpentInputs
<1>5. PICK B \in SUBSET Outs, C \in SUBSET Outs :
        /\ B = {o \in Outs : coin[o] = "unspent" /\ Holder(o) = h}
        /\ C = {o \in Outs : coin'[o] = "unspent" /\ Holder(o) = h}
  OBVIOUS
<1>6. Balance(h) = SumValues(B) /\ Balance(h)' = SumValues(C)
  BY <1>5 DEF Balance, Holder, SumValues
<1>7. PICK L, M : L = {l \in linked : l[2] = h} /\ M = {l \in linked' : l[2] = h}
  OBVIOUS
<1>8. LedgerTotal(h) = SumFunctionOnSet(amount, L) /\ LedgerTotal(h)' = SumFunctionOnSet(amount', M)
  BY <1>7 DEF LedgerTotal
<1>9. IsFiniteSet(L) /\ Ints(amount, L)
  BY <1>7, LinksOf
<1>10. \A l \in linked : amount'[l] = amount[l]
  BY <1>1 DEF LinkHoldings, NewLinks, ColumnsOK
<1>11. \A o \in D : EarlyOut(o) /\ Creator[o] = t
  BY <1>2, <1>3 DEF Undisturbed, Discovered, Outputs, Watched, Holder, EarlyOut
<1>12. \A i \in I : EarlyOut(i) /\ i \in Inputs[t] /\ coin[i] # "absent"
  BY <1>2, <1>4 DEF Undisturbed, SpentInputs, WatchedOK, Watched, Holder, EarlyOut
<1>13. \A o \in Outs : Holder(o) = h => /\ o \in SpentInputs(t) <=> o \in I
                                        /\ o \in NewCoins(t) => o \in D /\ coin[o] = "absent"
                                        /\ o \in D /\ coin[o] = "absent" => o \in NewCoins(t)
  BY <1>3, <1>4 DEF NewCoins
<1>14. \A o \in Outs : coin[o] \in {"absent", "unspent", "spent"}
  BY DEF IInv, RowsOK
<1>15. \A l \in NewLinks(t) : l[2] = h => l = <<t, h>> /\ <<t, h>> \notin linked
  BY DEF NewLinks
<1>16. CASE <<t, h>> \in linked
  <2>1. t \in known
    BY <1>16 DEF SeenOK
  <2>2. \A o \in D : coin[o] # "absent"
    BY <1>2, <1>11, <2>1 DEF SeenOK
  <2>3. \A i \in I : coin[i] = "spent"
    BY <1>2, <1>12, <2>1 DEF SeenOK
  <2>4. ASSUME NEW o \in Outs, Holder(o) = h
        PROVE  coin'[o] = "unspent" <=> coin[o] = "unspent"
    BY <1>1, <1>13, <2>2, <2>3, <2>4, AppliedRows DEF IInv
  <2>5. C = B
    BY <1>5, <2>4
  <2>6. M = L
    BY <1>1, <1>7, <1>15, <1>16 DEF LinkHoldings
  <2>7. SumFunctionOnSet(amount', L) = SumFunctionOnSet(amount, L)
    BY <1>7, <1>9, <1>10, SumFacts
  <2> QED BY <1>6, <1>8, <2>5, <2>6, <2>7
<1>17. CASE <<t, h>> \notin linked
  <2>1. \A o \in D : coin[o] = "absent"
    BY <1>3, <1>11, <1>17 DEF IInv, CoinsAreInLedger
  <2>2. \A i \in I : coin[i] = "unspent"
    <3> SUFFICES ASSUME NEW i \in I, coin[i] = "spent" PROVE FALSE
      BY <1>12, <1>14
    <3>1. PICK u \in Txs : u = spentBy[i]
      BY DEF IInv, RowsOK
    <3>2. u \in known /\ <<u, h>> \in linked /\ i \in Inputs[u]
      BY <1>4, <3>1 DEF IInv, CoinsAreInLedger, SeenOK
    <3>3. u # t
      BY <1>17, <3>2
    <3>4. Inputs[t] \cap Inputs[u] = {}
      BY <1>1, <3>2, <3>3 DEF Undisturbed
    <3> QED BY <1>12, <3>2, <3>4
  <2>3. ASSUME NEW o \in Outs, Holder(o) = h
        PROVE  coin'[o] = "unspent" <=> o \in D \/ (coin[o] = "unspent" /\ o \notin I)
    BY <1>1, <1>13, <1>14, <2>1, <2>2, <2>3, AppliedRows DEF IInv
  <2>4. PICK R \in SUBSET Outs : R = B \ I
    OBVIOUS
  <2>5. \A o \in D \cup I : Holder(o) = h
    BY <1>3, <1>4
  <2>6. C = R \cup D /\ R \cap D = {}
    <3>1. C = R \cup D
      BY <1>5, <2>3, <2>4, <2>5
    <3>2. R \cap D = {}
      BY <1>5, <2>1, <2>4
    <3> QED BY <3>1, <3>2
  <2>7. B = R \cup I /\ R \cap I = {}
    BY <1>5, <2>2, <2>4, <2>5
  <2>8. SumValues(C) = SumValues(R) + SumValues(D) /\ SumValues(B) = SumValues(R) + SumValues(I)
    <3>1. ASSUME NEW X \in SUBSET Outs, NEW Y \in SUBSET Outs, X \cap Y = {}
          PROVE  SumValues(X \cup Y) = SumValues(X) + SumValues(Y)
      <4>1. IsFiniteSet(X) /\ IsFiniteSet(Y) /\ X \cup Y \in SUBSET Outs
        BY ValueSum
      <4>2. Ints(Value, X \cup Y)
        BY <4>1, ValueSum
      <4> QED BY <3>1, <4>1, <4>2, SumUnion DEF SumValues
    <3> QED BY <2>6, <2>7, <3>1
  <2>9. /\ SumValues(R) \in Int /\ SumValues(D) \in Int /\ SumValues(I) \in Int
    BY ValueSum
  <2>10. CASE h \in Affected(t)
    <3>1. <<t, h>> \in NewLinks(t)
      BY <1>17, <2>10 DEF NewLinks
    <3>2. amount'[<<t, h>>] = SumValues(D) - SumValues(I)
      <4>1. amount'[<<t, h>>] = NetAmount(t, <<t, h>>[2])
        BY <1>1, <3>1 DEF LinkHoldings
      <4>2. amount'[<<t, h>>] = NetAmount(t, h)
        BY <4>1
      <4> QED BY <1>3, <1>4, <4>2 DEF NetAmount
    <3>3. M = L \cup {<<t, h>>} /\ L \cap {<<t, h>>} = {}
      BY <1>1, <1>7, <1>15, <1>17, <3>1 DEF LinkHoldings
    <3>4. PICK f, p : f = amount' /\ p = <<t, h>>
      OBVIOUS
    <3>5. f[p] \in Int
      BY <2>9, <3>2, <3>4
    <3>6. Ints(f, L \cup {p}) /\ Ints(f, {p}) /\ IsFiniteSet({p})
      BY <1>7, <1>9, <1>10, <3>4, <3>5, FS_Singleton DEF Ints
    <3>7. SumFunctionOnSet(f, L \cup {p}) = SumFunctionOnSet(f, L) + SumFunctionOnSet(f, {p})
      BY <1>9, <3>3, <3>4, <3>6, SumUnion
    <3>8. SumFunctionOnSet(f, {p}) = f[p]
      BY <3>6, SumFacts
    <3>9. SumFunctionOnSet(f, L) = SumFunctionOnSet(amount, L)
      BY <1>7, <1>9, <1>10, <3>4, SumFacts
    <3>10. PICK x \in Int : x = SumFunctionOnSet(amount, L)
      BY <1>9, SumFacts
    <3>11. LedgerTotal(h)' = x + (SumValues(D) - SumValues(I))
      BY <1>8, <3>2, <3>3, <3>4, <3>7, <3>8, <3>9, <3>10
    <3>12. x = SumValues(R) + SumValues(I)
      BY <1>6, <1>8, <2>8, <3>10
    <3>13. Balance(h)' = SumValues(R) + SumValues(D)
      BY <1>6, <2>8
    <3> QED BY <2>9, <3>11, <3>12, <3>13
  <2>11. CASE h \notin Affected(t)
    <3>1. D = {} /\ I = {}
      BY <1>3, <1>4, <2>11 DEF Affected
    <3>2. C = B
      BY <2>6, <2>7, <3>1
    <3>3. M = L
      BY <1>1, <1>7, <1>15, <2>11 DEF LinkHoldings, NewLinks
    <3>4. SumFunctionOnSet(amount', L) = SumFunctionOnSet(amount, L)
      BY <1>7, <1>9, <1>10, SumFacts
    <3> QED BY <1>6, <1>8, <3>2, <3>3, <3>4
  <2> QED BY <2>10, <2>11
<1> QED BY <1>16, <1>17

\* There are finitely many links at any time.
LEMMA LinkedFinite ==
  ASSUME IInv, ColumnsOK, IsFiniteSet(linked), [Next]_vars
  PROVE  IsFiniteSet(linked')
<1>1. CASE ListenerApplies
  <2>1. listener.tx \in Txs /\ linked' = linked \cup NewLinks(listener.tx)
    BY <1>1 DEF IInv, QueueOK, ListenerApplies, LinkHoldings
  <2>2. IsFiniteSet(NewLinks(listener.tx))
    BY <2>1, LinksFinite DEF IInv
  <2> QED BY <2>1, <2>2, FS_Union
<1>2. CASE ScanCommit
  <2>1. PICK N \in SUBSET Outs : N = scan.new
    BY DEF IInv, ScanOK, ScanState
  <2>2. PICK T : T = {<<Creator[o], HoldingOf[scan.descriptor]>> : o \in N}
    OBVIOUS
  <2>3. PICK f : f = [o \in N |-> <<Creator[o], HoldingOf[scan.descriptor]>>]
    OBVIOUS
  <2>4. f \in [N -> T] /\ \A x \in T : \E o \in N : f[o] = x
    BY <2>2, <2>3, Zenon
  <2>5. f \in Surjection(N, T)
    BY <2>4 DEF Surjection
  <2>6. IsFiniteSet(T)
    BY <2>5, ValueSum, FS_Surjection
  <2>7. ScanLinks \in SUBSET T
    BY <2>1, <2>2 DEF ScanLinks
  <2>8. IsFiniteSet(ScanLinks)
    BY <2>6, <2>7, FS_Subset
  <2> QED BY <1>2, <2>8, FS_Union DEF ScanCommit
<1> QED BY <1>1, <1>2, WhoWrites

LedgerInv == OrderOK /\ SeenOK /\ WatchedOK /\ IsFiniteSet(linked) /\ LedgerAddsUp

\* Every step keeps the ledger in balance.
LEMMA LedgerStep == IInv /\ ColumnsOK /\ ColumnsOK' /\ LedgerInv /\ [Next]_vars => LedgerInv'
<1> SUFFICES ASSUME IInv, ColumnsOK, ColumnsOK', LedgerInv, [Next]_vars PROVE LedgerInv'
  OBVIOUS
<1>1. OrderOK' /\ SeenOK' /\ WatchedOK' /\ IsFiniteSet(linked)'
  BY OrderStep, SeenStep, WatchedStep, LinkedFinite DEF LedgerInv
<1>2. ASSUME NEW h \in Holdings, Undisturbed(h)', ~imported'
      PROVE  LedgerTotal(h)' = Balance(h)'
  <2>1. LedgerTotal(h) = Balance(h)
    BY <1>2, UndisturbedBefore DEF LedgerInv, LedgerAddsUp
  <2>2. CASE ListenerApplies
    BY <1>2, <2>1, <2>2, AppliedAddsUp DEF LedgerInv
  <2>3. CASE UNCHANGED <<coin, linked, amount>>
    BY <2>1, <2>3 DEF LedgerTotal, Balance, Holder, SumValues
  <2>4. CASE ScanCommit
    BY <1>2, <2>3, <2>4, EmptyScan
  <2> QED BY <2>2, <2>3, <2>4, WhoWrites
<1> QED BY <1>1, <1>2 DEF LedgerInv, LedgerAddsUp

\* An empty ledger adds up.
LEMMA LedgerStart == Init => LedgerInv
<1> SUFFICES ASSUME Init PROVE LedgerInv
  OBVIOUS
<1>1. OrderOK
  BY DEF Init, OrderOK, Ordered, IdleListener
<1>2. SeenOK /\ WatchedOK
  BY DEF Init, SeenOK, WatchedOK, IdleScan
<1>3. IsFiniteSet(linked)
  BY FS_EmptySet DEF Init
<1>4. ASSUME NEW h \in Holdings PROVE LedgerTotal(h) = Balance(h)
  <2>1. {l \in linked : l[2] = h} = {} /\ {o \in Outs : coin[o] = "unspent" /\ Holder(o) = h} = {}
    BY DEF Init
  <2>2. IsFiniteSet({}) /\ \A f : Ints(f, {})
    BY FS_EmptySet DEF Ints
  <2>3. \A f : SumFunctionOnSet(f, {}) = 0
    BY <2>2, SumFacts
  <2> QED BY <2>1, <2>3 DEF LedgerTotal, Balance, SumValues
<1> QED BY <1>1, <1>2, <1>3, <1>4 DEF LedgerInv, LedgerAddsUp

\* From notifications alone the ledger of a holding adds up to its balance.
THEOREM ChainLedgerAddsUp == Spec => []LedgerAddsUp
<1>1. LedgerInv => LedgerAddsUp
  BY DEF LedgerInv
<1> QED BY <1>1, LedgerStart, LedgerStep, InvariantHolds, ColumnsHold, PTL DEF Spec

-----------------------------------------------------------------------------
(***************************************************************************)
(* Mined coins get their height.                                           *)
(***************************************************************************)
\* A transaction that concerns one descriptor has at most one entry, and an
\* entry comes with the link of its holding.
OneEntry ==
  \A t \in Txs : OneDescriptor(t) =>
     /\ entries[t] \in {0, 1}
     /\ entries[t] = 1 => \E o \in Outputs(t) \cup Inputs[t] : Owned(o) /\ <<t, Holder(o)>> \in linked

\* All outputs of t that a descriptor derives are coins.
Whole(t) == \A o \in Outputs(t) : Owned(o) => coin[o] # "absent"

\* A coin without a height was found by the listener, with all of its siblings.
FoundWhole ==
  \A o \in Outs : coin[o] # "absent" /\ o \notin height /\ OneDescriptor(Creator[o]) => Whole(Creator[o])

\* The block of t is in queue q, with no announcement of t behind it.
BlockDue(q, t) ==
  \E k \in 1..Len(q) : q[k] = <<"block", t>> /\ \A j \in (k + 1)..Len(q) : q[j] # <<"tx", t>>

\* The block was handed to the listener, who knows that t is in a block.
BlockDone(q, l, t) ==
  (\A j \in 1..Len(q) : q[j] # <<"tx", t>>) /\ (Handles(l, t) => l.confirmed)

\* Every coin of t has its height.
Confirmed(t) == \A o \in Outputs(t) : coin[o] # "absent" => o \in height

BlocksOK ==
  ~dropped => \A t \in mined :
    \/ BlockDue(notif, t)
    \/ /\ BlockDone(notif, listener, t)
       /\ OneDescriptor(t) => Confirmed(t) \/ Handles(listener, t)

ConfirmInv == mempool \cap mined = {} /\ OneEntry /\ FoundWhole /\ BlocksOK

\* A transaction that concerns one descriptor concerns one holding.
LEMMA SameHolder ==
  ASSUME NEW t \in Txs, OneDescriptor(t), NEW x \in Outputs(t) \cup Inputs[t],
         NEW y \in Outputs(t) \cup Inputs[t], Owned(x), Owned(y)
  PROVE  DescriptorOf[Address[x]] = DescriptorOf[Address[y]] /\ Holder(x) = Holder(y)
BY DEF OneDescriptor, Holder

\* What a transaction touches is owned.
LEMMA TouchedOwned ==
  ASSUME RowsOK, NEW t \in Txs, NEW o \in SpentInputs(t) \cup Discovered(t)
  PROVE  o \in Outs /\ o \in Outputs(t) \cup Inputs[t] /\ Owned(o)
BY ChainAssumption DEF RowsOK, SpentInputs, Discovered, Watched, Outputs

\* Such a transaction gets no second entry.
LEMMA NoSecondEntry ==
  ASSUME IInv, ColumnsOK, OneEntry, NEW t \in Txs, OneDescriptor(t)
  PROVE  /\ EntriesAfter(t) \in {0, 1}
         /\ NewLinks(t) # {} => EntriesAfter(t) = 1
         /\ NewLinks(t) = {} => EntriesAfter(t) = entries[t]
<1>1. IsFiniteSet(NewLinks(t))
  BY LinksFinite DEF IInv
<1>2. CASE NewLinks(t) = {}
  BY <1>2, FS_EmptySet DEF EntriesAfter, OneEntry
<1>3. CASE NewLinks(t) # {}
  <2>1. PICK x \in SpentInputs(t) \cup Discovered(t) : <<t, Holder(x)>> \in NewLinks(t)
    BY <1>3 DEF NewLinks, Affected
  <2>2. x \in Outputs(t) \cup Inputs[t] /\ Owned(x)
    BY <2>1, TouchedOwned DEF IInv
  <2>3. NewLinks(t) = {<<t, Holder(x)>>}
    <3>1. ASSUME NEW l \in NewLinks(t) PROVE l = <<t, Holder(x)>>
      <4>1. PICK y \in SpentInputs(t) \cup Discovered(t) : l = <<t, Holder(y)>>
        BY DEF NewLinks, Affected
      <4>2. y \in Outputs(t) \cup Inputs[t] /\ Owned(y)
        BY <4>1, TouchedOwned DEF IInv
      <4> QED BY <2>2, <4>1, <4>2, SameHolder
    <3> QED BY <2>1, <3>1
  <2>4. Cardinality(NewLinks(t)) = 1
    BY <2>3, FS_Singleton
  <2>5. entries[t] = 0
    <3> SUFFICES ASSUME entries[t] = 1 PROVE FALSE
      BY DEF OneEntry
    <3>1. PICK o \in Outputs(t) \cup Inputs[t] : Owned(o) /\ <<t, Holder(o)>> \in linked
      BY DEF OneEntry
    <3>2. <<t, Holder(x)>> \in linked
      BY <2>2, <3>1, SameHolder
    <3> QED BY <2>1, <3>2 DEF NewLinks
  <2> QED BY <1>3, <2>4, <2>5 DEF EntriesAfter
<1> QED BY <1>2, <1>3

\* Every step keeps it so.
LEMMA OneEntryStep ==
  ASSUME IInv, ColumnsOK, OneEntry, [Next]_vars
  PROVE  OneEntry'
<1>1. CASE ListenerApplies
  <2>1. PICK u \in Txs : u = listener.tx /\ LinkHoldings(u)
    BY <1>1 DEF IInv, QueueOK, ListenerApplies
  <2>2. PICK n : n = EntriesAfter(u)
    OBVIOUS
  <2>3. entries' = [entries EXCEPT ![u] = n] /\ linked' = linked \cup NewLinks(u)
    BY <2>1, <2>2 DEF LinkHoldings
  <2>4. ASSUME NEW t \in Txs, OneDescriptor(t)
        PROVE  /\ entries'[t] \in {0, 1}
               /\ entries'[t] = 1 => \E o \in Outputs(t) \cup Inputs[t] :
                                        Owned(o) /\ <<t, Holder(o)>> \in linked'
    <3>1. CASE t # u
      BY <2>3, <2>4, <3>1 DEF OneEntry, ColumnsOK
    <3>2. CASE t = u
      <4>1. entries'[t] = n
        BY <2>3, <3>2 DEF ColumnsOK
      <4>2. n \in {0, 1} /\ (NewLinks(u) = {} => n = entries[u])
        BY <2>2, <2>4, <3>2, NoSecondEntry
      <4>3. CASE NewLinks(u) = {}
        BY <2>3, <2>4, <3>2, <4>1, <4>2, <4>3 DEF OneEntry
      <4>4. CASE NewLinks(u) # {}
        <5>1. PICK x \in SpentInputs(u) \cup Discovered(u) : <<u, Holder(x)>> \in NewLinks(u)
          BY <4>4 DEF NewLinks, Affected
        <5>2. x \in Outputs(u) \cup Inputs[u] /\ Owned(x)
          BY <5>1, TouchedOwned DEF IInv
        <5> QED BY <2>3, <3>2, <4>1, <4>2, <5>1, <5>2
      <4> QED BY <4>3, <4>4
    <3> QED BY <3>1, <3>2
  <2> QED BY <2>4 DEF OneEntry, OneDescriptor, Owned, Holder, Outputs
<1>2. CASE ScanCommit
  <2>1. PICK N \in SUBSET Outs : N = scan.new
    BY DEF IInv, ScanOK, ScanState
  <2>2. /\ entries' = [t \in Txs |->
             IF entries[t] = 0 /\ \E o \in N : Creator[o] = t THEN 1 ELSE entries[t]]
        /\ linked' = linked \cup ScanLinks
    BY <1>2, <2>1 DEF ScanCommit
  <2>3. \A o \in N : Owned(o) /\ <<Creator[o], Holder(o)>> \in linked'
    <3> TAKE o \in N
    <3>1. Owned(o) /\ DescriptorOf[Address[o]] = scan.descriptor
      BY <1>2, <2>1 DEF IInv, ScanOK, ScanCommit
    <3>2. <<Creator[o], HoldingOf[scan.descriptor]>> \in linked \cup ScanLinks
      BY <2>1 DEF ScanLinks
    <3> QED BY <2>2, <3>1, <3>2 DEF Holder
  <2>4. ASSUME NEW t \in Txs, OneDescriptor(t)
        PROVE  /\ entries'[t] \in {0, 1}
               /\ entries'[t] = 1 => \E o \in Outputs(t) \cup Inputs[t] :
                                        Owned(o) /\ <<t, Holder(o)>> \in linked'
    <3>1. CASE entries[t] = 0 /\ \E o \in N : Creator[o] = t
      BY <2>2, <2>3, <3>1 DEF Outputs
    <3>2. CASE ~(entries[t] = 0 /\ \E o \in N : Creator[o] = t)
      BY <2>2, <2>4, <3>2 DEF OneEntry
    <3> QED BY <3>1, <3>2
  <2> QED BY <2>4 DEF OneEntry, OneDescriptor, Owned, Holder, Outputs
<1>3. CASE UNCHANGED <<entries, linked>>
  BY <1>3 DEF OneEntry, OneDescriptor, Owned, Holder, Outputs
<1> QED BY <1>1, <1>2, <1>3, WhoWrites

\* Coins do not disappear.
LEMMA CoinsStay ==
  ASSUME IInv, [Next]_vars, NEW o \in Outs, coin[o] # "absent"
  PROVE  coin'[o] # "absent"
<1>1. CASE ListenerApplies
  <2>1. listener.tx \in Txs /\ MarkCoins(listener.tx)
    BY <1>1 DEF IInv, QueueOK, ListenerApplies
  <2> QED BY <2>1, AppliedRows DEF IInv
<1>2. CASE ScanCommit
  BY <1>2 DEF ScanCommit
<1> QED BY <1>1, <1>2, WhoWrites

\* The listener finds the outputs of one descriptor together.
LEMMA FoundWholeStep ==
  ASSUME IInv, ColumnsOK, WatchedOK, FoundWhole, [Next]_vars
  PROVE  FoundWhole'
<1>1. height \subseteq height'
  BY WhoWrites DEF ListenerApplies, ScanCommit, HeightsAfter
<1>2. ASSUME NEW o \in Outs, coin'[o] # "absent", o \notin height', OneDescriptor(Creator[o]),
             coin[o] # "absent"
      PROVE  Whole(Creator[o])'
  <2>1. Whole(Creator[o])
    BY <1>1, <1>2 DEF FoundWhole
  <2> QED BY <2>1, CoinsStay DEF Whole, Outputs, Owned
<1>3. ASSUME NEW o \in Outs, coin'[o] # "absent", o \notin height', OneDescriptor(Creator[o]),
             coin[o] = "absent"
      PROVE  Whole(Creator[o])'
  <2>1. CASE ListenerApplies
    <3>1. PICK t \in Txs : t = listener.tx /\ MarkCoins(t)
      BY <2>1 DEF IInv, QueueOK, ListenerApplies
    <3>2. o \in NewCoins(t)
      BY <1>3, <3>1, AppliedRows DEF IInv
    <3>3. Creator[o] = t /\ Watched(o)
      BY <3>2 DEF NewCoins, Discovered, Outputs
    <3>4. ASSUME NEW p \in Outputs(t), Owned(p) PROVE coin'[p] # "absent"
      <4>1. p \in Outs /\ o \in Outputs(t)
        BY <3>3 DEF Outputs
      <4>2. DescriptorOf[Address[p]] = DescriptorOf[Address[o]]
        BY <1>3, <3>3, <3>4, <4>1, SameHolder DEF Watched
      <4>3. p \in Discovered(t)
        BY <3>3, <3>4, <4>2 DEF Watched, Discovered
      <4>4. coin[p] = "absent" => p \in NewCoins(t)
        BY <4>3 DEF NewCoins
      <4> QED BY <3>1, <4>1, <4>4, AppliedRows DEF IInv
    <3> QED BY <3>3, <3>4 DEF Whole, Outputs, Owned
  <2>2. CASE ScanCommit
    <3>1. o \in scan.new /\ height' = height \cup scan.new
      BY <1>3, <2>2 DEF ScanCommit
    <3> QED BY <1>3, <3>1
  <2> QED BY <1>3, <2>1, <2>2, WhoWrites
<1> QED BY <1>2, <1>3 DEF FoundWhole, OneDescriptor, Owned, Outputs

\* Messages about another transaction at the end of the queue change nothing.
LEMMA BlockLonger ==
  ASSUME NEW q \in Seq(Messages), NEW q2 \in Seq(Messages), NEW l, NEW t \in Txs, NEW u \in Txs,
         t # u, Longer(q, q2, u)
  PROVE  /\ BlockDue(q, t) => BlockDue(q2, t)
         /\ BlockDone(q, l, t) => BlockDone(q2, l, t)
<1>1. PICK n \in Nat, m \in Nat : n = Len(q) /\ m = Len(q2) /\ n < m
  BY DEF Longer
<1>2. /\ \A k \in 1..n : q2[k] = q[k]
      /\ \A k \in (n + 1)..m : q2[k][2] = u
  BY <1>1 DEF Longer
<1>3. \A k \in (n + 1)..m : q2[k] # <<"tx", t>>
  BY <1>2
<1>4. ASSUME BlockDue(q, t) PROVE BlockDue(q2, t)
  <2>1. PICK k \in 1..n : q[k] = <<"block", t>> /\ \A j \in (k + 1)..n : q[j] # <<"tx", t>>
    BY <1>1, <1>4 DEF BlockDue
  <2>2. \A j \in (k + 1)..m : q2[j] # <<"tx", t>>
    BY <1>1, <1>2, <1>3, <2>1
  <2>3. k \in 1..m /\ q2[k] = <<"block", t>>
    BY <1>1, <1>2, <2>1
  <2> QED BY <1>1, <2>2, <2>3 DEF BlockDue
<1>5. ASSUME BlockDone(q, l, t) PROVE BlockDone(q2, l, t)
  <2>1. \A j \in 1..m : q2[j] # <<"tx", t>>
    BY <1>1, <1>2, <1>3, <1>5 DEF BlockDone
  <2> QED BY <1>1, <1>5, <2>1 DEF BlockDone
<1> QED BY <1>4, <1>5

\* The block of a transaction that is mined is the last message.
LEMMA BlockQueued ==
  ASSUME QueueOK, NEW t \in Txs, Mine(t)
  PROVE  BlockDue(notif', t)
<1>1. PICK q \in Seq(Messages), n \in Nat : q = notif /\ n = Len(q)
  BY DEF QueueOK, Messages
<1>2. PICK a \in Messages, b \in Messages : a = <<"tx", t>> /\ b = <<"block", t>>
  BY DEF Messages
<1>3. PICK w \in Seq(Messages) : w = <<a, b>> /\ Len(w) = 2 /\ w[2] = b
  <2>1. <<a, b>> \in Seq(Messages)
    OBVIOUS
  <2> QED BY <2>1
<1>4. notif' = q \o w
  BY <1>1, <1>2, <1>3 DEF Mine
<1>5. Len(notif') = n + 2 /\ notif'[n + 2] = b
  BY <1>1, <1>3, <1>4
<1>6. n + 2 \in 1..Len(notif') /\ ((n + 2) + 1)..Len(notif') = {}
  BY <1>5
<1> QED BY <1>2, <1>5, <1>6 DEF BlockDue

\* The head is taken: it is the block, or the block is still due.
LEMMA BlockPops ==
  ASSUME NEW q \in Seq(Messages), q # <<>>, NEW t \in Txs
  PROVE  /\ BlockDue(q, t) => \/ BlockDue(Tail(q), t)
                              \/ /\ q[1] = <<"block", t>>
                                 /\ \A j \in 1..Len(Tail(q)) : Tail(q)[j] # <<"tx", t>>
         /\ (\A j \in 1..Len(q) : q[j] # <<"tx", t>>) =>
               /\ q[1] # <<"tx", t>>
               /\ \A j \in 1..Len(Tail(q)) : Tail(q)[j] # <<"tx", t>>
<1>1. PICK n \in Nat : n = Len(q) /\ n >= 1
  OBVIOUS
<1>2. PICK r \in Seq(Messages) : r = Tail(q)
  <2>1. Tail(q) \in Seq(Messages)
    OBVIOUS
  <2> QED BY <2>1, Zenon
<1>3. Len(r) = n - 1 /\ \A k \in 1..(n - 1) : r[k] = q[k + 1]
  BY <1>1, <1>2
<1>4. ASSUME BlockDue(q, t)
      PROVE  \/ BlockDue(r, t)
             \/ q[1] = <<"block", t>> /\ \A j \in 1..Len(r) : r[j] # <<"tx", t>>
  <2>1. PICK k \in 1..n : q[k] = <<"block", t>> /\ \A j \in (k + 1)..n : q[j] # <<"tx", t>>
    BY <1>1, <1>4 DEF BlockDue
  <2>2. \A j \in 1..(n - 1) : j + 1 \in 1..n /\ (j >= k => j + 1 \in (k + 1)..n)
    BY <1>1
  <2>3. \A j \in k..(n - 1) : r[j] # <<"tx", t>>
    BY <1>1, <1>3, <2>1, <2>2
  <2>4. CASE k = 1
    BY <1>3, <2>1, <2>3, <2>4
  <2>5. CASE k # 1
    <3>1. k - 1 \in 1..(n - 1) /\ r[k - 1] = <<"block", t>>
      BY <1>1, <1>3, <2>1, <2>5
    <3>2. \A j \in ((k - 1) + 1)..(n - 1) : r[j] # <<"tx", t>>
      BY <2>3
    <3> QED BY <1>3, <3>1, <3>2 DEF BlockDue
  <2> QED BY <2>4, <2>5
<1>5. ASSUME \A j \in 1..n : q[j] # <<"tx", t>>
      PROVE  q[1] # <<"tx", t>> /\ \A j \in 1..(n - 1) : r[j] # <<"tx", t>>
  BY <1>1, <1>3, <1>5
<1> QED BY <1>1, <1>2, <1>3, <1>4, <1>5

\* Which of a transaction's outputs have their height.
LEMMA ConfirmedStays ==
  ASSUME IInv, [Next]_vars, NEW t \in Txs, Confirmed(t),
         ListenerApplies => listener.tx # t
  PROVE  Confirmed(t)'
<1> SUFFICES ASSUME NEW o \in Outs, Creator[o] = t, coin'[o] # "absent" PROVE o \in height'
  BY DEF Confirmed, Outputs
<1>1. coin[o] # "absent" => o \in height
  BY DEF Confirmed, Outputs
<1>2. CASE ListenerApplies
  <2>1. listener.tx \in Txs /\ MarkCoins(listener.tx) /\ height \subseteq height'
    BY <1>2 DEF IInv, QueueOK, ListenerApplies, HeightsAfter
  <2>2. o \notin NewCoins(listener.tx)
    BY <1>2 DEF NewCoins, Discovered, Outputs
  <2> QED BY <1>1, <2>1, <2>2, AppliedRows DEF IInv
<1>3. CASE ScanCommit
  BY <1>1, <1>3 DEF ScanCommit
<1> QED BY <1>1, <1>2, <1>3, WhoWrites

\* Every step keeps the block due, or handles it.
LEMMA BlocksStep ==
  ASSUME IInv, ColumnsOK, WatchedOK, ConfirmInv, [Next]_vars
  PROVE  BlocksOK'
<1>0. notif \in Seq(Messages) /\ mined \subseteq Txs
  BY DEF IInv, QueueOK, Messages, ColumnsOK
<1>a. dropped => dropped'
  BY Monotone
<1>1. ASSUME NEW u \in Txs, Accept(u) \/ Mine(u)
      PROVE  BlocksOK'
  <2>1. Longer(notif, notif', u) /\ notif' \in Seq(Messages)
    BY <1>1, Announces DEF IInv
  <2>2. /\ mined' = mined \/ (Mine(u) /\ mined' = mined \cup {u})
        /\ Accept(u) => u \notin mined
        /\ UNCHANGED <<coin, height, listener, dropped>>
    BY <1>1 DEF Accept, Mine, coinVars, histVars
  <2>3. ASSUME ~dropped, NEW t \in mined'
        PROVE  \/ BlockDue(notif', t)
               \/ /\ BlockDone(notif', listener', t)
                  /\ OneDescriptor(t) => Confirmed(t)' \/ Handles(listener', t)
    <3>1. CASE Mine(u) /\ t = u
      BY <3>1, BlockQueued DEF IInv
    <3>2. CASE ~(Mine(u) /\ t = u)
      <4>1. t \in mined /\ t \in Txs /\ t # u
        BY <1>0, <1>1, <2>2, <2>3, <3>2
      <4>2. Confirmed(t) => Confirmed(t)'
        BY <2>2 DEF Confirmed, Outputs
      <4>3. \/ BlockDue(notif, t)
            \/ /\ BlockDone(notif, listener, t)
               /\ OneDescriptor(t) => Confirmed(t) \/ Handles(listener, t)
        BY <2>3, <4>1 DEF ConfirmInv, BlocksOK
      <4> QED BY <1>0, <2>1, <2>2, <4>1, <4>2, <4>3, BlockLonger
    <3> QED BY <3>1, <3>2
  <2> QED BY <2>2, <2>3 DEF BlocksOK, OneDescriptor, Owned, Outputs
<1>2. ASSUME notif' = notif, mined' = mined,
             \A t \in mined : ~dropped' /\ BlockDone(notif, listener, t)
                               /\ (OneDescriptor(t) => Confirmed(t) \/ Handles(listener, t))
                => /\ Handles(listener', t) => listener'.confirmed
                   /\ OneDescriptor(t) => Confirmed(t)' \/ Handles(listener', t)
      PROVE  BlocksOK'
  BY <1>a, <1>2 DEF ConfirmInv, BlocksOK, BlockDone, OneDescriptor, Owned, Outputs
<1>3. CASE /\ UNCHANGED <<notif, mined, coin, height, listener>>
  <2>1. \A t \in mined : Confirmed(t) => Confirmed(t)'
    BY <1>3 DEF Confirmed, Outputs
  <2> QED BY <1>2, <1>3, <2>1 DEF BlockDone
<1>4. ASSUME notif # <<>>, notif' = Tail(notif), listener.pc = "idle",
             UNCHANGED <<mined, coin, height>>,
             \A t \in mined : ~dropped' /\ Handles(listener', t) =>
                 listener'.confirmed \/ notif[1] = <<"tx", t>>,
             \A t \in mined : ~dropped' /\ notif[1] = <<"block", t>> /\ ~Confirmed(t)
                => Handles(listener', t)
      PROVE  BlocksOK'
  <2>1. ASSUME ~dropped', NEW t \in mined
        PROVE  \/ BlockDue(notif', t)
               \/ /\ BlockDone(notif', listener', t)
                  /\ OneDescriptor(t) => Confirmed(t)' \/ Handles(listener', t)
    <3>1. t \in Txs /\ ~dropped
      BY <1>0, <1>a, <2>1
    <3>2. Confirmed(t) => Confirmed(t)'
      BY <1>4 DEF Confirmed, Outputs
    <3>3. ~Handles(listener, t)
      BY <1>4 DEF Handles
    <3>4. CASE BlockDue(notif, t)
      <4>1. CASE BlockDue(Tail(notif), t)
        BY <1>4, <4>1
      <4>2. CASE /\ notif[1] = <<"block", t>>
                 /\ \A j \in 1..Len(Tail(notif)) : Tail(notif)[j] # <<"tx", t>>
        <5>1. notif[1] # <<"tx", t>>
          BY <4>2
        <5>2. Handles(listener', t) => listener'.confirmed
          BY <1>4, <2>1, <5>1
        <5> QED BY <1>4, <2>1, <3>2, <4>2, <5>2 DEF BlockDone
      <4> QED BY <1>0, <1>4, <3>1, <3>4, <4>1, <4>2, BlockPops
    <3>5. CASE BlockDone(notif, listener, t) /\ (OneDescriptor(t) => Confirmed(t))
      <4>1. /\ notif[1] # <<"tx", t>>
            /\ \A j \in 1..Len(Tail(notif)) : Tail(notif)[j] # <<"tx", t>>
        BY <1>0, <1>4, <3>1, <3>5, BlockPops DEF BlockDone
      <4>2. Handles(listener', t) => listener'.confirmed
        BY <1>4, <2>1, <4>1
      <4> QED BY <1>4, <3>2, <3>5, <4>1, <4>2 DEF BlockDone
    <3> QED BY <2>1, <3>1, <3>3, <3>4, <3>5 DEF ConfirmInv, BlocksOK
  <2> QED BY <1>4, <2>1 DEF BlocksOK, OneDescriptor, Owned, Outputs
<1>5. CASE ListenerFetch \/ ListenerFetchNoHeader
  <2>1. /\ listener'.pc = "fetched" /\ listener'.tx = Head(notif)[2]
        /\ notif # <<>> /\ notif' = Tail(notif) /\ listener.pc = "idle"
        /\ UNCHANGED <<mined, coin, height>>
    BY <1>5 DEF ListenerFetch, ListenerFetchNoHeader, coinVars
  <2>5. listener'.confirmed \/ Head(notif)[1] = "tx" \/ Head(notif)[2] \notin mined
    <3>1. CASE ListenerFetch
      <4>1. listener'.confirmed = (Head(notif)[2] \in mined)
        BY <3>1 DEF ListenerFetch
      <4> QED BY <4>1
    <3>2. CASE ListenerFetchNoHeader
      BY <3>2 DEF ListenerFetchNoHeader
    <3> QED BY <1>5, <3>1, <3>2
  <2>2. PICK m \in Messages : m = notif[1] /\ m = Head(notif)
    BY <1>0, <2>1
  <2>3. \A t : m[1] = "tx" /\ m[2] = t => m = <<"tx", t>>
    BY DEF Messages
  <2>4. \A t : m = <<"block", t>> => m[2] = t
    OBVIOUS
  <2> QED BY <1>4, <2>1, <2>2, <2>3, <2>4, <2>5 DEF Handles
<1>6. CASE ListenerSkip
  <2>1. /\ notif # <<>> /\ notif' = Tail(notif) /\ listener.pc = "idle" /\ ~Dispatchable(Head(notif))
        /\ UNCHANGED <<mined, coin, height, listener>>
    BY <1>6 DEF ListenerSkip, coinVars
  <2>2. notif[1] = Head(notif)
    BY <1>0, <2>1
  <2>3. ASSUME NEW t \in mined, notif[1] = <<"block", t>> PROVE Confirmed(t)
    <3>1. t \notin known
      BY <2>1, <2>2, <2>3 DEF Dispatchable
    <3> QED BY <3>1 DEF IInv, CoinsAreInLedger, Confirmed, Outputs
  <2> QED BY <1>4, <2>1, <2>3 DEF Handles
<1>7. ASSUME NEW t \in Txs, WatchedOK, NEW o \in Outputs(t), coin[o] # "absent"
      PROVE  o \in Discovered(t)
  BY <1>7 DEF WatchedOK, Discovered, Outputs
<1>8. CASE ListenerIgnores
  <2>1. /\ ~Concerns(listener.tx) /\ listener' = IdleListener
        /\ UNCHANGED <<notif, mined, coin, height>>
    BY <1>8 DEF ListenerIgnores, coinVars, nodeVars
  <2>2. ASSUME NEW t \in mined, Handles(listener, t) PROVE Confirmed(t)
    <3>1. Discovered(t) = {} /\ t \in Txs
      BY <1>0, <2>1, <2>2 DEF Concerns, Handles
    <3> QED BY <1>7, <3>1 DEF Confirmed
  <2>3. \A t \in mined : Confirmed(t) => Confirmed(t)'
    BY <2>1 DEF Confirmed, Outputs
  <2> QED BY <1>2, <2>1, <2>2, <2>3 DEF Handles, IdleListener
<1>9. CASE ListenerApplies
  <2>1. PICK u \in Txs : /\ u = listener.tx /\ listener.pc = "fetched" /\ MarkCoins(u)
                         /\ height' = HeightsAfter(u, listener.confirmed)
                         /\ listener' = IdleListener /\ UNCHANGED <<notif, mined>>
    BY <1>9 DEF IInv, QueueOK, ListenerApplies, nodeVars
  <2>2. ASSUME NEW t \in mined, BlockDone(notif, listener, t), Confirmed(t) \/ Handles(listener, t)
        PROVE  Confirmed(t)'
    <3>0. t \in Txs
      BY <1>0
    <3>1. CASE t # u
      BY <2>1, <2>2, <3>0, <3>1, ConfirmedStays DEF Handles
    <3>2. CASE t = u
      <4>1. height' = height \cup Discovered(t)
        BY <2>1, <2>2, <3>2 DEF BlockDone, Handles, HeightsAfter
      <4>2. ASSUME NEW o \in Outputs(t), coin'[o] # "absent" PROVE o \in Discovered(t)
        <5>1. o \in Outs
          BY DEF Outputs
        <5>2. CASE coin[o] # "absent"
          BY <1>7, <3>0, <5>2
        <5>3. CASE coin[o] = "absent"
          <6>1. o \in NewCoins(t)
            BY <2>1, <3>2, <4>2, <5>1, <5>3, AppliedRows DEF IInv
          <6> QED BY <6>1 DEF NewCoins
        <5> QED BY <5>2, <5>3
      <4> QED BY <4>1, <4>2 DEF Confirmed, Outputs
    <3> QED BY <3>1, <3>2
  <2> QED BY <1>2, <2>1, <2>2 DEF Handles, IdleListener
<1>10. CASE ListenerRaises
  <2>1. /\ Raises(listener.tx, listener.confirmed) /\ listener' = IdleListener
        /\ UNCHANGED <<notif, mined, coin, height>>
    BY <1>10 DEF ListenerRaises, coinVars, nodeVars
  <2>2. ASSUME NEW t \in mined, OneDescriptor(t), Handles(listener, t) PROVE FALSE
    <3>1. EntriesAfter(t) \in {0, 1} /\ entries[t] \in {0, 1}
      BY <1>0, <2>2, NoSecondEntry DEF ConfirmInv, OneEntry
    <3>2. EntriesAfter(t) > 1 \/ entries[t] > 1
      BY <2>1, <2>2 DEF Handles, Raises, PaymentLookupRaises, InvoiceLookupRaises
    <3> QED BY <3>1, <3>2
  <2>3. \A t \in mined : Confirmed(t) => Confirmed(t)'
    BY <2>1 DEF Confirmed, Outputs
  <2> QED BY <1>2, <2>1, <2>2, <2>3 DEF Handles, IdleListener
<1>11. CASE NotificationLost \/ WorkerCrash
  BY <1>11 DEF NotificationLost, WorkerCrash, BlocksOK
<1>12. CASE ScanCommit
  <2>1. /\ listener' = listener \/ (ConflictsWithScan /\ listener' = IdleListener)
        /\ UNCHANGED <<notif, mined>>
    BY <1>12 DEF ScanCommit, nodeVars
  <2>2. ~ListenerApplies
    BY <1>12 DEF ScanCommit, ListenerApplies, IdleScan
  <2>3. \A t \in mined : Confirmed(t) => Confirmed(t)'
    BY <1>0, <2>2, ConfirmedStays
  <2>4. ASSUME NEW t \in mined, OneDescriptor(t), Handles(listener, t), ConflictsWithScan
        PROVE  Confirmed(t)
    <3>1. PICK p : p \in NewCoins(t)
      BY <2>4 DEF ConflictsWithScan, Handles
    <3>2. p \in Outputs(t) /\ Owned(p) /\ coin[p] = "absent"
      BY <3>1 DEF NewCoins, Discovered, Watched
    <3>3. ~Whole(t)
      BY <3>2 DEF Whole
    <3>4. \A o \in Outputs(t) : o \in Outs /\ Creator[o] = t
      BY DEF Outputs
    <3> QED BY <2>4, <3>3, <3>4 DEF ConfirmInv, FoundWhole, Confirmed
  <2> QED BY <1>2, <2>1, <2>3, <2>4 DEF BlockDone, Handles, IdleListener
<1>13. CASE (BackendNext /\ ~ScanCommit) \/ \E t \in Txs : Evict(t)
  BY <1>3, <1>13 DEF BackendNext, AttachDescriptor, ScanExternal, ScanChange, ScanFails, CreateInvoice,
       CancelReads, CancelWrites, coinVars, nodeVars, Evict
<1>14. CASE UNCHANGED vars
  BY <1>3, <1>14 DEF vars
<1> QED BY <1>1, <1>5, <1>6, <1>8, <1>9, <1>10, <1>11, <1>12, <1>13, <1>14
         DEF Next, NodeNext, ListenerNext, ListenerTx

\* Every step keeps the invariant for the heights.
LEMMA ConfirmStep ==
  IInv /\ ColumnsOK /\ LedgerInv /\ ConfirmInv /\ [Next]_vars => ConfirmInv'
<1> SUFFICES ASSUME IInv, ColumnsOK, LedgerInv, ConfirmInv, [Next]_vars PROVE ConfirmInv'
  OBVIOUS
<1>1. mempool' \cap mined' = {}
  BY DEF ConfirmInv, Next, NodeNext, ListenerNext, ListenerTx, BackendNext, vars, nodeVars,
       Accept, Mine, Evict, ListenerFetch, ListenerFetchNoHeader, ListenerSkip, ListenerIgnores,
       ListenerApplies, ListenerRaises, NotificationLost, WorkerCrash, AttachDescriptor,
       ScanExternal, ScanChange, ScanCommit, ScanFails, CreateInvoice, CancelReads, CancelWrites
<1> QED BY <1>1, OneEntryStep, FoundWholeStep, BlocksStep DEF ConfirmInv, LedgerInv

\* It holds at the start.
LEMMA ConfirmStart == Init => ConfirmInv
<1> SUFFICES ASSUME Init PROVE ConfirmInv
  OBVIOUS
<1>1. mempool \cap mined = {} /\ BlocksOK
  BY DEF Init, BlocksOK
<1>2. OneEntry
  BY DEF Init, OneEntry
<1>3. FoundWhole
  BY DEF Init, FoundWhole
<1> QED BY <1>1, <1>2, <1>3 DEF ConfirmInv

\* Once the listener has handled the block of a transaction that concerns one
\* descriptor, every coin of it has its height and can be spent.
THEOREM ChainMinedCoinsConfirmed == Spec => []MinedCoinsConfirmed
<1>1. ASSUME IInv, ColumnsOK, ConfirmInv PROVE MinedCoinsConfirmed
  <2> SUFFICES ASSUME NEW o \in Outs, coin[o] # "absent", MinedAndHandled(Creator[o]),
                      OneDescriptor(Creator[o])
               PROVE  o \in height
    BY DEF MinedCoinsConfirmed
  <2>1. PICK t \in mined : t = Creator[o] /\ t \notin InListener /\ ~dropped
    BY DEF MinedAndHandled
  <2>2. ~Handles(listener, t)
    BY <2>1 DEF InListener, Handles
  <2>3. ~BlockDue(notif, t)
    <3> SUFFICES ASSUME NEW k \in 1..Len(notif), notif[k] = <<"block", t>> PROVE FALSE
      BY DEF BlockDue
    <3>1. k \in DOMAIN notif /\ notif[k][2] = t
      BY <1>1 DEF IInv, QueueOK
    <3> QED BY <2>1, <3>1 DEF InListener
  <2>4. Confirmed(t)
    BY <1>1, <2>1, <2>2, <2>3 DEF ConfirmInv, BlocksOK
  <2> QED BY <2>1, <2>4 DEF Confirmed, Outputs
<1>2. LedgerInv /\ ConfirmInv /\ IInv /\ ColumnsOK => MinedCoinsConfirmed
  BY <1>1
<1>3. Spec => []LedgerInv
  BY LedgerStart, LedgerStep, InvariantHolds, ColumnsHold, PTL DEF Spec
<1> QED BY <1>2, <1>3, ConfirmStart, ConfirmStep, InvariantHolds, ColumnsHold, PTL DEF Spec
=============================================================================
