------------------------- MODULE BestGatewayProofs -------------------------
(***************************************************************************)
(* Proofs about BestGateway, for any gateways and any signal ratios.        *)
(* IInv is the loop invariant: r and f are the best of the reports already  *)
(* visited, which are those of the smallest keys.                           *)
(***************************************************************************)
EXTENDS BestGateway, TLAPS

done == heardBy \ todo

IInv ==
    /\ TypeOK
    /\ \A k \in todo, g \in done : g <= k
    /\ done = {} => r = 0 /\ f = Floor
    /\ done # {} =>
        /\ r \in done
        /\ f = metadata[r]
        /\ \A g \in done : \/ metadata[r] > metadata[g]
                           \/ metadata[r] = metadata[g] /\ r <= g

\* Initially nothing is visited.
LEMMA InitIInv == Init => IInv
BY DEF Init, IInv, TypeOK, done, heardBy

\* One iteration visits the smallest key left.
LEMMA StepIInv ==
    ASSUME IInv, NEW it \in todo, \A k \in todo : it <= k, step(it)
    PROVE  IInv'
<1> USE BestGatewayAssumption
<1>1. /\ it \in Gateways /\ it \in Nat \ {0} /\ it \notin done
      /\ metadata[it] \in Lsnr /\ metadata[it] \in Int
      /\ metadata[it] > Floor
  BY DEF IInv, TypeOK, heardBy, done
<1>2. metadata' = metadata /\ heardBy' = heardBy /\ done' = done \cup {it}
  BY DEF step, IInv, TypeOK, done, heardBy
<1>3. TypeOK'
  BY <1>1, <1>2 DEF step, IInv, TypeOK
<1>4. \A k \in todo', g \in done' : g <= k
  BY <1>2 DEF step, IInv
<1>5. CASE done = {}
  <2>1. r' = it /\ f' = metadata[it]
    BY <1>1, <1>5 DEF step, IInv
  <2> QED
    BY <1>1, <1>2, <1>3, <1>4, <1>5, <2>1 DEF IInv
<1>6. CASE done # {}
  <2>1. /\ r \in done /\ f = metadata[r]
        /\ \A g \in done : \/ metadata[r] > metadata[g]
                           \/ metadata[r] = metadata[g] /\ r <= g
    BY <1>6 DEF IInv
  <2>2. \A g \in done : g \in Nat /\ metadata[g] \in Int /\ g <= it
    BY DEF IInv, TypeOK, done, heardBy
  <2>3. CASE metadata[it] > f
    <3>1. r' = it /\ f' = metadata[it]
      BY <2>3 DEF step
    <3>2. \A g \in done : metadata[it] > metadata[g]
      BY <1>1, <2>1, <2>2, <2>3
    <3> QED
      BY <1>1, <1>2, <1>3, <1>4, <3>1, <3>2 DEF IInv
  <2>4. CASE ~(metadata[it] > f)
    <3>1. r' = r /\ f' = f
      BY <2>4 DEF step
    <3>2. \/ metadata[r] > metadata[it]
          \/ metadata[r] = metadata[it] /\ r <= it
      BY <1>1, <2>1, <2>2, <2>4
    <3> QED
      BY <1>1, <1>2, <1>3, <1>4, <2>1, <3>1, <3>2 DEF IInv
  <2> QED
    BY <2>3, <2>4
<1> QED
  BY <1>5, <1>6

\* Every step keeps the loop invariant.
LEMMA NextIInv == IInv /\ [Next]_vars => IInv'
<1>1. ASSUME IInv, UNCHANGED vars PROVE IInv'
  BY <1>1 DEF vars, IInv, TypeOK, done, heardBy
<1> QED
  BY <1>1, StepIInv DEF Next

\* The iterator stays within the reports of the item and r within its gateways.
THEOREM TypeCorrect == Spec => []TypeOK
<1>1. IInv => TypeOK
  BY DEF IInv
<1> QED
  BY InitIInv, NextIInv, <1>1, PTL DEF Spec

\* For any number of gateways and any ratios the loop ends with the gateway of
\* the best ratio, the smallest identifier among equals
\* (MessageQueueItem::getBestGatewayAddress).
THEOREM ResultIsAlwaysBest == Spec => []ResultIsBest
<1>1. IInv => ResultIsBest
  <2> SUFFICES ASSUME IInv, todo = {} PROVE ResultIsBest
    BY DEF ResultIsBest
  <2>1. done = heardBy
    BY DEF done
  <2> QED
    BY <2>1 DEF IInv, ResultIsBest
<1> QED
  BY InitIInv, NextIInv, <1>1, PTL DEF Spec
=============================================================================
