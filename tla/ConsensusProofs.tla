-------------------------- MODULE ConsensusProofs --------------------------
(***************************************************************************)
(* Proofs about Consensus, for every set of tokens and wallets, every      *)
(* quorum and every signal window.                                         *)
(*                                                                         *)
(* An entry that is still collecting holds few signals, one per wallet,    *)
(* none older than the wallet's last unsold buy (Collecting); an entry     *)
(* that triggered keeps a signal as young as its trigger until the window  *)
(* is over (Anchored).  Neither PendingBelowQuorum nor the two action      *)
(* properties are inductive without these.                                 *)
(***************************************************************************)
EXTENDS Consensus, FiniteSetTheorems, TLAPS

-----------------------------------------------------------------------------
(* Lemmas about the operators of the model.                                *)

LEMMA OlderTyped ==
  ASSUME NEW a \in Age
  PROVE  /\ Older(a) \in Age
         /\ Older(a) >= a
         /\ \A b \in Age : b <= a => Older(b) <= Older(a)
         /\ Oldest \in Age /\ 0 \in Age
  BY ConsensusAssumption DEF Older, Age, Oldest

\* What the four outcomes of submit_signal do to one entry stays a set of
\* signals.
LEMMA SignalSets ==
  ASSUME NEW S \in SUBSET Signal, NEW w \in Wallets
  PROVE  /\ Fresh(S) \in SUBSET Signal
         /\ WithoutWallet(S, w) \in SUBSET Signal
         /\ Fresh(S) \cup {[wallet |-> w, age |-> 0]} \in SUBSET Signal
         /\ {[s EXCEPT !.age = Older(@)] : s \in S} \in SUBSET Signal
         /\ WalletsOf(S) \in SUBSET Wallets
  <1>1. [wallet |-> w, age |-> 0] \in Signal
    BY ConsensusAssumption DEF Signal, Age, Oldest
  <1>2. \A s \in Signal : [s EXCEPT !.age = Older(@)] \in Signal
    BY OlderTyped DEF Signal
  <1>3. \A s \in Signal : s.wallet \in Wallets
    BY DEF Signal
  <1> QED BY <1>1, <1>2, <1>3 DEF Fresh, WithoutWallet, WalletsOf

\* No wallet is counted twice.
Distinct(S) == \A s, t \in S : s.wallet = t.wallet => s = t

\* One signal per wallet: counting signals counts wallets.
LEMMA DistinctCount ==
  ASSUME NEW S, IsFiniteSet(S), Distinct(S)
  PROVE  Cardinality(WalletsOf(S)) = Cardinality(S)
  <1> DEFINE f == [s \in S |-> s.wallet]
  <1>1. f \in Surjection(S, WalletsOf(S))
    BY DEF Surjection, WalletsOf
  <1>2. f \in Injection(S, WalletsOf(S))
    BY DEF Injection, IsInjective, WalletsOf, Distinct
  <1>3. \A g \in Surjection(S, WalletsOf(S)) :
          Cardinality(WalletsOf(S)) = Cardinality(S)
            <=> g \in Injection(S, WalletsOf(S))
    BY FS_Surjection
  <1> QED BY <1>1, <1>2, <1>3

\* Aging keeps signals apart and adds none.
LEMMA AgedCount ==
  ASSUME NEW S \in SUBSET Signal, IsFiniteSet(S), Distinct(S)
  PROVE  LET T == {[s EXCEPT !.age = Older(@)] : s \in S}
         IN  /\ IsFiniteSet(T)
             /\ Cardinality(T) <= Cardinality(S)
             /\ Distinct(T)
  <1> DEFINE T == {[s EXCEPT !.age = Older(@)] : s \in S}
  <1> DEFINE f == [s \in S |-> [s EXCEPT !.age = Older(@)]]
  <1>1. f \in Surjection(S, T)
    BY DEF Surjection
  <1>2. IsFiniteSet(T) /\ Cardinality(T) <= Cardinality(S)
    BY <1>1, FS_Surjection
  <1>3. \A s \in S : [s EXCEPT !.age = Older(@)].wallet = s.wallet
    BY DEF Signal
  <1>4. \A s, t \in S :
          [s EXCEPT !.age = Older(@)].wallet = [t EXCEPT !.age = Older(@)].wallet
            => s = t
    BY <1>3 DEF Distinct
  <1>5. ASSUME NEW x \in T, NEW y \in T, x.wallet = y.wallet
        PROVE  x = y
    <2>1. PICK s \in S : x = [s EXCEPT !.age = Older(@)]
      OBVIOUS
    <2>2. PICK t \in S : y = [t EXCEPT !.age = Older(@)]
      OBVIOUS
    <2> QED BY <1>4, <1>5, <2>1, <2>2
  <1>6. Distinct(T)
    BY <1>5 DEF Distinct
  <1> QED BY <1>2, <1>6

-----------------------------------------------------------------------------
(* Types.                                                                  *)

LEMMA InitTyped == Init => TypeOK
  <1> SUFFICES ASSUME Init PROVE TypeOK
    OBVIOUS
  <1>1. Oldest \in Age /\ 0 \in Age
    BY ConsensusAssumption DEF Age, Oldest
  <1>2. <<>> \in Seq(Trigger)
    OBVIOUS
  <1>3. 0 \in 0 .. CleanupPeriod
    BY ConsensusAssumption
  <1> QED BY <1>1, <1>2, <1>3 DEF Init, TypeOK

LEMMA SubmitTyped ==
  ASSUME TypeOK, NEW m \in Mints, NEW w \in Wallets, SubmitSignal(m, w)
  PROVE  TypeOK'
  <1>1. 0 \in Age
    BY ConsensusAssumption DEF Age, Oldest
  <1>2. lastBuy' \in [Mints -> [Wallets -> Age]] /\ sinceCleanup' = sinceCleanup
    BY <1>1 DEF TypeOK, SubmitSignal
  <1>3. signals[m] \in SUBSET Signal
    BY DEF TypeOK
  <1>4. /\ Fresh(signals[m]) \in SUBSET Signal
        /\ Counted(m, w) \in SUBSET Signal
    BY <1>3, SignalSets DEF Counted
  <1>5. WalletsOf(Counted(m, w)) \in SUBSET Wallets
    BY <1>4, SignalSets
  <1>6. CASE SubmitAlreadyTriggered(m, w)
    BY <1>2, <1>6 DEF TypeOK, SubmitAlreadyTriggered
  <1>7. CASE SubmitAlreadyCounted(m, w)
    BY <1>2, <1>4, <1>7 DEF TypeOK, SubmitAlreadyCounted
  <1>8. CASE SubmitBelowQuorum(m, w)
    BY <1>2, <1>4, <1>8 DEF TypeOK, SubmitBelowQuorum
  <1>9. CASE SubmitQuorum(m, w)
    <2>1. [mint |-> m, wallets |-> WalletsOf(Counted(m, w))] \in Trigger
      BY <1>5 DEF Trigger
    <2>2. triggers' \in Seq(Trigger)
      BY <1>9, <2>1 DEF TypeOK, SubmitQuorum
    <2> QED BY <1>1, <1>2, <1>4, <1>9, <2>2 DEF TypeOK, SubmitQuorum
  <1> QED BY <1>6, <1>7, <1>8, <1>9 DEF SubmitSignal

LEMMA RevokeTyped ==
  ASSUME TypeOK, NEW m \in Mints, NEW w \in Wallets, RevokeSignal(m, w)
  PROVE  TypeOK'
  <1>1. WithoutWallet(signals[m], w) \in SUBSET Signal
    BY SignalSets DEF TypeOK
  <1>2. Oldest \in Age
    BY ConsensusAssumption DEF Age, Oldest
  <1> QED BY <1>1, <1>2 DEF TypeOK, RevokeSignal

LEMMA CleanupTyped ==
  ASSUME TypeOK, Cleanup
  PROVE  TypeOK'
  <1>1. \A m \in Mints : Fresh(signals[m]) \in SUBSET Signal
    BY DEF TypeOK, Fresh
  <1>2. 0 \in 0 .. CleanupPeriod
    BY ConsensusAssumption
  <1> QED BY <1>1, <1>2 DEF TypeOK, Cleanup

LEMMA TickTyped ==
  ASSUME TypeOK, Tick
  PROVE  TypeOK'
  <1>1. \A m \in Mints :
          {[s EXCEPT !.age = Older(@)] : s \in signals[m]} \in SUBSET Signal
    <2>1. \A s \in Signal : [s EXCEPT !.age = Older(@)] \in Signal
      BY OlderTyped DEF Signal
    <2> QED BY <2>1 DEF TypeOK
  <1>2. \A m \in Mints, w \in Wallets : Older(lastBuy[m][w]) \in Age
    BY OlderTyped DEF TypeOK
  <1>3. \A m \in Mints : Older(sinceTrigger[m]) \in Age
    BY OlderTyped DEF TypeOK
  <1>4. sinceCleanup' \in 0 .. CleanupPeriod
    BY ConsensusAssumption DEF TypeOK, Tick
  <1> QED BY <1>1, <1>2, <1>3, <1>4 DEF TypeOK, Tick

LEMMA ReceiveTyped ==
  ASSUME TypeOK, ReceiveTrigger
  PROVE  TypeOK'
  <1>1. triggers' \in Seq(Trigger)
    BY DEF TypeOK, ReceiveTrigger
  <1> QED BY <1>1 DEF TypeOK, ReceiveTrigger

LEMMA NextTyped == TypeOK /\ [Next]_vars => TypeOK'
  <1>1. ASSUME TypeOK, UNCHANGED vars PROVE TypeOK'
    BY <1>1 DEF TypeOK, vars
  <1> QED BY <1>1, SubmitTyped, RevokeTyped, CleanupTyped, TickTyped,
             ReceiveTyped DEF Next

(* Ages, entries, signals and queued triggers keep their types; the ages   *)
(* the engine compares never pass the saturation point.                    *)
THEOREM TypeCorrect == Spec => []TypeOK
  <1> QED BY InitTyped, NextTyped, PTL DEF Spec

-----------------------------------------------------------------------------
(* The inductive invariant.                                                *)

\* What holds of the signals S of an entry that has not triggered; b gives
\* the age of each wallet's last unsold buy.
Collects(S, b) ==
  /\ Cardinality(S) < MinWallets
  /\ Distinct(S)
  /\ \A s \in S : b[s.wallet] <= s.age

Collecting ==
  \A m \in Mints :
    /\ IsFiniteSet(signals[m])
    /\ status[m] # "triggered" => Collects(signals[m], lastBuy[m])

Anchored ==
  \A m \in Mints :
    status[m] = "triggered" /\ sinceTrigger[m] < Timeout
      => \E s \in signals[m] : s.age <= sinceTrigger[m]

IInv == TypeOK /\ Collecting /\ Anchored

\* Dropping signals keeps an entry below its quorum.
LEMMA FewerCollect ==
  ASSUME NEW S \in SUBSET Signal, IsFiniteSet(S), NEW T \in SUBSET S,
         NEW b, Collects(S, b)
  PROVE  IsFiniteSet(T) /\ Collects(T, b)
  <1>1. IsFiniteSet(T) /\ Cardinality(T) <= Cardinality(S)
    BY FS_Subset
  <1>2. Cardinality(T) \in Nat /\ Cardinality(S) \in Nat
    BY <1>1, FS_CardinalityType
  <1>3. Cardinality(T) < MinWallets
    BY <1>1, <1>2, ConsensusAssumption DEF Collects
  <1> QED BY <1>1, <1>3 DEF Collects, Distinct

\* The signals counted when a wallet that is not counted yet buys.
LEMMA CountedSignals ==
  ASSUME TypeOK, NEW m \in Mints, NEW w \in Wallets,
         IsFiniteSet(signals[m]), Collects(signals[m], lastBuy[m]),
         ~AlreadyCounted(m, w)
  PROVE  /\ IsFiniteSet(Counted(m, w))
         /\ Distinct(Counted(m, w))
         /\ \A s \in Counted(m, w) :
              /\ s \in Signal
              /\ s.age < Timeout
              /\ [lastBuy[m] EXCEPT ![w] = 0][s.wallet] <= s.age
  <1> DEFINE F == Fresh(signals[m])
             n == [wallet |-> w, age |-> 0]
  <1>1. F \in SUBSET signals[m] /\ signals[m] \in SUBSET Signal
    BY DEF Fresh, TypeOK
  <1>2. IsFiniteSet(F) /\ Collects(F, lastBuy[m])
    BY <1>1, FewerCollect
  <1>3. IsFiniteSet(F \cup {n})
    BY <1>2, FS_AddElement
  <1>4. \A s \in F : s.wallet # w
    BY DEF AlreadyCounted, WalletsOf
  <1>5. n.wallet = w /\ n.age = 0 /\ n \in Signal
    BY ConsensusAssumption DEF Signal, Age, Oldest
  <1>6. Distinct(F \cup {n})
    BY <1>2, <1>4, <1>5 DEF Distinct, Collects
  <1>7. lastBuy[m] \in [Wallets -> Age]
    BY DEF TypeOK
  <1>8. ASSUME NEW s \in F
        PROVE  /\ s \in Signal /\ s.age < Timeout
               /\ [lastBuy[m] EXCEPT ![w] = 0][s.wallet] <= s.age
    <2>1. s \in Signal /\ s.age < Timeout
      BY <1>1 DEF Fresh
    <2>2. s.wallet \in Wallets /\ s.wallet # w
      BY <1>4, <2>1 DEF Signal
    <2> QED BY <1>2, <1>7, <2>1, <2>2 DEF Collects
  <1>9. n.age < Timeout /\ [lastBuy[m] EXCEPT ![w] = 0][n.wallet] <= n.age
    BY <1>5, <1>7, ConsensusAssumption
  <1> QED BY <1>3, <1>5, <1>6, <1>8, <1>9 DEF Counted

\* Buys only make a wallet's last buy younger.
LEMMA YoungerBuy ==
  ASSUME NEW S \in SUBSET Signal, NEW b \in [Wallets -> Age], NEW w \in Wallets,
         Collects(S, b)
  PROVE  Collects(S, [b EXCEPT ![w] = 0])
  <1>1. \A s \in S : s.wallet \in Wallets /\ s.age \in Age
    BY DEF Signal
  <1>2. \A a \in Age : a \in Nat
    BY ConsensusAssumption DEF Age, Oldest
  <1>3. \A s \in S : [b EXCEPT ![w] = 0][s.wallet] <= s.age
    BY <1>1, <1>2 DEF Collects
  <1> QED BY <1>3 DEF Collects

LEMMA InitCollects == Init => IInv
  <1> SUFFICES ASSUME Init PROVE Collecting /\ Anchored
    BY InitTyped DEF IInv
  <1>1. \A m \in Mints : signals[m] = {} /\ status[m] = "absent"
    BY DEF Init
  <1>2. IsFiniteSet({}) /\ Cardinality({}) = 0
    BY FS_EmptySet
  <1> QED BY <1>1, <1>2, ConsensusAssumption
          DEF Collecting, Collects, Distinct, Anchored

LEMMA SubmitCollects ==
  ASSUME IInv, NEW m \in Mints, NEW w \in Wallets, SubmitSignal(m, w)
  PROVE  (Collecting /\ Anchored)'
  <1>1. TypeOK /\ Collecting /\ Anchored
    BY DEF IInv
  <1>2. /\ lastBuy'[m] = [lastBuy[m] EXCEPT ![w] = 0]
        /\ \A k \in Mints \ {m} : lastBuy'[k] = lastBuy[k]
    BY <1>1 DEF SubmitSignal, TypeOK
  <1>3. /\ signals[m] \in SUBSET Signal
        /\ lastBuy[m] \in [Wallets -> Age]
        /\ Fresh(signals[m]) \in SUBSET signals[m]
    BY <1>1 DEF TypeOK, Fresh
  <1>4. ASSUME NEW k \in Mints, k # m
        PROVE  /\ status'[k] = status[k] /\ signals'[k] = signals[k]
               /\ sinceTrigger'[k] = sinceTrigger[k]
    BY <1>1, <1>4 DEF SubmitSignal, SubmitAlreadyTriggered,
       SubmitAlreadyCounted, SubmitBelowQuorum, SubmitQuorum, TypeOK
  <1>5. /\ IsFiniteSet(signals'[m])
        /\ status'[m] # "triggered" => Collects(signals'[m], lastBuy'[m])
    <2>1. CASE SubmitAlreadyTriggered(m, w)
      BY <1>1, <2>1 DEF SubmitAlreadyTriggered, Collecting
    <2>2. CASE SubmitAlreadyCounted(m, w)
      <3>1. signals'[m] = Fresh(signals[m]) /\ status[m] # "triggered"
        BY <1>1, <2>2 DEF SubmitAlreadyCounted, TypeOK
      <3>2. /\ IsFiniteSet(Fresh(signals[m]))
            /\ Collects(Fresh(signals[m]), lastBuy[m])
        BY <1>1, <1>3, <3>1, FewerCollect DEF Collecting
      <3>3. Fresh(signals[m]) \in SUBSET Signal
        BY <1>3
      <3> QED BY <1>2, <1>3, <3>1, <3>2, <3>3, YoungerBuy
    <2>3. CASE SubmitBelowQuorum(m, w)
      <3>1. /\ signals'[m] = Counted(m, w) /\ status[m] # "triggered"
            /\ Cardinality(Counted(m, w)) < MinWallets
            /\ ~AlreadyCounted(m, w)
        BY <1>1, <2>3 DEF SubmitBelowQuorum, TypeOK
      <3>2. IsFiniteSet(signals[m]) /\ Collects(signals[m], lastBuy[m])
        BY <1>1, <3>1 DEF Collecting
      <3> QED BY <1>1, <1>2, <3>1, <3>2, CountedSignals DEF Collects
    <2>4. CASE SubmitQuorum(m, w)
      <3>1. /\ signals'[m] = Counted(m, w) /\ status[m] # "triggered"
            /\ status'[m] = "triggered"
            /\ ~AlreadyCounted(m, w)
        BY <1>1, <2>4 DEF SubmitQuorum, TypeOK
      <3>2. IsFiniteSet(signals[m]) /\ Collects(signals[m], lastBuy[m])
        BY <1>1, <3>1 DEF Collecting
      <3> QED BY <1>1, <3>1, <3>2, CountedSignals
    <2> QED BY <2>1, <2>2, <2>3, <2>4 DEF SubmitSignal
  <1>6. status'[m] = "triggered" /\ sinceTrigger'[m] < Timeout
          => \E s \in signals'[m] : s.age <= sinceTrigger'[m]
    <2>1. CASE SubmitAlreadyTriggered(m, w)
      BY <1>1, <2>1 DEF SubmitAlreadyTriggered, Anchored
    <2>2. CASE SubmitAlreadyCounted(m, w) \/ SubmitBelowQuorum(m, w)
      BY <1>1, <2>2 DEF SubmitAlreadyCounted, SubmitBelowQuorum, TypeOK
    <2>3. CASE SubmitQuorum(m, w)
      <3>1. /\ [wallet |-> w, age |-> 0] \in signals'[m]
            /\ sinceTrigger'[m] = 0
        BY <1>1, <2>3 DEF SubmitQuorum, Counted, TypeOK
      <3>2. [wallet |-> w, age |-> 0].age <= 0
        OBVIOUS
      <3> QED BY <3>1, <3>2
    <2> QED BY <2>1, <2>2, <2>3 DEF SubmitSignal
  <1>7. Collecting'
    BY <1>1, <1>2, <1>4, <1>5 DEF Collecting
  <1>8. Anchored'
    BY <1>1, <1>4, <1>6 DEF Anchored
  <1> QED BY <1>7, <1>8

LEMMA RevokeCollects ==
  ASSUME IInv, NEW m \in Mints, NEW w \in Wallets, RevokeSignal(m, w)
  PROVE  (Collecting /\ Anchored)'
  <1>1. TypeOK /\ Collecting /\ Anchored
    BY DEF IInv
  <1>2. /\ lastBuy'[m] = [lastBuy[m] EXCEPT ![w] = Oldest]
        /\ \A k \in Mints \ {m} :
             lastBuy'[k] = lastBuy[k] /\ signals'[k] = signals[k]
        /\ status' = status /\ sinceTrigger' = sinceTrigger
    BY <1>1 DEF RevokeSignal, TypeOK
  <1>3. CASE status[m] = "triggered"
    <2>1. signals' = signals
      BY <1>3 DEF RevokeSignal
    <2> QED BY <1>1, <1>2, <1>3, <2>1 DEF Collecting, Anchored
  <1>4. CASE status[m] # "triggered"
    <2> DEFINE T == WithoutWallet(signals[m], w)
    <2>1. signals'[m] = T
      BY <1>1, <1>4 DEF RevokeSignal, TypeOK
    <2>2. T \in SUBSET signals[m] /\ signals[m] \in SUBSET Signal
      BY <1>1 DEF WithoutWallet, TypeOK
    <2>3. IsFiniteSet(T) /\ Collects(T, lastBuy[m])
      BY <1>1, <1>4, <2>2, FewerCollect DEF Collecting
    <2>4. \A s \in T : s.wallet \in Wallets /\ s.wallet # w
      BY <2>2 DEF WithoutWallet, Signal
    <2>5. lastBuy[m] \in [Wallets -> Age]
      BY <1>1 DEF TypeOK
    <2>6. \A s \in T : lastBuy'[m][s.wallet] = lastBuy[m][s.wallet]
      BY <1>2, <2>4, <2>5
    <2>7. Collects(T, lastBuy'[m])
      BY <2>3, <2>6 DEF Collects
    <2>8. Collecting'
      BY <1>1, <1>2, <2>1, <2>3, <2>7 DEF Collecting
    <2>9. Anchored'
      BY <1>1, <1>2, <1>4 DEF Anchored
    <2> QED BY <2>8, <2>9
  <1> QED BY <1>3, <1>4

LEMMA CleanupCollects ==
  ASSUME IInv, Cleanup
  PROVE  (Collecting /\ Anchored)'
  <1>1. TypeOK /\ Collecting /\ Anchored
    BY DEF IInv
  <1>2. IsFiniteSet({}) /\ Cardinality({}) = 0
    BY FS_EmptySet
  <1>3. ASSUME NEW m \in Mints
        PROVE  /\ status'[m] = IF Removed(m) THEN "absent" ELSE status[m]
               /\ signals'[m] = IF Removed(m) THEN {} ELSE Fresh(signals[m])
               /\ lastBuy'[m] = lastBuy[m]
               /\ sinceTrigger'[m] = sinceTrigger[m]
    BY <1>1 DEF Cleanup
  <1>4. ASSUME NEW m \in Mints
        PROVE  /\ IsFiniteSet(signals'[m])
               /\ status'[m] # "triggered" => Collects(signals'[m], lastBuy'[m])
    <2>1. CASE Removed(m)
      BY <1>2, <1>3, <2>1, ConsensusAssumption DEF Collects, Distinct
    <2>2. CASE ~Removed(m)
      <3>1. /\ Fresh(signals[m]) \in SUBSET signals[m]
            /\ signals[m] \in SUBSET Signal
        BY <1>1 DEF Fresh, TypeOK
      <3>2. IsFiniteSet(Fresh(signals[m]))
        BY <1>1, <3>1, FS_Subset DEF Collecting
      <3> QED BY <1>1, <1>3, <2>2, <3>1, <3>2, FewerCollect DEF Collecting
    <2> QED BY <2>1, <2>2
  <1>5. ASSUME NEW m \in Mints,
               status'[m] = "triggered", sinceTrigger'[m] < Timeout
        PROVE  \E s \in signals'[m] : s.age <= sinceTrigger'[m]
    <2>1. ~Removed(m) /\ status[m] = "triggered"
      BY <1>3, <1>5
    <2>2. PICK s \in signals[m] : s.age <= sinceTrigger[m]
      BY <1>1, <1>3, <1>5, <2>1 DEF Anchored
    <2>3. s.age \in Age /\ sinceTrigger[m] \in Age
      BY <1>1 DEF TypeOK, Signal
    <2>4. s.age < Timeout
      BY <1>3, <1>5, <2>2, <2>3, ConsensusAssumption DEF Age, Oldest
    <2> QED BY <1>3, <2>1, <2>2, <2>4 DEF Fresh
  <1>6. Collecting'
    BY <1>4 DEF Collecting
  <1>7. Anchored'
    BY <1>5 DEF Anchored
  <1> QED BY <1>6, <1>7

LEMMA TickCollects ==
  ASSUME IInv, Tick
  PROVE  (Collecting /\ Anchored)'
  <1>1. TypeOK /\ Collecting /\ Anchored
    BY DEF IInv
  <1> DEFINE Aged(S) == {[s EXCEPT !.age = Older(@)] : s \in S}
  <1>2. ASSUME NEW m \in Mints
        PROVE  /\ signals'[m] = Aged(signals[m])
               /\ status'[m] = status[m]
               /\ sinceTrigger'[m] = Older(sinceTrigger[m])
               /\ \A w \in Wallets : lastBuy'[m][w] = Older(lastBuy[m][w])
    BY DEF Tick
  <1>3. ASSUME NEW m \in Mints
        PROVE  IsFiniteSet(signals'[m])
    <2> DEFINE f == [s \in signals[m] |-> [s EXCEPT !.age = Older(@)]]
    <2>1. f \in Surjection(signals[m], Aged(signals[m]))
      BY DEF Surjection
    <2>2. IsFiniteSet(signals[m])
      BY <1>1 DEF Collecting
    <2>3. IsFiniteSet(Aged(signals[m]))
      BY <2>1, <2>2, FS_Surjection
    <2> QED BY <1>2, <2>3
  <1>4. ASSUME NEW m \in Mints, status'[m] # "triggered"
        PROVE  Collects(signals'[m], lastBuy'[m])
    <2>1. Collects(signals[m], lastBuy[m]) /\ IsFiniteSet(signals[m])
      BY <1>1, <1>2, <1>4 DEF Collecting
    <2>2. signals[m] \in SUBSET Signal /\ Distinct(signals[m])
      BY <1>1, <2>1 DEF TypeOK, Collects
    <2>3. /\ IsFiniteSet(Aged(signals[m]))
          /\ Cardinality(Aged(signals[m])) <= Cardinality(signals[m])
          /\ Distinct(Aged(signals[m]))
      BY <2>1, <2>2, AgedCount
    <2>4. Cardinality(Aged(signals[m])) < MinWallets
      BY <2>1, <2>3, FS_CardinalityType, ConsensusAssumption DEF Collects
    <2>5. ASSUME NEW s \in signals[m]
          PROVE  lastBuy'[m][s.wallet] <= Older(s.age)
      <3>1. s.wallet \in Wallets /\ s.age \in Age
        BY <2>2 DEF Signal
      <3>2. lastBuy[m][s.wallet] \in Age /\ lastBuy[m][s.wallet] <= s.age
        BY <1>1, <2>1, <3>1 DEF TypeOK, Collects
      <3> QED BY <1>2, <3>1, <3>2, OlderTyped
    <2>6. \A s \in signals[m] :
            /\ [s EXCEPT !.age = Older(@)].wallet = s.wallet
            /\ [s EXCEPT !.age = Older(@)].age = Older(s.age)
      BY <2>2 DEF Signal
    <2>7. \A x \in Aged(signals[m]) : lastBuy'[m][x.wallet] <= x.age
      BY <2>5, <2>6
    <2> QED BY <1>2, <2>3, <2>4, <2>7 DEF Collects
  <1>5. ASSUME NEW m \in Mints,
               status'[m] = "triggered", sinceTrigger'[m] < Timeout
        PROVE  \E s \in signals'[m] : s.age <= sinceTrigger'[m]
    <2>1. sinceTrigger[m] \in Age /\ Older(sinceTrigger[m]) < Timeout
      BY <1>1, <1>2, <1>5 DEF TypeOK
    <2>2. sinceTrigger[m] < Timeout
      BY <2>1, OlderTyped, ConsensusAssumption DEF Age, Oldest
    <2>3. PICK s \in signals[m] : s.age <= sinceTrigger[m]
      BY <1>1, <1>2, <1>5, <2>2 DEF Anchored
    <2>4. s \in Signal
      BY <1>1 DEF TypeOK
    <2>5. [s EXCEPT !.age = Older(@)].age = Older(s.age) /\ s.age \in Age
      BY <2>4 DEF Signal
    <2>6. Older(s.age) <= Older(sinceTrigger[m])
      BY <2>1, <2>3, <2>5, OlderTyped
    <2>7. [s EXCEPT !.age = Older(@)] \in Aged(signals[m])
      OBVIOUS
    <2> QED BY <1>2, <2>5, <2>6, <2>7
  <1>6. Collecting'
    BY <1>3, <1>4 DEF Collecting
  <1>7. Anchored'
    BY <1>5 DEF Anchored
  <1> QED BY <1>6, <1>7

LEMMA NextCollects == IInv /\ [Next]_vars => IInv'
  <1> SUFFICES ASSUME IInv, [Next]_vars PROVE (Collecting /\ Anchored)'
    BY NextTyped DEF IInv
  <1>1. CASE UNCHANGED <<status, signals, lastBuy, sinceTrigger>>
    BY <1>1 DEF IInv, Collecting, Anchored
  <1>2. ReceiveTrigger \/ UNCHANGED vars
          => UNCHANGED <<status, signals, lastBuy, sinceTrigger>>
    BY DEF ReceiveTrigger, vars
  <1> QED BY <1>1, <1>2, SubmitCollects, RevokeCollects, CleanupCollects,
             TickCollects DEF Next

LEMMA Invariant == Spec => []IInv
  <1> QED BY InitCollects, NextCollects, PTL DEF Spec

-----------------------------------------------------------------------------

(* No consensus is reached and then missed: an entry that has not          *)
(* triggered is below the quorum and counts every wallet once.             *)
THEOREM NoMissedConsensus == Spec => []PendingBelowQuorum
  <1>1. IInv => PendingBelowQuorum
    BY DEF IInv, Collecting, Collects, Distinct, PendingBelowQuorum
  <1> QED BY <1>1, Invariant, PTL

(* No false consensus: the wallets a trigger names are at least MinWallets *)
(* different ones, and each has a buy inside the window it has not sold.   *)
THEOREM NoFalseConsensus == Spec => QuorumIsFresh
  <1> DEFINE Last == triggers'[Len(triggers')]
             Justified ==
               Len(triggers') > Len(triggers) =>
                 /\ Cardinality(Last.wallets) >= MinWallets
                 /\ \A w \in Last.wallets : lastBuy'[Last.mint][w] < Timeout
  <1>1. ASSUME IInv, NEW m \in Mints, NEW w \in Wallets,
               SubmitQuorum(m, w), SubmitSignal(m, w)
        PROVE  Justified
    <2> DEFINE C == Counted(m, w)
    <2>1. TypeOK /\ Collecting
      BY <1>1 DEF IInv
    <2>2. /\ status[m] # "triggered" /\ ~AlreadyCounted(m, w)
          /\ Cardinality(C) >= MinWallets
          /\ Last = [mint |-> m, wallets |-> WalletsOf(C)]
      BY <1>1, <2>1 DEF SubmitQuorum, TypeOK
    <2>3. IsFiniteSet(signals[m]) /\ Collects(signals[m], lastBuy[m])
      BY <2>1, <2>2 DEF Collecting
    <2>4. /\ IsFiniteSet(C) /\ Distinct(C)
          /\ \A s \in C : /\ s \in Signal /\ s.age < Timeout
                          /\ [lastBuy[m] EXCEPT ![w] = 0][s.wallet] <= s.age
      BY <2>1, <2>2, <2>3, CountedSignals
    <2>5. Cardinality(WalletsOf(C)) >= MinWallets
      BY <2>2, <2>4, DistinctCount
    <2>6. lastBuy'[m] = [lastBuy[m] EXCEPT ![w] = 0]
      BY <1>1, <2>1 DEF SubmitSignal, TypeOK
    <2>7. lastBuy'[m] \in [Wallets -> Age]
      BY <2>1, <2>6, ConsensusAssumption DEF TypeOK, Age, Oldest
    <2>8. ASSUME NEW s \in C
          PROVE  lastBuy'[m][s.wallet] < Timeout
      <3>1. s.wallet \in Wallets /\ s.age \in Age
        BY <2>4 DEF Signal
      <3> QED BY <2>4, <2>6, <2>7, <3>1, ConsensusAssumption DEF Age, Oldest
    <2>9. \A x \in WalletsOf(C) : lastBuy'[m][x] < Timeout
      BY <2>8 DEF WalletsOf
    <2> QED BY <2>2, <2>5, <2>9
  <1>2. ASSUME IInv, ReceiveTrigger
        PROVE  Len(triggers') <= Len(triggers)
    BY <1>2 DEF IInv, TypeOK, ReceiveTrigger
  <1>3. ASSUME IInv, triggers' = triggers
        PROVE  ~(Len(triggers') > Len(triggers))
    BY <1>3 DEF IInv, TypeOK
  <1>4. ASSUME IInv, NEW m \in Mints, NEW w \in Wallets, SubmitSignal(m, w)
        PROVE  Justified
    BY <1>1, <1>3, <1>4 DEF SubmitSignal, SubmitAlreadyTriggered,
       SubmitAlreadyCounted, SubmitBelowQuorum
  <1>5. ASSUME IInv, [Next]_vars
        PROVE  Justified
    <2>1. CASE ReceiveTrigger
      <3>1. triggers \in Seq(Trigger) /\ triggers' \in Seq(Trigger)
        BY <1>5, NextTyped DEF IInv, TypeOK
      <3> QED BY <1>2, <1>5, <2>1, <3>1
    <2>2. CASE triggers' = triggers
      BY <1>3, <1>5, <2>2
    <2>3. CASE \E m \in Mints, w \in Wallets : SubmitSignal(m, w)
      BY <1>4, <1>5, <2>3
    <2> QED BY <1>5, <2>1, <2>2, <2>3
            DEF Next, RevokeSignal, Cleanup, Tick, vars
  <1>6. IInv /\ [Next]_vars => [Justified]_vars
    BY <1>5
  <1> QED BY <1>6, Invariant, PTL DEF Spec, QuorumIsFresh

(* A triggered entry keeps suppressing its token for one whole window.     *)
THEOREM SuppressedForAWindow == Spec => SuppressedOneTimeout
  <1> DEFINE Kept ==
        \A m \in Mints : status[m] = "triggered" /\ status'[m] = "absent"
                           => sinceTrigger[m] >= Timeout
  <1>1. ASSUME IInv, Cleanup, NEW m \in Mints,
               status[m] = "triggered", status'[m] = "absent"
        PROVE  sinceTrigger[m] >= Timeout
    <2>1. TypeOK /\ Anchored
      BY <1>1 DEF IInv
    <2>2. AllExpired(signals[m])
      BY <1>1 DEF Cleanup, Removed
    <2>3. sinceTrigger[m] \in Age
      BY <2>1 DEF TypeOK
    <2>4. ASSUME sinceTrigger[m] < Timeout PROVE FALSE
      <3>1. PICK s \in signals[m] : s.age <= sinceTrigger[m]
        BY <1>1, <2>1, <2>4 DEF Anchored
      <3>2. s.age \in Age /\ s.age > 2 * Timeout
        BY <2>1, <2>2 DEF TypeOK, Signal, AllExpired
      <3> QED BY <2>3, <2>4, <3>1, <3>2, ConsensusAssumption DEF Age, Oldest
    <2> QED BY <2>3, <2>4, ConsensusAssumption DEF Age, Oldest
  <1>2. ASSUME IInv, NEW m \in Mints, NEW w \in Wallets, SubmitSignal(m, w)
        PROVE  Kept
    BY <1>2 DEF IInv, TypeOK, SubmitSignal, SubmitAlreadyTriggered,
       SubmitAlreadyCounted, SubmitBelowQuorum, SubmitQuorum
  <1>3. ASSUME status' = status
        PROVE  Kept
    BY <1>3
  <1>4. IInv /\ [Next]_vars => [Kept]_vars
    BY <1>1, <1>2, <1>3 DEF Next, RevokeSignal, ReceiveTrigger, Tick, vars
  <1> QED BY <1>4, Invariant, PTL DEF Spec, SuppressedOneTimeout

-----------------------------------------------------------------------------
(* A triggered entry is forgotten: none of its signals is younger than its *)
(* trigger.                                                                *)

NoneYounger ==
  \A m \in Mints : status[m] = "triggered" =>
    \A s \in signals[m] : s.age >= sinceTrigger[m]

LEMMA SubmitAges ==
  ASSUME TypeOK, NoneYounger, NEW m \in Mints, NEW w \in Wallets,
         SubmitSignal(m, w)
  PROVE  NoneYounger'
  <1>1. ASSUME NEW k \in Mints \ {m}
        PROVE  UNCHANGED <<status[k], signals[k], sinceTrigger[k]>>
    BY DEF SubmitSignal, SubmitAlreadyTriggered, SubmitAlreadyCounted,
       SubmitBelowQuorum, SubmitQuorum, TypeOK
  <1>2. ASSUME status'[m] = "triggered", NEW s \in signals'[m]
        PROVE  s.age >= sinceTrigger'[m]
    <2>1. CASE SubmitAlreadyTriggered(m, w)
      BY <1>2, <2>1 DEF SubmitAlreadyTriggered, NoneYounger
    <2>2. CASE SubmitQuorum(m, w)
      <3>1. sinceTrigger'[m] = 0 /\ signals'[m] = Counted(m, w)
        BY <2>2 DEF SubmitQuorum, TypeOK
      <3>2. s \in Signal
        BY <1>2, <3>1, SignalSets DEF Counted, TypeOK
      <3> QED BY <3>1, <3>2, ConsensusAssumption DEF Signal, Age, Oldest
    <2> QED BY <1>2, <2>1, <2>2
            DEF SubmitSignal, SubmitAlreadyCounted, SubmitBelowQuorum, TypeOK
  <1> QED BY <1>1, <1>2 DEF NoneYounger

LEMMA NextAges == IInv /\ NoneYounger /\ [Next]_vars => NoneYounger'
  <1> SUFFICES ASSUME TypeOK, NoneYounger, [Next]_vars PROVE NoneYounger'
    BY DEF IInv
  <1>1. CASE \E m \in Mints, w \in Wallets : SubmitSignal(m, w)
    BY <1>1, SubmitAges
  <1>2. CASE \E m \in Mints, w \in Wallets : RevokeSignal(m, w)
    <2>1. PICK m \in Mints, w \in Wallets : RevokeSignal(m, w)
      BY <1>2
    <2>2. \A k \in Mints : status[k] = "triggered" => signals'[k] = signals[k]
      BY <2>1 DEF RevokeSignal, TypeOK
    <2> QED BY <2>1, <2>2 DEF RevokeSignal, NoneYounger
  <1>3. CASE Cleanup
    <2>1. \A m \in Mints : signals'[m] \subseteq signals[m]
      BY <1>3 DEF Cleanup, Fresh
    <2>2. \A m \in Mints : status'[m] = "triggered" => status[m] = "triggered"
      BY <1>3 DEF Cleanup
    <2> QED BY <1>3, <2>1, <2>2 DEF Cleanup, NoneYounger
  <1>4. CASE Tick
    <2> SUFFICES ASSUME NEW m \in Mints, status'[m] = "triggered",
                        NEW s \in signals'[m]
                 PROVE  s.age >= sinceTrigger'[m]
      BY DEF NoneYounger
    <2>1. PICK r \in signals[m] : s = [r EXCEPT !.age = Older(@)]
      BY <1>4 DEF Tick
    <2>2. r.age >= sinceTrigger[m] /\ r \in Signal
      BY <1>4 DEF Tick, NoneYounger, TypeOK
    <2>3. s.age = Older(r.age) /\ sinceTrigger'[m] = Older(sinceTrigger[m])
      BY <1>4, <2>1, <2>2 DEF Tick, Signal
    <2>4. r.age \in Age /\ sinceTrigger[m] \in Age
      BY <2>2 DEF Signal, TypeOK
    <2>5. /\ Older(sinceTrigger[m]) <= Older(r.age)
          /\ Older(sinceTrigger[m]) \in Age /\ Older(r.age) \in Age
      BY <2>2, <2>4, OlderTyped DEF Age
    <2> QED BY <2>3, <2>5 DEF Age
  <1>5. CASE ReceiveTrigger \/ UNCHANGED vars
    BY <1>5 DEF ReceiveTrigger, vars, NoneYounger
  <1> QED BY <1>1, <1>2, <1>3, <1>4, <1>5 DEF Next

(* A cleanup pass later than two windows after a trigger removes the       *)
(* entry: its tokens may be bought by consensus again.                     *)
THEOREM ForgottenInTime == Spec => ForgottenAfterTwoTimeouts
  <1> DEFINE Forgotten ==
        Cleanup => \A m \in Mints :
                     status[m] = "triggered" /\ sinceTrigger[m] > 2 * Timeout
                       => status'[m] = "absent"
  <1>1. Init => NoneYounger
    BY DEF Init, NoneYounger
  <1>2. IInv /\ NoneYounger => Forgotten
    <2> SUFFICES ASSUME TypeOK, NoneYounger, Cleanup, NEW m \in Mints,
                        status[m] = "triggered", sinceTrigger[m] > 2 * Timeout
                 PROVE  status'[m] = "absent"
      BY DEF IInv
    <2>1. \A s \in signals[m] : s.age \in Age /\ s.age >= sinceTrigger[m]
      BY DEF NoneYounger, TypeOK, Signal
    <2>2. AllExpired(signals[m])
      BY <2>1, ConsensusAssumption DEF AllExpired, TypeOK, Age, Oldest
    <2> QED BY <2>2 DEF Cleanup, Removed
  <1>3. IInv /\ NoneYounger /\ [Next]_vars => [Forgotten]_vars
    BY <1>2
  <1> QED BY <1>1, <1>3, Invariant, NextAges, PTL
          DEF Spec, ForgottenAfterTwoTimeouts

-----------------------------------------------------------------------------
(* The engine implements ConsensusContract.                                *)

\* The instance has an operator of its own for the size of a set.
LEMMA SameCardinality == \A S : Contract!Cardinality(S) = Cardinality(S)
  BY DEF Contract!Cardinality, Cardinality

\* The refinement mapping of one entry.
LEMMA MappedEntry ==
  ASSUME NEW m \in Mints
  PROVE  /\ CountedNow[m]
              = IF status[m] = "triggered" THEN {} ELSE WalletsOf(signals[m])
         /\ CountedNow'[m]
              = IF status'[m] = "triggered" THEN {} ELSE WalletsOf(signals'[m])
         /\ m \in TriggeredNow <=> status[m] = "triggered"
         /\ m \in TriggeredNow' <=> status'[m] = "triggered"
  BY DEF CountedNow, TriggeredNow

\* An operation on one entry moves that entry's image only.
LEMMA MappedUpdate ==
  ASSUME NEW m \in Mints,
         \A k \in Mints \ {m} :
           status'[k] = status[k] /\ signals'[k] = signals[k]
  PROVE  /\ CountedNow' = [CountedNow EXCEPT ![m] = CountedNow'[m]]
         /\ TriggeredNow' = IF status'[m] = "triggered"
                            THEN TriggeredNow \cup {m}
                            ELSE TriggeredNow \ {m}
  BY DEF CountedNow, TriggeredNow

\* The wallets of the signals kept, and of these with the new one.
LEMMA CountedWallets ==
  ASSUME NEW m \in Mints, NEW w \in Wallets, status[m] # "triggered"
  PROVE  /\ WalletsOf(Fresh(signals[m])) \in SUBSET CountedNow[m]
         /\ WalletsOf(Counted(m, w)) = WalletsOf(Fresh(signals[m])) \cup {w}
  <1>1. WalletsOf(Fresh(signals[m])) \in SUBSET CountedNow[m]
    BY MappedEntry DEF WalletsOf, Fresh
  <1> DEFINE n == [wallet |-> w, age |-> 0]
  <1>2. n.wallet = w
    OBVIOUS
  <1>3. WalletsOf(Fresh(signals[m]) \cup {n})
          = WalletsOf(Fresh(signals[m])) \cup {w}
    <2> HIDE DEF n
    <2> QED BY <1>2 DEF WalletsOf
  <1> QED BY <1>1, <1>3 DEF Counted

LEMMA SubmitRefines ==
  ASSUME IInv, NEW m \in Mints, NEW w \in Wallets, SubmitSignal(m, w)
  PROVE  Contract!Submit(m, w)
  <1>1. TypeOK /\ Collecting
    BY DEF IInv
  <1> DEFINE kept == WalletsOf(Fresh(signals[m]))
  <1>2. \A k \in Mints \ {m} :
          status'[k] = status[k] /\ signals'[k] = signals[k]
    BY <1>1 DEF SubmitSignal, SubmitAlreadyTriggered,
       SubmitAlreadyCounted, SubmitBelowQuorum, SubmitQuorum, TypeOK
  <1>3. CASE SubmitAlreadyTriggered(m, w)
    <2>1. m \in TriggeredNow
      BY <1>3 DEF SubmitAlreadyTriggered, TriggeredNow
    <2>2. UNCHANGED <<CountedNow, TriggeredNow, triggers>>
      BY <1>3 DEF SubmitAlreadyTriggered, CountedNow, TriggeredNow
    <2> QED BY <2>1, <2>2
            DEF Contract!Submit, Contract!Ignore, Contract!contractVars
  <1>4. CASE SubmitAlreadyCounted(m, w)
    <2>1. /\ status[m] # "triggered" /\ status'[m] = "open"
          /\ signals'[m] = Fresh(signals[m])
          /\ w \in kept
          /\ triggers' = triggers
      BY <1>1, <1>4 DEF SubmitAlreadyCounted, AlreadyCounted, TypeOK
    <2>2. /\ IsFiniteSet(signals[m])
          /\ Collects(signals[m], lastBuy[m])
          /\ Fresh(signals[m]) \in SUBSET signals[m]
          /\ signals[m] \in SUBSET Signal
      BY <1>1, <2>1 DEF Collecting, Fresh, TypeOK
    <2>3. /\ IsFiniteSet(Fresh(signals[m]))
          /\ Collects(Fresh(signals[m]), lastBuy[m])
      BY <2>2, FewerCollect
    <2>4. Cardinality(kept) < MinWallets
      BY <2>3, DistinctCount DEF Collects
    <2>5. kept \cup {w} = kept
      BY <2>1
    <2>6. CountedNow'[m] = kept
      BY <2>1, MappedEntry
    <2>7. CountedNow' = [CountedNow EXCEPT ![m] = kept \cup {w}]
      BY <1>2, <2>5, <2>6, MappedUpdate
    <2>8. TriggeredNow' = TriggeredNow /\ m \notin TriggeredNow
      BY <1>2, <2>1, MappedUpdate, MappedEntry
    <2>9. kept \in SUBSET CountedNow[m]
      BY <2>1, CountedWallets
    <2>10. \E k \in SUBSET CountedNow[m] :
             /\ Cardinality(k \cup {w}) < MinWallets
             /\ CountedNow' = [CountedNow EXCEPT ![m] = k \cup {w}]
      <3> HIDE DEF kept
      <3> QED BY <2>4, <2>5, <2>7, <2>9
    <2>11. Contract!Count(m, w)
      BY <2>1, <2>8, <2>10, SameCardinality DEF Contract!Count
    <2> QED BY <2>11 DEF Contract!Submit
  <1>5. CASE SubmitBelowQuorum(m, w)
    <2>1. /\ status[m] # "triggered" /\ status'[m] = "open"
          /\ signals'[m] = Counted(m, w)
          /\ ~AlreadyCounted(m, w)
          /\ Cardinality(Counted(m, w)) < MinWallets
          /\ triggers' = triggers
      BY <1>1, <1>5 DEF SubmitBelowQuorum, TypeOK
    <2>2. Cardinality(WalletsOf(Counted(m, w))) = Cardinality(Counted(m, w))
      BY <1>1, <2>1, CountedSignals, DistinctCount DEF Collecting
    <2>3. CountedNow'[m] = kept \cup {w}
      BY <2>1, MappedEntry, CountedWallets
    <2>4. CountedNow' = [CountedNow EXCEPT ![m] = kept \cup {w}]
      BY <1>2, <2>3, MappedUpdate
    <2>5. TriggeredNow' = TriggeredNow /\ m \notin TriggeredNow
      BY <1>2, <2>1, MappedUpdate, MappedEntry
    <2>6. /\ kept \in SUBSET CountedNow[m]
          /\ Cardinality(kept \cup {w}) < MinWallets
      BY <2>1, <2>2, CountedWallets
    <2>7. \E k \in SUBSET CountedNow[m] :
            /\ Cardinality(k \cup {w}) < MinWallets
            /\ CountedNow' = [CountedNow EXCEPT ![m] = k \cup {w}]
      <3> HIDE DEF kept
      <3> QED BY <2>4, <2>6
    <2>8. Contract!Count(m, w)
      BY <2>1, <2>5, <2>7, SameCardinality DEF Contract!Count
    <2> QED BY <2>8 DEF Contract!Submit
  <1>6. CASE SubmitQuorum(m, w)
    <2>1. /\ status[m] # "triggered" /\ status'[m] = "triggered"
          /\ ~AlreadyCounted(m, w)
          /\ Cardinality(Counted(m, w)) >= MinWallets
          /\ Len(triggers) < MaxQueued
          /\ triggers' = Append(triggers, [mint |-> m,
                                  wallets |-> WalletsOf(Counted(m, w))])
      BY <1>1, <1>6 DEF SubmitQuorum, TypeOK
    <2>2. Cardinality(WalletsOf(Counted(m, w))) = Cardinality(Counted(m, w))
      BY <1>1, <2>1, CountedSignals, DistinctCount DEF Collecting
    <2>3. CountedNow'[m] = {}
      BY <2>1, MappedEntry
    <2>4. CountedNow' = [CountedNow EXCEPT ![m] = {}]
      BY <1>2, <2>3, MappedUpdate
    <2>5. TriggeredNow' = TriggeredNow \cup {m} /\ m \notin TriggeredNow
      BY <1>2, <2>1, MappedUpdate, MappedEntry
    <2>6. /\ kept \in SUBSET CountedNow[m]
          /\ WalletsOf(Counted(m, w)) = kept \cup {w}
      BY <2>1, CountedWallets
    <2>7. Cardinality(kept \cup {w}) >= MinWallets
      BY <2>1, <2>2, <2>6
    <2>8. \E k \in SUBSET CountedNow[m] :
            /\ Cardinality(k \cup {w}) >= MinWallets
            /\ triggers' = Append(triggers, [mint |-> m, wallets |-> k \cup {w}])
      <3> HIDE DEF kept
      <3> QED BY <2>1, <2>6, <2>7
    <2>9. Contract!Agree(m, w)
      BY <2>1, <2>4, <2>5, <2>8, SameCardinality DEF Contract!Agree
    <2> QED BY <2>9 DEF Contract!Submit
  <1> QED BY <1>3, <1>4, <1>5, <1>6 DEF SubmitSignal

LEMMA RevokeRefines ==
  ASSUME IInv, NEW m \in Mints, NEW w \in Wallets, RevokeSignal(m, w)
  PROVE  Contract!Revoke(m, w)
  <1>1. \A k \in Mints \ {m} :
          status'[k] = status[k] /\ signals'[k] = signals[k]
    BY DEF RevokeSignal, IInv, TypeOK
  <1>2. /\ status' = status /\ triggers' = triggers
        /\ status[m] # "triggered"
             => signals'[m] = WithoutWallet(signals[m], w)
    BY DEF RevokeSignal, IInv, TypeOK
  <1>3. WalletsOf(WithoutWallet(signals[m], w)) = WalletsOf(signals[m]) \ {w}
    BY DEF WalletsOf, WithoutWallet
  <1>4. CountedNow'[m] = CountedNow[m] \ {w}
    BY <1>2, <1>3, MappedEntry
  <1>5. CountedNow' = [CountedNow EXCEPT ![m] = @ \ {w}]
    BY <1>1, <1>4, MappedUpdate
  <1>6. TriggeredNow' = TriggeredNow
    BY <1>2 DEF TriggeredNow
  <1> QED BY <1>2, <1>5, <1>6 DEF Contract!Revoke

LEMMA CleanupRefines ==
  ASSUME IInv, Cleanup
  PROVE  Contract!Expire
  <1>1. ASSUME NEW m \in Mints
        PROVE  /\ status'[m] = IF Removed(m) THEN "absent" ELSE status[m]
               /\ signals'[m] = IF Removed(m) THEN {} ELSE Fresh(signals[m])
    BY DEF Cleanup
  <1>2. \A m \in Mints : signals[m] \in SUBSET Signal
    BY DEF IInv, TypeOK
  <1>3. ASSUME NEW m \in Mints
        PROVE  CountedNow'[m] \subseteq CountedNow[m]
    <2>1. CASE Removed(m)
      <3>1. signals'[m] = {}
        BY <1>1, <2>1
      <3>2. WalletsOf(signals'[m]) = {}
        BY <3>1 DEF WalletsOf
      <3> QED BY <3>2, MappedEntry
    <2>2. CASE ~Removed(m)
      <3>1. status'[m] = status[m] /\ signals'[m] = Fresh(signals[m])
        BY <1>1, <2>2
      <3>2. WalletsOf(Fresh(signals[m])) \subseteq WalletsOf(signals[m])
        BY DEF WalletsOf, Fresh
      <3> QED BY <3>1, <3>2, MappedEntry
    <2> QED BY <2>1, <2>2
  <1>4. CountedNow' \in [Mints -> SUBSET Wallets]
    <2>1. ASSUME NEW m \in Mints PROVE CountedNow[m] \in SUBSET Wallets
      <3>1. WalletsOf(signals[m]) \in SUBSET Wallets
        BY <1>2 DEF WalletsOf, Signal
      <3> QED BY <3>1, MappedEntry
    <2> QED BY <1>3, <2>1 DEF CountedNow
  <1>5. TriggeredNow' \in SUBSET TriggeredNow
    BY <1>1 DEF TriggeredNow
  <1> QED BY <1>3, <1>4, <1>5 DEF Contract!Expire, Cleanup

LEMMA StepRefines ==
  ASSUME IInv, [Next]_vars
  PROVE  [Contract!ContractNext]_<<CountedNow, TriggeredNow, triggers>>
  <1>1. CASE ReceiveTrigger
    <2>1. Contract!Deliver
      BY <1>1 DEF ReceiveTrigger, Contract!Deliver, CountedNow, TriggeredNow
    <2> QED BY <2>1 DEF Contract!ContractNext
  <1>2. CASE Tick
    <2>1. \A m \in Mints :
            signals'[m] = {[s EXCEPT !.age = Older(@)] : s \in signals[m]}
      BY <1>2 DEF Tick
    <2>2. \A m \in Mints : \A s \in signals[m] :
            [s EXCEPT !.age = Older(@)].wallet = s.wallet
      BY DEF IInv, TypeOK, Signal
    <2>3. ASSUME NEW m \in Mints
          PROVE  WalletsOf(signals'[m]) = WalletsOf(signals[m])
      <3> DEFINE Aged(s) == [s EXCEPT !.age = Older(@)]
      <3>1. signals'[m] = {Aged(s) : s \in signals[m]}
        BY <2>1
      <3>2. \A s \in signals[m] : Aged(s).wallet = s.wallet
        BY <2>2
      <3> HIDE DEF Aged
      <3> QED BY <3>1, <3>2 DEF WalletsOf
    <2> QED BY <1>2, <2>3 DEF Tick, CountedNow, TriggeredNow
  <1>3. CASE UNCHANGED vars
    BY <1>3 DEF vars, CountedNow, TriggeredNow
  <1>4. ASSUME NEW m \in Mints, NEW w \in Wallets, SubmitSignal(m, w)
        PROVE  Contract!ContractNext
    BY <1>4, SubmitRefines DEF Contract!ContractNext
  <1>5. ASSUME NEW m \in Mints, NEW w \in Wallets, RevokeSignal(m, w)
        PROVE  Contract!ContractNext
    BY <1>5, RevokeRefines DEF Contract!ContractNext
  <1>6. CASE Cleanup
    BY <1>6, CleanupRefines DEF Contract!ContractNext
  <1> QED BY <1>1, <1>2, <1>3, <1>4, <1>5, <1>6 DEF Next

(* The engine keeps its contract: it triggers exactly when a submission    *)
(* fills the quorum of wallets that count, and stays deaf until forgotten. *)
THEOREM ImplementsContract == Spec => KeepsContract
  <1>1. Init => Contract!ContractInit
    <2> SUFFICES ASSUME Init PROVE Contract!ContractInit
      OBVIOUS
    <2>1. \A m \in Mints : status[m] # "triggered" /\ WalletsOf(signals[m]) = {}
      BY DEF Init, WalletsOf
    <2> QED BY <2>1 DEF Init, Contract!ContractInit, CountedNow, TriggeredNow
  <1>2. IInv /\ [Next]_vars => [Contract!ContractNext]_Contract!contractVars
    BY StepRefines DEF Contract!contractVars
  <1> QED BY <1>1, <1>2, Invariant, PTL
          DEF Spec, KeepsContract, Contract!ContractSpec
=============================================================================
