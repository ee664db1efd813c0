------------------------- MODULE OperatorConsoleProofs -------------------------
(***************************************************************************)
(* The polling loop of the console loses, repeats and reorders no update,  *)
(* for any commands, however requests and restarts fall.                   *)
(***************************************************************************)
EXTENDS OperatorConsole, SequenceTheorems, WellFoundedInduction, TLAPS

\* An answer, or what is left of one, starts where this run stopped, or, before
\* the first update of the run, at the first update the server holds.
InLine(r) == r.next <= r.last => /\ r.last <= Len(sent)
                                 /\ r.next = IF offset > 0 THEN offset ELSE kept

Progress ==
  IF offset = 0
  THEN served = <<>>
  ELSE /\ served # <<>> /\ served[Len(served)] = offset - 1
       /\ kept <= offset
       /\ \A id \in 1 .. offset - 1 : id \in handled

\* The strengthening of the two properties.
Polling ==
  /\ kept <= Len(sent) + 1 /\ offset <= Len(sent) + 1
  /\ poll.state # "answered" => ~(poll.next <= poll.last)
  /\ InLine(batch)
  /\ InLine(poll)
  /\ Progress
  /\ HandledOnceInOrder
  /\ NothingForgottenUnhandled

IInv == TypeOK /\ Polling

LEMMA InitIInv == Init => IInv
<1>1. Init => TypeOK
  <2> SUFFICES ASSUME Init PROVE TypeOK OBVIOUS
  <2>1. running \in BOOLEAN BY Zenon DEF Init
  <2>2. kept \in 1 .. MaxUpdates + 1 /\ offset \in 0 .. MaxUpdates + 1
    BY ConsoleAssumption DEF Init
  <2>3. /\ batch \in [next : 1 .. MaxUpdates + 1, last : 0 .. MaxUpdates]
        /\ batch.next > batch.last
    BY ConsoleAssumption DEF Init, Nothing
  <2>4. /\ poll \in [state : {"none", "asked", "answered", "failed"},
                     next : 1 .. MaxUpdates + 1, last : 0 .. MaxUpdates]
        /\ poll.state = "none"
    BY ConsoleAssumption DEF Init, Silent
  <2>5. notices \in 0 .. MaxNotices /\ restarts \in 0 .. MaxRestarts
    BY ConsoleAssumption DEF Init
  <2>6. ~(batch.next <= batch.last) BY <2>3 DEF Init, Nothing
  <2>7. sent \in Seq(Commands) /\ Len(sent) <= MaxUpdates
    BY ConsoleAssumption DEF Init
  <2> QED BY <2>1, <2>2, <2>3, <2>4, <2>5, <2>6, <2>7 DEF Init, TypeOK
<1>2. Init => Polling
  BY DEF Init, Polling, Silent, Nothing, InLine, Progress, HandledOnceInOrder,
         NothingForgottenUnhandled
<1> QED BY <1>1, <1>2 DEF IInv

LEMMA NextTypeOK == IInv /\ [Next]_vars => TypeOK'
<1> SUFFICES ASSUME TypeOK, Polling, [Next]_vars PROVE TypeOK'
  BY DEF IInv
<1> USE ConsoleAssumption
<1>1. CASE \E c \in Commands : Send(c)
  <2>1. PICK c \in Commands : Send(c) BY <1>1
  <2>2. /\ sent' \in Seq(Commands) /\ Len(sent') = Len(sent) + 1
        /\ Len(sent) + 1 <= MaxUpdates
    BY <2>1 DEF Send, TypeOK
  <2> QED BY <2>1, <2>2 DEF Send, TypeOK, settings, history
<1>2. CASE Answer
  <2>1. Receipt \in 1 .. MaxUpdates + 1 BY DEF Receipt, TypeOK
  <2>2. Len(sent) \in 0 .. MaxUpdates BY DEF TypeOK
  <2> QED BY <1>2, <2>1, <2>2
          DEF Answer, TypeOK, settings, history
<1>3. CASE PollFails
  BY <1>3 DEF PollFails, TypeOK, Silent, serverVars, settings, history
<1>4. CASE Notify
  BY <1>4 DEF Notify, TypeOK, serverVars, settings, history
<1>5. CASE Ask
  BY <1>5 DEF Ask, TypeOK, Silent, serverVars, settings, history
<1>6. CASE TakeNotice
  BY <1>6 DEF TakeNotice, TypeOK, Silent, serverVars, settings, history
<1>7. CASE TakeAnswer
  <2>1. poll.next \in 1 .. MaxUpdates + 1 /\ poll.last \in 0 .. MaxUpdates
    BY DEF TypeOK
  <2> QED BY <1>7, <2>1
          DEF TakeAnswer, TypeOK, Silent, serverVars, settings, history
<1>8. CASE TakeError
  BY <1>8 DEF TakeError, TypeOK, Silent, serverVars, settings, history
<1>9. CASE Wake
  BY <1>9 DEF Wake, TypeOK, serverVars, settings, history
<1>10. CASE HandleUpdate
  <2> DEFINE id == batch.next
  <2>1. /\ id \in Updates /\ batch.last \in 1 .. MaxUpdates
        /\ id <= batch.last /\ id <= Len(sent) /\ id \in DOMAIN sent
        /\ sent[id] \in Commands
    BY <1>10 DEF HandleUpdate, TypeOK, Polling, InLine, Updates
  <2>2. offset' \in 0 .. MaxUpdates + 1
    BY <1>10, <2>1 DEF HandleUpdate, OffsetAfter, TypeOK, Updates
  <2>3. served' \in Seq(Updates) /\ handled' \subseteq Updates
    BY <1>10, <2>1 DEF HandleUpdate, TypeOK
  <2>4. running' \in BOOLEAN
    BY <1>10, Zenon DEF HandleUpdate, Obey, settings, TypeOK
  <2>5. mode' \in {"follow", "tpsl"}
    BY <1>10 DEF HandleUpdate, Obey, settings, TypeOK
  <2>6. /\ console' \in {"select", "updates", "waiting", "dead"}
        /\ batch' \in [next : 1 .. MaxUpdates + 1, last : 0 .. MaxUpdates]
        /\ console' = "updates" <=> batch'.next <= batch'.last
    <3>1. CASE console' = "dead" /\ batch' = Nothing
      BY <3>1 DEF Nothing
    <3>2. CASE console' = AfterUpdate /\ batch' = [batch EXCEPT !.next = @ + 1]
      <4>1. batch'.next = id + 1 /\ batch'.last = batch.last
        BY <3>2 DEF TypeOK
      <4>2. batch' \in [next : 1 .. MaxUpdates + 1, last : 0 .. MaxUpdates]
        <5>1. id + 1 \in 1 .. MaxUpdates + 1 BY <2>1 DEF Updates
        <5> HIDE DEF id
        <5>2. batch' = [batch EXCEPT !.next = id + 1] BY <3>2 DEF id
        <5> QED BY <5>1, <5>2 DEF TypeOK
      <4>3. console' = "updates" <=> id < batch.last
        BY <3>2 DEF AfterUpdate
      <4>4. id \in Nat /\ batch.last \in Nat BY <2>1 DEF Updates
      <4> QED BY <3>2, <4>1, <4>2, <4>3, <4>4 DEF AfterUpdate
    <3> QED BY <1>10, <3>1, <3>2 DEF HandleUpdate
  <2>7. poll.state = "none"
    BY <1>10 DEF HandleUpdate, TypeOK
  <2> QED BY <1>10, <2>2, <2>3, <2>4, <2>5, <2>6, <2>7
          DEF HandleUpdate, TypeOK, serverVars
<1>11. CASE Restart
  <2>1. running' \in BOOLEAN BY <1>11, Zenon DEF Restart
  <2>2. /\ batch' \in [next : 1 .. MaxUpdates + 1, last : 0 .. MaxUpdates]
        /\ ~(batch'.next <= batch'.last)
    BY <1>11 DEF Restart, Nothing
  <2>3. /\ poll' \in [state : {"none", "asked", "answered", "failed"},
                      next : 1 .. MaxUpdates + 1, last : 0 .. MaxUpdates]
        /\ poll'.state = "none"
    BY <1>11 DEF Restart, Silent
  <2>4. restarts' \in 0 .. MaxRestarts BY <1>11 DEF Restart, TypeOK
  <2> QED BY <1>11, <2>1, <2>2, <2>3, <2>4 DEF Restart, TypeOK, serverVars
<1>12. CASE UNCHANGED vars
  BY <1>12 DEF vars, TypeOK
<1> QED BY <1>1, <1>2, <1>3, <1>4, <1>5, <1>6, <1>7, <1>8, <1>9, <1>10, <1>11,
           <1>12 DEF Next, Loop

LEMMA NextPolling == IInv /\ [Next]_vars => Polling'
<1> SUFFICES ASSUME TypeOK, Polling, [Next]_vars PROVE Polling'
  BY DEF IInv
<1> USE ConsoleAssumption
<1>0. /\ Len(sent) \in Nat /\ kept \in Nat /\ offset \in Nat
      /\ batch.next \in Nat /\ batch.last \in Nat
      /\ poll.next \in Nat /\ poll.last \in Nat
  BY DEF TypeOK
\* The steps that leave the offset, the receipts and the histories alone.
<1> DEFINE Still == /\ Len(sent') = Len(sent) \/ Len(sent') = Len(sent) + 1
                    /\ UNCHANGED <<kept, offset, served, handled>>
<1>s. ASSUME Still,
             batch' = batch \/ (batch'.next <= batch'.last => batch' = [next |-> poll.next, last |-> poll.last]),
             poll' = poll \/ (poll'.state # "answered" /\ ~(poll'.next <= poll'.last))
      PROVE Polling'
  <2>1. kept' <= Len(sent') + 1 /\ offset' <= Len(sent') + 1
    BY <1>0, <1>s DEF Polling
  <2>2. poll'.state # "answered" => ~(poll'.next <= poll'.last)
    BY <1>s DEF Polling
  <2>3. InLine(batch)'
    <3>1. CASE batch' = batch
      BY <1>0, <1>s, <3>1 DEF Polling, InLine
    <3>2. CASE /\ batch' = [next |-> poll.next, last |-> poll.last]
      BY <1>0, <1>s, <3>2 DEF Polling, InLine
    <3> QED BY <1>s, <3>1, <3>2 DEF InLine
  <2>4. InLine(poll)'
    BY <1>0, <1>s DEF Polling, InLine
  <2>5. Progress' BY <1>s DEF Polling, Progress
  <2>6. HandledOnceInOrder' /\ NothingForgottenUnhandled'
    BY <1>s DEF Polling, HandledOnceInOrder, NothingForgottenUnhandled
  <2> QED BY <2>1, <2>2, <2>3, <2>4, <2>5, <2>6 DEF Polling
<1>1. CASE \E c \in Commands : Send(c)
  <2>1. PICK c \in Commands : Send(c) BY <1>1
  <2>2. Len(sent') = Len(sent) + 1 BY <2>1 DEF Send, TypeOK
  <2> QED BY <1>s, <2>1, <2>2 DEF Send, history
<1>2. CASE Answer
  <2>1. Receipt = IF offset > 0 THEN offset ELSE kept
    BY <1>0 DEF Receipt, Polling, Progress, TypeOK
  <2>2. Receipt \in Nat /\ Receipt <= Len(sent) + 1
    BY <1>0, <2>1 DEF Polling
  <2>3. ~(batch.next <= batch.last)
    BY <1>0, <1>2 DEF Answer, TypeOK
  <2>4. InLine(batch)' BY <1>2, <2>3 DEF Answer, InLine
  <2>5. InLine(poll)'
    BY <1>0, <1>2, <2>1, <2>2 DEF Answer, InLine
  <2>6. Progress'
    BY <1>0, <1>2, <2>1, <2>2 DEF Answer, Polling, Progress, history
  <2>7. NothingForgottenUnhandled'
    BY <1>0, <1>2, <2>1 DEF Answer, Polling, Progress,
                            NothingForgottenUnhandled, history
  <2>8. HandledOnceInOrder'
    BY <1>2 DEF Answer, Polling, HandledOnceInOrder, history
  <2> QED BY <1>0, <1>2, <2>2, <2>4, <2>5, <2>6, <2>7, <2>8 DEF Answer, Polling
<1>3. CASE PollFails
  <2>1. poll'.state # "answered" /\ ~(poll'.next <= poll'.last)
    BY <1>3 DEF PollFails, Silent
  <2> QED BY <1>s, <1>3, <2>1 DEF PollFails, serverVars, history
<1>4. CASE Notify
  BY <1>s, <1>4 DEF Notify, serverVars, history
<1>5. CASE Ask
  <2>1. poll'.state # "answered" /\ ~(poll'.next <= poll'.last)
    BY <1>5 DEF Ask, Silent
  <2> QED BY <1>s, <1>5, <2>1 DEF Ask, serverVars, history
<1>6. CASE TakeNotice
  <2>1. poll'.state # "answered" /\ ~(poll'.next <= poll'.last)
    BY <1>6 DEF TakeNotice, Silent
  <2> QED BY <1>s, <1>6, <2>1 DEF TakeNotice, serverVars, history
<1>7. CASE TakeAnswer
  <2>1. poll'.state # "answered" /\ ~(poll'.next <= poll'.last)
    BY <1>7 DEF TakeAnswer, Silent
  <2> QED BY <1>s, <1>7, <2>1 DEF TakeAnswer, serverVars, history
<1>8. CASE TakeError
  <2>1. poll'.state # "answered" /\ ~(poll'.next <= poll'.last)
    BY <1>8 DEF TakeError, Silent
  <2> QED BY <1>s, <1>8, <2>1 DEF TakeError, serverVars, history
<1>9. CASE Wake
  BY <1>s, <1>9 DEF Wake, serverVars, history
<1>10. CASE HandleUpdate
  <2> DEFINE id == batch.next
  <2>1. /\ id <= batch.last /\ id <= Len(sent) /\ id \in Nat /\ id >= 1
        /\ id = IF offset > 0 THEN offset ELSE kept
    BY <1>10 DEF HandleUpdate, TypeOK, Polling, InLine
  <2>2. offset' = id + 1 /\ id >= offset
    BY <1>0, <1>10, <2>1 DEF HandleUpdate, OffsetAfter
  <2>3. /\ UNCHANGED <<sent, kept, poll>>
        /\ served' = Append(served, id) /\ handled' = handled \cup {id}
    BY <1>10 DEF HandleUpdate, serverVars
  <2>4. ~(poll.next <= poll.last)
    BY <1>10 DEF HandleUpdate, TypeOK, Polling
  <2>5. InLine(batch)'
    <3>1. CASE batch' = Nothing
      BY <3>1 DEF Nothing, InLine
    <3>2. CASE batch' = [batch EXCEPT !.next = @ + 1]
      <4>1. batch'.next = id + 1 /\ batch'.last = batch.last
        BY <3>2 DEF TypeOK
      <4>2. batch.last <= Len(sent)
        BY <2>1 DEF Polling, InLine
      <4> QED BY <2>1, <2>2, <2>3, <4>1, <4>2 DEF InLine
    <3> QED BY <1>10, <3>1, <3>2 DEF HandleUpdate
  <2>6. InLine(poll)' BY <2>3, <2>4 DEF InLine
  <2>7. \A k \in 1 .. id - 1 : k \in handled
    BY <1>0, <2>1 DEF Polling, Progress, NothingForgottenUnhandled
  <2>8. served \in Seq(Updates) /\ Len(served) \in Nat
    BY DEF TypeOK
  <2>9. Progress'
    <3>1. \A k \in 1 .. offset' - 1 : k \in handled'
      BY <2>1, <2>2, <2>3, <2>7
    <3>2. /\ served' # <<>> /\ served'[Len(served')] = id
      BY <2>3, <2>8
    <3>3. kept' <= offset' /\ offset' # 0
      BY <1>0, <2>1, <2>2, <2>3 DEF Polling, Progress
    <3>4. offset' - 1 = id BY <2>1, <2>2
    <3> QED BY <3>1, <3>2, <3>3, <3>4 DEF Progress
  <2>10. HandledOnceInOrder'
    <3> SUFFICES ASSUME NEW k \in 1 .. Len(served') - 1
                 PROVE served'[k + 1] = served'[k] + 1
      BY DEF HandledOnceInOrder
    <3>1. Len(served') = Len(served) + 1 BY <2>3, <2>8
    <3>2. CASE k < Len(served)
      BY <2>3, <2>8, <3>1, <3>2 DEF Polling, HandledOnceInOrder
    <3>3. CASE k = Len(served)
      <4>1. served'[k + 1] = id /\ served'[k] = served[k]
        BY <2>3, <2>8, <3>1, <3>3
      <4>2. offset # 0 /\ served[Len(served)] = offset - 1
        BY <3>3, <3>1 DEF Polling, Progress
      <4>3. id = offset BY <1>0, <2>1, <4>2
      <4> QED BY <1>0, <3>3, <4>1, <4>2, <4>3
    <3> QED BY <2>8, <3>1, <3>2, <3>3
  <2>11. NothingForgottenUnhandled'
    BY <2>3 DEF Polling, NothingForgottenUnhandled
  <2> QED BY <1>0, <2>1, <2>2, <2>3, <2>4, <2>5, <2>6, <2>9, <2>10, <2>11
          DEF Polling
<1>11. CASE Restart
  BY <1>0, <1>11 DEF Restart, Polling, Silent, Nothing, InLine, Progress,
                     HandledOnceInOrder, NothingForgottenUnhandled, serverVars
<1>12. CASE UNCHANGED vars
  BY <1>s, <1>12 DEF vars
<1> QED BY <1>1, <1>2, <1>3, <1>4, <1>5, <1>6, <1>7, <1>8, <1>9, <1>10, <1>11,
           <1>12 DEF Next, Loop

LEMMA InvariantHolds == Spec => []IInv
<1>1. IInv /\ [Next]_vars => IInv'
  BY NextTypeOK, NextPolling DEF IInv
<1> QED BY InitIInv, <1>1, PTL DEF Spec

\* The offset, the requests and the batches keep their types, and the loop
\* asks for updates only when it has handled those it was given.
THEOREM TypeCorrect == Spec => []TypeOK
<1>1. IInv => TypeOK BY DEF IInv
<1> QED BY InvariantHolds, <1>1, PTL

\* Whatever is cancelled or lost, a run of the program handles the updates in
\* the order of the server, none twice and none left out.
THEOREM EachOnceInOrder == Spec => []HandledOnceInOrder
<1>1. IInv => HandledOnceInOrder BY DEF IInv, Polling
<1> QED BY InvariantHolds, <1>1, PTL

\* An update the server has forgotten was handled by some run, whenever the
\* program died.
THEOREM NothingIsLost == Spec => []NothingForgottenUnhandled
<1>1. IInv => NothingForgottenUnhandled BY DEF IInv, Polling
<1> QED BY InvariantHolds, <1>1, PTL

-----------------------------------------------------------------------------
(* The log *)

LEMMA LogInit == Init => Contract!Init
  BY DEF Init, Contract!Init, Upcoming

\* A request only moves the receipt to where the run is anyway.
LEMMA UpcomingStays ==
  ASSUME IInv, UNCHANGED offset, kept' \in {kept, Receipt}
  PROVE  Upcoming' = Upcoming
<1>1. offset \in Nat /\ kept \in Nat /\ (offset > 0 => kept <= offset)
  BY ConsoleAssumption DEF IInv, TypeOK, Polling, Progress
<1> QED BY <1>1 DEF Upcoming, Receipt

\* The update handled is the upcoming one, and the next comes after it.
LEMMA HandlesUpcoming ==
  ASSUME IInv, HandleUpdate
  PROVE  Contract!Comply
<1>1. /\ offset \in Nat /\ kept \in Nat \ {0} /\ batch.next \in Nat
      /\ batch.last \in Nat /\ batch.next <= batch.last
  BY ConsoleAssumption DEF IInv, TypeOK, HandleUpdate
<1>2. batch.next = Upcoming /\ batch.last <= Len(sent)
  BY <1>1 DEF IInv, Polling, InLine, Upcoming
<1>3. Upcoming \in DOMAIN sent
  <2>1. sent \in Seq(Commands) /\ Len(sent) \in Nat
    BY DEF IInv, TypeOK
  <2>2. Upcoming \in 1 .. Len(sent)
    BY <1>1, <1>2, <2>1 DEF Upcoming
  <2> QED BY <2>1, <2>2
<1>4. Upcoming' = Upcoming + 1
  <2>1. offset' = OffsetAfter(batch.next) /\ UNCHANGED kept
    BY DEF HandleUpdate, serverVars
  <2> QED BY <1>1, <1>2, <2>1 DEF Upcoming, OffsetAfter
<1>5. handled' = handled \cup {Upcoming} /\ UNCHANGED sent
  BY <1>2 DEF HandleUpdate, serverVars
<1> QED BY <1>3, <1>4, <1>5 DEF Contract!Comply

\* The server still holds what was not handled, so a restart skips nothing.
LEMMA RestartGoesBack ==
  ASSUME IInv, Restart
  PROVE  Contract!StartAgain
<1>1. /\ offset \in Nat /\ kept \in Nat \ {0}
      /\ offset > 0 => kept <= offset
  BY ConsoleAssumption DEF IInv, TypeOK, Polling, Progress
<1>2. Upcoming' = kept /\ UNCHANGED <<sent, handled>>
  BY DEF Restart, Upcoming, serverVars
<1>3. kept \in 1 .. Upcoming
  BY <1>1 DEF Upcoming
<1>4. 1 .. kept - 1 \subseteq handled
  BY DEF IInv, Polling, NothingForgottenUnhandled
<1> QED BY <1>2, <1>3, <1>4 DEF Contract!StartAgain

LEMMA LogStep ==
  ASSUME IInv, [Next]_vars
  PROVE  [Contract!Next]_Contract!vars
\* What is left to show of a step that handles nothing.
<1>s. ASSUME UNCHANGED <<sent, offset, handled>>, kept' \in {kept, Receipt}
      PROVE  UNCHANGED Contract!vars
  BY <1>s, UpcomingStays DEF Contract!vars
<1>1. CASE \E c \in Commands : Send(c)
  <2>1. PICK c \in Commands : Send(c) BY <1>1
  <2>2. Upcoming' = Upcoming BY <2>1, UpcomingStays DEF Send
  <2>3. Contract!Order(c) BY <2>1, <2>2 DEF Send, Contract!Order, history
  <2> QED BY <2>3 DEF Contract!Next
<1>2. CASE Answer BY <1>s, <1>2 DEF Answer, history
<1>3. CASE PollFails BY <1>s, <1>3 DEF PollFails, serverVars, history
<1>4. CASE Notify BY <1>s, <1>4 DEF Notify, serverVars, history
<1>5. CASE Ask BY <1>s, <1>5 DEF Ask, serverVars, history
<1>6. CASE TakeNotice BY <1>s, <1>6 DEF TakeNotice, serverVars, history
<1>7. CASE TakeAnswer BY <1>s, <1>7 DEF TakeAnswer, serverVars, history
<1>8. CASE TakeError BY <1>s, <1>8 DEF TakeError, serverVars, history
<1>9. CASE Wake BY <1>s, <1>9 DEF Wake, serverVars, history
<1>10. CASE HandleUpdate BY <1>10, HandlesUpcoming DEF Contract!Next
<1>11. CASE Restart BY <1>11, RestartGoesBack DEF Contract!Next
<1>12. CASE UNCHANGED vars BY <1>s, <1>12 DEF vars
<1> QED BY <1>1, <1>2, <1>3, <1>4, <1>5, <1>6, <1>7, <1>8, <1>9, <1>10, <1>11,
           <1>12 DEF Next, Loop

\* Offsets, batches, cancelled and lost requests and restarts implement a log
\* the commands are read from one by one, none skipped.
THEOREM ImplementsCommandLog == Spec => KeepsContract
<1> QED BY InvariantHolds, LogInit, LogStep, PTL
        DEF Spec, KeepsContract, Contract!Spec

-----------------------------------------------------------------------------
(* The last word counts *)

Wallets == {Configured[n] : n \in DOMAIN Configured}
             \cup {c.about : c \in Commands}

ListIsSound ==
  /\ listed \in Seq(Wallets)
  /\ \A m, n \in DOMAIN listed : listed[m] = listed[n] => m = n

Heard == {served[k] : k \in DOMAIN served}

\* What this run has heard lies below its offset: the next update is the
\* latest word on anything.
HeardBelow == \A id \in Heard : id < offset /\ id <= Len(sent)

Words == ListIsSound /\ HeardBelow /\ LastWordCounts

LEMMA LatestIsNew ==
  ASSUME NEW ids, ids \subseteq Nat, NEW new \in Nat, \A id \in ids : id < new
  PROVE  Latest(ids \cup {new}) = new
<1>1. \E id \in ids \cup {new} : \A other \in ids \cup {new} : other <= id
  <2>1. \A other \in ids \cup {new} : other <= new OBVIOUS
  <2> QED BY <2>1
<1>2. \A id \in ids \cup {new} :
        (\A other \in ids \cup {new} : other <= id) => id = new
  OBVIOUS
<1> QED BY <1>1, <1>2 DEF Latest

\* A set of updates has a latest one.
LEMMA LatestExists ==
  ASSUME NEW ids \in SUBSET Updates, ids # {}
  PROVE  Latest(ids) \in ids
<1> USE ConsoleAssumption
<1> DEFINE Before == {MaxUpdates - id : id \in ids}
<1> DEFINE Less == OpToRel(<, Nat)
<1>1. IsWellFoundedOn(Less, Nat) BY NatLessThanWellFounded
<1>2. \A m, n \in Nat : m < n => <<m, n>> \in Less BY DEF OpToRel
<1> HIDE DEF Less
<1>3. \A id \in ids : id \in Nat /\ MaxUpdates - id \in Nat BY DEF Updates
<1>4. Before \subseteq Nat /\ Before # {} BY <1>3
<1> HIDE DEF Before
<1>5. PICK x \in Before : \A y \in Before : ~(<<y, x>> \in Less)
  BY <1>1, <1>4, WFMin
<1>6. \A y \in Before : x <= y
  <2> SUFFICES ASSUME NEW y \in Before, y < x PROVE FALSE BY <1>4
  <2> QED BY <1>2, <1>4, <1>5
<1> USE DEF Before
<1>7. PICK id \in ids : x = MaxUpdates - id OBVIOUS
<1>8. \A other \in ids : MaxUpdates - id <= MaxUpdates - other
  BY <1>6, <1>7
<1>9. \A other \in ids : other <= id
  BY <1>3, <1>8
<1> QED BY <1>9 DEF Latest

\* What is asked of the updates heard does not change when another is sent.
LEMMA SentStays ==
  ASSUME TypeOK, Words, \/ sent' = sent
                        \/ \E c \in Commands : sent' = Append(sent, c),
         UNCHANGED <<served, settings>>, offset' = offset
  PROVE  Words'
<1> USE ConsoleAssumption
<1>0. sent \in Seq(Commands) /\ served \in Seq(Updates) /\ Len(sent) \in Nat
  BY DEF TypeOK
<1>1. Heard \subseteq Updates BY <1>0 DEF Heard
<1>2. \A id \in Heard : id \in Nat /\ id <= Len(sent) /\ sent'[id] = sent[id]
  <2> SUFFICES ASSUME NEW id \in Heard
               PROVE  id \in Nat /\ id <= Len(sent) /\ sent'[id] = sent[id]
    OBVIOUS
  <2>1. id \in Nat /\ id >= 1 BY <1>1 DEF Updates
  <2>2. id <= Len(sent) BY DEF Words, HeardBelow
  <2> QED BY <1>0, <2>1, <2>2
<1>3. Len(sent') \in Nat /\ Len(sent') >= Len(sent) BY <1>0
<1>4. ListIsSound' BY DEF Words, ListIsSound, settings
<1>5. Heard' = Heard BY DEF Heard
<1>6. HeardBelow' BY <1>0, <1>2, <1>3, <1>5 DEF Words, HeardBelow
<1>7. ASSUME NEW kinds PROVE Taken(kinds) \subseteq Heard /\ Taken(kinds)' = Taken(kinds)
  BY <1>2 DEF Taken, Heard
<1>8. ASSUME NEW ids \in SUBSET Heard, NEW otherwise
      PROVE  (IF ids = {} THEN otherwise ELSE sent'[Latest(ids)].kind)
               = LatestKind(ids, otherwise)
  BY <1>1, <1>2, <1>8, LatestExists DEF LatestKind
<1>9. ASSUME NEW kinds, NEW x
      PROVE  /\ About(Taken(kinds), x) \subseteq Heard
             /\ About(Taken(kinds), x)' = About(Taken(kinds), x)
  BY <1>2, <1>7 DEF About
<1>10. RunningObeyed'
  BY <1>7, <1>8 DEF Words, LastWordCounts, RunningObeyed, LatestKind, settings
<1>11. ModeObeyed'
  <2> DEFINE T == Taken({"follow", "tpsl"})
  <2>1. T' = T /\ T \in SUBSET Heard BY <1>7
  <2>2. (IF T = {} THEN "tpsl" ELSE sent'[Latest(T)].kind) = LatestKind(T, "tpsl")
    BY <2>1, <1>8
  <2> QED BY <2>1, <2>2
          DEF Words, LastWordCounts, ModeObeyed, LatestKind, settings
<1>12. ASSUME NEW c \in Commands PROVE BlockObeyed(c.about)'
  <2> DEFINE T == About(Taken({"block", "unblock"}), c.about)
  <2>1. T' = T /\ T \in SUBSET Heard BY <1>9
  <2>2. (IF T = {} THEN "unblock" ELSE sent'[Latest(T)].kind)
          = LatestKind(T, "unblock")
    BY <2>1, <1>8
  <2>3. BlockObeyed(c.about) BY DEF Words, LastWordCounts
  <2> QED BY <2>1, <2>2, <2>3 DEF BlockObeyed, LatestKind, settings
<1>13. ASSUME NEW c \in Commands, ListObeyed(c.about)
       PROVE  ListObeyed(c.about)'
  <2> DEFINE T == About(Taken({"add", "remove"}), c.about)
  <2>1. T' = T /\ T \in SUBSET Heard BY <1>9
  <2>2. (IF T = {} THEN "remove" ELSE sent'[Latest(T)].kind)
          = LatestKind(T, "remove")
    BY <2>1, <1>8
  <2> QED BY <2>1, <2>2, <1>13 DEF ListObeyed, IsListed, LatestKind, settings
<1>14. LastWordCounts'
  BY <1>7, <1>10, <1>11, <1>12, <1>13 DEF Words, LastWordCounts
<1> QED BY <1>4, <1>6, <1>14 DEF Words

\* Two pieces of a list joined over the gap of one place.
LEMMA JoinedOverGap ==
  ASSUME NEW S, NEW s \in Seq(S), NEW n \in 1 .. Len(s),
         NEW a \in Seq(S), Len(a) = n - 1, \A k \in 1 .. n - 1 : a[k] = s[k],
         NEW b \in Seq(S), Len(b) = Len(s) - n,
         \A k \in 1 .. Len(s) - n : b[k] = s[n + k]
  PROVE  /\ a \o b \in Seq(S) /\ Len(a \o b) = Len(s) - 1
         /\ \A k \in 1 .. Len(s) - 1 :
              (a \o b)[k] = IF k < n THEN s[k] ELSE s[k + 1]
<1>1. n \in Nat /\ Len(s) \in Nat OBVIOUS
<1>2. a \o b \in Seq(S) /\ Len(a \o b) = Len(s) - 1
  <2>1. a \o b \in Seq(S) /\ Len(a \o b) = Len(a) + Len(b)
    BY ConcatProperties
  <2>2. Len(a) + Len(b) = Len(s) - 1 BY <1>1
  <2> QED BY <2>1, <2>2
<1>3. ASSUME NEW k \in 1 .. Len(s) - 1, k < n PROVE (a \o b)[k] = s[k]
  BY <1>1, <1>3
<1>4. ASSUME NEW k \in 1 .. Len(s) - 1, ~(k < n)
      PROVE  (a \o b)[k] = s[k + 1]
  <2>1. k \in 1 .. Len(a) + Len(b) /\ k > Len(a) BY <1>1, <1>4
  <2>2. (a \o b)[k] = b[k - Len(a)] BY <2>1
  <2>3. k - Len(a) \in 1 .. Len(s) - n /\ n + (k - Len(a)) = k + 1
    BY <1>1, <1>4
  <2> QED BY <2>2, <2>3
<1> QED BY <1>2, <1>3, <1>4

\* Removing one place of a list removes what stood there, if it stood nowhere
\* else, and nothing more.
LEMMA WithoutPlace ==
  ASSUME NEW S, NEW s \in Seq(S), NEW n \in DOMAIN s,
         \A k, m \in DOMAIN s : s[k] = s[m] => k = m
  PROVE  /\ Without(s, n) \in Seq(S)
         /\ \A k, m \in DOMAIN Without(s, n) :
              Without(s, n)[k] = Without(s, n)[m] => k = m
         /\ \A x : (\E k \in DOMAIN Without(s, n) : Without(s, n)[k] = x)
                     <=> x # s[n] /\ (\E k \in DOMAIN s : s[k] = x)
<1> DEFINE w == Without(s, n)
           a == SubSeq(s, 1, n - 1)
           b == SubSeq(s, n + 1, Len(s))
<1>1. n \in 1 .. Len(s) /\ Len(s) \in Nat OBVIOUS
<1>2. /\ a \in Seq(S) /\ Len(a) = n - 1
      /\ \A k \in 1 .. n - 1 : a[k] = s[k]
  BY <1>1
<1>3. /\ b \in Seq(S) /\ Len(b) = Len(s) - n
      /\ \A k \in 1 .. Len(s) - n : b[k] = s[n + k]
  BY <1>1
<1>4. w = a \o b BY DEF Without
<1> HIDE DEF a, b, w
<1>5. /\ a \o b \in Seq(S) /\ Len(a \o b) = Len(s) - 1
      /\ \A k \in 1 .. Len(s) - 1 :
           (a \o b)[k] = IF k < n THEN s[k] ELSE s[k + 1]
  BY <1>1, <1>2, <1>3, JoinedOverGap
<1>6. /\ w \in Seq(S) /\ Len(w) = Len(s) - 1
      /\ \A k \in 1 .. Len(s) - 1 : w[k] = IF k < n THEN s[k] ELSE s[k + 1]
  BY <1>4, <1>5
<1>7. DOMAIN w = 1 .. Len(s) - 1 /\ DOMAIN s = 1 .. Len(s) BY <1>1, <1>6
<1>8. \A k, m \in DOMAIN w : w[k] = w[m] => k = m
  BY <1>1, <1>6, <1>7
<1>9. ASSUME NEW x
      PROVE  (\E k \in DOMAIN w : w[k] = x)
               <=> x # s[n] /\ (\E k \in DOMAIN s : s[k] = x)
  <2>1. ASSUME NEW k \in DOMAIN w, w[k] = x
        PROVE  x # s[n] /\ (\E m \in DOMAIN s : s[m] = x)
    BY <1>1, <1>6, <1>7, <2>1
  <2>2. ASSUME NEW k \in DOMAIN s, s[k] = x, x # s[n]
        PROVE  \E m \in DOMAIN w : w[m] = x
    <3>1. CASE k < n
      <4>1. k \in DOMAIN w BY <1>1, <1>7, <3>1
      <4> QED BY <1>6, <1>7, <2>2, <3>1, <4>1
    <3>2. CASE k > n
      <4>1. k - 1 \in DOMAIN w /\ ~(k - 1 < n) /\ (k - 1) + 1 = k
        BY <1>1, <1>7, <3>2
      <4>2. w[k - 1] = s[k] BY <1>6, <1>7, <4>1
      <4> QED BY <2>2, <4>1, <4>2
    <3> QED BY <1>1, <1>7, <2>2, <3>1, <3>2
  <2> QED BY <2>1, <2>2
<1> QED BY <1>6, <1>8, <1>9 DEF w

\* What an order does to the list of wallets.
LEMMA ListOrder ==
  ASSUME ListIsSound, NEW d \in Commands, Obey(d)
  PROVE  /\ ListIsSound'
         /\ d.kind # "remove at" =>
              \A x : IsListed(x)'
                       <=> IF d.kind \in {"add", "remove"} /\ d.about = x
                           THEN d.kind = "add"
                           ELSE IsListed(x)
<1> DEFINE places == {n \in DOMAIN listed : listed[n] = d.about}
           first == CHOOSE n \in places : \A k \in places : n <= k
<1>0. listed \in Seq(Wallets) /\ d.about \in Wallets
  BY DEF ListIsSound, Wallets
<1>1. places # {} => first \in places
  <2> SUFFICES ASSUME NEW p \in places PROVE first \in places OBVIOUS
  <2>1. \A k \in places : k = p BY DEF ListIsSound
  <2>2. p <= p BY <1>0
  <2>3. \E n \in places : \A k \in places : n <= k BY <2>1, <2>2
  <2> QED BY <2>3
<1>2. listed' = ListedAfter(d) BY DEF Obey
<1>3. CASE d.kind = "add" /\ places = {}
  <2>1. listed' = Append(listed, d.about) BY <1>2, <1>3 DEF ListedAfter
  <2>2. /\ listed' \in Seq(Wallets) /\ Len(listed') = Len(listed) + 1
        /\ \A k \in 1 .. Len(listed) : listed'[k] = listed[k]
        /\ listed'[Len(listed) + 1] = d.about /\ Len(listed) \in Nat
    BY <1>0, <2>1
  <2>3. DOMAIN listed = 1 .. Len(listed) /\ DOMAIN listed' = 1 .. Len(listed) + 1
    BY <1>0, <2>2
  <2>4. \A k \in DOMAIN listed : listed[k] # d.about BY <1>3
  <2>5. ListIsSound' BY <2>2, <2>3, <2>4 DEF ListIsSound
  <2>6. \A x : IsListed(x)' <=> x = d.about \/ IsListed(x)
    BY <2>2, <2>3 DEF IsListed
  <2> QED BY <1>3, <2>5, <2>6
<1>4. CASE d.kind = "remove" /\ places # {}
  <2>1. listed' = Without(listed, first) BY <1>2, <1>4 DEF ListedAfter
  <2>2. first \in DOMAIN listed /\ listed[first] = d.about BY <1>1, <1>4
  <2> HIDE DEF first
  <2>3. ListIsSound' BY <2>1, <2>2, WithoutPlace DEF ListIsSound
  <2>4. \A x : IsListed(x)' <=> x # d.about /\ IsListed(x)
    <3>1. \A x : (\E k \in DOMAIN Without(listed, first) :
                     Without(listed, first)[k] = x)
                   <=> x # d.about /\ (\E k \in DOMAIN listed : listed[k] = x)
      <4>1. /\ listed \in Seq(Wallets)
            /\ \A k, m \in DOMAIN listed : listed[k] = listed[m] => k = m
        BY DEF ListIsSound
      <4>2. \A x : (\E k \in DOMAIN Without(listed, first) :
                       Without(listed, first)[k] = x)
                     <=> /\ x # listed[first]
                         /\ \E k \in DOMAIN listed : listed[k] = x
        BY <2>2, <4>1, WithoutPlace
      <4> QED BY <2>2, <4>2
    <3> QED BY <2>1, <3>1 DEF IsListed
  <2> QED BY <1>4, <2>3, <2>4
<1>5. CASE d.kind = "remove at"
  <2>1. CASE d.number \in DOMAIN listed
    <3>1. listed' = Without(listed, d.number)
      BY <1>2, <1>5, <2>1 DEF ListedAfter
    <3>2. ListIsSound' BY <2>1, <3>1, WithoutPlace DEF ListIsSound
    <3> QED BY <1>5, <3>2
  <2>2. CASE d.number \notin DOMAIN listed
    <3>1. listed' = listed BY <1>2, <1>5, <2>2 DEF ListedAfter
    <3> QED BY <1>5, <3>1 DEF ListIsSound
  <2> QED BY <2>1, <2>2
<1>6. CASE /\ ~(d.kind = "add" /\ places = {})
           /\ ~(d.kind = "remove" /\ places # {})
           /\ d.kind # "remove at"
  <2>1. listed' = listed BY <1>2, <1>6 DEF ListedAfter
  <2>2. places # {} <=> IsListed(d.about) BY DEF IsListed
  <2>3. \A x : IsListed(x)' <=> IsListed(x) BY <2>1 DEF IsListed
  <2> QED BY <1>6, <2>1, <2>2, <2>3 DEF ListIsSound
<1> QED BY <1>3, <1>4, <1>5, <1>6

\* The update handled is the latest, so what it asks for is the last word.
LEMMA UpdateObeyed ==
  ASSUME TypeOK, Polling, Words, HandleUpdate
  PROVE  Words'
<1> USE ConsoleAssumption
<1> DEFINE id == batch.next
           d == sent[id]
<1>1. /\ id \in Nat /\ id <= Len(sent) /\ id >= offset /\ d \in Commands
      /\ offset' = id + 1 /\ offset \in Nat
  <2>1. id \in Nat /\ id >= 1 /\ id <= Len(sent) /\ offset \in Nat
    BY DEF HandleUpdate, TypeOK, Polling, InLine
  <2>2. d \in Commands BY <2>1 DEF TypeOK
  <2>3. id >= offset BY <2>1 DEF HandleUpdate, TypeOK, Polling, InLine
  <2> QED BY <2>1, <2>2, <2>3 DEF HandleUpdate, OffsetAfter
<1>2. /\ sent' = sent /\ served' = Append(served, id)
      /\ IF FromOperator(d) THEN Obey(d) ELSE UNCHANGED settings
  BY DEF HandleUpdate, serverVars
<1> HIDE DEF id, d
<1>3. Heard' = Heard \cup {id}
  <2>1. served \in Seq(Updates) /\ Len(served) \in Nat BY DEF TypeOK
  <2>2. /\ DOMAIN served = 1 .. Len(served)
        /\ DOMAIN served' = 1 .. Len(served) + 1
        /\ \A k \in 1 .. Len(served) : served'[k] = served[k]
        /\ served'[Len(served) + 1] = id
    BY <1>2, <2>1
  <2>3. \A x \in Heard' : x \in Heard \cup {id}
    BY <2>1, <2>2 DEF Heard
  <2>4. Heard \subseteq Heard' BY <2>1, <2>2 DEF Heard
  <2>5. id \in Heard' BY <2>1, <2>2 DEF Heard
  <2> QED BY <2>3, <2>4, <2>5
<1>4. \A h \in Heard : h \in Nat /\ h < id
  <2> SUFFICES ASSUME NEW h \in Heard PROVE h \in Nat /\ h < id OBVIOUS
  <2>1. h \in Nat BY DEF Heard, TypeOK, Updates
  <2> QED BY <1>1, <2>1 DEF Words, HeardBelow
<1>5. HeardBelow'
  <2>1. \A h \in Heard : h < id + 1 /\ h <= Len(sent)
    BY <1>1, <1>4 DEF Words, HeardBelow
  <2> QED BY <1>1, <1>2, <1>3, <2>1 DEF HeardBelow
<1>6. ASSUME NEW kinds
      PROVE  /\ Taken(kinds) \subseteq Heard
             /\ Taken(kinds)' = IF d.ours /\ d.kind \in kinds
                                THEN Taken(kinds) \cup {id} ELSE Taken(kinds)
  BY <1>2, <1>3 DEF Taken, Heard, d
<1>7. ASSUME NEW kinds, NEW x
      PROVE  /\ About(Taken(kinds), x) \subseteq Heard
             /\ About(Taken(kinds), x)'
                  = IF d.ours /\ d.kind \in kinds /\ d.about = x
                    THEN About(Taken(kinds), x) \cup {id}
                    ELSE About(Taken(kinds), x)
  BY <1>2, <1>6 DEF About, d
<1>8. ASSUME NEW ids \in SUBSET Heard PROVE Latest(ids \cup {id}) = id
  BY <1>1, <1>4, LatestIsNew
<1>9. d.kind \in Kinds /\ d.ours \in BOOLEAN BY <1>1
<1>10. ListIsSound'
  <2>1. CASE FromOperator(d)
    BY <1>1, <1>2, <2>1, ListOrder DEF Words
  <2>2. CASE ~FromOperator(d)
    BY <1>2, <2>2 DEF Words, ListIsSound, settings
  <2> QED BY <2>1, <2>2
<1>11. RunningObeyed'
  <2> DEFINE T == Taken({"start", "stop"})
  <2>1. T \in SUBSET Heard /\ RunningObeyed BY <1>6 DEF Words, LastWordCounts
  <2>2. CASE d.ours /\ d.kind \in {"start", "stop"}
    <3>1. T' = T \cup {id} BY <1>6, <2>2
    <3>2. Latest(T') = id BY <1>8, <2>1, <3>1
    <3>3. running' = (d.kind = "start") BY <1>2, <2>2 DEF FromOperator, Obey
    <3> HIDE DEF T
    <3>4. LatestKind(T, "stop")' = d.kind
      BY <1>2, <3>1, <3>2 DEF LatestKind, d
    <3> QED BY <3>3, <3>4 DEF RunningObeyed, T
  <2>3. CASE ~(d.ours /\ d.kind \in {"start", "stop"})
    <3>1. T' = T BY <1>6, <2>3
    <3>2. running' = running
      BY <1>2, <2>3 DEF FromOperator, Obey, settings
    <3> QED BY <1>2, <2>1, <3>1, <3>2 DEF RunningObeyed, LatestKind
  <2> QED BY <2>2, <2>3
<1>12. ModeObeyed'
  <2> DEFINE T == Taken({"follow", "tpsl"})
  <2>1. T \in SUBSET Heard /\ ModeObeyed BY <1>6 DEF Words, LastWordCounts
  <2>2. CASE d.ours /\ d.kind \in {"follow", "tpsl"}
    <3>1. T' = T \cup {id} BY <1>6, <2>2
    <3>2. Latest(T') = id BY <1>8, <2>1, <3>1
    <3>3. mode' = d.kind BY <1>2, <2>2 DEF FromOperator, Obey
    <3> HIDE DEF T
    <3>4. LatestKind(T, "tpsl")' = d.kind
      BY <1>2, <3>1, <3>2 DEF LatestKind, d
    <3> QED BY <3>3, <3>4 DEF ModeObeyed, T
  <2>3. CASE ~(d.ours /\ d.kind \in {"follow", "tpsl"})
    <3>1. T' = T BY <1>6, <2>3
    <3>2. mode' = mode
      BY <1>2, <2>3 DEF FromOperator, Obey, settings
    <3> QED BY <1>2, <2>1, <3>1, <3>2 DEF ModeObeyed, LatestKind
  <2> QED BY <2>2, <2>3
<1>13. ASSUME NEW c \in Commands PROVE BlockObeyed(c.about)'
  <2> DEFINE T == About(Taken({"block", "unblock"}), c.about)
  <2>1. T \in SUBSET Heard /\ BlockObeyed(c.about)
    BY <1>7 DEF Words, LastWordCounts
  <2>2. CASE d.ours /\ d.kind \in {"block", "unblock"} /\ d.about = c.about
    <3>1. T' = T \cup {id} BY <1>7, <2>2
    <3>2. Latest(T') = id BY <1>8, <2>1, <3>1
    <3>3. c.about \in blocked' <=> d.kind = "block"
      BY <1>2, <2>2 DEF FromOperator, Obey
    <3> HIDE DEF T
    <3>4. LatestKind(T, "unblock")' = d.kind
      BY <1>2, <3>1, <3>2 DEF LatestKind, d
    <3> QED BY <3>3, <3>4 DEF BlockObeyed, T
  <2>3. CASE ~(d.ours /\ d.kind \in {"block", "unblock"} /\ d.about = c.about)
    <3>1. T' = T BY <1>7, <2>3
    <3>2. c.about \in blocked' <=> c.about \in blocked
      BY <1>2, <2>3 DEF FromOperator, Obey, settings
    <3> QED BY <1>2, <2>1, <3>1, <3>2 DEF BlockObeyed, LatestKind
  <2> QED BY <2>2, <2>3
<1>14. ASSUME NEW c \in Commands, ListObeyed(c.about),
              ~(d.ours /\ d.kind = "remove at")
       PROVE  ListObeyed(c.about)'
  <2> DEFINE T == About(Taken({"add", "remove"}), c.about)
  <2>1. T \in SUBSET Heard BY <1>7
  <2>2. CASE d.ours /\ d.kind \in {"add", "remove"} /\ d.about = c.about
    <3>1. T' = T \cup {id} BY <1>7, <2>2
    <3>2. Latest(T') = id BY <1>8, <2>1, <3>1
    <3>3. IsListed(c.about)' <=> d.kind = "add"
      BY <1>1, <1>2, <2>2, ListOrder DEF FromOperator, Words
    <3> HIDE DEF T
    <3>4. LatestKind(T, "remove")' = d.kind
      BY <1>2, <3>1, <3>2 DEF LatestKind, d
    <3>5. IsListed(c.about)' \in BOOLEAN BY DEF IsListed
    <3> QED BY <3>3, <3>4, <3>5 DEF ListObeyed, T
  <2>3. CASE ~(d.ours /\ d.kind \in {"add", "remove"} /\ d.about = c.about)
    <3>1. T' = T BY <1>7, <2>3
    <3>2. IsListed(c.about)' <=> IsListed(c.about)
      <4>1. CASE FromOperator(d)
        BY <1>1, <1>2, <1>14, <2>3, <4>1, ListOrder DEF FromOperator, Words
      <4>2. CASE ~FromOperator(d)
        BY <1>2, <4>2 DEF IsListed, settings
      <4> QED BY <4>1, <4>2
    <3>3. IsListed(c.about)' \in BOOLEAN /\ IsListed(c.about) \in BOOLEAN
      BY DEF IsListed
    <3> QED BY <1>2, <1>14, <3>1, <3>2, <3>3 DEF ListObeyed, LatestKind
  <2> QED BY <2>2, <2>3
<1>15. Taken({"remove at"})' = {}
         => Taken({"remove at"}) = {} /\ ~(d.ours /\ d.kind = "remove at")
  BY <1>6
<1>16. LastWordCounts'
  BY <1>11, <1>12, <1>13, <1>14, <1>15 DEF Words, LastWordCounts
<1> QED BY <1>5, <1>10, <1>16 DEF Words

\* The settings of a program just started.
Fresh == /\ running = FALSE /\ mode = "tpsl" /\ blocked = {}
         /\ listed = Configured /\ served = <<>>

LEMMA FreshWords ==
  ASSUME EachWalletOnce, \E S : Configured \in Seq(S), Fresh
  PROVE  Words
<1> USE DEF Fresh
<1>1. Configured \in Seq(Wallets)
  <2>1. PICK S : Configured \in Seq(S) OBVIOUS
  <2>2. Configured \in [1 .. Len(Configured) -> S] /\ Len(Configured) \in Nat
    BY <2>1
  <2>3. \A n \in 1 .. Len(Configured) : Configured[n] \in Wallets
    BY <2>2 DEF Wallets
  <2>4. Configured \in [1 .. Len(Configured) -> Wallets]
    BY <2>2, <2>3
  <2> QED BY <2>2, <2>4
<1>2. ListIsSound BY <1>1 DEF ListIsSound, EachWalletOnce
<1>3. Heard = {} BY DEF Heard
<1>4. \A kinds : Taken(kinds) = {} BY <1>3 DEF Taken, Heard
<1>5. \A kinds, x : About(Taken(kinds), x) = {} BY <1>4 DEF About
<1>6. RunningObeyed /\ ModeObeyed
  BY <1>4 DEF RunningObeyed, ModeObeyed, LatestKind
<1>7. \A x : BlockObeyed(x) /\ ListObeyed(x)
  BY <1>5 DEF BlockObeyed, ListObeyed, LatestKind
<1> QED BY <1>2, <1>3, <1>6, <1>7 DEF Words, HeardBelow, LastWordCounts

LEMMA NextWords ==
  ASSUME IInv, Words, [Next]_vars
  PROVE  Words' \/ Fresh'
<1> USE DEF IInv, history
<1>1. CASE \E c \in Commands : Send(c)
  <2>1. PICK c \in Commands : Send(c) BY <1>1
  <2> QED BY <2>1, SentStays DEF Send
<1>2. CASE Answer BY <1>2, SentStays DEF Answer
<1>3. CASE PollFails BY <1>3, SentStays DEF PollFails, serverVars
<1>4. CASE Notify BY <1>4, SentStays DEF Notify, serverVars
<1>5. CASE Ask BY <1>5, SentStays DEF Ask, serverVars
<1>6. CASE TakeNotice BY <1>6, SentStays DEF TakeNotice, serverVars
<1>7. CASE TakeAnswer BY <1>7, SentStays DEF TakeAnswer, serverVars
<1>8. CASE TakeError BY <1>8, SentStays DEF TakeError, serverVars
<1>9. CASE Wake BY <1>9, SentStays DEF Wake, serverVars
<1>10. CASE HandleUpdate BY <1>10, UpdateObeyed
<1>11. CASE Restart BY <1>11 DEF Restart, Fresh
<1>12. CASE UNCHANGED vars BY <1>12, SentStays DEF vars, settings
<1> QED BY <1>1, <1>2, <1>3, <1>4, <1>5, <1>6, <1>7, <1>8, <1>9, <1>10, <1>11,
           <1>12 DEF Next, Loop

\* Running or stopped, the way of selling, the blocked tokens and the listed
\* wallets are what the operator said last since the program was started, for
\* any commands and whoever else writes to the bot, if the configuration names
\* no wallet twice.
THEOREM LastWordHolds ==
  ASSUME EachWalletOnce, \E S : Configured \in Seq(S)
  PROVE  Spec => []LastWordCounts
<1>1. Init => Fresh BY DEF Init, Fresh
<1>2. Fresh => Words BY FreshWords
<1>3. IInv /\ Words /\ [Next]_vars => Words' \/ Fresh' BY NextWords
<1>4. Words => LastWordCounts BY DEF Words
<1> QED BY InvariantHolds, <1>1, <1>2, <1>3, <1>4, PTL DEF Spec
=============================================================================
