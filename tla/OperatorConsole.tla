---------------------------- MODULE OperatorConsole ----------------------------
(***************************************************************************)
(* The console the bot is operated from: TgBot::run and handle_update of   *)
(* telegram.rs.  The messages and taps of the operator wait on Telegram's  *)
(* servers until a request names an offset above them; the console asks    *)
(* for them in a loop that also delivers the notices of the other tasks,   *)
(* and a notice cancels the request in flight.  A restart loses the        *)
(* offset and everything the operator had set.                             *)
(*                                                                         *)
(* An update is named by its number, from 1 on.  Replies, and commands     *)
(* that only show something, change no state; a sell button is OperatorSell*)
(* and /sellall is AutoSell.                                               *)
(***************************************************************************)
EXTENDS Naturals, Sequences, FiniteSets

CONSTANTS
  Commands,     \* what the operator, or somebody else, may send
  Configured,   \* the wallets of the configuration, a sequence
  MaxUpdates,   \* bound: updates sent
  MaxNotices,   \* bound: notices in the queue
  MaxRestarts   \* bound: restarts of the program

Kinds == {"start", "stop", "follow", "tpsl", "block", "unblock",
          "add", "remove", "remove at", "positions", "show"}

ASSUME ConsoleAssumption ==
  /\ MaxUpdates \in Nat /\ MaxNotices \in Nat /\ MaxRestarts \in Nat
  /\ \A c \in Commands : /\ c.ours \in BOOLEAN   \* from the operator's chat
                         /\ c.kind \in Kinds
                         /\ c.number \in Nat

VARIABLES
  sent,      \* the updates, in the order of the server
  kept,      \* the first update the server still holds
  poll,      \* the request in flight, with the updates of its answer
  console,   \* where the task of the console is
  offset,    \* its offset
  batch,     \* the updates taken and not handled yet
  notices,   \* the number of notices in its queue
  running, mode, blocked, listed,   \* what the operator has set
  restarts,
  served,    \* history: the updates this run has handled
  handled    \* history: the updates some run has handled

serverVars == <<sent, kept>>
settings == <<running, mode, blocked, listed>>
history == <<served, handled>>
vars == <<sent, kept, poll, console, offset, batch, notices, running, mode,
          blocked, listed, restarts, served, handled>>

Updates == 1 .. MaxUpdates

Silent == [state |-> "none", next |-> 1, last |-> 0]
Nothing == [next |-> 1, last |-> 0]

\* Types, with what the loop relies on: it leaves the batch when it is empty,
\* and asks only between batches.
TypeOK ==
  /\ sent \in Seq(Commands) /\ Len(sent) <= MaxUpdates
  /\ kept \in 1 .. MaxUpdates + 1
  /\ poll \in [state : {"none", "asked", "answered", "failed"},
               next : 1 .. MaxUpdates + 1, last : 0 .. MaxUpdates]
  /\ console \in {"select", "updates", "waiting", "dead"}
  /\ offset \in 0 .. MaxUpdates + 1
  /\ batch \in [next : 1 .. MaxUpdates + 1, last : 0 .. MaxUpdates]
  /\ console = "updates" <=> batch.next <= batch.last
  /\ poll.state # "none" => console = "select"
  /\ notices \in 0 .. MaxNotices
  /\ running \in BOOLEAN /\ mode \in {"follow", "tpsl"}
  /\ restarts \in 0 .. MaxRestarts
  /\ served \in Seq(Updates)
  /\ handled \subseteq Updates

Init ==
  /\ sent = <<>> /\ kept = 1
  /\ poll = Silent /\ console = "select" /\ offset = 0 /\ batch = Nothing
  /\ notices = 0 /\ restarts = 0
  /\ running = FALSE /\ mode = "tpsl" /\ blocked = {} /\ listed = Configured
  /\ served = <<>> /\ handled = {}

-----------------------------------------------------------------------------
(* Telegram and the other tasks *)

Send(c) ==
  /\ Len(sent) < MaxUpdates
  /\ sent' = Append(sent, c)
  /\ UNCHANGED <<kept, poll, console, offset, batch, notices, settings, restarts,
                 history>>

\* A request for an offset is the receipt for everything below it.
Receipt == IF offset > kept THEN offset ELSE kept

\* With nothing to say the server answers after thirty seconds.
Answer ==
  /\ poll.state = "asked"
  /\ kept' = Receipt
  /\ poll' = [state |-> "answered", next |-> Receipt, last |-> Len(sent)]
  /\ UNCHANGED <<sent, console, offset, batch, notices, settings, restarts,
                 history>>

\* The request or its answer is lost, or the answer is an error.
PollFails ==
  /\ poll.state \in {"asked", "answered"}
  /\ poll' = [Silent EXCEPT !.state = "failed"]
  /\ UNCHANGED <<serverVars, console, offset, batch, notices, settings, restarts,
                 history>>

\* TgNotifier::send of any task.
Notify ==
  /\ notices < MaxNotices
  /\ notices' = notices + 1
  /\ UNCHANGED <<serverVars, poll, console, offset, batch, settings, restarts,
                 history>>

-----------------------------------------------------------------------------
(* The loop *)

Ask ==
  /\ console = "select" /\ poll.state = "none"
  /\ poll' = [Silent EXCEPT !.state = "asked"]
  /\ UNCHANGED <<serverVars, console, offset, batch, notices, settings, restarts,
                 history>>

\* The other branch of select! is dropped, with whatever it was answered.
TakeNotice ==
  /\ console = "select" /\ notices > 0
  /\ notices' = notices - 1
  /\ poll' = Silent
  /\ UNCHANGED <<serverVars, console, offset, batch, settings, restarts,
                 history>>

TakeAnswer ==
  /\ console = "select" /\ poll.state = "answered"
  /\ poll' = Silent
  /\ IF poll.next <= poll.last
     THEN /\ batch' = [next |-> poll.next, last |-> poll.last]
          /\ console' = "updates"
     ELSE UNCHANGED <<batch, console>>
  /\ UNCHANGED <<serverVars, offset, notices, settings, restarts,
                 history>>

TakeError ==
  /\ console = "select" /\ poll.state = "failed"
  /\ poll' = Silent /\ console' = "waiting"
  /\ UNCHANGED <<serverVars, offset, batch, notices, settings, restarts,
                 history>>

Wake ==
  /\ console = "waiting"
  /\ console' = "select"
  /\ UNCHANGED <<serverVars, poll, offset, batch, notices, settings, restarts,
                 history>>

-----------------------------------------------------------------------------
(* handle_update *)

Without(s, n) == SubSeq(s, 1, n - 1) \o SubSeq(s, n + 1, Len(s))

\* target_wallets of the dynamic configuration, which only /wallets reads.
ListedAfter(c) ==
  LET places == {n \in DOMAIN listed : listed[n] = c.about}
      first == CHOOSE n \in places : \A k \in places : n <= k
  IN  CASE c.kind = "add" /\ places = {} -> Append(listed, c.about)
        [] c.kind = "remove" /\ places # {} -> Without(listed, first)
        [] c.kind = "remove at" /\ c.number \in DOMAIN listed ->
             Without(listed, c.number)
        [] OTHER -> listed

Obey(c) ==
  /\ running' = IF c.kind \in {"start", "stop"} THEN c.kind = "start"
                                                ELSE running
  /\ mode' = IF c.kind \in {"follow", "tpsl"} THEN c.kind ELSE mode
  /\ blocked' = CASE c.kind = "block" -> blocked \cup {c.about}
                  [] c.kind = "unblock" -> blocked \ {c.about}
                  [] OTHER -> blocked
  /\ listed' = ListedAfter(c)

\* Seeded fault: no look at the chat.
FromAnybody(c) == TRUE

FromOperator(c) == c.ours

\* The list of positions cuts long names at byte 10.  If a position has a
\* name with a character across it, this panics and ends the task; the rest
\* of the program goes on.
MayPanic(c) == FromOperator(c) /\ c.kind = "positions"

\* Seeded faults: the update itself is asked for again, or one is left out.
OffsetAgain(id) == IF id >= offset THEN id ELSE offset
OffsetBeyond(id) == IF id >= offset THEN id + 2 ELSE offset

OffsetAfter(id) == IF id >= offset THEN id + 1 ELSE offset

AfterUpdate == IF batch.next < batch.last THEN "updates" ELSE "select"

HandleUpdate ==
  LET id == batch.next
      c == sent[id]
  IN  /\ console = "updates"
      /\ offset' = OffsetAfter(id)
      /\ served' = Append(served, id)
      /\ handled' = handled \cup {id}
      /\ IF FromOperator(c) THEN Obey(c) ELSE UNCHANGED settings
      /\ \/ MayPanic(c) /\ console' = "dead" /\ batch' = Nothing
         \/ console' = AfterUpdate /\ batch' = [batch EXCEPT !.next = @ + 1]
      /\ UNCHANGED <<serverVars, poll, notices, restarts>>

-----------------------------------------------------------------------------

\* The program dies at any moment and is started again: nothing of the
\* console outlives it, and nothing of this is saved.
Restart ==
  /\ restarts < MaxRestarts
  /\ restarts' = restarts + 1
  /\ poll' = Silent /\ console' = "select" /\ offset' = 0 /\ batch' = Nothing
  /\ notices' = 0
  /\ running' = FALSE /\ mode' = "tpsl" /\ blocked' = {} /\ listed' = Configured
  /\ served' = <<>>
  /\ UNCHANGED <<serverVars, handled>>

Loop == Ask \/ TakeNotice \/ TakeAnswer \/ TakeError \/ Wake \/ HandleUpdate

Next ==
  \/ \E c \in Commands : Send(c)
  \/ Answer
  \/ PollFails
  \/ Notify
  \/ Loop
  \/ Restart

Spec == Init /\ [][Next]_vars

\* The task is scheduled; the network works now and then, and notices do not
\* come within every round trip.
FairSpec ==
  /\ Spec
  /\ WF_vars(Ask \/ TakeError \/ Wake \/ HandleUpdate)
  /\ SF_vars(Answer)
  /\ SF_vars(TakeAnswer)

-----------------------------------------------------------------------------
(* Properties *)

\* However requests are cancelled, lost and repeated, a run handles the
\* updates one after the other without a gap, each once (the offset of
\* TgBot::run).
HandledOnceInOrder ==
  \A k \in 1 .. Len(served) - 1 : served[k + 1] = served[k] + 1

\* The server has forgotten nothing that no run has handled: no command is
\* lost by a cancelled request, a failure or a restart.
NothingForgottenUnhandled == \A id \in 1 .. kept - 1 : id \in handled

\* The updates this run has taken from the operator with one of these kinds.
Taken(kinds) == {id \in {served[k] : k \in DOMAIN served} :
                   sent[id].ours /\ sent[id].kind \in kinds}
About(ids, x) == {id \in ids : sent[id].about = x}
Latest(ids) == CHOOSE id \in ids : \A other \in ids : other <= id
LatestKind(ids, otherwise) ==
  IF ids = {} THEN otherwise ELSE sent[Latest(ids)].kind

\* The configuration names no wallet twice.  Nothing in it prevents that, and
\* /wallets remove then takes only the first of the two: the wallet stays
\* listed after the last word about it.
EachWalletOnce ==
  \A m, n \in DOMAIN Configured : Configured[m] = Configured[n] => m = n

RunningObeyed ==
  running = (LatestKind(Taken({"start", "stop"}), "stop") = "start")
ModeObeyed == mode = LatestKind(Taken({"follow", "tpsl"}), "tpsl")
BlockObeyed(x) ==
  (x \in blocked)
    = (LatestKind(About(Taken({"block", "unblock"}), x), "unblock") = "block")
IsListed(x) == \E n \in DOMAIN listed : listed[n] = x
ListObeyed(x) ==
  LET ids == About(Taken({"add", "remove"}), x)
  IN  ids # {} => IsListed(x) = (LatestKind(ids, "remove") = "add")

\* What holds is the last word of the operator in the order of sending, and
\* of nobody else: of /start and /stop, of the two sell modes, of /block and
\* /unblock of a token, and of adding and removing a wallet unless one was
\* removed by its number.
LastWordCounts ==
  /\ RunningObeyed
  /\ ModeObeyed
  /\ \A c \in Commands : BlockObeyed(c.about)
  /\ Taken({"remove at"}) = {} => \A c \in Commands : ListObeyed(c.about)

\* The update a run handles next, whatever request is in flight: where it
\* stopped, or what the server still holds of the runs before it.
Upcoming == IF offset > 0 THEN offset ELSE kept

Contract == INSTANCE CommandLog WITH
  Orders <- Commands, log <- sent, next <- Upcoming, obeyed <- handled

\* The requests that notices cancel, the batches and the offset together are
\* as good as a log read command by command, from which a restart takes
\* nothing away: see CommandLog.
KeepsContract == Contract!Spec

\* Every update sent is handled in the end, by this run or a later one, unless
\* a name has killed the console.
CommandIsHandled ==
  \A id \in Updates :
    Len(sent) >= id ~> (id \in handled \/ console = "dead")
=============================================================================
