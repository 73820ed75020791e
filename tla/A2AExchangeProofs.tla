-------------------------- MODULE A2AExchangeProofs --------------------------
(***************************************************************************)
(* Theorems about the A2A server and the transports, for any number of     *)
(* calls, by whatever programs, with any ids, skills and peers.            *)
(***************************************************************************)
EXTENDS Roundtable, TLAPS

(***************************************************************************)
(* The parts of the state that the theorems depend on, and their types.    *)
(***************************************************************************)
ServerTypes ==
  /\ pc \in [Calls -> {"idle", "running", "posting", "polling", "done"}]
  /\ wire \subseteq Calls
  /\ thread \in [Calls -> {"none", "handling", "completed", "failed", "settled"}]
  /\ executed \in [Calls -> Nat]
  /\ served \in [Calls -> [status : Statuses, agents : Seq(Calls)]]
  /\ sent \in [Calls -> Seq(Calls)] /\ history \in [Calls -> Seq(Calls)]
  /\ object \in [Calls -> Calls]
  /\ store \in [Ids -> Calls \cup {NoCall}]
  /\ watch.of \in Calls \cup {NoCall}
  /\ watch = [of |-> watch.of, first |-> watch.first, last |-> watch.last, closed |-> watch.closed]

(* A request that was not accepted yet has left no trace on the server, and
   a handler that has not answered yet has not run before.                 *)
Fresh(c) == executed[c] = 0 /\ thread[c] = "none" /\ served[c].status = "submitted"
AcceptedOnce ==
  \A c \in Calls :
    /\ c \in wire => pc[c] # "idle"
    /\ c \in wire \/ pc[c] = "idle" => Fresh(c)
    /\ thread[c] = "handling" => executed[c] = 0
    /\ thread[c] \in {"handling", "completed", "failed"} => served[c].status = "working"
    /\ executed[c] <= 1

(* The server's object of a call is finished only with an answer.          *)
AnsweredIfFinished ==
  \A c \in Calls : served[c].status \in Terminal => served[c].agents # <<>>

(* The reader of the events reads one object, which stays finished.        *)
ReaderUpToDate ==
  /\ watch.of \in Calls /\ watch.first \in Terminal => served[watch.of].status = watch.first
  /\ watch.of \notin Calls => ~watch.closed

ServerInv == ServerTypes /\ AcceptedOnce /\ AnsweredIfFinished /\ ReaderUpToDate /\ EventsInOrder

LEMMA ServerInvInit == Init => ServerInv
BY ExchangeAssumption DEF Init, ServerInv, ServerTypes, AcceptedOnce, Fresh, AnsweredIfFinished,
   ReaderUpToDate, EventsInOrder, NoTask, NoCall, NotWatching, Statuses, Terminal, Ids

LEMMA SendKeepsInv ==
  ASSUME ServerInv, NEW c \in Calls, NEW o \in Calls, Send(c, o)
  PROVE  ServerInv'
<1> USE DEF ServerInv, ServerTypes
<1>1. ServerTypes'
  <2>1. object' \in [Calls -> Calls]
    BY DEF Send
  <2>2. wire' \subseteq Calls
    BY DEF Send
  <2>3. pc' \in [Calls -> {"idle", "running", "posting", "polling", "done"}]
    BY DEF Send
  <2>4. sent' \in [Calls -> Seq(Calls)]
    <3>1. history[o] \in Seq(Calls) /\ sent \in [Calls -> Seq(Calls)]
      OBVIOUS
    <3>2. sent' = sent \/ sent' = [sent EXCEPT ![c] = history[o]]
      BY DEF Send
    <3> QED BY <3>1, <3>2
  <2> QED BY <2>1, <2>2, <2>3, <2>4 DEF Send, serverVars
<1>2. AcceptedOnce'
  BY SMTT(30) DEF Send, clientVars, serverVars, AcceptedOnce, Fresh
<1>3. AnsweredIfFinished'
  BY DEF Send, clientVars, serverVars, AcceptedOnce, AnsweredIfFinished, Statuses, Terminal
<1>4. ReaderUpToDate'
  BY DEF Send, clientVars, serverVars, AcceptedOnce, Fresh, ReaderUpToDate, Statuses, Terminal
<1>5. EventsInOrder'
  BY DEF Send, clientVars, serverVars, ReaderUpToDate, EventsInOrder
<1> QED BY <1>1, <1>2, <1>3, <1>4, <1>5

LEMMA LocalAnswerKeepsInv ==
  ASSUME ServerInv, NEW c \in Calls, LocalAnswer(c)
  PROVE  ServerInv'
<1> USE DEF ServerInv, ServerTypes
<1>1. ServerTypes'
  <2>1. history[object[c]] \in Seq(Calls) /\ object[c] \in Calls
    OBVIOUS
  <2>2. Append(history[object[c]], c) \in Seq(Calls)
    BY <2>1
  <2>3. history' \in [Calls -> Seq(Calls)]
    BY <2>1, <2>2 DEF LocalAnswer
  <2>4. pc' \in [Calls -> {"idle", "running", "posting", "polling", "done"}]
    BY DEF LocalAnswer, Return
  <2> QED BY <2>3, <2>4 DEF LocalAnswer, serverVars
<1>2. AcceptedOnce'
  BY DEF LocalAnswer, Return, AcceptedOnce, Fresh, serverVars
<1>3. AnsweredIfFinished'
  BY DEF LocalAnswer, Return, AcceptedOnce, AnsweredIfFinished, Statuses, Terminal, serverVars
<1>4. ReaderUpToDate'
  BY DEF LocalAnswer, Return, AcceptedOnce, Fresh, ReaderUpToDate, Statuses, Terminal, serverVars
<1>5. EventsInOrder'
  BY DEF LocalAnswer, Return, ReaderUpToDate, EventsInOrder, serverVars
<1> QED BY <1>1, <1>2, <1>3, <1>4, <1>5

LEMMA LocalFailureKeepsInv ==
  ASSUME ServerInv, NEW c \in Calls, LocalFailure(c)
  PROVE  ServerInv'
<1> USE DEF ServerInv, ServerTypes
<1>1. ServerTypes'
  BY DEF LocalFailure, Return, Statuses, Terminal, serverVars
<1>2. AcceptedOnce'
  BY DEF LocalFailure, Return, AcceptedOnce, Fresh, serverVars
<1>3. AnsweredIfFinished'
  BY DEF LocalFailure, Return, AcceptedOnce, AnsweredIfFinished, Statuses, Terminal, serverVars
<1>4. ReaderUpToDate'
  BY DEF LocalFailure, Return, AcceptedOnce, Fresh, ReaderUpToDate, Statuses, Terminal, serverVars
<1>5. EventsInOrder'
  BY DEF LocalFailure, Return, ReaderUpToDate, EventsInOrder, serverVars
<1> QED BY <1>1, <1>2, <1>3, <1>4, <1>5

LEMMA LostKeepsInv ==
  ASSUME ServerInv, NEW c \in Calls, Lost(c)
  PROVE  ServerInv'
<1> USE DEF ServerInv, ServerTypes
<1>1. ServerTypes'
  BY DEF Lost, Unsent, Return, Statuses, Terminal, serverVars
<1>2. AcceptedOnce'
  BY DEF Lost, Unsent, Return, AcceptedOnce, Fresh, serverVars
<1>3. AnsweredIfFinished'
  BY DEF Lost, Unsent, Return, AcceptedOnce, AnsweredIfFinished, Statuses, Terminal, serverVars
<1>4. ReaderUpToDate'
  BY DEF Lost, Unsent, Return, AcceptedOnce, Fresh, ReaderUpToDate, Statuses, Terminal, serverVars
<1>5. EventsInOrder'
  BY DEF Lost, Unsent, Return, ReaderUpToDate, EventsInOrder, serverVars
<1> QED BY <1>1, <1>2, <1>3, <1>4, <1>5

LEMMA RedirectedKeepsInv ==
  ASSUME ServerInv, NEW c \in Calls, Redirected(c)
  PROVE  ServerInv'
<1> USE DEF ServerInv, ServerTypes
<1>1. ServerTypes'
  BY DEF Redirected, Return, Statuses, Terminal, serverVars
<1>2. AcceptedOnce'
  BY DEF Redirected, Return, AcceptedOnce, Fresh, serverVars
<1>3. AnsweredIfFinished'
  BY DEF Redirected, Return, AcceptedOnce, AnsweredIfFinished, Statuses, Terminal, serverVars
<1>4. ReaderUpToDate'
  BY DEF Redirected, Return, AcceptedOnce, Fresh, ReaderUpToDate, Statuses, Terminal, serverVars
<1>5. EventsInOrder'
  BY DEF Redirected, Return, ReaderUpToDate, EventsInOrder, serverVars
<1> QED BY <1>1, <1>2, <1>3, <1>4, <1>5

LEMMA ForeignAnswerKeepsInv ==
  ASSUME ServerInv, NEW c \in Calls, ForeignAnswer(c)
  PROVE  ServerInv'
<1> USE DEF ServerInv, ServerTypes
<1>1. ServerTypes'
  BY DEF ForeignAnswer, Receive, Refuse, Return, Statuses, Terminal, serverVars
<1>2. AcceptedOnce'
  BY DEF ForeignAnswer, Receive, Refuse, Return, AcceptedOnce, Fresh, serverVars
<1>3. AnsweredIfFinished'
  BY DEF ForeignAnswer, Receive, Refuse, Return, AcceptedOnce, AnsweredIfFinished, Statuses, Terminal, serverVars
<1>4. ReaderUpToDate'
  BY DEF ForeignAnswer, Receive, Refuse, Return, AcceptedOnce, Fresh, ReaderUpToDate, Statuses, Terminal, serverVars
<1>5. EventsInOrder'
  BY DEF ForeignAnswer, Receive, Refuse, Return, ReaderUpToDate, EventsInOrder, serverVars
<1> QED BY <1>1, <1>2, <1>3, <1>4, <1>5

LEMMA PollKeepsInv ==
  ASSUME ServerInv, NEW c \in Calls, Poll(c)
  PROVE  ServerInv'
<1> USE DEF ServerInv, ServerTypes
<1>1. ServerTypes'
  BY DEF Poll, Receive, Return, Statuses, Terminal, serverVars
<1>2. AcceptedOnce'
  BY DEF Poll, Receive, Return, AcceptedOnce, Fresh, serverVars
<1>3. AnsweredIfFinished'
  BY DEF Poll, Receive, Return, AcceptedOnce, AnsweredIfFinished, Statuses, Terminal, serverVars
<1>4. ReaderUpToDate'
  BY DEF Poll, Receive, Return, AcceptedOnce, Fresh, ReaderUpToDate, Statuses, Terminal, serverVars
<1>5. EventsInOrder'
  BY DEF Poll, Receive, Return, ReaderUpToDate, EventsInOrder, serverVars
<1> QED BY <1>1, <1>2, <1>3, <1>4, <1>5

LEMMA GiveUpKeepsInv ==
  ASSUME ServerInv, NEW c \in Calls, GiveUp(c)
  PROVE  ServerInv'
<1> USE DEF ServerInv, ServerTypes
<1>1. ServerTypes'
  BY DEF GiveUp, Return, Statuses, Terminal, serverVars
<1>2. AcceptedOnce'
  BY DEF GiveUp, Return, AcceptedOnce, Fresh, serverVars
<1>3. AnsweredIfFinished'
  BY DEF GiveUp, Return, AcceptedOnce, AnsweredIfFinished, Statuses, Terminal, serverVars
<1>4. ReaderUpToDate'
  BY DEF GiveUp, Return, AcceptedOnce, Fresh, ReaderUpToDate, Statuses, Terminal, serverVars
<1>5. EventsInOrder'
  BY DEF GiveUp, Return, ReaderUpToDate, EventsInOrder, serverVars
<1> QED BY <1>1, <1>2, <1>3, <1>4, <1>5

LEMMA AcceptKeepsInv ==
  ASSUME ServerInv, NEW c \in Calls, Accept(c)
  PROVE  ServerInv'
<1> USE DEF ServerInv, ServerTypes
<1>1. ServerTypes'
  <2>1. /\ pc' \in [Calls -> {"idle", "running", "posting", "polling", "done"}]
        /\ wire' \subseteq Calls
    BY DEF Accept, Refuse, Return
  <2>2. thread' \in [Calls -> {"none", "handling", "completed", "failed", "settled"}]
    BY DEF Accept
  <2> DEFINE new == [status |-> "working", agents |-> sent[c]]
  <2>5. sent[c] \in Seq(Calls) /\ "working" \in Statuses
    BY DEF Statuses
  <2>6. new \in [status : Statuses, agents : Seq(Calls)]
    BY <2>5
  <2>7. served' = [served EXCEPT ![c] = new] \/ served' = served
    BY DEF Accept
  <2>3. served' \in [Calls -> [status : Statuses, agents : Seq(Calls)]]
    <3> HIDE DEF new
    <3> QED BY <2>6, <2>7
  <2>4. store' \in [Ids -> Calls \cup {NoCall}]
    BY DEF Accept
  <2> QED BY <2>1, <2>2, <2>3, <2>4 DEF Accept
<1>2. AcceptedOnce'
  <2>1. c \in wire /\ Fresh(c) /\ wire' = wire \ {c} /\ executed' = executed
    BY DEF Accept, AcceptedOnce
  <2>2. /\ \A d \in Calls : d # c => /\ thread'[d] = thread[d] /\ served'[d] = served[d]
                                  /\ pc'[d] = pc[d]
        /\ pc[c] # "idle" => pc'[c] # "idle"
    BY DEF Accept, Refuse, Return
  <2>3. \/ thread'[c] = "handling" /\ served'[c].status = "working"
        \/ thread' = thread /\ served' = served
    BY DEF Accept
  <2>4. pc'[c] # "idle"
    BY <2>1, <2>2 DEF AcceptedOnce
  <2> QED BY <2>1, <2>2, <2>3, <2>4 DEF AcceptedOnce, Fresh
<1>3. AnsweredIfFinished'
  <2>1. \A d \in Calls : served'[d] = served[d] \/ served'[d].status = "working"
    BY DEF Accept
  <2> QED BY <2>1 DEF AnsweredIfFinished, Terminal
<1>4. ReaderUpToDate'
  BY ZenonT(30) DEF Accept, Refuse, Return, clientVars, AcceptedOnce, Fresh, ReaderUpToDate, Statuses, Terminal, serverVars
<1>5. EventsInOrder'
  BY DEF Accept, Refuse, Return, clientVars, ReaderUpToDate, EventsInOrder, serverVars
<1> QED BY <1>1, <1>2, <1>3, <1>4, <1>5

LEMMA HandleKeepsInv ==
  ASSUME ServerInv, NEW c \in Calls, Handle(c)
  PROVE  ServerInv'
<1> USE DEF ServerInv, ServerTypes
<1>1. ServerTypes'
  <2>1. thread' \in [Calls -> {"none", "handling", "completed", "failed", "settled"}]
    BY DEF Handle
  <2>2. executed' \in [Calls -> Nat]
    BY DEF Handle
  <2>3. PICK s \in {"completed", "failed"} : served' = [served EXCEPT ![c] = HalfSettled(@, c, s)]
    BY DEF Handle
  <2>4. HalfSettled(served[c], c, s) \in [status : Statuses, agents : Seq(Calls)]
    <3>1. Append(served[c].agents, c) \in Seq(Calls) /\ served[c].status \in Statuses
      OBVIOUS
    <3>2. HalfSettled(served[c], c, s) = [status |-> served[c].status,
                                          agents |-> Append(served[c].agents, c)]
      BY DEF HalfSettled
    <3> QED BY <3>1, <3>2
  <2>5. served' \in [Calls -> [status : Statuses, agents : Seq(Calls)]]
    BY <2>3, <2>4
  <2> QED BY <2>1, <2>2, <2>5 DEF Handle, clientVars
<1>2. AcceptedOnce'
  BY DEF Handle, HalfSettled, clientVars, AcceptedOnce, Fresh, serverVars
<1>3. AnsweredIfFinished'
  BY DEF Handle, HalfSettled, clientVars, AcceptedOnce, AnsweredIfFinished, Statuses, Terminal, serverVars
<1>4. ReaderUpToDate'
  BY DEF Handle, HalfSettled, clientVars, AcceptedOnce, Fresh, ReaderUpToDate, Statuses, Terminal, serverVars
<1>5. EventsInOrder'
  BY DEF Handle, HalfSettled, clientVars, ReaderUpToDate, EventsInOrder, serverVars
<1> QED BY <1>1, <1>2, <1>3, <1>4, <1>5

LEMMA SettleKeepsInv ==
  ASSUME ServerInv, NEW c \in Calls, Settle(c)
  PROVE  ServerInv'
<1> USE DEF ServerInv, ServerTypes
<1>1. ServerTypes'
  BY SMTT(30) DEF Settle, clientVars, Statuses, Terminal, serverVars
<1>2. AcceptedOnce'
  BY DEF Settle, clientVars, AcceptedOnce, Fresh, serverVars
<1>3. AnsweredIfFinished'
  <2>1. Append(sent[c], c) # <<>>
    <3>1. sent[c] \in Seq(Calls)
      OBVIOUS
    <3>2. Len(Append(sent[c], c)) = Len(sent[c]) + 1 /\ Len(sent[c]) \in Nat
      BY <3>1
    <3>3. Len(<<>>) = 0
      OBVIOUS
    <3>4. Len(Append(sent[c], c)) # 0
      BY <3>2
    <3> QED BY <3>3, <3>4, Zenon
  <2>2. \A d \in Calls : served'[d] = served[d] \/ served'[d].agents = Append(sent[c], c)
    BY DEF Settle
  <2> QED BY <2>1, <2>2 DEF AnsweredIfFinished
<1>4. ReaderUpToDate'
  BY DEF Settle, clientVars, AcceptedOnce, Fresh, ReaderUpToDate, Statuses, Terminal, serverVars
<1>5. EventsInOrder'
  BY DEF Settle, clientVars, ReaderUpToDate, EventsInOrder, serverVars
<1> QED BY <1>1, <1>2, <1>3, <1>4, <1>5

LEMMA ReplyKeepsInv ==
  ASSUME ServerInv, NEW c \in Calls, Reply(c)
  PROVE  ServerInv'
<1> USE DEF ServerInv, ServerTypes
<1>1. ServerTypes'
  BY DEF Reply, Receive, Return, Statuses, Terminal, serverVars
<1>2. AcceptedOnce'
  BY DEF Reply, Receive, Return, AcceptedOnce, Fresh, serverVars
<1>3. AnsweredIfFinished'
  BY DEF Reply, Receive, Return, AcceptedOnce, AnsweredIfFinished, Statuses, Terminal, serverVars
<1>4. ReaderUpToDate'
  BY DEF Reply, Receive, Return, AcceptedOnce, Fresh, ReaderUpToDate, Statuses, Terminal, serverVars
<1>5. EventsInOrder'
  BY DEF Reply, Receive, Return, ReaderUpToDate, EventsInOrder, serverVars
<1> QED BY <1>1, <1>2, <1>3, <1>4, <1>5

LEMMA StopKeepsInv ==
  ASSUME ServerInv, Stop
  PROVE  ServerInv'
<1> USE DEF ServerInv, ServerTypes
<1>1. ServerTypes'
  BY DEF Stop, NotWatching, clientVars, Statuses, Terminal, serverVars
<1>2. AcceptedOnce'
  BY DEF Stop, NotWatching, clientVars, AcceptedOnce, Fresh, serverVars
<1>3. AnsweredIfFinished'
  BY DEF Stop, NotWatching, clientVars, AcceptedOnce, AnsweredIfFinished, Statuses, Terminal, serverVars
<1>4. ReaderUpToDate'
  BY DEF Stop, NotWatching, clientVars, AcceptedOnce, Fresh, ReaderUpToDate, Statuses, Terminal, serverVars
<1>5. EventsInOrder'
  BY DEF Stop, NotWatching, clientVars, ReaderUpToDate, EventsInOrder, serverVars
<1> QED BY <1>1, <1>2, <1>3, <1>4, <1>5

LEMMA RestartKeepsInv ==
  ASSUME ServerInv, Restart
  PROVE  ServerInv'
<1> USE DEF ServerInv, ServerTypes
<1>1. ServerTypes'
  BY DEF Restart, clientVars, Statuses, Terminal, serverVars
<1>2. AcceptedOnce'
  BY DEF Restart, clientVars, AcceptedOnce, Fresh, serverVars
<1>3. AnsweredIfFinished'
  BY DEF Restart, clientVars, AcceptedOnce, AnsweredIfFinished, Statuses, Terminal, serverVars
<1>4. ReaderUpToDate'
  BY DEF Restart, clientVars, AcceptedOnce, Fresh, ReaderUpToDate, Statuses, Terminal, serverVars
<1>5. EventsInOrder'
  BY DEF Restart, clientVars, ReaderUpToDate, EventsInOrder, serverVars
<1> QED BY <1>1, <1>2, <1>3, <1>4, <1>5

LEMMA WatchOpenKeepsInv ==
  ASSUME ServerInv, NEW i \in Ids, WatchOpen(i)
  PROVE  ServerInv'
<1> USE DEF ServerInv, ServerTypes
<1>1. ServerTypes'
  BY DEF WatchOpen, NotWatching, clientVars, serverVars, Statuses, Terminal
<1>2. AcceptedOnce'
  BY DEF WatchOpen, NotWatching, clientVars, serverVars, AcceptedOnce, Fresh
<1>3. AnsweredIfFinished'
  BY DEF WatchOpen, NotWatching, clientVars, serverVars, AcceptedOnce, AnsweredIfFinished, Statuses, Terminal
<1>4. ReaderUpToDate'
  BY DEF WatchOpen, NotWatching, clientVars, serverVars, AcceptedOnce, Fresh, ReaderUpToDate, Statuses, Terminal
<1>5. EventsInOrder'
  BY DEF WatchOpen, NotWatching, clientVars, serverVars, ReaderUpToDate, EventsInOrder
<1> QED BY <1>1, <1>2, <1>3, <1>4, <1>5

LEMMA WatchCloseKeepsInv ==
  ASSUME ServerInv, WatchClose
  PROVE  ServerInv'
<1> USE DEF ServerInv, ServerTypes
<1>1. ServerTypes'
  BY DEF WatchClose, clientVars, serverVars, Statuses, Terminal
<1>2. AcceptedOnce'
  BY DEF WatchClose, clientVars, serverVars, AcceptedOnce, Fresh
<1>3. AnsweredIfFinished'
  BY DEF WatchClose, clientVars, serverVars, AcceptedOnce, AnsweredIfFinished, Statuses, Terminal
<1>4. ReaderUpToDate'
  <2>1. watch' = [of |-> watch.of, first |-> watch.first, last |-> served[watch.of], closed |-> TRUE]
    BY DEF WatchClose
  <2>2. watch.of \in Calls \cup {NoCall}
    BY DEF WatchClose
  <2> QED BY <2>1, <2>2 DEF WatchClose, clientVars, serverVars, ReaderUpToDate, Terminal
<1>5. EventsInOrder'
  <2>1. watch' = [of |-> watch.of, first |-> watch.first, last |-> served[watch.of], closed |-> TRUE]
    BY DEF WatchClose
  <2> QED BY <2>1 DEF WatchClose, clientVars, serverVars, ReaderUpToDate, EventsInOrder
<1> QED BY <1>1, <1>2, <1>3, <1>4, <1>5

LEMMA ServerInvStep == ServerInv /\ [ExchangeNext]_vars => ServerInv'
<1> SUFFICES ASSUME ServerInv, ExchangeNext \/ UNCHANGED vars PROVE ServerInv'
  OBVIOUS
<1>1. ASSUME NEW c \in Calls, NEW o \in Calls, Send(c, o) PROVE ServerInv'
  BY <1>1, SendKeepsInv
<1>2. ASSUME NEW c \in Calls, Transport(c) PROVE ServerInv'
  BY <1>2, LocalAnswerKeepsInv, LocalFailureKeepsInv, LostKeepsInv, RedirectedKeepsInv, ForeignAnswerKeepsInv, PollKeepsInv, GiveUpKeepsInv
     DEF Transport
<1>3. ASSUME NEW c \in Calls, Accept(c) \/ Handle(c) \/ Settle(c) \/ Reply(c) PROVE ServerInv'
  BY <1>3, AcceptKeepsInv, HandleKeepsInv, SettleKeepsInv, ReplyKeepsInv
<1>4. ASSUME NEW i \in Ids, WatchOpen(i) PROVE ServerInv'
  BY <1>4, WatchOpenKeepsInv
<1>5. CASE Stop \/ Restart \/ WatchClose
  BY <1>5, StopKeepsInv, RestartKeepsInv, WatchCloseKeepsInv
<1>6. CASE UNCHANGED vars
  BY <1>6 DEF vars, clientVars, serverVars, ServerInv, ServerTypes, AcceptedOnce, Fresh,
     AnsweredIfFinished, ReaderUpToDate, EventsInOrder
<1> QED BY <1>1, <1>2, <1>3, <1>4, <1>5, <1>6 DEF ExchangeNext, Server

(* A skill runs at most once for one send_task, whatever is lost, delayed,
   redirected or restarted on the way (http.py:593, 634-661).              *)
THEOREM NothingRunsTwice == ExchangeSpec => []AtMostOnce
<1>1. ServerInv => AtMostOnce
  BY DEF ServerInv, AcceptedOnce, AtMostOnce
<1> QED BY <1>1, ServerInvInit, ServerInvStep, PTL DEF ExchangeSpec

(* Readers of a task and of its events see it finished only with its
   answer, and never unfinished again, although they read the very object
   the handler is writing to (server.py:189-204, 265, handlers.py:28-37).  *)
THEOREM ReadersAreNotMisled == ExchangeSpec => []HonestReaders
<1>1. ServerInv => HonestReaders
  BY DEF ServerInv, ServerTypes, AnsweredIfFinished, HonestReaders, NoHalfAnswer, Stored
<1> QED BY <1>1, ServerInvInit, ServerInvStep, PTL DEF ExchangeSpec

(***************************************************************************)
(* What is reported done was done.  The server keeps one object per id, so *)
(* a client that polls would be shown whatever is stored under the id of   *)
(* its task; but autodev's server answers a POST with a finished task, and *)
(* who gets one never polls.                                               *)
(***************************************************************************)
Ran(c, task) == executed[c] = 1 /\ task.agents = Append(sent[c], c)

ServedWasRun ==
  \A c \in Calls :
    /\ thread[c] \in {"completed", "failed"} => executed[c] = 1
    /\ thread[c] = "settled" => served[c].status \in Terminal
    /\ served[c].status = "completed" => Ran(c, served[c])
TransportsApart ==
  \A c \in Calls :
    /\ pc[c] = "running" => TransportFor(c) # "a2a-http"
    /\ pc[c] \in {"posting", "polling"} => TransportFor(c) = "a2a-http"
    /\ pc[c] = "polling" => request[c].peer = "foreign"
ReportedWasRun ==
  /\ result = [c \in Calls |-> result[c]]
  /\ \A c \in Calls :
       ByHttpTo(c, "autodev") /\ pc[c] \in {"polling", "done"} /\ result[c].status = "completed"
         => Ran(c, result[c])

ReportInv == /\ ServerInv /\ ServedWasRun /\ TransportsApart
             /\ ReportedWasRun

LEMMA ReportInvInit == Init => ReportInv
<1> SUFFICES ASSUME Init PROVE ReportInv
  OBVIOUS
<1>1. ServerInv
  BY ServerInvInit
<1>2. ServedWasRun /\ TransportsApart /\ ReportedWasRun
  BY DEF Init, ServedWasRun, TransportsApart, ReportedWasRun, NoTask
<1> QED BY <1>1, <1>2 DEF ReportInv

(* A step that makes one report, and one that makes none.                  *)
LEMMA OneReport ==
  ASSUME ReportedWasRun, NEW c \in Calls, NEW t,
         result' = [result EXCEPT ![c] = t], UNCHANGED <<request, sent, executed>>,
         \A d \in Calls : d # c => pc'[d] = pc[d],
         ByHttpTo(c, "autodev") /\ t.status = "completed" => Ran(c, t)
  PROVE  ReportedWasRun'
<1>1. /\ result' = [d \in Calls |-> result'[d]] /\ result'[c] = t
      /\ \A d \in Calls : d # c => result'[d] = result[d]
  BY DEF ReportedWasRun
<1>2. \A d \in Calls : sent'[d] = sent[d] /\ executed'[d] = executed[d] /\ request'[d] = request[d]
  OBVIOUS
<1> QED BY <1>1, <1>2 DEF ReportedWasRun, Ran, ByHttpTo, TransportFor

LEMMA NoReport ==
  ASSUME ReportedWasRun, UNCHANGED <<request, result>>,
         \A d \in Calls : pc'[d] \in {"polling", "done"} =>
           /\ pc[d] \in {"polling", "done"} /\ sent'[d] = sent[d]
           /\ executed[d] = 1 => executed'[d] = 1
  PROVE  ReportedWasRun'
BY DEF ReportedWasRun, Ran, ByHttpTo, TransportFor

LEMMA SendKeepsReports ==
  ASSUME ReportInv, NEW c \in Calls, NEW o \in Calls, Send(c, o)
  PROVE  ReportInv'
<1> USE DEF ReportInv
<1>1. ServerInv'
  BY SendKeepsInv
<1>2. ServedWasRun'
  BY ZenonT(30) DEF Send, clientVars, serverVars, ServerInv, ServerTypes, AcceptedOnce, Fresh, ServedWasRun, Ran
<1>3. TransportsApart'
  BY SMTT(30) DEF Send, clientVars, serverVars, ServerInv, ServerTypes, TransportsApart, TransportFor
<1>4. ReportedWasRun'
  <2>1. \A d \in Calls : pc'[d] \in {"polling", "done"} => pc[d] = pc'[d] /\ sent'[d] = sent[d]
    BY DEF Send, ServerInv, ServerTypes
  <2> QED BY <2>1, NoReport DEF Send, serverVars
<1> QED BY <1>1, <1>2, <1>3, <1>4

LEMMA LocalAnswerKeepsReports ==
  ASSUME ReportInv, NEW c \in Calls, LocalAnswer(c)
  PROVE  ReportInv'
<1> USE DEF ReportInv
<1>1. ServerInv'
  BY LocalAnswerKeepsInv
<1>2. ServedWasRun'
  BY DEF LocalAnswer, Return, ServerInv, ServerTypes, AcceptedOnce, Fresh, ServedWasRun, Ran, serverVars
<1>3. TransportsApart'
  BY DEF LocalAnswer, Return, ServerInv, ServerTypes, TransportsApart, TransportFor
<1>4. ReportedWasRun'
  <2>8. /\ UNCHANGED <<request, sent, executed>>
        /\ \A d \in Calls : d # c => pc'[d] = pc[d]
    BY DEF LocalAnswer, ServerInv, ServerTypes, serverVars, Return, Receive, Refuse
  <2>1. ~ByHttpTo(c, "autodev")
    BY DEF LocalAnswer, TransportsApart, ByHttpTo
  <2>2. PICK t : result' = [result EXCEPT ![c] = t]
    BY DEF LocalAnswer, Return
  <2> QED BY <2>1, <2>2, <2>8, OneReport
<1> QED BY <1>1, <1>2, <1>3, <1>4

LEMMA LocalFailureKeepsReports ==
  ASSUME ReportInv, NEW c \in Calls, LocalFailure(c)
  PROVE  ReportInv'
<1> USE DEF ReportInv
<1>1. ServerInv'
  BY LocalFailureKeepsInv
<1>2. ServedWasRun'
  BY DEF LocalFailure, Return, Failed, ServerInv, ServerTypes, AcceptedOnce, Fresh, ServedWasRun, Ran, serverVars
<1>3. TransportsApart'
  BY DEF LocalFailure, Return, Failed, ServerInv, ServerTypes, TransportsApart, TransportFor
<1>4. ReportedWasRun'
  <2>1. /\ UNCHANGED <<request, sent, executed>>
        /\ \A d \in Calls : d # c => pc'[d] = pc[d]
    BY DEF LocalFailure, ServerInv, ServerTypes, serverVars, Return
  <2>2. /\ result' = [result EXCEPT ![c] = Failed(history[object[c]])]
        /\ Failed(history[object[c]]).status # "completed"
    BY DEF LocalFailure, Return, Failed
  <2> QED BY <2>1, <2>2, OneReport
<1> QED BY <1>1, <1>2, <1>3, <1>4

LEMMA LostKeepsReports ==
  ASSUME ReportInv, NEW c \in Calls, Lost(c)
  PROVE  ReportInv'
<1> USE DEF ReportInv
<1>1. ServerInv'
  BY LostKeepsInv
<1>2. ServedWasRun'
  BY DEF Lost, Unsent, Return, Failed, ServerInv, ServerTypes, AcceptedOnce, Fresh, ServedWasRun, Ran, serverVars
<1>3. TransportsApart'
  BY DEF Lost, Unsent, Return, Failed, ServerInv, ServerTypes, TransportsApart, TransportFor
<1>4. ReportedWasRun'
  <2>1. /\ UNCHANGED <<request, sent, executed>>
        /\ \A d \in Calls : d # c => pc'[d] = pc[d]
    BY DEF Lost, Unsent, ServerInv, ServerTypes, serverVars, Return
  <2>2. /\ result' = [result EXCEPT ![c] = Failed(history[object[c]])]
        /\ Failed(history[object[c]]).status # "completed"
    BY DEF Lost, Unsent, Return, Failed
  <2> QED BY <2>1, <2>2, OneReport
<1> QED BY <1>1, <1>2, <1>3, <1>4

LEMMA RedirectedKeepsReports ==
  ASSUME ReportInv, NEW c \in Calls, Redirected(c)
  PROVE  ReportInv'
<1> USE DEF ReportInv
<1>1. ServerInv'
  BY RedirectedKeepsInv
<1>2. ServedWasRun'
  BY DEF Redirected, Return, Failed, ServerInv, ServerTypes, AcceptedOnce, Fresh, ServedWasRun, Ran, serverVars
<1>3. TransportsApart'
  BY DEF Redirected, Return, Failed, ServerInv, ServerTypes, TransportsApart, TransportFor
<1>4. ReportedWasRun'
  <2>8. /\ UNCHANGED <<request, sent, executed>>
        /\ \A d \in Calls : d # c => pc'[d] = pc[d]
    BY DEF Redirected, ServerInv, ServerTypes, serverVars, Return, Receive, Refuse
  <2>1. CASE redirects[c] = MaxRedirects
    <3>1. /\ result' = [result EXCEPT ![c] = Failed(history[object[c]])]
          /\ Failed(history[object[c]]).status # "completed"
      BY <2>1 DEF Redirected, Return, Failed
    <3> QED BY <3>1, <2>8, OneReport
  <2>2. CASE redirects[c] # MaxRedirects
    BY <2>2, NoReport DEF Redirected, serverVars
  <2> QED BY <2>1, <2>2
<1> QED BY <1>1, <1>2, <1>3, <1>4

LEMMA ForeignAnswerKeepsReports ==
  ASSUME ReportInv, NEW c \in Calls, ForeignAnswer(c)
  PROVE  ReportInv'
<1> USE DEF ReportInv
<1>1. ServerInv'
  BY ForeignAnswerKeepsInv
<1>2. ServedWasRun'
  BY DEF ForeignAnswer, Receive, Refuse, Return, Failed, ServerInv, ServerTypes, AcceptedOnce, Fresh, ServedWasRun, Ran, serverVars
<1>3. TransportsApart'
  BY DEF ForeignAnswer, Receive, Refuse, Return, Failed, ServerInv, ServerTypes, TransportsApart, TransportFor
<1>4. ReportedWasRun'
  <2>8. /\ UNCHANGED <<request, sent, executed>>
        /\ \A d \in Calls : d # c => pc'[d] = pc[d]
    BY DEF ForeignAnswer, ServerInv, ServerTypes, serverVars, Return, Receive, Refuse
  <2>1. ~ByHttpTo(c, "autodev")
    BY DEF ForeignAnswer, ByHttpTo
  <2>2. PICK t : result' = [result EXCEPT ![c] = t]
    BY DEF ForeignAnswer, Return, Receive, Refuse
  <2> QED BY <2>1, <2>2, <2>8, OneReport
<1> QED BY <1>1, <1>2, <1>3, <1>4

LEMMA PollKeepsReports ==
  ASSUME ReportInv, NEW c \in Calls, Poll(c)
  PROVE  ReportInv'
<1> USE DEF ReportInv
<1>1. ServerInv'
  BY PollKeepsInv
<1>2. ServedWasRun'
  BY DEF Poll, Receive, Return, Pollable, Stored, ServerInv, ServerTypes, AcceptedOnce, Fresh, ServedWasRun, Ran, serverVars
<1>3. TransportsApart'
  BY DEF Poll, Receive, Return, Pollable, Stored, ServerInv, ServerTypes, TransportsApart, TransportFor
<1>4. ReportedWasRun'
  <2>8. /\ UNCHANGED <<request, sent, executed>>
        /\ \A d \in Calls : d # c => pc'[d] = pc[d]
    BY DEF Poll, ServerInv, ServerTypes, serverVars, Return, Receive, Refuse
  <2>1. CASE UNCHANGED <<pc, result>>
    BY <2>1, NoReport DEF Poll, serverVars
  <2>2. ASSUME NEW t \in Pollable(c), Receive(c, t) PROVE ReportedWasRun'
    <3>1. result' = [result EXCEPT ![c] = t]
      BY <2>2 DEF Receive, Return
    <3>2. ~ByHttpTo(c, "autodev")
      BY DEF Poll, TransportsApart, ByHttpTo
    <3> QED BY <3>1, <3>2, <2>8, OneReport
  <2> QED BY <2>1, <2>2 DEF Poll
<1> QED BY <1>1, <1>2, <1>3, <1>4

LEMMA GiveUpKeepsReports ==
  ASSUME ReportInv, NEW c \in Calls, GiveUp(c)
  PROVE  ReportInv'
<1> USE DEF ReportInv
<1>1. ServerInv'
  BY GiveUpKeepsInv
<1>2. ServedWasRun'
  BY DEF GiveUp, Return, Failed, ServerInv, ServerTypes, AcceptedOnce, Fresh, ServedWasRun, Ran, serverVars
<1>3. TransportsApart'
  BY DEF GiveUp, Return, Failed, ServerInv, ServerTypes, TransportsApart, TransportFor
<1>4. ReportedWasRun'
  <2>1. /\ UNCHANGED <<request, sent, executed>>
        /\ \A d \in Calls : d # c => pc'[d] = pc[d]
    BY DEF GiveUp, ServerInv, ServerTypes, serverVars, Return
  <2>2. /\ result' = [result EXCEPT ![c] = Failed(result[c].agents)]
        /\ Failed(result[c].agents).status # "completed"
    BY DEF GiveUp, Return, Failed
  <2> QED BY <2>1, <2>2, OneReport
<1> QED BY <1>1, <1>2, <1>3, <1>4

LEMMA AcceptKeepsReports ==
  ASSUME ReportInv, NEW c \in Calls, Accept(c)
  PROVE  ReportInv'
<1> USE DEF ReportInv
<1>1. ServerInv'
  BY AcceptKeepsInv
<1>2. ServedWasRun'
  <2>1. /\ thread[c] = "none" /\ executed' = executed /\ sent' = sent
        /\ thread'[c] \in {"none", "handling"}
        /\ served'[c] = served[c] \/ served'[c].status = "working"
    BY DEF Accept, ServerInv, ServerTypes, AcceptedOnce, Fresh
  <2>2. \A d \in Calls : d # c => thread'[d] = thread[d] /\ served'[d] = served[d]
    BY DEF Accept, ServerInv, ServerTypes
  <2> QED BY <2>1, <2>2 DEF ServedWasRun, Ran
<1>3. TransportsApart'
  BY DEF Accept, Refuse, Return, Failed, ServerInv, ServerTypes, TransportsApart, TransportFor
<1>4. ReportedWasRun'
  <2>8. /\ UNCHANGED <<request, sent, executed>>
        /\ \A d \in Calls : d # c => pc'[d] = pc[d]
    BY DEF Accept, ServerInv, ServerTypes, serverVars, Return, Receive, Refuse
  <2>1. CASE UNCHANGED <<pc, result>>
    BY <2>1, <2>8, NoReport DEF Accept
  <2>2. CASE Refuse(c)
    <3>1. /\ result' = [result EXCEPT ![c] = Failed(history[object[c]])]
          /\ Failed(history[object[c]]).status # "completed"
      BY <2>2 DEF Refuse, Return, Failed
    <3> QED BY <3>1, <2>8, OneReport
  <2> QED BY <2>1, <2>2 DEF Accept
<1> QED BY <1>1, <1>2, <1>3, <1>4

LEMMA HandleKeepsReports ==
  ASSUME ReportInv, NEW c \in Calls, Handle(c)
  PROVE  ReportInv'
<1> USE DEF ReportInv
<1>1. ServerInv'
  BY HandleKeepsInv
<1>2. ServedWasRun'
  BY DEF Handle, HalfSettled, clientVars, ServerInv, ServerTypes, AcceptedOnce, Fresh, ServedWasRun, Ran, serverVars
<1>3. TransportsApart'
  BY DEF Handle, HalfSettled, clientVars, ServerInv, ServerTypes, TransportsApart, TransportFor
<1>4. ReportedWasRun'
  <2>1. \A d \in Calls : executed[d] = 1 => executed'[d] = 1
    BY DEF Handle, ServerInv, ServerTypes, AcceptedOnce
  <2> QED BY <2>1, NoReport DEF Handle, clientVars
<1> QED BY <1>1, <1>2, <1>3, <1>4

LEMMA SettleKeepsReports ==
  ASSUME ReportInv, NEW c \in Calls, Settle(c)
  PROVE  ReportInv'
<1> USE DEF ReportInv
<1>1. ServerInv'
  BY SettleKeepsInv
<1>2. ServedWasRun'
  BY DEF Settle, clientVars, ServerInv, ServerTypes, AcceptedOnce, Fresh, ServedWasRun, Ran, Terminal, serverVars
<1>3. TransportsApart'
  BY DEF Settle, clientVars, ServerInv, ServerTypes, TransportsApart, TransportFor
<1>4. ReportedWasRun'
  BY NoReport DEF Settle, clientVars, serverVars
<1> QED BY <1>1, <1>2, <1>3, <1>4

LEMMA ReplyKeepsReports ==
  ASSUME ReportInv, NEW c \in Calls, Reply(c)
  PROVE  ReportInv'
<1> USE DEF ReportInv
<1>1. ServerInv'
  BY ReplyKeepsInv
<1>2. ServedWasRun'
  BY DEF Reply, Receive, Return, ServerInv, ServerTypes, AcceptedOnce, Fresh, ServedWasRun, Ran, serverVars
<1>3. TransportsApart'
  BY DEF Reply, Receive, Return, ServerInv, ServerTypes, ServedWasRun, TransportsApart, TransportFor
<1>4. ReportedWasRun'
  <2>8. /\ UNCHANGED <<request, sent, executed>>
        /\ \A d \in Calls : d # c => pc'[d] = pc[d]
    BY DEF Reply, ServerInv, ServerTypes, serverVars, Return, Receive, Refuse
  <2>1. CASE UNCHANGED <<pc, result>>
    BY <2>1, <2>8, NoReport DEF Reply
  <2>2. CASE Receive(c, served[c])
    <3>1. result' = [result EXCEPT ![c] = served[c]]
      BY <2>2 DEF Receive, Return
    <3> QED BY <3>1, <2>8, OneReport DEF ServedWasRun
  <2> QED BY <2>1, <2>2 DEF Reply
<1> QED BY <1>1, <1>2, <1>3, <1>4

LEMMA StopKeepsReports ==
  ASSUME ReportInv, Stop
  PROVE  ReportInv'
<1> USE DEF ReportInv
<1>1. ServerInv'
  BY StopKeepsInv
<1>2. ServedWasRun'
  BY DEF Stop, clientVars, ServerInv, ServerTypes, AcceptedOnce, Fresh, ServedWasRun, Ran, serverVars
<1>3. TransportsApart'
  BY DEF Stop, clientVars, ServerInv, ServerTypes, TransportsApart, TransportFor
<1>4. ReportedWasRun'
  BY NoReport DEF Stop, clientVars, serverVars
<1> QED BY <1>1, <1>2, <1>3, <1>4

LEMMA RestartKeepsReports ==
  ASSUME ReportInv, Restart
  PROVE  ReportInv'
<1> USE DEF ReportInv
<1>1. ServerInv'
  BY RestartKeepsInv
<1>2. ServedWasRun'
  BY DEF Restart, clientVars, ServerInv, ServerTypes, AcceptedOnce, Fresh, ServedWasRun, Ran, serverVars
<1>3. TransportsApart'
  BY DEF Restart, clientVars, ServerInv, ServerTypes, TransportsApart, TransportFor
<1>4. ReportedWasRun'
  BY NoReport DEF Restart, clientVars, serverVars
<1> QED BY <1>1, <1>2, <1>3, <1>4

LEMMA WatchOpenKeepsReports ==
  ASSUME ReportInv, NEW i \in Ids, WatchOpen(i)
  PROVE  ReportInv'
<1> USE DEF ReportInv
<1>1. ServerInv'
  BY WatchOpenKeepsInv
<1>2. ServedWasRun'
  BY DEF WatchOpen, clientVars, serverVars, ServerInv, ServerTypes, AcceptedOnce, Fresh, ServedWasRun, Ran
<1>3. TransportsApart'
  BY DEF WatchOpen, clientVars, serverVars, ServerInv, ServerTypes, TransportsApart, TransportFor
<1>4. ReportedWasRun'
  BY NoReport DEF WatchOpen, clientVars, serverVars
<1> QED BY <1>1, <1>2, <1>3, <1>4

LEMMA WatchCloseKeepsReports ==
  ASSUME ReportInv, WatchClose
  PROVE  ReportInv'
<1> USE DEF ReportInv
<1>1. ServerInv'
  BY WatchCloseKeepsInv
<1>2. ServedWasRun'
  BY DEF WatchClose, clientVars, serverVars, ServerInv, ServerTypes, AcceptedOnce, Fresh, ServedWasRun, Ran
<1>3. TransportsApart'
  BY DEF WatchClose, clientVars, serverVars, ServerInv, ServerTypes, TransportsApart, TransportFor
<1>4. ReportedWasRun'
  BY NoReport DEF WatchClose, clientVars, serverVars
<1> QED BY <1>1, <1>2, <1>3, <1>4

LEMMA ReportInvStep ==
  ASSUME ReportInv, [ExchangeNext]_vars
  PROVE  ReportInv'
<1>1. ASSUME NEW c \in Calls, NEW o \in Calls, Send(c, o) PROVE ReportInv'
  BY <1>1, SendKeepsReports
<1>2. ASSUME NEW c \in Calls, Transport(c) PROVE ReportInv'
  BY <1>2, LocalAnswerKeepsReports, LocalFailureKeepsReports, LostKeepsReports, RedirectedKeepsReports,
     ForeignAnswerKeepsReports, PollKeepsReports, GiveUpKeepsReports DEF Transport
<1>3. ASSUME NEW c \in Calls, Accept(c) \/ Handle(c) \/ Settle(c) \/ Reply(c) PROVE ReportInv'
  BY <1>3, AcceptKeepsReports, HandleKeepsReports, SettleKeepsReports, ReplyKeepsReports
<1>4. ASSUME NEW i \in Ids, WatchOpen(i) PROVE ReportInv'
  BY <1>4, WatchOpenKeepsReports
<1>5. CASE Stop \/ Restart \/ WatchClose
  BY <1>5, StopKeepsReports, RestartKeepsReports, WatchCloseKeepsReports
<1>6. CASE UNCHANGED vars
  <2>1. ServerInv'
    BY <1>6, ServerInvStep DEF ReportInv
  <2> QED BY <1>6, <2>1 DEF vars, clientVars, serverVars, ReportInv, ServedWasRun, Ran,
                            TransportsApart, ReportedWasRun, ByHttpTo,
                            TransportFor
<1> QED BY <1>1, <1>2, <1>3, <1>4, <1>5, <1>6 DEF ExchangeNext, Server

(* A call that reports COMPLETED by an autodev server did run there, once,
   and returns the answer to its own request, over lost answers, restarts
   and other tasks of the same id (http.py:587-661, server.py:265-284).    *)
THEOREM ReportedIsTrue == ExchangeSpec => []Truthful
<1>1. ReportInv => Truthful
  BY DEF ReportInv, ServerInv, AcceptedOnce, ReportedWasRun, Ran, Truthful, AtMostOnce,
         CompletedWasServed
<1>2. ReportInv /\ [ExchangeNext]_vars => ReportInv'
  BY ReportInvStep
<1> QED BY <1>1, <1>2, ReportInvInit, PTL DEF ExchangeSpec

(***************************************************************************)
(* The types of the rest of the exchange.                                  *)
(***************************************************************************)
MoreTypes ==
  /\ \A c \in Calls : request[c] \in Requests[c]
  /\ method \in [Calls -> {"POST", "GET"}]
  /\ redirects \in [Calls -> 0 .. MaxRedirects] /\ polls \in [Calls -> 0 .. MaxPolls]
  /\ result \in [Calls -> TaskRecord]
  /\ up \in BOOLEAN
  /\ watch.first \in Statuses \cup {"none"} /\ watch.last \in TaskRecord
  /\ watch.closed \in BOOLEAN

TypesInv == ServerInv /\ MoreTypes

LEMMA TypesImplyTypeOK == TypesInv => TypeOK
BY DEF TypesInv, ServerInv, ServerTypes, MoreTypes, TypeOK, TaskRecord

LEMMA TypesInit == Init => TypesInv
<1> SUFFICES ASSUME Init PROVE TypesInv
  OBVIOUS
<1>1. NoTask \in TaskRecord
  BY DEF NoTask, TaskRecord, Statuses
<1>2. /\ MaxRedirects \in Nat /\ MaxPolls \in Nat
  BY ExchangeAssumption
<1>3. MoreTypes
  BY <1>1, <1>2 DEF Init, MoreTypes, NotWatching
<1> QED BY <1>3, ServerInvInit DEF TypesInv

(* What a call may be told is a task.                                      *)
LEMMA FailedIsATask ==
  ASSUME NEW agents \in Seq(Calls)
  PROVE  Failed(agents) \in TaskRecord
BY DEF Failed, TaskRecord, Statuses, Terminal

LEMMA ToldIsATask ==
  ASSUME TypesInv, NEW c \in Calls
  PROVE  /\ history[object[c]] \in Seq(Calls) /\ Append(history[object[c]], c) \in Seq(Calls)
         /\ Failed(history[object[c]]) \in TaskRecord
         /\ Failed(result[c].agents) \in TaskRecord
         /\ served[c] \in TaskRecord
         /\ ForeignTasks(c) \subseteq TaskRecord
         /\ Pollable(c) \subseteq TaskRecord
<1> USE DEF TypesInv, ServerInv
<1>1. history[object[c]] \in Seq(Calls) /\ Append(history[object[c]], c) \in Seq(Calls)
  BY DEF ServerTypes
<1>2. result[c].agents \in Seq(Calls)
  BY DEF MoreTypes, TaskRecord
<1>3. served[c] \in TaskRecord
  BY DEF ServerTypes, TaskRecord
<1>4. ForeignTasks(c) \subseteq TaskRecord
  <2>1. <<>> \in Seq(Calls) /\ <<c>> \in Seq(Calls)
    OBVIOUS
  <2> QED BY <2>1 DEF ForeignTasks, TaskRecord
<1>5. Stored(TaskOf[c]) \subseteq TaskRecord
  <2>1. TaskOf[c] \in Ids
    BY DEF Ids
  <2>2. store[TaskOf[c]] \in Calls \cup {NoCall}
    BY <2>1 DEF ServerTypes
  <2> QED BY <2>2 DEF Stored, ServerTypes, TaskRecord
<1>6. Pollable(c) \subseteq TaskRecord
  BY <1>4, <1>5 DEF Pollable
<1> QED BY <1>1, <1>2, <1>3, <1>4, <1>6, FailedIsATask

LEMMA TypesStep ==
  ASSUME TypesInv, [ExchangeNext]_vars
  PROVE  TypesInv'
<1> USE DEF TypesInv
<1>1. ServerInv'
  BY ServerInvStep
<1>2. MaxRedirects \in Nat /\ MaxPolls \in Nat
  BY ExchangeAssumption
<1>3. ASSUME NEW c \in Calls, NEW o \in Calls, Send(c, o) PROVE MoreTypes'
  BY <1>3 DEF Send, MoreTypes, serverVars
<1>4. ASSUME NEW c \in Calls, Transport(c) PROVE MoreTypes'
  <2> USE <1>4
  <2>1. CASE LocalAnswer(c)
    <3>1. [status |-> "completed", agents |-> Append(history[object[c]], c)] \in TaskRecord
      BY ToldIsATask DEF TaskRecord, Statuses, Terminal
    <3> QED BY <2>1, <3>1 DEF LocalAnswer, Return, MoreTypes, serverVars
  <2>2. CASE LocalFailure(c) \/ Lost(c)
    BY <2>2, ToldIsATask DEF LocalFailure, Lost, Unsent, Return, MoreTypes, serverVars
  <2>3. CASE Redirected(c)
    <3>1. result' = result \/ result' = [result EXCEPT ![c] = Failed(history[object[c]])]
      BY <2>3 DEF Redirected, Return
    <3>2. redirects' \in [Calls -> 0 .. MaxRedirects] /\ method' \in [Calls -> {"POST", "GET"}]
      BY <2>3, <1>2 DEF Redirected, MoreTypes
    <3> QED BY <2>3, <3>1, <3>2, ToldIsATask DEF Redirected, MoreTypes, serverVars
  <2>4. CASE ForeignAnswer(c)
    <3>1. PICK t \in TaskRecord : result' = [result EXCEPT ![c] = t]
      BY <2>4, ToldIsATask DEF ForeignAnswer, Refuse, Receive, Return
    <3> QED BY <2>4, <3>1 DEF ForeignAnswer, MoreTypes, serverVars
  <2>5. CASE Poll(c)
    <3>1. result' = result \/ \E t \in TaskRecord : result' = [result EXCEPT ![c] = t]
      BY <2>5, ToldIsATask DEF Poll, Receive, Return
    <3>2. polls' \in [Calls -> 0 .. MaxPolls]
      BY <2>5, <1>2 DEF Poll, MoreTypes
    <3> QED BY <2>5, <3>1, <3>2 DEF Poll, MoreTypes, serverVars
  <2>6. CASE GiveUp(c)
    BY <2>6, ToldIsATask DEF GiveUp, Return, MoreTypes, serverVars
  <2> QED BY <2>1, <2>2, <2>3, <2>4, <2>5, <2>6 DEF Transport
<1>5. ASSUME NEW c \in Calls, Accept(c) \/ Handle(c) \/ Settle(c) \/ Reply(c) PROVE MoreTypes'
  <2>1. CASE Accept(c)
    <3>1. result' = result \/ result' = [result EXCEPT ![c] = Failed(history[object[c]])]
      BY <2>1 DEF Accept, Refuse, Return
    <3> QED BY <2>1, <3>1, ToldIsATask DEF Accept, MoreTypes
  <2>2. CASE Handle(c) \/ Settle(c)
    BY <2>2 DEF Handle, Settle, MoreTypes, clientVars
  <2>3. CASE Reply(c)
    <3>1. result' = result \/ result' = [result EXCEPT ![c] = served[c]]
      BY <2>3 DEF Reply, Receive, Return
    <3> QED BY <2>3, <3>1, ToldIsATask DEF Reply, MoreTypes
  <2> QED BY <1>5, <2>1, <2>2, <2>3
<1>6. ASSUME Stop \/ Restart PROVE MoreTypes'
  <2>1. NoTask \in TaskRecord
    BY DEF NoTask, TaskRecord, Statuses
  <2>2. CASE Stop
    <3>1. UNCHANGED <<request, method, redirects, polls, result>>
      BY <2>2 DEF Stop, clientVars
    <3>2. watch' = NotWatching /\ up' = FALSE
      BY <2>2 DEF Stop
    <3> QED BY <2>1, <3>1, <3>2 DEF MoreTypes, NotWatching
  <2>3. CASE Restart
    BY <2>3 DEF Restart, MoreTypes, clientVars
  <2> QED BY <1>6, <2>2, <2>3
<1>7. ASSUME NEW i \in Ids, WatchOpen(i) PROVE MoreTypes'
  <2>1. NoTask \in TaskRecord
    BY DEF NoTask, TaskRecord, Statuses
  <2>2. store[i] \in Calls
    BY <1>7 DEF WatchOpen, ServerInv, ServerTypes
  <2>3. served[store[i]].status \in Statuses
    BY <2>2 DEF ServerInv, ServerTypes
  <2>4. /\ watch'.first = served[store[i]].status /\ watch'.last = NoTask
        /\ watch'.closed = FALSE
    BY <1>7 DEF WatchOpen, NotWatching
  <2>5. UNCHANGED <<request, method, redirects, polls, result, up>>
    BY <1>7 DEF WatchOpen, clientVars, serverVars
  <2> QED BY <2>1, <2>3, <2>4, <2>5 DEF MoreTypes
<1>8. ASSUME WatchClose PROVE MoreTypes'
  <2>1. watch' = [of |-> watch.of, first |-> watch.first, last |-> served[watch.of], closed |-> TRUE]
    BY <1>8 DEF WatchClose, ServerInv, ServerTypes
  <2>2. served[watch.of] \in TaskRecord
    BY <1>8 DEF WatchClose, ServerInv, ServerTypes, TaskRecord
  <2>3. UNCHANGED <<request, method, redirects, polls, result, up>>
    BY <1>8 DEF WatchClose, clientVars, serverVars
  <2> QED BY <2>1, <2>2, <2>3 DEF MoreTypes
<1>9. ASSUME UNCHANGED vars PROVE MoreTypes'
  BY <1>9 DEF vars, clientVars, serverVars, MoreTypes
<1>10. MoreTypes'
  BY <1>3, <1>4, <1>5, <1>6, <1>7, <1>8, <1>9 DEF ExchangeNext, Server
<1> QED BY <1>1, <1>10

(* The variables of an exchange keep their types.                          *)
THEOREM ExchangeTypes == ExchangeSpec => []TypeOK
<1>1. TypesInv /\ [ExchangeNext]_vars => TypesInv'
  BY TypesStep
<1> QED BY <1>1, TypesInit, TypesImplyTypeOK, PTL DEF ExchangeSpec

(***************************************************************************)
(* When every call is made with an object of its own, what it sends,       *)
(* reads and is told holds nobody's answer but its own.                    *)
(***************************************************************************)
OwnAnswer(c, agents) == agents = <<>> \/ agents = <<c>>

WordsOf(c) ==
  /\ object[c] = c /\ sent[c] = <<>>
  /\ OwnAnswer(c, history[c]) /\ (pc[c] # "done" => history[c] = <<>>)
  /\ OwnAnswer(c, served[c].agents) /\ (thread[c] = "handling" => served[c].agents = <<>>)
  /\ OwnAnswer(c, result[c].agents)

WordsInv == ReportInv /\ TypesInv /\ \A c \in Calls : WordsOf(c)

LEMMA WordsInit == Init => WordsInv
<1> SUFFICES ASSUME Init PROVE WordsInv
  OBVIOUS
<1>1. \A c \in Calls : WordsOf(c)
  BY DEF Init, WordsOf, OwnAnswer, NoTask
<1> QED BY <1>1, ReportInvInit, TypesInit DEF WordsInv

LEMMA FirstAnswer == ASSUME NEW c PROVE Append(<<>>, c) = <<c>>
OBVIOUS

(* A step that tells call c something, and that leaves the others alone.   *)
LEMMA Tell ==
  ASSUME WordsInv, NEW c \in Calls, NEW t,
         UNCHANGED <<object, history, sent, thread, served>>,
         \A d \in Calls : d # c => pc'[d] = pc[d],
         pc[c] # "done",
         result' = [result EXCEPT ![c] = t], OwnAnswer(c, t.agents)
  PROVE  \A d \in Calls : WordsOf(d)'
<1>1. result \in [Calls -> TaskRecord]
  BY DEF WordsInv, TypesInv, MoreTypes
<1>2. result'[c] = t /\ \A d \in Calls : d # c => result'[d] = result[d]
  BY <1>1
<1> QED BY <1>2 DEF WordsInv, WordsOf, OwnAnswer

(* A step that tells nobody anything.                                      *)
LEMMA TellNothing ==
  ASSUME WordsInv, UNCHANGED <<object, history, sent, thread, served, result>>,
         \A d \in Calls : pc'[d] = pc[d] \/ pc[d] # "done"
  PROVE  \A d \in Calls : WordsOf(d)'
BY DEF WordsInv, WordsOf, OwnAnswer

LEMMA TransportKeepsWords ==
  ASSUME WordsInv, NEW c \in Calls, Transport(c)
  PROVE  \A d \in Calls : WordsOf(d)'
<1>0. /\ object[c] = c /\ OwnAnswer(c, history[object[c]]) /\ OwnAnswer(c, result[c].agents)
      /\ Failed(history[object[c]]).agents = history[object[c]]
      /\ Failed(result[c].agents).agents = result[c].agents
  BY DEF WordsInv, WordsOf, Failed
<1>1. pc \in [Calls -> {"idle", "running", "posting", "polling", "done"}]
  BY DEF WordsInv, TypesInv, ServerInv, ServerTypes
<1>2. CASE LocalAnswer(c)
  <2>1. history[object[c]] = <<>>
    BY <1>0, <1>2 DEF WordsInv, WordsOf, LocalAnswer
  <2>2. Append(history[object[c]], c) = <<c>>
    BY <2>1, FirstAnswer
  <2>3. /\ history' = [history EXCEPT ![c] = <<c>>]
        /\ pc' = [pc EXCEPT ![c] = "done"]
        /\ result' = [result EXCEPT ![c] = [status |-> "completed", agents |-> <<c>>]]
        /\ UNCHANGED <<object, sent, thread, served>>
    BY <1>0, <1>2, <2>2 DEF LocalAnswer, Return, serverVars
  <2>4. history \in [Calls -> Seq(Calls)] /\ result \in [Calls -> TaskRecord]
    BY DEF WordsInv, TypesInv, ServerInv, ServerTypes, MoreTypes
  <2>5. /\ history'[c] = <<c>> /\ pc'[c] = "done" /\ result'[c].agents = <<c>>
        /\ \A d \in Calls : d # c => /\ history'[d] = history[d] /\ pc'[d] = pc[d]
                                     /\ result'[d] = result[d]
    BY <1>1, <2>3, <2>4
  <2> QED BY <2>3, <2>5 DEF WordsInv, WordsOf, OwnAnswer
<1>3. CASE LocalFailure(c) \/ Lost(c)
  BY <1>0, <1>1, <1>3, Tell DEF LocalFailure, Lost, Unsent, Return, serverVars
<1>4. CASE Redirected(c)
  <2>1. \A d \in Calls : d # c => pc'[d] = pc[d]
    BY <1>1, <1>4 DEF Redirected, Return
  <2>2. /\ pc[c] # "done" /\ UNCHANGED <<object, history, sent, thread, served>>
        /\ result' = result \/ result' = [result EXCEPT ![c] = Failed(history[object[c]])]
    BY <1>4 DEF Redirected, Return, serverVars
  <2> QED BY <1>0, <2>1, <2>2, Tell, TellNothing
<1>5. CASE ForeignAnswer(c)
  <2>1. \A d \in Calls : d # c => pc'[d] = pc[d]
    BY <1>1, <1>5 DEF ForeignAnswer, Refuse, Receive, Return
  <2>2. /\ pc[c] # "done" /\ UNCHANGED <<object, history, sent, thread, served>>
        /\ \E t : /\ result' = [result EXCEPT ![c] = t]
                  /\ t \in ForeignTasks(c) \cup {Failed(history[object[c]])}
    BY <1>5 DEF ForeignAnswer, Refuse, Receive, Return, serverVars
  <2>3. \A t \in ForeignTasks(c) : OwnAnswer(c, t.agents)
    BY DEF ForeignTasks, OwnAnswer
  <2>4. PICK t : /\ result' = [result EXCEPT ![c] = t]
                 /\ t \in ForeignTasks(c) \cup {Failed(history[object[c]])}
    BY <2>2
  <2>5. OwnAnswer(c, t.agents)
    BY <1>0, <2>3, <2>4
  <2> QED BY <2>1, <2>2, <2>4, <2>5, Tell
<1>6. CASE Poll(c)
  <2>1. \A d \in Calls : d # c => pc'[d] = pc[d]
    BY <1>1, <1>6 DEF Poll, Receive, Return
  <2>2. request[c].peer = "foreign"
    BY <1>6 DEF Poll, WordsInv, ReportInv, TransportsApart
  <2>3. Pollable(c) = ForeignTasks(c)
    BY <2>2 DEF Pollable
  <2>4. /\ pc[c] # "done" /\ UNCHANGED <<object, history, sent, thread, served>>
        /\ \/ result' = result
           \/ \E t \in ForeignTasks(c) : result' = [result EXCEPT ![c] = t]
    BY <1>6, <2>3 DEF Poll, Receive, Return, serverVars
  <2>5. \A t \in ForeignTasks(c) : OwnAnswer(c, t.agents)
    BY DEF ForeignTasks, OwnAnswer
  <2> QED BY <2>1, <2>4, <2>5, Tell, TellNothing
<1>7. CASE GiveUp(c)
  BY <1>0, <1>1, <1>7, Tell DEF GiveUp, Return, serverVars
<1> QED BY <1>2, <1>3, <1>4, <1>5, <1>6, <1>7 DEF Transport

LEMMA ServerKeepsWords ==
  ASSUME WordsInv, Server
  PROVE  \A d \in Calls : WordsOf(d)'
<1>1. /\ pc \in [Calls -> {"idle", "running", "posting", "polling", "done"}]
      /\ thread \in [Calls -> {"none", "handling", "completed", "failed", "settled"}]
      /\ served \in [Calls -> TaskRecord] /\ result \in [Calls -> TaskRecord]
  BY DEF WordsInv, TypesInv, ServerInv, ServerTypes, MoreTypes, TaskRecord
<1>2. ASSUME NEW c \in Calls, Accept(c) PROVE \A d \in Calls : WordsOf(d)'
  <2>1. /\ UNCHANGED <<object, history, sent>>
        /\ \A d \in Calls : d # c => pc'[d] = pc[d]
        /\ pc'[c] = pc[c] \/ pc[c] # "done"
        /\ result' = result \/ result' = [result EXCEPT ![c] = Failed(history[object[c]])]
    BY <1>1, <1>2 DEF Accept, Refuse, Return
  <2>2. \/ UNCHANGED <<thread, served>>
        \/ /\ thread' = [thread EXCEPT ![c] = "handling"]
           /\ served' = [served EXCEPT ![c] = [status |-> "working", agents |-> sent[c]]]
    BY <1>2 DEF Accept
  <2>3. /\ \A d \in Calls : d # c => /\ thread'[d] = thread[d] /\ served'[d] = served[d]
                                     /\ result'[d] = result[d]
        /\ served'[c] = served[c] \/ served'[c].agents = sent[c]
        /\ thread'[c] = "handling" => served'[c].agents = <<>>
        /\ result'[c] = result[c] \/ result'[c].agents = history[object[c]]
    BY <1>1, <2>1, <2>2 DEF Failed, WordsInv, WordsOf
  <2> QED BY <2>1, <2>3 DEF WordsInv, WordsOf, OwnAnswer
<1>3. ASSUME NEW c \in Calls, Handle(c) PROVE \A d \in Calls : WordsOf(d)'
  <2>1. /\ UNCHANGED <<object, history, sent, pc, result>>
        /\ thread'[c] # "handling"
        /\ \A d \in Calls : d # c => thread'[d] = thread[d] /\ served'[d] = served[d]
        /\ served'[c].agents = Append(served[c].agents, c)
    BY <1>1, <1>3 DEF Handle, HalfSettled, clientVars
  <2>2. served[c].agents = <<>>
    BY <1>3 DEF Handle, WordsInv, WordsOf
  <2>3. served'[c].agents = <<c>>
    BY <2>1, <2>2, FirstAnswer
  <2> QED BY <2>1, <2>3 DEF WordsInv, WordsOf, OwnAnswer
<1>4. ASSUME NEW c \in Calls, Settle(c) PROVE \A d \in Calls : WordsOf(d)'
  <2>1. /\ UNCHANGED <<object, history, sent, pc, result>>
        /\ thread'[c] # "handling"
        /\ \A d \in Calls : d # c => thread'[d] = thread[d] /\ served'[d] = served[d]
        /\ served'[c].agents = Append(sent[c], c)
    BY <1>1, <1>4 DEF Settle, clientVars
  <2>2. served'[c].agents = <<c>>
    BY <2>1, FirstAnswer DEF WordsInv, WordsOf
  <2> QED BY <2>1, <2>2 DEF WordsInv, WordsOf, OwnAnswer
<1>5. ASSUME NEW c \in Calls, Reply(c) PROVE \A d \in Calls : WordsOf(d)'
  <2>1. /\ UNCHANGED <<object, history, sent, served>>
        /\ thread'[c] # "handling" /\ \A d \in Calls : d # c => thread'[d] = thread[d]
        /\ \A d \in Calls : d # c => pc'[d] = pc[d] /\ result'[d] = result[d]
        /\ pc'[c] = pc[c] \/ pc[c] # "done"
        /\ result'[c] = result[c] \/ result'[c] = served[c]
    BY <1>1, <1>5 DEF Reply, Receive, Return
  <2> QED BY <2>1 DEF WordsInv, WordsOf, OwnAnswer
<1>6. CASE Stop
  BY <1>6 DEF Stop, clientVars, WordsInv, WordsOf, OwnAnswer
<1>7. CASE Restart \/ WatchClose \/ \E i \in Ids : WatchOpen(i)
  <2>1. UNCHANGED <<object, history, sent, thread, served, result, pc>>
    BY <1>7 DEF Restart, WatchClose, WatchOpen, clientVars, serverVars
  <2> QED BY <2>1, TellNothing
<1> QED BY <1>2, <1>3, <1>4, <1>5, <1>6, <1>7 DEF Server

LEMMA SendKeepsWords ==
  ASSUME WordsInv, NEW c \in Calls, Send(c, c)
  PROVE  \A d \in Calls : WordsOf(d)'
<1>1. /\ pc \in [Calls -> {"idle", "running", "posting", "polling", "done"}]
      /\ object \in [Calls -> Calls] /\ sent \in [Calls -> Seq(Calls)]
  BY DEF WordsInv, TypesInv, ServerInv, ServerTypes
<1>2. history[c] = <<>>
  BY DEF Send, WordsInv, WordsOf
<1>3. /\ UNCHANGED <<history, thread, served, result>>
      /\ object'[c] = c /\ sent'[c] \in {sent[c], history[c]}
      /\ pc[c] # "done"
      /\ \A d \in Calls : d # c => /\ object'[d] = object[d] /\ sent'[d] = sent[d]
                                   /\ pc'[d] = pc[d]
  BY <1>1 DEF Send, serverVars
<1> QED BY <1>2, <1>3 DEF WordsInv, WordsOf, OwnAnswer

(* A call that has returned stays as it returned.                          *)
LEMMA ReturnedStays ==
  ASSUME TypesInv, [ExchangeNext]_vars, NEW d \in Calls, pc[d] = "done"
  PROVE  pc'[d] = "done" /\ result'[d] = result[d]
<1>1. /\ pc \in [Calls -> {"idle", "running", "posting", "polling", "done"}]
      /\ result \in [Calls -> TaskRecord]
  BY DEF TypesInv, ServerInv, ServerTypes, MoreTypes
<1>2. ASSUME NEW c \in Calls, NEW o \in Calls, Send(c, o) PROVE pc'[d] = "done" /\ result'[d] = result[d]
  BY <1>1, <1>2 DEF Send
<1>3. ASSUME NEW c \in Calls, Transport(c) PROVE pc'[d] = "done" /\ result'[d] = result[d]
  <2>1. c # d
    BY <1>3 DEF Transport, LocalAnswer, LocalFailure, Lost, Unsent, Redirected, ForeignAnswer, Poll, GiveUp
  <2>2. CASE LocalAnswer(c) \/ LocalFailure(c) \/ Lost(c)
    BY <1>1, <2>1, <2>2 DEF LocalAnswer, LocalFailure, Lost, Unsent, Return
  <2>3. CASE Redirected(c)
    BY <1>1, <2>1, <2>3 DEF Redirected, Return
  <2>4. CASE ForeignAnswer(c)
    BY <1>1, <2>1, <2>4 DEF ForeignAnswer, Refuse, Receive, Return
  <2>5. CASE Poll(c) \/ GiveUp(c)
    BY <1>1, <2>1, <2>5 DEF Poll, GiveUp, Receive, Return
  <2> QED BY <1>3, <2>2, <2>3, <2>4, <2>5 DEF Transport
<1>4. ASSUME NEW c \in Calls, Accept(c) \/ Handle(c) \/ Settle(c) \/ Reply(c)
      PROVE  pc'[d] = "done" /\ result'[d] = result[d]
  BY <1>1, <1>4 DEF Accept, Handle, Settle, Reply, Refuse, Receive, Return, clientVars
<1>5. ASSUME NEW i \in Ids, WatchOpen(i) PROVE pc'[d] = "done" /\ result'[d] = result[d]
  BY <1>5 DEF WatchOpen, clientVars
<1>6. CASE Stop \/ Restart \/ WatchClose \/ UNCHANGED vars
  BY <1>6 DEF Stop, Restart, WatchClose, vars, clientVars
<1> QED BY <1>2, <1>3, <1>4, <1>5, <1>6 DEF ExchangeNext, Server

(***************************************************************************)
(* The roundtable is one of the programs that share the exchange: each of  *)
(* its steps is a step of an exchange in which every call is made with an  *)
(* object of its own, or leaves the exchange alone (roundtable.py:224-242, *)
(* cli.py:937-994).                                                        *)
(***************************************************************************)
Stages == {"picking", "filling", "discussing", "quoting", "synthesizing", "done"}

TableTypes ==
  /\ session \in Sessions /\ cards \in Seq(Cards)
  /\ stage \in Stages /\ next \in Nat \ {0}
  /\ finished \in Seq(Cards)
  /\ verdict \in {"none", "nothing-to-synthesize", "synthesized", "see-the-answers"}

OwnSend == \E c \in Calls : Send(c, DeepCopy(c))

LEMMA RosterFacts ==
  /\ Cards \subseteq Calls /\ Synthesizer \in Calls
  /\ DOMAIN Roster = 1 .. Len(Roster) /\ Len(Roster) \in Nat
  /\ \A k \in DOMAIN Roster : Roster[k] \in Cards
BY RoundtableAssumption DEF Cards

LEMMA AskedAreCards ==
  ASSUME cards \in Seq(Cards)
  PROVE  /\ Asked \subseteq Cards /\ Asked \subseteq Calls
         /\ \A i \in DOMAIN cards : cards[i] \in Asked
         /\ DOMAIN cards = 1 .. Len(cards) /\ Len(cards) \in Nat
BY RosterFacts DEF Asked

LEMMA TableStepIsExchangeStep ==
  ASSUME cards \in Seq(Cards), [Next]_allVars
  PROVE  \/ OwnSend \/ Server \/ \E c \in Calls : Transport(c)
         \/ UNCHANGED vars
<1>1. CASE Table
  <2>1. ASSUME NEW i \in DOMAIN cards, Submit(i) PROVE OwnSend
    BY <2>1, AskedAreCards DEF Submit, OwnSend
  <2>2. ASSUME NEW c \in Asked, Collect(c) PROVE UNCHANGED vars
    BY <2>2 DEF Collect
  <2>3. CASE Pick \/ PickEnds \/ Fill \/ FillEnds
    BY <2>3 DEF Pick, PickEnds, Fill, FillEnds
  <2>4. CASE Assemble \/ QuoteNext \/ QuotesEnd \/ NothingToSay \/ Conclude
    BY <2>4 DEF Assemble, QuoteNext, QuotesEnd, NothingToSay, Conclude
  <2>5. CASE Synthesize
    BY <2>5, RosterFacts DEF Synthesize, OwnSend, DeepCopy
  <2> QED BY <1>1, <2>1, <2>2, <2>3, <2>4, <2>5 DEF Table
<1>2. ASSUME NEW c \in Calls, Call(c) \/ Step(c) PROVE OwnSend \/ Transport(c)
  BY <1>2 DEF Call, Step, OwnSend, DeepCopy
<1>3. CASE Serve
  BY <1>3 DEF Serve
<1>4. CASE UNCHANGED allVars
  BY <1>4 DEF allVars
<1> QED BY <1>1, <1>2, <1>3, <1>4 DEF Next

LEMMA OwnSendIsASend == OwnSend => \E c, o \in Calls : Send(c, o)
BY DEF OwnSend, DeepCopy

LEMMA TableIsExchange ==
  ASSUME cards \in Seq(Cards), [Next]_allVars
  PROVE  [ExchangeNext]_vars
BY TableStepIsExchangeStep, OwnSendIsASend DEF ExchangeNext

LEMMA WordsStep ==
  ASSUME WordsInv, cards \in Seq(Cards), [Next]_allVars
  PROVE  WordsInv'
<1>1. [ExchangeNext]_vars
  BY TableIsExchange
<1>2. ReportInv' /\ TypesInv'
  BY <1>1, ReportInvStep, TypesStep DEF WordsInv
<1>3. CASE OwnSend
  BY <1>3, SendKeepsWords, <1>2 DEF OwnSend, DeepCopy, WordsInv
<1>4. CASE Server
  BY <1>2, <1>4, ServerKeepsWords DEF WordsInv
<1>5. ASSUME NEW c \in Calls, Transport(c) PROVE WordsInv'
  BY <1>2, <1>5, TransportKeepsWords DEF WordsInv
<1>6. CASE UNCHANGED vars
  <2>1. \A d \in Calls : WordsOf(d)'
    BY <1>6, TellNothing DEF vars, clientVars, serverVars
  <2> QED BY <1>2, <2>1 DEF WordsInv
<1> QED BY <1>3, <1>4, <1>5, <1>6, TableStepIsExchangeStep

(***************************************************************************)
(* The selection.                                                          *)
(***************************************************************************)
Covered(i) == \/ \E c \in Asked : session.needed[i] \in Has[c]
              \/ \A c \in Cards : session.needed[i] \notin Has[c]

PickInv ==
  /\ \A k, l \in DOMAIN cards : cards[k] = cards[l] => k = l
  /\ Len(cards) <= session.most
  /\ stage = "picking" => \A i \in DOMAIN session.needed : i < next => Covered(i)
  /\ stage # "picking" => Full \/ \A i \in DOMAIN session.needed : Covered(i)

LEMMA SessionFacts ==
  ASSUME TableTypes
  PROVE  /\ session.most \in Nat /\ session.least \in Nat
         /\ DOMAIN session.needed = 1 .. Len(session.needed) /\ Len(session.needed) \in Nat
  BY RoundtableAssumption DEF TableTypes

(* A card is taken that was not at the table.                              *)
LEMMA OneMore ==
  ASSUME TableTypes, PickInv, NEW c \in Cards, c \notin Asked, ~Full,
         cards' = Append(cards, c), session' = session
  PROVE  /\ cards' \in Seq(Cards) /\ Len(cards') = Len(cards) + 1
         /\ \A k, l \in DOMAIN cards' : cards'[k] = cards'[l] => k = l
         /\ Len(cards') <= session'.most
         /\ Asked' = Asked \cup {c}
         /\ \A i : Covered(i) => Covered(i)'
<1>1. cards \in Seq(Cards) /\ Len(cards) \in Nat /\ DOMAIN cards = 1 .. Len(cards)
  BY DEF TableTypes
<1>2. /\ cards' \in Seq(Cards) /\ Len(cards') = Len(cards) + 1
      /\ DOMAIN cards' = 1 .. Len(cards) + 1
      /\ \A k \in 1 .. Len(cards) : cards'[k] = cards[k]
      /\ cards'[Len(cards) + 1] = c
  BY <1>1
<1>3. \A k \in 1 .. Len(cards) : cards[k] \in Asked
  BY <1>1 DEF Asked
<1>4. \A k, l \in DOMAIN cards' : cards'[k] = cards'[l] => k = l
  <2> TAKE k, l \in DOMAIN cards'
  <2>1. CASE k \in 1 .. Len(cards) /\ l \in 1 .. Len(cards)
    BY <1>1, <1>2, <2>1 DEF PickInv
  <2>2. CASE k = Len(cards) + 1 /\ l \in 1 .. Len(cards)
    BY <1>2, <1>3, <2>2
  <2>3. CASE l = Len(cards) + 1 /\ k \in 1 .. Len(cards)
    BY <1>2, <1>3, <2>3
  <2>4. CASE k = Len(cards) + 1 /\ l = Len(cards) + 1
    BY <2>4
  <2>5. /\ k \in 1 .. Len(cards) \/ k = Len(cards) + 1
        /\ l \in 1 .. Len(cards) \/ l = Len(cards) + 1
    BY <1>1, <1>2
  <2> QED BY <2>1, <2>2, <2>3, <2>4, <2>5
<1>5. Len(cards') <= session'.most
  BY <1>1, <1>2, SessionFacts DEF Full
<1>6. Asked' = Asked \cup {c}
  <2>1. \A k \in DOMAIN cards' : cards'[k] \in Asked \cup {c}
    BY <1>1, <1>2, <1>3
  <2>2. \A a \in Asked : \E k \in DOMAIN cards' : cards'[k] = a
    BY <1>1, <1>2 DEF Asked
  <2>3. \E k \in DOMAIN cards' : cards'[k] = c
    BY <1>1, <1>2
  <2>4. Asked' = { cards'[k] : k \in DOMAIN cards' }
    BY DEF Asked
  <2> QED BY <2>1, <2>2, <2>3, <2>4
<1>7. \A i : Covered(i) => Covered(i)'
  BY <1>6 DEF Covered
<1> QED BY <1>2, <1>4, <1>5, <1>6, <1>7

(* The steps that leave the table as it is.                                *)
LEMMA ElsewhereKeepsTable ==
  ASSUME [Next]_allVars, ~UNCHANGED tableVars
  PROVE  \/ Pick \/ PickEnds \/ Fill \/ FillEnds \/ \E c \in Asked : Collect(c)
         \/ Assemble \/ QuoteNext \/ QuotesEnd \/ NothingToSay \/ Conclude
BY DEF Next, Table, Submit, Synthesize, Call, Step, Serve, allVars

LEMMA PickStep ==
  ASSUME TableTypes, PickInv, [Next]_allVars
  PROVE  TableTypes' /\ PickInv'
<1>0. /\ session.most \in Nat /\ session.least \in Nat
      /\ DOMAIN session.needed = 1 .. Len(session.needed) /\ Len(session.needed) \in Nat
      /\ next \in Nat \ {0} /\ cards \in Seq(Cards) /\ Len(cards) \in Nat
  BY SessionFacts DEF TableTypes
<1>1. CASE Pick
  <2>1. stage' = stage /\ stage = "picking" /\ session' = session /\ next' = next + 1 /\ ~Full
        /\ next \in DOMAIN session.needed /\ UNCHANGED <<finished, verdict>>
    BY <1>0, <1>1 DEF Pick
  <2> DEFINE fresh == { k \in DOMAIN Roster : /\ session.needed[next] \in Has[Roster[k]]
                                              /\ Roster[k] \notin Asked }
  <2>2. CASE fresh = {} /\ UNCHANGED cards
    <3>1. Covered(next)
      BY <2>2 DEF Covered, Cards
    <3>2. Asked' = Asked /\ \A i : Covered(i)' = Covered(i)
      BY <2>1, <2>2 DEF Asked, Covered
    <3>3. PickInv'
      <4>1. \A i \in DOMAIN session.needed : i < next + 1 => Covered(i)
        BY <1>0, <2>1, <3>1 DEF PickInv
      <4> QED BY <2>1, <2>2, <3>2, <4>1 DEF PickInv
    <3> QED BY <1>0, <2>1, <2>2, <3>3 DEF TableTypes
  <2>3. CASE \E k \in fresh : cards' = Append(cards, Roster[k])
    <3>1. PICK k \in fresh : cards' = Append(cards, Roster[k])
      BY <2>3
    <3>2. /\ Roster[k] \in Cards /\ Roster[k] \notin Asked
          /\ session.needed[next] \in Has[Roster[k]]
      BY RosterFacts
    <3>3. /\ cards' \in Seq(Cards) /\ Asked' = Asked \cup {Roster[k]}
          /\ \A i, j \in DOMAIN cards' : cards'[i] = cards'[j] => i = j
          /\ Len(cards') <= session'.most
          /\ \A i : Covered(i) => Covered(i)'
      BY <2>1, <3>1, <3>2, OneMore
    <3> PICK n \in Nat : n = next
      BY <1>0
    <3>4. Covered(n)'
      BY <2>1, <3>2, <3>3 DEF Covered
    <3>5. \A i \in DOMAIN session.needed : i < next + 1 => Covered(i)'
      <4> TAKE i \in DOMAIN session.needed
      <4>1. i < next => Covered(i)'
        BY <2>1, <3>3 DEF PickInv
      <4>2. i < next + 1 => i < next \/ i = n
        BY <1>0
      <4> QED BY <3>4, <4>1, <4>2
    <3>6. PickInv'
      BY <2>1, <3>3, <3>5 DEF PickInv
    <3> QED BY <1>0, <2>1, <3>3, <3>6 DEF TableTypes
  <2> QED BY <1>1, <2>2, <2>3 DEF Pick
<1>2. CASE PickEnds
  <2>1. /\ stage = "picking" /\ stage' \in {"filling", "discussing"} /\ next' = 1
        /\ UNCHANGED <<session, cards, finished, verdict>>
        /\ next > Len(session.needed) \/ Full
    BY <1>2 DEF PickEnds
  <2>2. Full' = Full /\ Asked' = Asked /\ \A i : Covered(i)' = Covered(i)
    BY <2>1 DEF Full, Asked, Covered
  <2>3. Full \/ \A i \in DOMAIN session.needed : Covered(i)
    BY <1>0, <2>1 DEF PickInv
  <2> QED BY <2>1, <2>2, <2>3 DEF TableTypes, PickInv, Stages
<1>3. CASE Fill
  <2>1. /\ stage' = stage /\ stage = "filling" /\ session' = session /\ next' = next + 1 /\ ~Full
        /\ next \in DOMAIN Roster /\ UNCHANGED <<finished, verdict>>
        /\ \/ Roster[next] \in Asked /\ cards' = cards
           \/ Roster[next] \notin Asked /\ cards' = Append(cards, Roster[next])
    BY <1>0, <1>3, RosterFacts DEF Fill
  <2>2. CASE cards' = cards
    <3>1. Full' = Full /\ Asked' = Asked /\ \A i : Covered(i)' = Covered(i)
      BY <2>1, <2>2 DEF Full, Asked, Covered
    <3> QED BY <1>0, <2>1, <2>2, <3>1 DEF TableTypes, PickInv
  <2>3. CASE Roster[next] \notin Asked /\ cards' = Append(cards, Roster[next])
    <3>1. /\ cards' \in Seq(Cards)
          /\ \A i, j \in DOMAIN cards' : cards'[i] = cards'[j] => i = j
          /\ Len(cards') <= session'.most
          /\ \A i : Covered(i) => Covered(i)'
      BY <2>1, <2>3, RosterFacts, OneMore
    <3>2. \A i \in DOMAIN session.needed : Covered(i)'
      BY <2>1, <3>1 DEF PickInv
    <3>3. TableTypes'
      BY <1>0, <2>1, <3>1 DEF TableTypes
    <3>4. PickInv'
      BY <2>1, <3>1, <3>2 DEF PickInv
    <3> QED BY <3>3, <3>4
  <2> QED BY <2>1, <2>2, <2>3
<1>4. ASSUME UNCHANGED <<session, cards>>,
             \/ stage' = stage /\ next' = next
             \/ stage # "picking" /\ stage' # "picking"
      PROVE  PickInv'
  <2>1. Full' = Full /\ Asked' = Asked /\ \A i : Covered(i)' = Covered(i)
    BY <1>4 DEF Full, Asked, Covered
  <2> QED BY <1>4, <2>1 DEF PickInv
<1>5. ASSUME NEW c \in Asked, Collect(c) PROVE TableTypes' /\ PickInv'
  <2>1. c \in Cards
    BY <1>0, AskedAreCards
  <2>2. finished' = Append(finished, c) /\ UNCHANGED <<session, cards, stage, next, verdict>>
    BY <1>5 DEF Collect
  <2> QED BY <1>4, <2>1, <2>2 DEF TableTypes
<1>6. CASE FillEnds \/ Assemble \/ QuoteNext \/ QuotesEnd \/ NothingToSay \/ Conclude
  <2>1. /\ UNCHANGED <<session, cards, finished>> /\ stage # "picking" /\ stage' \in Stages \ {"picking"}
        /\ next' \in {1, next, next + 1}
        /\ verdict' \in {verdict, "nothing-to-synthesize", "synthesized", "see-the-answers"}
    BY <1>6 DEF FillEnds, Assemble, QuoteNext, QuotesEnd, NothingToSay, Conclude, Stages
  <2> QED BY <1>0, <1>4, <2>1 DEF TableTypes
<1>7. CASE UNCHANGED tableVars
  <2>1. UNCHANGED <<session, cards, stage, next, finished, verdict>>
    BY <1>7 DEF tableVars
  <2> QED BY <1>4, <2>1 DEF TableTypes
<1> QED BY <1>1, <1>2, <1>3, <1>5, <1>6, <1>7, ElsewhereKeepsTable

(***************************************************************************)
(* The discussion: it is over when every call has returned.                *)
(***************************************************************************)
Late == {"quoting", "synthesizing", "done"}

DiscussInv ==
  /\ \A i \in DOMAIN finished : finished[i] \in Asked /\ pc[finished[i]] = "done"
  /\ stage \in Late => \A c \in Asked : pc[c] = "done"

LEMMA DiscussStep ==
  ASSUME TypesInv, TableTypes, PickInv, DiscussInv, [Next]_allVars
  PROVE  /\ DiscussInv'
         /\ stage \in Late => \A c \in Asked : result'[c] = result[c]
<1>0. /\ cards \in Seq(Cards) /\ finished \in Seq(Cards)
  BY DEF TableTypes
<1>1. \A c \in Calls : pc[c] = "done" => pc'[c] = "done" /\ result'[c] = result[c]
  BY <1>0, TableIsExchange, ReturnedStays
<1>2. stage \in Late => \A c \in Asked : pc'[c] = "done" /\ result'[c] = result[c]
  BY <1>0, <1>1, AskedAreCards DEF DiscussInv
<1>3. \A i \in DOMAIN finished : pc'[finished[i]] = "done"
  BY <1>0, <1>1, AskedAreCards DEF DiscussInv
<1>4. ASSUME UNCHANGED <<cards, finished>>, stage' \in Late => stage \in Late
      PROVE  DiscussInv'
  <2>1. Asked' = Asked
    BY <1>4 DEF Asked
  <2> QED BY <1>2, <1>3, <1>4, <2>1 DEF DiscussInv
<1>5. ASSUME Pick \/ Fill PROVE DiscussInv'
  <2>1. finished' = finished /\ stage' = stage /\ stage \notin Late
    BY <1>5 DEF Pick, Fill, Late
  <2>2. cards' = cards \/ \E c : cards' = Append(cards, c)
    BY <1>5, Zenon DEF Pick, Fill
  <2>3. Asked \subseteq Asked'
    <3>1. CASE cards' = cards
      BY <3>1 DEF Asked
    <3>2. ASSUME NEW c, cards' = Append(cards, c) PROVE Asked \subseteq Asked'
      <4>1. DOMAIN cards \subseteq DOMAIN cards' /\ \A k \in DOMAIN cards : cards'[k] = cards[k]
        BY <1>0, <3>2
      <4> QED BY <4>1 DEF Asked
    <3> QED BY <2>2, <3>1, <3>2
  <2> QED BY <1>3, <2>1, <2>3 DEF DiscussInv
<1>6. ASSUME NEW c \in Asked, Collect(c) PROVE DiscussInv'
  <2>1. /\ finished' = Append(finished, c) /\ UNCHANGED <<cards, stage>> /\ stage \notin Late
        /\ pc[c] = "done"
    BY <1>6 DEF Collect, Late
  <2>2. c \in Calls
    BY <1>0, AskedAreCards
  <2>3. \A i \in DOMAIN finished' : finished'[i] = c \/ \E j \in DOMAIN finished : finished'[i] = finished[j]
    BY <1>0, <2>1
  <2>4. Asked' = Asked
    BY <2>1 DEF Asked
  <2> QED BY <1>1, <1>3, <2>1, <2>2, <2>3, <2>4 DEF DiscussInv
<1>7. ASSUME Assemble PROVE DiscussInv'
  <2>1. UNCHANGED <<cards, finished>> /\ Asked \subseteq Collected
    BY <1>7 DEF Assemble
  <2>2. Asked' = Asked
    BY <2>1 DEF Asked
  <2>3. \A c \in Asked : pc'[c] = "done"
    BY <1>3, <2>1 DEF Collected
  <2> QED BY <1>3, <2>1, <2>2, <2>3 DEF DiscussInv
<1>8. ASSUME PickEnds \/ FillEnds \/ QuoteNext \/ QuotesEnd \/ NothingToSay \/ Conclude PROVE DiscussInv'
  BY <1>4, <1>8 DEF PickEnds, FillEnds, QuoteNext, QuotesEnd, NothingToSay, Conclude, Late
<1>9. ASSUME UNCHANGED tableVars PROVE DiscussInv'
  BY <1>4, <1>9 DEF tableVars
<1> QED BY <1>2, <1>5, <1>6, <1>7, <1>8, <1>9, ElsewhereKeepsTable

(***************************************************************************)
(* The conversation: what it quotes of the cards before the n-th.          *)
(***************************************************************************)
Quotations == [card : Cards, author : Calls]

QuotedUpTo(n) ==
  /\ \A i \in DOMAIN conversation :
       /\ conversation[i].author = conversation[i].card
       /\ \E k \in DOMAIN cards : /\ k < n /\ conversation[i].card = cards[k]
                                  /\ Answered(cards[k])
  /\ \A i, j \in DOMAIN conversation : \A k, l \in DOMAIN cards :
       i < j /\ conversation[i].card = cards[k] /\ conversation[j].card = cards[l] => k < l
  /\ \A k \in DOMAIN cards :
       k < n /\ Answered(cards[k]) => \E i \in DOMAIN conversation : conversation[i].card = cards[k]

QuoteInv ==
  /\ conversation \in Seq(Quotations)
  /\ stage \notin Late => conversation = <<>>
  /\ stage = "quoting" => QuotedUpTo(next)
  /\ stage \in {"synthesizing", "done"} => QuotedUpTo(Len(cards) + 1)

LEMMA AnsweredInOwnWords ==
  ASSUME WordsInv, NEW c \in Cards, Answered(c)
  PROVE  Quote(c) = [card |-> c, author |-> c] /\ Quote(c) \in Quotations
<1>1. c \in Calls
  BY RosterFacts
<1>2. result[c].agents = <<c>>
  BY <1>1 DEF WordsInv, WordsOf, OwnAnswer, Answered
<1>3. <<c>>[Len(<<c>>)] = c
  OBVIOUS
<1>4. Quote(c) = [card |-> c, author |-> c]
  BY <1>2, <1>3 DEF Quote
<1> QED BY <1>1, <1>4 DEF Quotations

(* One more quotation, of a card that comes after those quoted.            *)
LEMMA OneQuotation ==
  ASSUME TableTypes, PickInv, QuoteInv, WordsInv, QuotedUpTo(next),
         next \in DOMAIN cards, Answered(cards[next]),
         UNCHANGED <<cards, result>>, next' = next + 1,
         conversation' = Append(conversation, Quote(cards[next]))
  PROVE  QuotedUpTo(next)' /\ conversation' \in Seq(Quotations)
<1> DEFINE q == Quote(cards[next])
           n == Len(conversation)
<1>1. cards \in Seq(Cards) /\ cards[next] \in Cards /\ next \in Nat /\ DOMAIN cards \subseteq Nat
  BY DEF TableTypes
<1>2. q = [card |-> cards[next], author |-> cards[next]] /\ q \in Quotations
  BY <1>1, AnsweredInOwnWords
<1>3. q.card = cards[next] /\ q.author = cards[next]
  BY <1>2
<1> HIDE DEF q
<1>4. conversation' = Append(conversation, q)
  BY DEF q
<1>5. /\ conversation' \in Seq(Quotations) /\ n \in Nat /\ DOMAIN conversation = 1 .. n
      /\ DOMAIN conversation' = 1 .. n + 1 /\ conversation'[n + 1] = q
      /\ \A i \in 1 .. n : conversation'[i] = conversation[i]
  BY <1>2, <1>4 DEF QuoteInv
<1> HIDE DEF n
<1>6. \A k \in DOMAIN cards : Answered(cards[k])' = Answered(cards[k])
  BY DEF Answered
<1>7. \A i \in DOMAIN conversation' :
        /\ conversation'[i].author = conversation'[i].card
        /\ \E k \in DOMAIN cards : k < next + 1 /\ conversation'[i].card = cards[k] /\ Answered(cards[k])
  <2> TAKE i \in DOMAIN conversation'
  <2>1. CASE i \in 1 .. n
    <3>1. PICK k \in DOMAIN cards : k < next /\ conversation[i].card = cards[k] /\ Answered(cards[k])
      BY <1>5, <2>1 DEF QuotedUpTo
    <3>2. k < next + 1
      BY <1>1, <3>1
    <3> QED BY <1>5, <2>1, <3>1, <3>2 DEF QuotedUpTo
  <2>2. CASE i = n + 1
    <3>1. next < next + 1
      BY <1>1
    <3> QED BY <1>3, <1>5, <2>2, <3>1
  <2> QED BY <1>5, <2>1, <2>2
<1>8. ASSUME NEW i \in DOMAIN conversation', NEW j \in DOMAIN conversation',
             NEW k \in DOMAIN cards, NEW l \in DOMAIN cards, i < j,
             conversation'[i].card = cards[k], conversation'[j].card = cards[l]
      PROVE  k < l
  <2>1. i \in 1 .. n /\ (j \in 1 .. n \/ j = n + 1)
    BY <1>5, <1>8
  <2>2. CASE j \in 1 .. n
    BY <1>5, <1>8, <2>1, <2>2 DEF QuotedUpTo
  <2>3. CASE j = n + 1
    <3>1. l = next
      BY <1>3, <1>5, <1>8, <2>3 DEF PickInv
    <3>2. PICK m \in DOMAIN cards : m < next /\ conversation[i].card = cards[m]
      BY <1>5, <2>1 DEF QuotedUpTo
    <3>3. m = k
      BY <1>5, <1>8, <2>1, <3>2 DEF PickInv
    <3> QED BY <3>1, <3>2, <3>3
  <2> QED BY <2>1, <2>2, <2>3
<1>9. ASSUME NEW k \in DOMAIN cards, k < next + 1, Answered(cards[k])
      PROVE  \E i \in DOMAIN conversation' : conversation'[i].card = cards[k]
  <2>1. CASE k = next
    <3>1. n + 1 \in DOMAIN conversation'
      BY <1>5
    <3> QED BY <1>3, <1>5, <2>1, <3>1
  <2>2. CASE k # next
    <3>1. k < next
      BY <1>1, <1>9, <2>2
    <3>2. PICK i \in DOMAIN conversation : conversation[i].card = cards[k]
      BY <1>9, <3>1 DEF QuotedUpTo
    <3>3. i \in DOMAIN conversation' /\ conversation'[i] = conversation[i]
      BY <1>5
    <3> QED BY <3>2, <3>3
  <2> QED BY <2>1, <2>2
<1> QED BY <1>5, <1>6, <1>7, <1>8, <1>9 DEF QuotedUpTo

LEMMA QuoteStep ==
  ASSUME WordsInv, TableTypes, PickInv, DiscussInv, QuoteInv, [Next]_allVars
  PROVE  QuoteInv'
<1>0. cards \in Seq(Cards) /\ next \in Nat /\ DOMAIN cards = 1 .. Len(cards) /\ Len(cards) \in Nat
  BY DEF TableTypes
<1>1. ASSUME stage \in Late, UNCHANGED <<cards, conversation>>, NEW n, QuotedUpTo(n)
      PROVE  QuotedUpTo(n)'
  <2>1. \A k \in DOMAIN cards : Answered(cards[k])' = Answered(cards[k])
    BY <1>0, <1>1, AskedAreCards, DiscussStep DEF Answered, WordsInv
  <2> QED BY <1>1, <2>1 DEF QuotedUpTo
<1>2. ASSUME stage \notin Late, stage' \notin Late, conversation' = conversation
      PROVE  QuoteInv'
  BY <1>2 DEF QuoteInv, Late
<1>3. CASE Pick \/ PickEnds \/ Fill \/ FillEnds \/ \E c \in Asked : Collect(c)
  BY <1>2, <1>3 DEF Pick, PickEnds, Fill, FillEnds, Collect, Late
<1>4. CASE Assemble
  <2>1. conversation' = <<>> /\ next' = 1 /\ cards' = cards /\ stage' = "quoting"
    BY <1>4 DEF Assemble, QuoteInv, Late
  <2>2. QuotedUpTo(next)'
    BY <1>0, <2>1 DEF QuotedUpTo
  <2> QED BY <2>1, <2>2 DEF QuoteInv, Late
<1>5. CASE QuoteNext
  <2>1. /\ stage = "quoting" /\ stage' = "quoting" /\ next' = next + 1 /\ next \in DOMAIN cards
        /\ UNCHANGED <<cards, result>>
    BY <1>0, <1>5 DEF QuoteNext, vars, clientVars, TableTypes
  <2>2. QuotedUpTo(next)
    BY <2>1 DEF QuoteInv
  <2>3. CASE Answered(cards[next])
    <3>1. conversation' = Append(conversation, Quote(cards[next]))
      BY <1>5, <2>3 DEF QuoteNext
    <3> QED BY <2>1, <2>2, <2>3, <3>1, OneQuotation DEF QuoteInv, Late
  <2>4. CASE ~Answered(cards[next])
    <3>1. conversation' = conversation
      BY <1>5, <2>4 DEF QuoteNext
    <3>2. \A k \in DOMAIN cards : Answered(cards[k])' = Answered(cards[k])
      BY <2>1 DEF Answered
    <3>3. \A k \in DOMAIN cards : Answered(cards[k]) => (k < next + 1 <=> k < next)
      BY <1>0, <2>4
    <3>4. QuotedUpTo(next)'
      BY <2>1, <2>2, <3>1, <3>2, <3>3 DEF QuotedUpTo
    <3> QED BY <2>1, <3>1, <3>4 DEF QuoteInv, Late
  <2> QED BY <2>3, <2>4
<1>6. CASE QuotesEnd
  <2>1. /\ stage = "quoting" /\ stage' = "synthesizing" /\ next > Len(cards)
        /\ UNCHANGED <<cards, conversation, next>>
    BY <1>6 DEF QuotesEnd
  <2>2. QuotedUpTo(next)'
    BY <1>1, <2>1 DEF QuoteInv, Late
  <2>3. \A k \in DOMAIN cards : k < next /\ k < Len(cards) + 1
    BY <1>0, <2>1
  <2>4. QuotedUpTo(Len(cards) + 1)'
    BY <2>1, <2>2, <2>3 DEF QuotedUpTo
  <2> QED BY <2>1, <2>4 DEF QuoteInv, Late
<1>7. CASE NothingToSay \/ Conclude
  <2>1. stage = "synthesizing" /\ stage' = "done" /\ UNCHANGED <<cards, conversation>>
    BY <1>7 DEF NothingToSay, Conclude
  <2>2. QuotedUpTo(Len(cards) + 1)'
    BY <1>1, <2>1 DEF QuoteInv, Late
  <2> QED BY <2>1, <2>2 DEF QuoteInv, Late
<1>8. CASE UNCHANGED tableVars
  <2>1. UNCHANGED <<cards, conversation, next, stage>>
    BY <1>8 DEF tableVars
  <2>2. CASE stage \notin Late
    BY <1>2, <2>1, <2>2
  <2>3. CASE stage = "quoting"
    <3>1. QuotedUpTo(next)'
      BY <1>1, <2>1, <2>3 DEF QuoteInv, Late
    <3> QED BY <2>1, <2>3, <3>1 DEF QuoteInv, Late
  <2>4. CASE stage \in {"synthesizing", "done"}
    <3>1. QuotedUpTo(Len(cards) + 1)'
      BY <1>1, <2>1, <2>4 DEF QuoteInv, Late
    <3> QED BY <2>1, <2>4, <3>1 DEF QuoteInv, Late
  <2> QED BY <2>2, <2>3, <2>4 DEF Late
<1> QED BY <1>3, <1>4, <1>5, <1>6, <1>7, <1>8, ElsewhereKeepsTable

(***************************************************************************)
(* The theorems about the roundtable.                                      *)
(***************************************************************************)
TableInv == WordsInv /\ TableTypes /\ PickInv /\ DiscussInv /\ QuoteInv

LEMMA TableInitInv == TableInit => TableInv
<1> SUFFICES ASSUME TableInit PROVE TableInv
  OBVIOUS
<1>1. WordsInv
  BY WordsInit DEF TableInit
<1>2. /\ session \in Sessions /\ cards = <<>> /\ stage = "picking" /\ next = 1
      /\ finished = <<>> /\ conversation = <<>> /\ verdict = "none"
  BY DEF TableInit
<1>3. TableTypes
  BY <1>2 DEF TableTypes, Stages
<1>4. PickInv
  <2>1. session.most \in Nat /\ DOMAIN session.needed = 1 .. Len(session.needed)
    BY <1>3, SessionFacts
  <2>2. Len(cards) = 0 /\ DOMAIN cards = {}
    BY <1>2
  <2> QED BY <1>2, <2>1, <2>2 DEF PickInv
<1>5. DiscussInv /\ QuoteInv
  BY <1>2 DEF DiscussInv, QuoteInv, Late
<1> QED BY <1>1, <1>3, <1>4, <1>5 DEF TableInv

LEMMA TableInvStep == TableInv /\ [Next]_allVars => TableInv'
<1> SUFFICES ASSUME TableInv, [Next]_allVars PROVE TableInv'
  OBVIOUS
<1>1. /\ WordsInv /\ TypesInv /\ TableTypes /\ PickInv /\ DiscussInv /\ QuoteInv
      /\ cards \in Seq(Cards)
  BY DEF TableInv, WordsInv, TableTypes
<1>2. WordsInv'
  BY <1>1, WordsStep
<1>3. TableTypes' /\ PickInv'
  BY <1>1, PickStep
<1>4. DiscussInv'
  BY <1>1, DiscussStep
<1>5. QuoteInv'
  BY <1>1, QuoteStep
<1> QED BY <1>2, <1>3, <1>4, <1>5 DEF TableInv

LEMMA TableSafety == Spec => []TableInv
<1>1. TableInv /\ [Next]_allVars => TableInv'
  BY TableInvStep
<1> QED BY <1>1, TableInitInv, PTL DEF Spec

(* The roundtable and the users of a2a-call beside it behave as an exchange
   (roundtable.py:224-242, cli.py:937-994).                                *)
THEOREM TableIsAnExchange == Spec => ExchangeSpec
<1>1. TableInit => Init
  BY DEF TableInit
<1>2. TableInv /\ [Next]_allVars => [ExchangeNext]_vars
  BY TableIsExchange DEF TableInv, TableTypes
<1> QED BY <1>1, <1>2, TableSafety, PTL DEF Spec, ExchangeSpec

(* ... so nothing of theirs runs twice or is reported done that was not,
   and no reader of their tasks is misled.                                 *)
THEOREM TableIsTruthful == Spec => []ExchangeIsHonest
<1>1. Truthful /\ HonestReaders => ExchangeIsHonest
  BY DEF ExchangeIsHonest
<1> QED BY <1>1, TableIsAnExchange, ReportedIsTrue, ReadersAreNotMisled, PTL

(* The variables of the roundtable keep their types.                       *)
THEOREM TableTypesHold == Spec => []TableTypeOK
<1>1. TableInv => TableTypeOK
  BY TypesImplyTypeOK DEF TableInv, WordsInv, TableTypes, Stages, QuoteInv, Quotations, TableTypeOK
<1> QED BY <1>1, TableSafety, PTL

(* The right participants are heard, each in its own words, once and in the
   order of the cards, in whatever order threads, servers and networks
   answer (roundtable.py:159-182, 224-278).                                *)
THEOREM TheRightWordsAreHeard == Spec => []RightWordsHeard
<1>1. TableInv => Independent
  <2> SUFFICES ASSUME TableInv, NEW c \in Asked
               PROVE  sent[c] = <<>> /\ \A i \in DOMAIN result[c].agents : result[c].agents[i] = c
    BY DEF Independent
  <2>1. c \in Calls
    BY AskedAreCards DEF TableInv, TableTypes
  <2>2. sent[c] = <<>> /\ OwnAnswer(c, result[c].agents)
    BY <2>1 DEF TableInv, WordsInv, WordsOf
  <2>3. \A i \in DOMAIN <<c>> : <<c>>[i] = c
    OBVIOUS
  <2> QED BY <2>2, <2>3 DEF OwnAnswer
<1>2. TableInv => Attributed
  <2> SUFFICES ASSUME TableInv, stage \in {"synthesizing", "done"}
               PROVE  Attributed
    BY DEF Attributed
  <2>1. QuotedUpTo(Len(cards) + 1)
    BY DEF TableInv, QuoteInv
  <2>2. \A k \in DOMAIN cards : k < Len(cards) + 1
    BY DEF TableInv, TableTypes
  <2> QED BY <2>1, <2>2 DEF QuotedUpTo, Attributed
<1>3. TableInv => TableCovers
  BY DEF TableInv, PickInv, TableCovers, Covered
<1>4. TableInv => RightWordsHeard
  BY <1>1, <1>2, <1>3 DEF RightWordsHeard, OwnWords
<1> QED BY <1>4, TableSafety, PTL
=============================================================================
