----------------------------- MODULE A2AExchange -----------------------------
(***************************************************************************)
(* Sending an A2A task and answering one: the transports a task can take   *)
(* (adapters/a2a/client.py, transports/{http,local_shell,mock}.py), the    *)
(* HTTP server with its threads, its in-memory store and its skill         *)
(* handlers (adapters/a2a/{server,handlers}.py), and a network that loses  *)
(* and delays requests and answers.                                        *)
(*                                                                         *)
(* A call is one send_task.  Abstracted: the text of messages (a message   *)
(* is the call whose answer it is), artifacts, timestamps, the contents of *)
(* a skill's answer, and the rules by which an address is refused (a       *)
(* request that may not be sent is one that is lost).  An A2A server that  *)
(* is not autodev's may answer anything.                                   *)
(***************************************************************************)
EXTENDS Naturals, FiniteSets, Sequences

CONSTANTS Calls,        (* every send_task of the run                      *)
          TaskOf,       (* the id of the A2ATask each call sends           *)
          Requests,     (* what each call may ask of whom                  *)
          Skills,       (* SKILL_HANDLERS                                  *)
          MaxRedirects, (* 5 in _make_request                              *)
          MaxPolls      (* max_poll_attempts                               *)

Transports == {"a2a-http", "local-shell", "mock"}
Terminal == {"completed", "failed", "canceled"}
(* "input-required" is left out: the code treats it as it does "working".  *)
Statuses == {"submitted", "working"} \cup Terminal

Request == [transport : STRING, peer : {"autodev", "foreign", "none"},
            token : BOOLEAN, skill : STRING]

ASSUME ExchangeAssumption ==
  /\ DOMAIN TaskOf = Calls /\ DOMAIN Requests = Calls
  /\ \A c \in Calls : Requests[c] \subseteq Request
  /\ "none" \notin Calls
  /\ MaxRedirects \in Nat /\ MaxPolls \in Nat

VARIABLES
  request,   (* what each call asks                                        *)
  object,    (* the A2ATask object the call was given: the call it was
                made for                                                   *)
  history,   (* the agents' messages in every such object                  *)
  sent,      (* the agents' messages in the payload a call put on the wire *)
  pc,        (* idle, running (a local transport), posting, polling, done  *)
  method,    (* the method of the request being made                       *)
  redirects, (* redirects it has followed                                  *)
  polls,     (* GETs made by _poll_until_done                              *)
  result,    (* the task send_task holds and finally returns               *)
  wire,      (* calls whose request the server may still accept            *)
  up,        (* the server process is alive                                *)
  store,     (* _TaskStore: the object stored under each task id           *)
  thread,    (* the server thread of a call's request                      *)
  served,    (* the server's own object for a call's request               *)
  executed,  (* how often a skill handler ran for a call                   *)
  watch      (* one reader of /tasks/{id}/events: what it was sent         *)

clientVars == <<object, history, sent, pc, method, redirects, polls, result>>
serverVars == <<up, store, thread, served, executed>>
vars == <<request, clientVars, wire, serverVars, watch>>
-----------------------------------------------------------------------------
NoTask == [status |-> "submitted", agents |-> <<>>]
NoCall == "none"
NotWatching == [of |-> NoCall, first |-> "none", last |-> NoTask, closed |-> FALSE]
Ids == { TaskOf[c] : c \in Calls }

Init == /\ request \in [Calls -> UNION { Requests[c] : c \in Calls }]
        /\ \A c \in Calls : request[c] \in Requests[c]
        /\ object = [c \in Calls |-> c]
        /\ history = [c \in Calls |-> <<>>]
        /\ sent = [c \in Calls |-> <<>>]
        /\ pc = [c \in Calls |-> "idle"]
        /\ method = [c \in Calls |-> "POST"]
        /\ redirects = [c \in Calls |-> 0]
        /\ polls = [c \in Calls |-> 0]
        /\ result = [c \in Calls |-> NoTask]
        /\ wire = {} /\ up = TRUE
        /\ store = [i \in Ids |-> NoCall]
        /\ thread = [c \in Calls |-> "none"]
        /\ served = [c \in Calls |-> NoTask]
        /\ executed = [c \in Calls |-> 0]
        /\ watch = NotWatching

(* A2AClient._get_transport: a name outside the registry gets the mock.    *)
TransportFor(c) == IF request[c].transport \in Transports
                   THEN request[c].transport ELSE "mock"

(* The server behind the endpoint can accept a connection now.             *)
Listening(c) == request[c].peer = "foreign" \/ (request[c].peer = "autodev" /\ up)

(* send_task begins, given object o: the HTTP transport dumps the task and
   posts it, the other transports read its last user message.              *)
Send(c, o) ==
  /\ pc[c] = "idle"
  /\ object' = [object EXCEPT ![c] = o]
  /\ IF TransportFor(c) = "a2a-http"
     THEN /\ pc' = [pc EXCEPT ![c] = "posting"]
          /\ sent' = [sent EXCEPT ![c] = history[o]]
          /\ wire' = IF Listening(c) THEN wire \cup {c} ELSE wire
     ELSE pc' = [pc EXCEPT ![c] = "running"] /\ UNCHANGED <<sent, wire>>
  /\ UNCHANGED <<request, history, method, redirects, polls, result, serverVars, watch>>

(* send_task returns t.                                                    *)
Return(c, t) == /\ pc' = [pc EXCEPT ![c] = "done"]
                /\ result' = [result EXCEPT ![c] = t]

(* _fail_task: the task in hand is marked FAILED; the reason becomes an
   artifact, not a message.                                                *)
Failed(agents) == [status |-> "failed", agents |-> agents]
-----------------------------------------------------------------------------
(* MockTransport, and LocalShellTransport with a claude that is missing (a
   mock answers), succeeds, or fails; only a failure without output fails
   the task.  The answer goes into the object the transport was given.     *)
LocalAnswer(c) ==
  /\ pc[c] = "running"
  /\ LET agents == Append(history[object[c]], c)
     IN  /\ history' = [history EXCEPT ![object[c]] = agents]
         /\ Return(c, [status |-> "completed", agents |-> agents])
  /\ UNCHANGED <<request, object, sent, method, redirects, polls, wire, serverVars, watch>>

LocalFailure(c) ==
  /\ pc[c] = "running" /\ TransportFor(c) = "local-shell"
  /\ Return(c, Failed(history[object[c]]))
  /\ UNCHANGED <<request, object, history, sent, method, redirects, polls, wire,
                 serverVars, watch>>
-----------------------------------------------------------------------------
(* The HTTP transport.                                                     *)

(* _validate_url, _resolve_and_pin_host: to an address that is refused, or
   whose name has none, nothing is sent.                                   *)
Unsent(c) == wire' = wire \ {c}

(* No answer to the POST: refused address or connection, reset, timeout.
   The request may still be on its way to the server.                      *)
Lost(c) ==
  /\ pc[c] = "posting"
  /\ Return(c, Failed(history[object[c]]))
  /\ Unsent(c) \/ UNCHANGED wire
  /\ UNCHANGED <<request, object, history, sent, method, redirects, polls, serverVars, watch>>

(* A proxy or a foreign server answers with a redirect: 301, 302 and 303
   make the next request a GET without a body, 307 and 308 do not; after
   too many there is no answer.                                            *)
Redirected(c) ==
  /\ pc[c] = "posting" /\ c \in wire
  /\ IF redirects[c] = MaxRedirects
     THEN /\ wire' = wire \ {c}
          /\ Return(c, Failed(history[object[c]])) /\ UNCHANGED <<redirects, method>>
     ELSE /\ redirects' = [redirects EXCEPT ![c] = @ + 1]
          /\ method' \in {[method EXCEPT ![c] = "GET"], method}
          /\ UNCHANGED <<pc, result, wire>>
  /\ UNCHANGED <<request, object, history, sent, polls, serverVars, watch>>

(* send_task on the answer to its POST: an error or a body that is no task
   fails it, a terminal task is returned, any other is polled for.         *)
Refuse(c) == Return(c, Failed(history[object[c]]))

Receive(c, t) == IF t.status \in Terminal
                 THEN Return(c, t)
                 ELSE /\ pc' = [pc EXCEPT ![c] = "polling"]
                      /\ result' = [result EXCEPT ![c] = t]

(* What a server that is not autodev's may answer, as a task.              *)
ForeignTasks(c) == [status : Statuses, agents : {<<>>, <<c>>}]

ForeignAnswer(c) ==
  /\ pc[c] = "posting" /\ c \in wire /\ request[c].peer = "foreign"
  /\ wire' = wire \ {c}
  /\ Refuse(c) \/ \E t \in ForeignTasks(c) : Receive(c, t)
  /\ UNCHANGED <<request, object, history, sent, method, redirects, polls, serverVars, watch>>

(* What a GET of the task can answer.                                      *)
Stored(i) == IF store[i] = NoCall THEN {} ELSE {served[store[i]]}
Pollable(c) == CASE request[c].peer = "foreign" -> ForeignTasks(c)
                 [] request[c].peer = "autodev" /\ up -> Stored(TaskOf[c])
                 [] OTHER -> {}

(* Mutant: one round too many.                                             *)
PollOnceMore(c) ==
  /\ pc[c] = "polling" /\ polls[c] <= MaxPolls
  /\ polls' = [polls EXCEPT ![c] = @ + 1]
  /\ \/ UNCHANGED <<pc, result>>
     \/ \E t \in Pollable(c) : Receive(c, t)
  /\ UNCHANGED <<request, object, history, sent, method, redirects, wire, serverVars, watch>>

(* One round of _poll_until_done: no answer, an error or a body that is no
   task is a transient failure; the last task seen is kept.                *)
Poll(c) ==
  /\ pc[c] = "polling" /\ polls[c] < MaxPolls
  /\ polls' = [polls EXCEPT ![c] = @ + 1]
  /\ \/ UNCHANGED <<pc, result>>
     \/ \E t \in Pollable(c) : Receive(c, t)
  /\ UNCHANGED <<request, object, history, sent, method, redirects, wire, serverVars, watch>>

(* Mutant: the last task seen is returned as it is.                        *)
GiveUpAsItIs(c) ==
  /\ pc[c] = "polling" /\ polls[c] = MaxPolls
  /\ Return(c, result[c])
  /\ UNCHANGED <<request, object, history, sent, method, redirects, polls, wire,
                 serverVars, watch>>

(* max_poll_attempts without a finished task.                              *)
GiveUp(c) ==
  /\ pc[c] = "polling" /\ polls[c] = MaxPolls
  /\ Return(c, Failed(result[c].agents))
  /\ UNCHANGED <<request, object, history, sent, method, redirects, polls, wire,
                 serverVars, watch>>
-----------------------------------------------------------------------------
(* The server: one thread per request.                                     *)

(* _check_auth and the checks of _handle_tasks_send before dispatch.  A
   redirected GET of /tasks/send asks for a task named "send": 404.        *)
Admitted(c) == method[c] = "POST" /\ request[c].token /\ request[c].skill \in Skills

(* do_POST reads the request, whether or not the client still waits.       *)
Accept(c) ==
  /\ c \in wire /\ up /\ request[c].peer = "autodev"
  /\ wire' = wire \ {c}
  /\ IF Admitted(c)
     THEN /\ thread' = [thread EXCEPT ![c] = "handling"]
          /\ served' = [served EXCEPT ![c] = [status |-> "working", agents |-> sent[c]]]
          /\ store' = [store EXCEPT ![TaskOf[c]] = c]
          /\ UNCHANGED <<pc, result>>
     ELSE /\ IF pc[c] = "posting" THEN Refuse(c) ELSE UNCHANGED <<pc, result>>
          /\ UNCHANGED <<thread, served, store>>
  /\ UNCHANGED <<request, object, history, sent, method, redirects, polls, up,
                 executed, watch>>

(* Mutant: the status is set before the answer is appended.                *)
StatusOnly(t, c, s) == [t EXCEPT !.status = s]

(* _complete and _fail, after the first of their two statements.           *)
HalfSettled(t, c, s) == [status |-> t.status, agents |-> Append(t.agents, c)]

(* The handler runs the skill and appends the answer to the object in the
   store ...                                                               *)
Handle(c) ==
  /\ thread[c] = "handling"
  /\ executed' = [executed EXCEPT ![c] = @ + 1]
  /\ \E s \in {"completed", "failed"} :
       /\ thread' = [thread EXCEPT ![c] = s]
       /\ served' = [served EXCEPT ![c] = HalfSettled(@, c, s)]
  /\ UNCHANGED <<request, clientVars, wire, up, store, watch>>

(* ... and then sets its status.                                           *)
Settle(c) ==
  /\ thread[c] \in {"completed", "failed"}
  /\ served' = [served EXCEPT ![c] = [status |-> thread[c], agents |-> Append(sent[c], c)]]
  /\ thread' = [thread EXCEPT ![c] = "settled"]
  /\ UNCHANGED <<request, clientVars, wire, up, store, executed, watch>>

(* The task is stored again and sent, to a client that may have gone.      *)
Reply(c) ==
  /\ thread[c] = "settled"
  /\ thread' = [thread EXCEPT ![c] = "none"]
  /\ store' = [store EXCEPT ![TaskOf[c]] = c]
  /\ IF pc[c] = "posting" THEN Receive(c, served[c]) ELSE UNCHANGED <<pc, result>>
  /\ UNCHANGED <<request, object, history, sent, method, redirects, polls, wire, up,
                 served, executed, watch>>

(* SIGTERM or a crash: serve_forever returns, the threads are daemons and
   die with the process, and so do the store and every open connection.    *)
Stop ==
  /\ up
  /\ up' = FALSE
  /\ store' = [i \in Ids |-> NoCall]
  /\ thread' = [c \in Calls |-> "none"]
  /\ wire' = { c \in wire : request[c].peer # "autodev" }
  /\ watch' = NotWatching
  /\ UNCHANGED <<request, clientVars, served, executed>>

Restart == /\ ~up /\ up' = TRUE
           /\ UNCHANGED <<request, clientVars, wire, store, thread, served, executed, watch>>

(* _handle_task_events: the status of the stored object, then, in a later
   write, all of it.                                                       *)
WatchOpen(i) ==
  /\ up /\ watch.of = NoCall /\ store[i] # NoCall
  /\ watch' = [NotWatching EXCEPT !.of = store[i], !.first = served[store[i]].status]
  /\ UNCHANGED <<request, clientVars, wire, serverVars>>

WatchClose ==
  /\ up /\ watch.of # NoCall /\ ~watch.closed
  /\ watch' = [watch EXCEPT !.last = served[watch.of], !.closed = TRUE]
  /\ UNCHANGED <<request, clientVars, wire, serverVars>>
-----------------------------------------------------------------------------
Transport(c) == \/ LocalAnswer(c) \/ LocalFailure(c)
                \/ Lost(c) \/ Redirected(c) \/ ForeignAnswer(c)
                \/ Poll(c) \/ GiveUp(c)

Server == \/ \E c \in Calls : Accept(c) \/ Handle(c) \/ Settle(c) \/ Reply(c)
          \/ Stop \/ Restart
          \/ \E i \in Ids : WatchOpen(i)
          \/ WatchClose

(* Whatever programs share the transports and the server: each call may be
   made at any time, with any call's task.                                 *)
ExchangeNext == \/ \E c, o \in Calls : Send(c, o)
                \/ \E c \in Calls : Transport(c)
                \/ Server

ExchangeSpec == Init /\ [][ExchangeNext]_vars
-----------------------------------------------------------------------------
TaskRecord == [status : Statuses, agents : Seq(Calls)]

TypeOK ==
  /\ \A c \in Calls : request[c] \in Requests[c]
  /\ object \in [Calls -> Calls]
  /\ history \in [Calls -> Seq(Calls)] /\ sent \in [Calls -> Seq(Calls)]
  /\ pc \in [Calls -> {"idle", "running", "posting", "polling", "done"}]
  /\ method \in [Calls -> {"POST", "GET"}]
  /\ redirects \in [Calls -> 0..MaxRedirects]
  /\ polls \in [Calls -> 0..MaxPolls]
  /\ result \in [Calls -> TaskRecord] /\ served \in [Calls -> TaskRecord]
  /\ wire \subseteq Calls /\ up \in BOOLEAN
  /\ store \in [Ids -> Calls \cup {NoCall}]
  /\ thread \in [Calls -> {"none", "handling", "completed", "failed", "settled"}]
  /\ executed \in [Calls -> Nat]
  /\ watch \in [of : Calls \cup {NoCall}, first : Statuses \cup {"none"},
               last : TaskRecord, closed : BOOLEAN]

ByHttpTo(c, peer) == TransportFor(c) = "a2a-http" /\ request[c].peer = peer

(* A skill runs at most once for one send_task, whatever is lost, delayed
   or redirected on the way: the transport posts a task once and polls for
   it with GETs (http.py:593, 634-661).                                    *)
AtMostOnce == \A c \in Calls : executed[c] <= 1

(* A call that reports COMPLETED by an autodev server did run there, and
   its answer is the last message of the task it returns
   (http.py:618-632, server.py:265-284).                                   *)
CompletedWasServed ==
  \A c \in Calls :
    pc[c] = "done" /\ ByHttpTo(c, "autodev") /\ result[c].status = "completed"
      => executed[c] = 1 /\ result[c].agents = Append(sent[c], c)

(* Nothing is done twice and nothing is reported done that was not.        *)
Truthful == AtMostOnce /\ CompletedWasServed

(* Whoever reads a task while its handler runs never finds it finished
   without its answer: the object is shared, the order in _complete and
   _fail is all that protects the reader (handlers.py:28-37).              *)
NoHalfAnswer ==
  \A i \in Ids : \A t \in Stored(i) : t.status \in Terminal => t.agents # <<>>

(* What the event stream says last is never behind what it said first: a
   task reported finished stays as it was (server.py:189-204).             *)
EventsInOrder ==
  watch.closed /\ watch.first \in Terminal => watch.last.status = watch.first

(* Readers of a task and of its events, of whatever thread, see it finished
   only with its answer, and never unfinished again.                       *)
HonestReaders == NoHalfAnswer /\ EventsInOrder

(* What is reported to callers and shown to readers is so.                 *)
ExchangeIsHonest == Truthful /\ HonestReaders
=============================================================================
