------------------------------ MODULE McpSession ------------------------------
(***************************************************************************)
(* An MCP client and the server it spawns: SelfMcpClient and the agent     *)
(* that owns it (adapters/self_mcp_client.py, agents/self_mcp_agent.py) or *)
(* MCPToolClient (adapters/mcp_client.py), and MCPServer with its tools    *)
(* (mcp_server/{server,tools,identity}.py) at the other end of three       *)
(* pipes.  The client never compares the id of an answer with that of its  *)
(* request: it takes the next line.  Nobody reads the server's stderr.     *)
(*                                                                         *)
(* Abstracted: arguments, schemas and scopes (a call is refused by the     *)
(* server or handled), what a tool answers, and the tools that refuse      *)
(* apply mode in their answer.  A line of an MCP server that is not        *)
(* autodev's may be anything and is not modelled.                          *)
(***************************************************************************)
EXTENDS Naturals, Sequences

CONSTANTS MaxRequests,  (* bound: requests of one client                   *)
          PipeLines     (* what fits into the stderr pipe, in lines        *)

ASSUME McpAssumption == MaxRequests \in Nat /\ PipeLines \in Nat

VARIABLES
  shakes,    (* a SelfMcpClient, which begins with a handshake             *)
  guarded,   (* the server wants a token, which the clients never send     *)
  process,   (* none, alive or dead: the client's _proc                    *)
  awaited,   (* the client reads: none, handshake or answer                *)
  asked,     (* the methods requested so far                               *)
  outcomes,  (* what the client made of each of them                       *)
  stdin, stdout, stderr,   (* the pipes; stderr is a number of lines       *)
  tool,      (* the request whose handler runs in the server, 0 for none   *)
  ran        (* how often a handler ran for each request                   *)

pipes == <<stdin, stdout, stderr>>
mcpVars == <<shakes, guarded, process, awaited, asked, outcomes, pipes, tool, ran>>

Current == Len(asked)
Idle == awaited = "none"
-----------------------------------------------------------------------------
McpInit ==
  /\ shakes \in BOOLEAN /\ guarded \in BOOLEAN
  /\ process = "none" /\ awaited = "none"
  /\ asked = <<>> /\ outcomes = <<>>
  /\ stdin = <<>> /\ stdout = <<>> /\ stderr = 0
  /\ tool = 0 /\ ran = [n \in 1..MaxRequests |-> 0]

(* A line of the client: the handshake, its notification, or request n.    *)
Line(method, n) == [method |-> method, of |-> n]

Return(outcome, n) == outcomes' = Append(outcomes, [is |-> outcome, to |-> n])

(* Mock mode, no binary, or a spawn that fails: a mock answers.            *)
RequestMocked(method) ==
  /\ Idle /\ Current < MaxRequests /\ process # "alive"
  /\ asked' = Append(asked, method)
  /\ Return("mock", Current + 1)
  /\ UNCHANGED <<shakes, guarded, process, awaited, pipes, tool, ran>>

(* _ensure_started, up to the handshake if there is one: new pipes.        *)
RequestSpawns(method) ==
  /\ Idle /\ Current < MaxRequests /\ process # "alive"
  /\ asked' = Append(asked, method)
  /\ process' = "alive"
  /\ awaited' = IF shakes THEN "handshake" ELSE "answer"
  /\ stdin' = <<IF shakes THEN Line("initialize", 0) ELSE Line(method, Current + 1)>>
  /\ stdout' = <<>> /\ stderr' = 0 /\ tool' = 0
  /\ UNCHANGED <<shakes, guarded, outcomes, ran>>

Request(method) ==
  /\ Idle /\ Current < MaxRequests /\ process = "alive"
  /\ asked' = Append(asked, method)
  /\ awaited' = "answer"
  /\ stdin' = Append(stdin, Line(method, Current + 1))
  /\ UNCHANGED <<shakes, guarded, process, outcomes, stdout, stderr, tool, ran>>

(* The answer to initialize is read; the notification and the request
   itself follow.                                                          *)
HandshakeDone ==
  /\ awaited = "handshake" /\ stdout # <<>> /\ process = "alive"
  /\ stdout' = Tail(stdout)
  /\ stdin' = stdin \o <<Line("notifications/initialized", 0), Line(asked[Current], Current)>>
  /\ awaited' = "answer"
  /\ UNCHANGED <<shakes, guarded, process, asked, outcomes, stderr, tool, ran>>

(* The server died before or after it answered: close(), and a mock.       *)
HandshakeFailed ==
  /\ awaited = "handshake" /\ process = "dead"
  /\ Return("mock", Current)
  /\ process' = "none" /\ awaited' = "none"
  /\ UNCHANGED <<shakes, guarded, asked, pipes, tool, ran>>

(* The next line of stdout is the answer.                                  *)
AnswerRead ==
  /\ awaited = "answer" /\ stdout # <<>>
  /\ stdout' = Tail(stdout)
  /\ Return(Head(stdout).is, Head(stdout).to)
  /\ awaited' = "none"
  /\ UNCHANGED <<shakes, guarded, process, asked, stdin, stderr, tool, ran>>

(* No line, or no server to write to: tools/call reports the failure,
   tools/list answers with the mock's tools.                               *)
ServerGone ==
  /\ awaited = "answer" /\ stdout = <<>> /\ process = "dead"
  /\ Return(IF asked[Current] = "tools/call" THEN "failure" ELSE "mock", Current)
  /\ awaited' = "none"
  /\ UNCHANGED <<shakes, guarded, process, asked, pipes, tool, ran>>

(* close(): the process is terminated.                                     *)
Close ==
  /\ Idle /\ process # "none"
  /\ process' = "none" /\ stdin' = <<>> /\ stdout' = <<>> /\ tool' = 0
  /\ UNCHANGED <<shakes, guarded, awaited, asked, outcomes, stderr, ran>>
-----------------------------------------------------------------------------
(* MCPServer.run: one request at a time.                                   *)
Reading == process = "alive" /\ tool = 0 /\ stdin # <<>>
Answer(is, n) == stdout' = Append(stdout, [is |-> is, to |-> n])

(* Mutant: the notification is answered like any method nobody knows.      *)
AnswersNotification ==
  /\ Reading /\ Head(stdin).method = "notifications/initialized"
  /\ stdin' = Tail(stdin) /\ Answer("refusal", 0)
  /\ UNCHANGED <<shakes, guarded, process, awaited, asked, outcomes, stderr, tool, ran>>

(* A message without an id is never answered.                              *)
NotificationRead ==
  /\ Reading /\ Head(stdin).method = "notifications/initialized"
  /\ stdin' = Tail(stdin)
  /\ UNCHANGED <<shakes, guarded, process, awaited, asked, outcomes, stdout, stderr, tool, ran>>

(* initialize is exempt from authentication; without a token every other
   request is refused, and so is a call of an unknown tool or with bad
   parameters.                                                             *)
AnsweredAtOnce ==
  /\ Reading
  /\ LET line == Head(stdin)
     IN  \/ line.method = "initialize" /\ Answer("answer", 0)
         \/ line.method = "tools/list"
            /\ Answer(IF guarded THEN "refusal" ELSE "answer", line.of)
         \/ line.method = "tools/call" /\ Answer("refusal", line.of)
  /\ stdin' = Tail(stdin)
  /\ UNCHANGED <<shakes, guarded, process, awaited, asked, outcomes, stderr, tool, ran>>

(* The handler of a tool ...                                               *)
Handled ==
  /\ Reading /\ ~guarded /\ Head(stdin).method = "tools/call"
  /\ stdin' = Tail(stdin)
  /\ tool' = Head(stdin).of
  /\ ran' = [ran EXCEPT ![tool'] = @ + 1]
  /\ UNCHANGED <<shakes, guarded, process, awaited, asked, outcomes, stdout, stderr>>

(* ... whose end is logged before it is answered, also when it raised; the
   log line waits for room in the pipe.                                    *)
LoggedAndAnswered ==
  /\ process = "alive" /\ tool # 0 /\ stderr < PipeLines
  /\ stderr' = stderr + 1
  /\ Answer("answer", tool) /\ tool' = 0
  /\ UNCHANGED <<shakes, guarded, process, awaited, asked, outcomes, stdin, ran>>

(* The server dies: a registry of identities it cannot load, a line that is
   no JSON object, a signal.  What it wrote can still be read.             *)
ServerDies ==
  /\ process = "alive"
  /\ process' = "dead" /\ stdin' = <<>> /\ tool' = 0
  /\ UNCHANGED <<shakes, guarded, awaited, asked, outcomes, stdout, stderr, ran>>
-----------------------------------------------------------------------------
McpNext ==
  \/ \E method \in {"tools/call", "tools/list"} :
       RequestMocked(method) \/ RequestSpawns(method) \/ Request(method)
  \/ HandshakeDone \/ HandshakeFailed \/ AnswerRead \/ ServerGone \/ Close
  \/ NotificationRead \/ AnsweredAtOnce \/ Handled \/ LoggedAndAnswered \/ ServerDies

McpSpec == McpInit /\ [][McpNext]_mcpVars
-----------------------------------------------------------------------------
McpTypeOK ==
  /\ shakes \in BOOLEAN /\ guarded \in BOOLEAN
  /\ process \in {"none", "alive", "dead"}
  /\ awaited \in {"none", "handshake", "answer"}
  /\ asked \in Seq({"tools/call", "tools/list"}) /\ Current <= MaxRequests
  /\ outcomes \in Seq([is : {"answer", "refusal", "failure", "mock"}, to : 0..MaxRequests])
  /\ Len(outcomes) = IF Idle THEN Current ELSE Current - 1
  /\ stdin \in Seq([method : {"initialize", "notifications/initialized",
                              "tools/call", "tools/list"}, of : 0..MaxRequests])
  /\ stdout \in Seq([is : {"answer", "refusal"}, to : 0..MaxRequests])
  /\ stderr \in 0..PipeLines /\ tool \in 0..MaxRequests
  /\ ran \in [1..MaxRequests -> Nat]

(* What a client returns for a request is the server's answer to that very
   request, although nothing but the order of the lines says so, over
   crashes, restarts and handshakes; a tool whose call was answered by a
   mock did not run, and none runs twice for one call
   (self_mcp_client.py:73-91, mcp_server/server.py:279-324, 330-340).      *)
OwnAnswers ==
  \A n \in DOMAIN outcomes :
    /\ outcomes[n].to = n
    /\ ran[n] <= 1
    /\ outcomes[n].is = "mock" => ran[n] = 0
    /\ outcomes[n].is = "answer" /\ asked[n] = "tools/call" => ran[n] = 1
=============================================================================
