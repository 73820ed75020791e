------------------------------ MODULE McpTools ------------------------------
(***************************************************************************)
(* Who may do what through autodev's MCP server: authentication by a       *)
(* shared token or a registry of callers (mcp_server/identity.py), the     *)
(* order in which a request is checked (mcp_server/server.py), the nine    *)
(* tools with their path check and the triple gate of apply mode           *)
(* (mcp_server/{tools,path_safety}.py), and what is left behind of each    *)
(* request: its answer, its audit entry and its effects on the repository. *)
(*                                                                         *)
(* One request at a time, while the clock goes on, somebody edits the      *)
(* registry, and the process may die.  Abstracted: hashing, what a tool    *)
(* answers, languages and texts, and the flags commit, push and tag, which *)
(* the handlers only repeat in their answer.  A path is of one of the      *)
(* kinds that the path check tells apart.                                  *)
(***************************************************************************)
EXTENDS Naturals, Sequences, FiniteSets

CONSTANTS Tokens, Callers, NoToken, NoCaller,
          Malformed,      (* a registry file that cannot be read           *)
          Registries,     (* the contents that the registry file may have  *)
          Environments,   (* what the server may be started with           *)
          Requests,       (* what it may be asked                          *)
          MaxRequests, MaxClock   (* bounds in the guards                  *)

VARIABLES
  registry_file,  (* AUTODEV_MCP_IDENTITIES, a list of entries             *)
  clock,
  server,         (* down, or what it was started with                     *)
  at,             (* where in _handle it is                                *)
  request,        (* the one being handled                                 *)
  received,       (* when it was, and how many came before                 *)
  current_caller, (* the context variable                                  *)
  audit,          (* the log: it survives the process                      *)
  effects,        (* what the tools changed in repositories                *)
  reply           (* the last: a result with isError False, "error" is one
                     with isError True, and the rest are JSON-RPC errors   *)

toolVars == <<registry_file, clock, server, at, request, received, current_caller,
              audit, effects, reply>>

ALL_SCOPES == {"read", "write", "apply"}

TOOL_SCOPES ==
  [tool \in {"scan", "list_runs", "report", "release_check", "classify_input",
             "create_prd", "roundtable", "run_issue", "deliver_project"} |->
     IF tool \in {"scan", "list_runs", "report", "release_check"} THEN "read" ELSE "write"]
ToolNames == DOMAIN TOOL_SCOPES

(* Who looks at a path, who has a mode, and who writes below the path.     *)
ChecksPath == ToolNames \ {"classify_input", "create_prd", "roundtable"}
HasMode == {"run_issue", "deliver_project"}
Writes == HasMode \cup {"report", "release_check"}

Methods == {"initialize", "ping", "tools/list", "tools/call", "other"}
PathKinds == {"project", "system_tree", "traversal", "secret_name", "ssh_key"}

RequestType ==
  [token : Tokens \cup {NoToken}, method : Methods, notification : BOOLEAN,
   tool : ToolNames \cup {"unknown"}, complete : BOOLEAN, path : PathKinds,
   mode : {"dry-run", "apply", "other"}, allow_apply : BOOLEAN]

Entry == [caller : Callers, token : Tokens, scopes : SUBSET ALL_SCOPES, expires_at : Nat]
NoRegistry == <<>>     (* of a server: none is configured                  *)

ASSUME McpToolsAssumption ==
  /\ NoToken \notin Tokens /\ NoCaller \notin Callers
  /\ \A entries \in Registries : entries # Malformed => entries \in Seq(Entry)
  /\ Environments \subseteq [identities : BOOLEAN, shared : Tokens \cup {NoToken}, permit : BOOLEAN]
  /\ Requests \subseteq RequestType
  /\ MaxRequests \in Nat /\ MaxClock \in Nat

Legacy == "legacy_shared_token"
-----------------------------------------------------------------------------
(* IdentityRegistry._load: a table by token, in which a later entry of the
   same token replaces an earlier one.                                     *)
Tabled(entries) ==
  LET last(token) == CHOOSE i \in DOMAIN entries :
                       /\ entries[i].token = token
                       /\ \A j \in DOMAIN entries : entries[j].token = token => j <= i
  IN [token \in { entries[i].token : i \in DOMAIN entries } |-> entries[last(token)]]

(* Somebody without an account, an account, or the legacy identity.        *)
Unknown == [caller |-> NoCaller, scopes |-> {}]
LegacyIdentity == [caller |-> Legacy, scopes |-> ALL_SCOPES]
(* Mutant: the identity keeps the token and its expiry.                    *)
WholeEntry(entry) == entry
Identity(entry) == [caller |-> entry.caller, scopes |-> entry.scopes]

authenticate(token) ==
  IF token \in DOMAIN server.table /\ clock < server.table[token].expires_at
  THEN Identity(server.table[token]) ELSE Unknown

(* Mutant: a registry without entries counts as none.                      *)
RegistryHasEntries == server.registry /\ server.table # NoRegistry
RegistryMode == server.registry

_resolve_caller(r) ==
  IF RegistryMode THEN authenticate(r.token)
  ELSE IF server.shared = NoToken \/ r.token = server.shared THEN LegacyIdentity
  ELSE Unknown
-----------------------------------------------------------------------------
Down == [up |-> FALSE, registry |-> FALSE, table |-> NoRegistry, shared |-> NoToken,
         permit |-> FALSE]

ServerInit ==
  /\ registry_file \in Registries /\ clock = 0
  /\ server = Down /\ at = "idle" /\ request \in Requests
  /\ received = [n |-> 0, time |-> 0] /\ current_caller = Unknown
  /\ audit = <<>> /\ effects = {} /\ reply = "none"

(* MCPServer.__init__: the registry is read once; one that cannot be read
   ends the process.                                                       *)
Serve(env) ==
  /\ ~server.up
  /\ env.identities => registry_file # Malformed
  /\ server' = [up |-> TRUE, registry |-> env.identities, shared |-> env.shared,
                table |-> IF env.identities THEN Tabled(registry_file) ELSE NoRegistry,
                permit |-> env.permit]
  /\ at' = "idle" /\ current_caller' = Unknown
  /\ UNCHANGED <<registry_file, clock, request, received, audit, effects, reply>>

Exit == /\ server.up /\ server' = Down
        /\ at' = "idle" /\ current_caller' = Unknown
        /\ UNCHANGED <<registry_file, clock, request, received, audit, effects, reply>>

EditRegistry == /\ registry_file' \in Registries \ {registry_file}
                /\ UNCHANGED <<clock, server, at, request, received, current_caller, audit,
                               effects, reply>>

Tick == /\ clock < MaxClock /\ clock' = clock + 1
        /\ UNCHANGED <<registry_file, server, at, request, received, current_caller, audit,
                       effects, reply>>
-----------------------------------------------------------------------------
(* What _handle returns, with the caller taken out of the context.         *)
Return(result) ==
  /\ reply' = result
  /\ at' = "idle" /\ current_caller' = Unknown

Exempt(r) == r.method \in {"initialize", "ping"}
Unauthorized(r) ==
  ~Exempt(r) /\ _resolve_caller(r) = Unknown /\ (RegistryMode \/ server.shared # NoToken)
CallerOf(r) ==
  IF Exempt(r) \/ _resolve_caller(r) = Unknown THEN LegacyIdentity ELSE _resolve_caller(r)

(* Required parameters are there and of the type that the tool declares.    *)
_validate_required_params(r) == r.complete

(* _handle, up to the handler of a tool.  Nothing is done for a notification. *)
Refusal(r) ==
  IF Unauthorized(r) THEN "unauthorized"
  ELSE IF r.method = "other" THEN "no_method"
  ELSE IF r.method # "tools/call" THEN "none"
  ELSE IF r.tool = "unknown" THEN "no_tool"
  ELSE IF RegistryMode /\ TOOL_SCOPES[r.tool] \notin CallerOf(r).scopes THEN "forbidden"
  ELSE IF ~_validate_required_params(r) THEN "invalid_params"
  ELSE "none"

Receive(r) ==
  /\ server.up /\ at = "idle" /\ received.n < MaxRequests
  /\ request' = r /\ received' = [n |-> received.n + 1, time |-> clock]
  /\ IF Refusal(r) = "none" /\ r.method = "tools/call" /\ ~r.notification
     THEN /\ at' = "preflight" /\ current_caller' = CallerOf(r)
          /\ reply' = "none"
     ELSE IF r.notification THEN Return("none")
     ELSE IF Refusal(r) # "none" THEN Return(Refusal(r))
     ELSE Return("result")
  /\ UNCHANGED <<registry_file, clock, server, audit, effects>>

(* A line that is no JSON; one that is JSON but no object ends the process
   (Exit).                                                                 *)
ParseError ==
  /\ server.up /\ at = "idle" /\ received.n < MaxRequests
  /\ received' = [n |-> received.n + 1, time |-> clock]
  /\ Return("parse_error")
  /\ UNCHANGED <<registry_file, clock, server, request, audit, effects>>

(* _validate_safe_path, then the mode.  A handler refuses by what it
   returns: for the server that is a result like any other.                *)
_validate_safe_path(path) == path = "project"

Refuses(r) == \/ r.tool \in ChecksPath /\ ~_validate_safe_path(r.path)
              \/ r.tool \in HasMode /\ r.mode = "other"
Applies(r) == r.tool \in HasMode /\ r.mode = "apply"

Preflight ==
  /\ at = "preflight"
  /\ IF Refuses(request) THEN Return("result")
     ELSE /\ at' = IF Applies(request) THEN "gate" ELSE "working"
          /\ UNCHANGED <<reply, current_caller>>
  /\ UNCHANGED <<registry_file, clock, server, request, received, audit, effects>>

(* _check_apply_mode_allowed: three gates, and an audit entry in any case. *)
Allowed == /\ "apply" \in current_caller.scopes
           /\ request.allow_apply
           /\ server.permit

_write_audit_log(decision) ==
  audit' = Append(audit, [n |-> received.n, caller |-> current_caller.caller,
                          tool |-> request.tool, decision |-> decision])

(* Mutant: the log is written after the work, if it gets that far.         *)
CheckWithoutAudit ==
  /\ at = "gate"
  /\ IF Allowed THEN at' = "working" /\ UNCHANGED <<reply, current_caller>>
     ELSE Return("result")
  /\ UNCHANGED <<registry_file, clock, server, request, received, audit, effects>>

_check_apply_mode_allowed ==
  /\ at = "gate"
  /\ _write_audit_log(IF Allowed THEN "allowed" ELSE "denied")
  /\ IF Allowed THEN at' = "working" /\ UNCHANGED <<reply, current_caller>>
     ELSE Return("result")
  /\ UNCHANGED <<registry_file, clock, server, request, received, effects>>

(* The flow or agent of the tool.                                          *)
Effect == [n |-> received.n, caller |-> current_caller.caller, tool |-> request.tool,
           applied |-> Applies(request)]
Work == /\ at = "working" /\ request.tool \in Writes
        /\ effects' = effects \cup {Effect}
        /\ UNCHANGED <<registry_file, clock, server, at, request, received, current_caller,
                       audit, reply>>

(* It returns, or raises, which the server does turn into an error.        *)
Answer == /\ at = "working" /\ Return("result")
          /\ request.tool \in Writes => Effect \in effects
          /\ UNCHANGED <<registry_file, clock, server, request, received, audit, effects>>
Raise == /\ at = "working" /\ Return("error")
         /\ UNCHANGED <<registry_file, clock, server, request, received, audit, effects>>

Handle == Preflight \/ _check_apply_mode_allowed \/ Work \/ Answer \/ Raise

ServerNext == \/ \E env \in Environments : Serve(env)
              \/ \E r \in Requests : Receive(r)
              \/ ParseError \/ Handle \/ Exit
              \/ EditRegistry \/ Tick

ServerSpec == ServerInit /\ [][ServerNext]_toolVars
-----------------------------------------------------------------------------
CallerType == [caller : Callers \cup {NoCaller, Legacy}, scopes : SUBSET ALL_SCOPES]

McpToolsTypeOK ==
  /\ registry_file \in Registries /\ clock \in 0..MaxClock
  /\ server.up \in BOOLEAN /\ server.registry \in BOOLEAN /\ server.permit \in BOOLEAN
  /\ server.shared \in Tokens \cup {NoToken}
  /\ DOMAIN server.table \subseteq Tokens
  /\ \A token \in DOMAIN server.table :
       server.table[token] \in Entry /\ server.table[token].token = token
  /\ at \in {"idle", "preflight", "gate", "working"}
  /\ request \in Requests
  /\ received \in [n : 0..MaxRequests, time : 0..MaxClock]
  /\ current_caller \in CallerType
  /\ audit \in Seq([n : 1..MaxRequests, caller : Callers \cup {NoCaller, Legacy},
                    tool : HasMode, decision : {"allowed", "denied"}])
  /\ effects \subseteq [n : 1..MaxRequests, caller : Callers \cup {NoCaller, Legacy},
                        tool : Writes, applied : BOOLEAN]
  /\ reply \in {"none", "result", "error", "parse_error", "unauthorized", "forbidden",
               "no_method", "no_tool", "invalid_params"}

(* Whatever a tool changes, it changes for the caller whose token came with
   the request, who had all the scopes for it when the request came in,
   below a path that may be touched; and in apply mode only where both the
   request and the server opted in.  Of the six places that may refuse a
   request each sees only a part of this (mcp_server/server.py:200-309,
   tools.py:112-156).                                                      *)
Needed(r) == {TOOL_SCOPES[r.tool]} \cup (IF Applies(r) THEN {"apply"} ELSE {})
Authorized ==
  /\ server.up /\ request.method = "tools/call" /\ ~request.notification
  /\ request.path = "project" \/ request.tool \notin ChecksPath
  /\ Applies(request) => request.allow_apply /\ server.permit
  /\ IF server.registry
     THEN LET entry == server.table[request.token] IN
          /\ request.token \in DOMAIN server.table
          /\ received.time < entry.expires_at
          /\ Needed(request) \subseteq entry.scopes
          /\ current_caller.caller = entry.caller
     ELSE /\ server.shared # NoToken => request.token = server.shared
          /\ current_caller.caller = Legacy
EffectsAreAuthorized == [][effects' # effects => Authorized]_toolVars

(* Nothing is applied that is not in the log already, under the caller's
   name, however the request then ends; nothing is applied that the log
   says was denied; and a request is decided once.  The log entry comes
   before the flow, and the process may die between the two
   (mcp_server/tools.py:121, 150-156, 320-323).                            *)
AppliedIsAudited ==
  /\ \A e \in effects : e.applied =>
       \E i \in DOMAIN audit :
         audit[i] = [n |-> e.n, caller |-> e.caller, tool |-> e.tool, decision |-> "allowed"]
  /\ \A i, j \in DOMAIN audit : audit[i].n = audit[j].n => i = j

(* "Any missing gate returns `isError: true` with a descriptive denial
   reason in the content" (docs/mcp_server_per_caller_auth.md:55).         *)
DenialsAreErrors ==
  \A i \in DOMAIN audit :
    audit[i].n = received.n /\ audit[i].decision = "denied" => reply = "error"
=============================================================================
