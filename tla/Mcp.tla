--------------------------------- MODULE Mcp ---------------------------------
(***************************************************************************)
(* Calls of MCP tools: the pool of clients, the client that serializes its *)
(* calls over one protocol session (internal/adapters/mcpclient/pool.go    *)
(* and mcpclient.go), and the split of outcomes that app/tools.go makes of *)
(* them: a definite rejection completes the tool call as failed, any other *)
(* error leaves its outcome unknown. The server is external.               *)
(*                                                                         *)
(* One pool key: a Wave session calling one server with one credential.    *)
(***************************************************************************)
EXTENDS Naturals

CONSTANTS
  McpCalls,      (* tool calls                                             *)
  MaxClients,    (* bound: clients the pool creates                        *)
  MaxSessions    (* bound: protocol sessions the server opens              *)

ASSUME McpAssumption == {MaxClients, MaxSessions} \subseteq Nat

VARIABLES
  pooled,      (* the client in the pool's entry, 0 when there is none     *)
  clients,     (* clients created                                          *)
  evicted,     (* clients taken out of the pool whose Close is under way   *)
  closed,      (* clients whose Close has returned                         *)
  session,     (* session[k]: the client's protocol session, 0 for none    *)
  opened,      (* sessions the server has opened                           *)
  expired,     (* sessions the server has forgotten                        *)
  mcpCall,     (* mcpCall[c]: where the call is, its client, its tries     *)
  toolRan      (* history: times the server ran the tool for a call        *)

mcpVars == <<pooled, clients, evicted, closed, session, opened, expired, mcpCall, toolRan>>

McpInit ==
  /\ pooled = 0 /\ clients = 0 /\ evicted = {} /\ closed = {}
  /\ session = [k \in 1..MaxClients |-> 0] /\ opened = 0 /\ expired = {}
  /\ mcpCall = [c \in McpCalls |-> [pc |-> "idle", client |-> 0, tries |-> 0]]
  /\ toolRan = [c \in McpCalls |-> 0]

(* Get: the entry's client or a new one.                                   *)
GetClient(c) ==
  /\ mcpCall[c].pc = "idle"
  /\ IF pooled # 0 THEN UNCHANGED <<pooled, clients>>
     ELSE clients < MaxClients /\ clients' = clients + 1 /\ pooled' = clients'
  /\ mcpCall' = [mcpCall EXCEPT ![c] = [pc |-> "lock", client |-> pooled', tries |-> 0]]
  /\ UNCHANGED <<evicted, closed, session, opened, expired, toolRan>>

(* An entry idle for too long, or the oldest of a full pool, leaves it;    *)
(* Close waits for the client's mutex after the pool's is released.        *)
Evict ==
  /\ pooled # 0 /\ pooled' = 0 /\ evicted' = evicted \union {pooled}
  /\ UNCHANGED <<clients, closed, session, opened, expired, mcpCall, toolRan>>

Busy(k) == \E c \in McpCalls : mcpCall[c].client = k /\ mcpCall[c].pc \in {"connect", "dispatch"}
(* Mutant: Close leaves the session of the evicted client open.            *)
CloseOnly(k) ==
  /\ k \in evicted /\ ~Busy(k)
  /\ evicted' = evicted \ {k} /\ closed' = closed \union {k}
  /\ UNCHANGED <<pooled, clients, session, opened, expired, mcpCall, toolRan>>
CloseClient(k) ==
  /\ k \in evicted /\ ~Busy(k)
  /\ evicted' = evicted \ {k} /\ closed' = closed \union {k} /\ session' = [session EXCEPT ![k] = 0]
  /\ UNCHANGED <<pooled, clients, opened, expired, mcpCall, toolRan>>

Answer(c, answer) == mcpCall' = [mcpCall EXCEPT ![c].pc = answer]

(* Call: an evicted client, bad arguments or a canceled context reject.    *)
LockClient(c) ==
  /\ mcpCall[c].pc = "lock" /\ ~Busy(mcpCall[c].client)
  /\ \/ mcpCall[c].client \notin closed /\ Answer(c, "connect")
     \/ Answer(c, "rejected")
  /\ UNCHANGED <<pooled, clients, evicted, closed, session, opened, expired, toolRan>>

(* initialize: keeps the session it has, opens one, or rejects.            *)
Initialize(c) ==
  LET k == mcpCall[c].client IN
  /\ mcpCall[c].pc = "connect"
  /\ \/ session[k] # 0 /\ Answer(c, "dispatch") /\ UNCHANGED <<session, opened>>
     \/ /\ session[k] = 0 /\ opened < MaxSessions /\ opened' = opened + 1
        /\ session' = [session EXCEPT ![k] = opened'] /\ Answer(c, "dispatch")
     \/ session[k] = 0 /\ Answer(c, "rejected") /\ UNCHANGED <<session, opened>>
  /\ UNCHANGED <<pooled, clients, evicted, closed, expired, toolRan>>

(* What the server and the network make of one request: whether the tool   *)
(* ran and what of it the client sees; "input" asks for more than it gives. *)
Replies(k) ==
  IF session[k] \in expired THEN [ran : {FALSE}, seen : {"expired", "refused", "lost"}]
  ELSE [ran : {TRUE}, seen : {"result", "input", "lost"}] \union [ran : {FALSE}, seen : {"refused", "lost"}]

(* Mutant: any failure of the first try is replayed.                       *)
ClassifiedEagerly(c, seen) ==
  CASE seen \in {"expired", "lost"} /\ mcpCall[c].tries = 0 -> [mcpCall[c] EXCEPT !.pc = "connect", !.tries = 1]
    [] seen \in {"expired", "refused"} -> [mcpCall[c] EXCEPT !.pc = "rejected"]
    [] seen = "result" -> [mcpCall[c] EXCEPT !.pc = "result"]
    [] OTHER -> [mcpCall[c] EXCEPT !.pc = "unknown"]
(* CallTool and the reading of its outcome: only an expired session proves *)
(* that nothing ran and permits one replay; HTTP 401 and 403, a failed     *)
(* dial and the four RPC errors reject; the rest is unknown.               *)
Classified(c, seen) ==
  CASE seen = "expired" /\ mcpCall[c].tries = 0 -> [mcpCall[c] EXCEPT !.pc = "connect", !.tries = 1]
    [] seen = "expired" /\ mcpCall[c].tries = 1 -> [mcpCall[c] EXCEPT !.pc = "rejected"]
    [] seen = "refused" -> [mcpCall[c] EXCEPT !.pc = "rejected"]
    [] seen = "result" -> [mcpCall[c] EXCEPT !.pc = "result"]
    [] OTHER -> [mcpCall[c] EXCEPT !.pc = "unknown"]
CallTool(c) ==
  LET k == mcpCall[c].client IN
  /\ mcpCall[c].pc = "dispatch"
  /\ \E reply \in Replies(k) :
       /\ toolRan' = [toolRan EXCEPT ![c] = toolRan[c] + IF reply.ran THEN 1 ELSE 0]
       /\ mcpCall' = [mcpCall EXCEPT ![c] = Classified(c, reply.seen)]
       /\ session' = [session EXCEPT ![k] = IF reply.seen \in {"result", "input"} THEN session[k] ELSE 0]
  /\ UNCHANGED <<pooled, clients, evicted, closed, opened, expired>>

SessionExpires(s) ==
  /\ s \in (1..opened) \ expired /\ expired' = expired \union {s}
  /\ UNCHANGED <<pooled, clients, evicted, closed, session, opened, mcpCall, toolRan>>

McpNext ==
  \/ \E c \in McpCalls : GetClient(c) \/ LockClient(c) \/ Initialize(c) \/ CallTool(c)
  \/ Evict \/ (\E k \in evicted : CloseClient(k)) \/ (\E s \in 1..opened : SessionExpires(s))
McpSpec == McpInit /\ [][McpNext]_mcpVars

-----------------------------------------------------------------------------
(* A closed client holds no session, and a client runs one call at a time. *)
McpTypeOK ==
  /\ {pooled, clients} \subseteq 0..MaxClients /\ evicted \union closed \subseteq 1..clients
  /\ \A k \in closed : session[k] = 0
  /\ \A c, d \in McpCalls : mcpCall[c].pc \in {"connect", "dispatch"} /\ mcpCall[d].pc \in {"connect", "dispatch"}
       /\ mcpCall[c].client = mcpCall[d].client => c = d

(* "A definite rejection before a tool was invoked" (mcpclient.go 23-24):  *)
(* the server never ran the tool of a rejected call, and ran the tool of   *)
(* any call at most once, the replay included; an outcome reported as a    *)
(* result is one of a tool that ran.                                       *)
RejectedNeverRan ==
  \A c \in McpCalls :
    /\ toolRan[c] <= 1
    /\ mcpCall[c].pc = "rejected" => toolRan[c] = 0
    /\ mcpCall[c].pc = "result" => toolRan[c] = 1
=============================================================================
