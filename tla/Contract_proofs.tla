--------------------------- MODULE Contract_proofs ---------------------------
(***************************************************************************)
(* For every session, tree of tasks, set of calls and number of workers:   *)
(* no tool call is executed twice, the writer lock is neither leaked nor   *)
(* freed early, a task finishes with everything under it settled, an       *)
(* archived session stays quiet, the engine implements DurableSession,     *)
(* what a session promises its client, no waiting task is stranded, and    *)
(* children and tool calls stay within their budgets.                      *)
(***************************************************************************)
EXTENDS Execution_proofs

-----------------------------------------------------------------------------
(* The inductive invariant: what the rows say of each other, and what the   *)
(* holder of a claim may rely on since it read them.                        *)

Started(x) == x.status \in {"running", "unknown", "completed"}
Held(x) == x.status \in {"running", "unknown"}

(* A call is executed only once it is marked running, is delivered only     *)
(* when answered, comes after the calls requested before it, and holds the  *)
(* writer lock exactly while it may be writing.                             *)
CallKeeps(c) ==
  /\ execs[c] <= 1
  /\ ~Started(call[c]) => execs[c] = 0
  /\ call[c].delivered => call[c].status = "completed"
  /\ call[c].status # "none" =>
       \A d \in Calls : CallTask[d] = CallTask[c] /\ d < c => call[d].status # "none"
  /\ Kind[c] = "write" => (session.writerCall = c <=> Held(call[c]))

(* A task's calls exist after it does, are all answered once it finalizes,  *)
(* and run one at a time, under a claim; a child is open under an open      *)
(* coordinator.                                                             *)
TaskKeeps(t) ==
  /\ task[t].state = "none" => \A c \in Calls : CallTask[c] = t => call[c].status = "none"
  /\ Terminal(task[t].state) => task[t].finalizing
  /\ task[t].finalizing =>
       /\ task[t].state \in {"running", "unknown"} \cup TerminalStates
       /\ \A c \in Calls : CallTask[c] = t => call[c].status \in {"none", "completed"}
  /\ \A c \in Calls : CallTask[c] = t /\ call[c].status = "running" =>
       /\ task[t].state = "running"
       /\ \A d \in Calls : CallTask[d] = t /\ call[d].status = "running" => d = c
  /\ Parent[t] # NoTask => (Exists(t) => Exists(Parent[t]))
  /\ Parent[t] # NoTask => (~Closed(task[t]) => ~Closed(task[Parent[t]]))

(* Call c is one of task t, in one of these statuses.                       *)
Has(t, c, statuses) == c \in Calls /\ CallTask[c] = t /\ call[c].status \in statuses

(* The call a task of this batch parks on waited for a client's decision,   *)
(* and was not delivered since.                                             *)
Decided == {"ready", "completed"}
Undecided == {"approval", "custom", "unknown"}
Parks(t, c, batch) == Has(t, c, Undecided \cup Decided) /\ ~call[c].delivered /\ c \notin batch

(* What the step's first transaction read still holds for the worker whose  *)
(* claim is good, although clients decide calls meanwhile.                  *)
Knows(w) == LET t == wk[w].task
                pc == wk[w].pc IN
  Fenced(w) =>
  /\ \A d \in Calls : Has(t, d, {"running"}) => pc \in {"exec", "record", "cleanup"}
  /\ pc \in {"exec", "record"} => Has(t, wk[w].head, {"running"})
  /\ pc = "tool" \/ (pc = "deliver" /\ wk[w].then = "tool") => Has(t, wk[w].head, {"ready"})
  /\ pc = "wait" \/ (pc = "deliver" /\ wk[w].then = "wait") =>
       Has(t, wk[w].head, {"ready", "waiting_children"})
  /\ pc = "park" \/ (pc = "deliver" /\ wk[w].then = "park") => Parks(t, wk[w].head, wk[w].batch)
  /\ pc = "deliver" => wk[w].batch # {}
  /\ pc = "deliver" => \A b \in wk[w].batch :
       /\ Has(t, b, {"completed"}) /\ ~call[b].delivered
       /\ \A d \in Calls : CallTask[d] = t /\ d < b => call[d].delivered \/ d \in wk[w].batch
  /\ \/ pc \in {"prepare", "provision", "model", "summary", "respond", "stream"}
     \/ pc = "fin1" /\ ~Stopping(wk[w].fin)
     => \A d \in Calls : CallTask[d] = t => call[d].status = "none" \/ call[d].delivered
  /\ task[t].finalizing => pc \in {"hook", "fin2", "unknown", "cleanup"}

(* A worker about to run a call's executor, its claim good or lost, is the  *)
(* only one, and the call is marked and was not executed yet.               *)
Executes(w) == wk[w].pc = "exec" =>
  /\ wk[w].head \in Calls /\ execs[wk[w].head] = 0 /\ Started(call[wk[w].head])
  /\ \A v \in Workers \ {w} : wk[v].pc = "exec" => wk[v].head # wk[w].head

CInv ==
  /\ \A c \in Calls : CallKeeps(c)
  /\ \A t \in Tasks : TaskKeeps(t)
  /\ \A w \in Workers : Knows(w) /\ Executes(w)
  /\ ArchivedIsQuiet

-----------------------------------------------------------------------------
(* Steps.                                                                   *)

(* A task goes on: it neither appears nor ends, is not finalized by the     *)
(* step, and is finalizing only where a finalizing task may be.             *)
RowGoesOn(r, s) ==
  /\ s.state = "none" <=> r.state = "none"
  /\ Terminal(s.state) <=> Terminal(r.state)
  /\ s.finalizing => r.finalizing /\ s.state \in {"running", "unknown"} \cup TerminalStates
  /\ Terminal(r.state) /\ r.finalizing => s.finalizing

(* No claim but worker w's is given or finalized.                           *)
LeavesClaims(w, r, s) ==
  Alive(s) => \/ s.owner = w
              \/ /\ Alive(r) /\ s.owner = r.owner /\ s.epoch = r.epoch
                 /\ s.finalizing => r.finalizing

(* A call goes on: it is neither requested nor started by the step, and     *)
(* what is answered stays answered.                                         *)
CallGoesOn(x, y) ==
  /\ y.status = "none" <=> x.status = "none"
  /\ Started(x) => Started(y)
  /\ x.status = "completed" => y.status = "completed"
  /\ y.delivered => y.status = "completed"
  /\ y.status = "running" => x.status = "running"

(* What a step may do to a call of a claim that is not its own: nothing, or *)
(* what a client decides.                                                   *)
CallLeft(x, y) ==
  /\ y.delivered = x.delivered
  /\ \/ y.status = x.status
     \/ /\ x.status \in {"approval", "custom", "unknown"}
        /\ y.status \in {"ready", "custom", "completed"}

(* Calls that go on keep what is known of them.                             *)
LEMMA CallsKept ==
  ASSUME TypeOK, CInv, UNCHANGED execs, session'.writerCall = session.writerCall,
         \A c \in Calls : CallGoesOn(call[c], call'[c]) /\ (Held(call'[c]) <=> Held(call[c]))
  PROVE  \A c \in Calls : CallKeeps(c)'
BY DEF CInv, CallKeeps, CallGoesOn

(* Tasks and calls that go on keep what is known of the tasks.              *)
LEMMA TasksKept ==
  ASSUME TypeOK, CInv,
         \A c \in Calls : CallGoesOn(call[c], call'[c]),
         \A c \in Calls : call'[c].status = "running" => task'[CallTask[c]].state = "running",
         \A t \in Tasks : RowGoesOn(task[t], task'[t])
  PROVE  \A t \in Tasks : TaskKeeps(t)'
<1> SUFFICES ASSUME NEW t \in Tasks PROVE TaskKeeps(t)'
  OBVIOUS
<1>1. TaskKeeps(t) /\ RowGoesOn(task[t], task'[t])
  BY DEF CInv
<1>2. task'[t].state = "none" => \A c \in Calls : CallTask[c] = t => call'[c].status = "none"
  BY <1>1 DEF TaskKeeps, RowGoesOn, CallGoesOn
<1>3. Terminal(task'[t].state) => task'[t].finalizing
  BY <1>1 DEF TaskKeeps, RowGoesOn
<1>4. task'[t].finalizing =>
       /\ task'[t].state \in {"running", "unknown"} \cup TerminalStates
       /\ \A c \in Calls : CallTask[c] = t => call'[c].status \in {"none", "completed"}
  BY <1>1 DEF TaskKeeps, RowGoesOn, CallGoesOn
<1>5. \A c \in Calls : CallTask[c] = t /\ call'[c].status = "running" =>
       /\ task'[t].state = "running"
       /\ \A d \in Calls : CallTask[d] = t /\ call'[d].status = "running" => d = c
  BY <1>1 DEF TaskKeeps, CallGoesOn
<1>6. Parent[t] # NoTask =>
        /\ Exists(t)' => Exists(Parent[t])'
        /\ ~Closed(task'[t]) => ~Closed(task'[Parent[t]])
  <2> SUFFICES ASSUME Parent[t] # NoTask
               PROVE  /\ Exists(t)' => Exists(Parent[t])'
                      /\ ~Closed(task'[t]) => ~Closed(task'[Parent[t]])
    OBVIOUS
  <2>1. Parent[t] \in Tasks
    BY ParentAssumption
  <2>2. RowGoesOn(task[Parent[t]], task'[Parent[t]])
    BY <2>1
  <2> QED
    BY <1>1, <2>2 DEF TaskKeeps, RowGoesOn, Exists, Closed, Terminal
<1> QED
  BY <1>2, <1>3, <1>4, <1>5, <1>6 DEF TaskKeeps

(* A worker that takes no step knows what it knew.                          *)
LEMMA OtherKnows ==
  ASSUME TypeOK, CInv, NEW w, NEW v \in Workers, v # w, wk'[v] = wk[v],
         \A t \in Tasks : LeavesClaims(w, task[t], task'[t]),
         Fenced(v) => \A c \in Calls : CallTask[c] = wk[v].task => CallLeft(call[c], call'[c])
  PROVE  Knows(v)'
<1> SUFFICES ASSUME Fenced(v)' PROVE Knows(v)'
  BY DEF Knows
<1> DEFINE t == wk[v].task
           pc == wk[v].pc
<1>1. t \in Tasks
  BY DEF Fenced, TypeOK, WorkerRow
<1>2. Fenced(v) /\ (task'[t].finalizing => task[t].finalizing)
  BY <1>1 DEF Fenced, LeavesClaims, Alive
<1>3. Knows(v)
  BY DEF CInv
<1>4. \A c \in Calls : CallTask[c] = t => CallLeft(call[c], call'[c])
  BY <1>2
<1>5. \A c : /\ Has(t, c, {"running"})' <=> Has(t, c, {"running"})
             /\ Has(t, c, {"ready"}) => Has(t, c, {"ready"})'
             /\ Has(t, c, {"ready", "waiting_children"}) => Has(t, c, {"ready", "waiting_children"})'
             /\ Has(t, c, {"completed"}) => Has(t, c, {"completed"})'
  BY <1>4 DEF Has, CallLeft
<1>6. \A d \in Calls : CallTask[d] = t => call'[d].delivered = call[d].delivered
  BY <1>4 DEF CallLeft
<1>7. \A d \in Calls : CallTask[d] = t =>
        (call[d].status = "none" \/ call[d].delivered => call'[d].status = "none" \/ call'[d].delivered)
  BY <1>4 DEF CallLeft
<1>8. pc = "deliver" => \A b \in wk[v].batch :
       /\ Has(t, b, {"completed"})' /\ ~call'[b].delivered
       /\ \A d \in Calls : CallTask[d] = t /\ d < b => call'[d].delivered \/ d \in wk[v].batch
  BY <1>2, <1>3, <1>5, <1>6 DEF Knows, Has
<1>9. /\ \A d \in Calls : Has(t, d, {"running"})' => pc \in {"exec", "record", "cleanup"}
      /\ pc \in {"exec", "record"} => Has(t, wk[v].head, {"running"})'
      /\ pc = "tool" \/ (pc = "deliver" /\ wk[v].then = "tool") => Has(t, wk[v].head, {"ready"})'
      /\ pc = "wait" \/ (pc = "deliver" /\ wk[v].then = "wait") =>
           Has(t, wk[v].head, {"ready", "waiting_children"})'
      /\ pc = "deliver" => wk[v].batch # {}
  BY <1>2, <1>3, <1>5 DEF Knows
<1>10. pc = "park" \/ (pc = "deliver" /\ wk[v].then = "park") =>
         Parks(t, wk[v].head, wk[v].batch)'
  <2> DEFINE h == wk[v].head
  <2> SUFFICES ASSUME pc = "park" \/ (pc = "deliver" /\ wk[v].then = "park")
               PROVE  /\ h \in Calls /\ CallTask[h] = t /\ h \notin wk[v].batch
                      /\ call'[h].status \in Undecided \cup Decided /\ ~call'[h].delivered
    BY DEF Parks, Has
  <2>1. /\ h \in Calls /\ CallTask[h] = t /\ h \notin wk[v].batch
        /\ call[h].status \in Undecided \cup Decided /\ ~call[h].delivered
    BY <1>2, <1>3 DEF Knows, Parks, Has
  <2> QED
    BY <1>4, <2>1 DEF CallLeft, Undecided, Decided
<1>11. \/ pc \in {"prepare", "provision", "model", "summary", "respond", "stream"}
       \/ pc = "fin1" /\ ~Stopping(wk[v].fin)
       => \A d \in Calls : CallTask[d] = t => call'[d].status = "none" \/ call'[d].delivered
  BY <1>2, <1>3, <1>7 DEF Knows
<1>12. task'[t].finalizing => pc \in {"hook", "fin2", "unknown", "cleanup"}
  BY <1>2, <1>3 DEF Knows
<1> QED
  BY <1>8, <1>9, <1>11, <1>12, <1>10 DEF Knows, Has, Parks

(* Two good claims are never of one task.                                   *)
LEMMA ClaimsApart ==
  ASSUME NEW w \in Workers, NEW v \in Workers, v # w, Fenced(w), Fenced(v)
  PROVE  wk[v].task # wk[w].task
BY DEF Fenced

(* The other workers' executions stay the only ones of their calls.         *)
LEMMA OthersExecute ==
  ASSUME TypeOK, CInv, NEW w,
         \A v \in Workers \ {w} : wk'[v] = wk[v],
         \A c \in Calls : Started(call[c]) => Started(call'[c]),
         \A c \in Calls : \/ execs'[c] = execs[c]
                          \/ w \in Workers /\ wk[w].pc = "exec" /\ wk[w].head = c,
         w \in Workers /\ wk'[w].pc = "exec" => ~Started(call[wk'[w].head])
  PROVE  \A v \in Workers \ {w} : Executes(v)'
<1> SUFFICES ASSUME NEW v \in Workers \ {w}, wk[v].pc = "exec"
             PROVE  /\ wk[v].head \in Calls /\ execs'[wk[v].head] = 0
                    /\ Started(call'[wk[v].head])
                    /\ \A u \in Workers \ {v} : wk'[u].pc = "exec" => wk'[u].head # wk[v].head
  BY DEF Executes
<1>1. Executes(v)
  BY DEF CInv
<1>2. wk[v].head \in Calls /\ execs[wk[v].head] = 0 /\ Started(call[wk[v].head])
  BY <1>1 DEF Executes
<1>3. \A u \in Workers \ {v} : wk[u].pc = "exec" => wk[u].head # wk[v].head
  BY <1>1 DEF Executes
<1>4. execs'[wk[v].head] = 0
  BY <1>2, <1>3
<1>5. \A u \in Workers \ {v} : wk'[u].pc = "exec" => wk'[u].head # wk[v].head
  BY <1>2, <1>3
<1> QED
  BY <1>2, <1>4, <1>5

(* An archived session stays quiet unless a task is opened.                 *)
LEMMA ArchiveKept ==
  ASSUME CInv,
         session'.archived => session.archived /\ session'.activeRoot = session.activeRoot,
         \A t \in Tasks : Closed(task[t]) => Closed(task'[t])
  PROVE  ArchivedIsQuiet'
BY DEF CInv, ArchivedIsQuiet, Exists, Closed, Terminal

-----------------------------------------------------------------------------
(* What a session promises, action by action.                               *)

(* A step is one of DurableSession, or invisible to the session's client.   *)
Promised == [Contract!Next]_(Contract!vars)

(* Steps that leave every task's life and every call's phase are invisible. *)
LEMMA Stutters ==
  ASSUME session'.activeRoot = session.activeRoot, session'.archived = session.archived,
         \A t \in Tasks : Life(t)' = Life(t), \A c \in Calls : Phase(c)' = Phase(c)
  PROVE  Promised
<1>1. [t \in Tasks |-> Life(t)]' = [t \in Tasks |-> Life(t)]
  OBVIOUS
<1>2. [c \in Calls |-> Phase(c)]' = [c \in Calls |-> Phase(c)]
  OBVIOUS
<1> QED
  BY <1>1, <1>2 DEF Promised, Contract!vars

(* A task that goes on keeps its life.                                      *)
LEMMA LifeKept ==
  ASSUME NEW t \in Tasks, RowGoesOn(task[t], task'[t])
  PROVE  Life(t)' = Life(t)
BY DEF RowGoesOn, Life, Exists

(* Steps of worker `w`, or of a client when `w` is none, that write rows of *)
(* tasks only, and neither open, end nor finalize one.                      *)
LEMMA PlainStep ==
  ASSUME IInv, IInv', CInv, NEW w, UNCHANGED <<session, call, execs>>,
         \A t \in Tasks : RowGoesOn(task[t], task'[t]) /\ LeavesClaims(w, task[t], task'[t]),
         \A c \in Calls : call[c].status = "running" => task'[CallTask[c]].state = "running",
         \A v \in Workers \ {w} : wk'[v] = wk[v],
         w \in Workers => Knows(w)' /\ wk'[w].pc # "exec"
  PROVE  CInv' /\ Promised
<1>1. TypeOK /\ TypeOK'
  BY DEF IInv
<1>2. \A c \in Calls : /\ CallGoesOn(call[c], call'[c]) /\ CallLeft(call[c], call'[c])
                       /\ Held(call'[c]) <=> Held(call[c])
  BY DEF CInv, CallKeeps, CallGoesOn, CallLeft
<1>3. \A c \in Calls : CallKeeps(c)'
  BY <1>1, <1>2, CallsKept
<1>4. \A t \in Tasks : TaskKeeps(t)'
  BY <1>1, <1>2, TasksKept
<1>5. \A v \in Workers : Knows(v)'
  BY <1>1, <1>2, OtherKnows
<1>6. \A v \in Workers \ {w} : Executes(v)'
  BY <1>1, OthersExecute
<1>7. w \in Workers => Executes(w)'
  BY DEF Executes
<1>8. ArchivedIsQuiet'
  BY ArchiveKept DEF RowGoesOn, Closed, Terminal
<1>9. Promised
  BY LifeKept, Stutters DEF Phase
<1> QED
  BY <1>3, <1>4, <1>5, <1>6, <1>7, <1>8, <1>9 DEF CInv

-----------------------------------------------------------------------------
(* What a worker knows when it moves on.                                    *)

(* Nothing, when it gave its claim up.                                      *)
LEMMA IdleKnows ==
  ASSUME TypeOK, NEW w \in Workers, GoIdle(w)
  PROVE  Knows(w)' /\ wk'[w].pc # "exec" /\ \A v \in Workers \ {w} : wk'[v] = wk[v]
<1>1. wk'[w].pc = "idle" /\ wk'[w].task = NoTask /\ \A v \in Workers \ {w} : wk'[v] = wk[v]
  BY DEF TypeOK, GoIdle, Idle
<1>2. ~Fenced(w)'
  BY <1>1 DEF Fenced
<1> QED
  BY <1>1, <1>2 DEF Knows

(* That nothing runs and nothing is finalized, when it starts a step.       *)
LEMMA BeginKnows ==
  ASSUME TypeOK, NEW w \in Workers, GoBegin(w),
         Fenced(w)' => /\ ~task'[wk[w].task].finalizing
                       /\ \A d \in Calls : CallTask[d] = wk[w].task => call'[d].status # "running"
  PROVE  Knows(w)' /\ wk'[w].pc # "exec" /\ \A v \in Workers \ {w} : wk'[v] = wk[v]
<1>1. wk'[w].pc = "begin" /\ wk'[w].task = wk[w].task /\ \A v \in Workers \ {w} : wk'[v] = wk[v]
  BY BeginMemory
<1> QED
  BY <1>1 DEF Knows, Has

(* What worker `w` holds in memory besides what it does next is kept.       *)
LEMMA GotoKeeps ==
  ASSUME TypeOK, NEW w \in Workers, NEW p \in PCs, Goto(w, p)
  PROVE  /\ \A v \in Workers \ {w} : wk'[v] = wk[v]
         /\ wk'[w].pc = p /\ wk'[w].task = wk[w].task /\ wk'[w].epoch = wk[w].epoch
         /\ wk'[w].fin = wk[w].fin /\ wk'[w].head = wk[w].head
         /\ wk'[w].batch = wk[w].batch /\ wk'[w].then = wk[w].then
BY DEF TypeOK, Goto, WorkerRow

(* What it knew, when it goes on and no call changed.                       *)
LEMMA GotoKnows ==
  ASSUME TypeOK, CInv, NEW w \in Workers,
         NEW p \in PCs \ {"exec", "record", "tool", "wait", "park", "deliver", "fin1"}, Goto(w, p),
         UNCHANGED call,
         Fenced(w)' => Fenced(w) /\ (task'[wk[w].task].finalizing => task[wk[w].task].finalizing),
         p # "cleanup" => wk[w].pc \notin {"exec", "record", "cleanup"},
         p \in {"prepare", "provision", "model", "summary", "respond", "stream"} =>
           wk[w].pc \in {"prepare", "provision", "model", "summary", "respond", "stream"},
         p \notin {"hook", "fin2", "unknown", "cleanup"} =>
           wk[w].pc \notin {"hook", "fin2", "unknown", "cleanup"}
  PROVE  Knows(w)' /\ wk'[w].pc # "exec" /\ \A v \in Workers \ {w} : wk'[v] = wk[v]
<1>1. /\ wk'[w].pc = p /\ wk'[w].task = wk[w].task
      /\ \A v \in Workers \ {w} : wk'[v] = wk[v]
  BY GotoKeeps
<1>2. Knows(w)
  BY DEF CInv
<1> SUFFICES ASSUME Fenced(w)' PROVE Knows(w)'
  BY <1>1 DEF Knows
<1> DEFINE t == wk[w].task
<1>3. \A d \in Calls : Has(t, d, {"running"}) => p = "cleanup"
  BY <1>2 DEF Knows
<1>4. p \in {"prepare", "provision", "model", "summary", "respond", "stream"}
      => \A d \in Calls : CallTask[d] = t => call[d].status = "none" \/ call[d].delivered
  BY <1>2 DEF Knows
<1>5. task'[t].finalizing => p \in {"hook", "fin2", "unknown", "cleanup"}
  BY <1>2 DEF Knows
<1> QED
  BY <1>1, <1>3, <1>4, <1>5 DEF Knows, Has

-----------------------------------------------------------------------------
(* How a worker's step may end when it changes no call.                     *)

(* Rows nobody writes go on, and leave every claim.                         *)
LEMMA SameRow ==
  ASSUME CInv, NEW w, NEW t \in Tasks, task'[t] = task[t]
  PROVE  RowGoesOn(task[t], task'[t]) /\ LeavesClaims(w, task[t], task'[t])
BY DEF CInv, TaskKeeps, RowGoesOn, LeavesClaims

(* A worker's own row goes on as long as it is not ended.                   *)
LEMMA OwnRow ==
  ASSUME TypeOK, CInv, NEW w \in Workers, Fenced(w), NEW r,
         task' = [task EXCEPT ![wk[w].task] = r],
         r.state \in {"queued", "running", "waiting", "unknown"},
         r.finalizing => task[wk[w].task].finalizing /\ r.state \in {"running", "unknown"},
         Alive(r) => r.owner = w
  PROVE  /\ \A t \in Tasks : RowGoesOn(task[t], task'[t]) /\ LeavesClaims(w, task[t], task'[t])
         /\ wk[w].task \in Tasks /\ task[wk[w].task].state = "running" /\ task'[wk[w].task] = r
<1> DEFINE t == wk[w].task
<1>1. t \in Tasks /\ task[t].state = "running"
  BY FencedTask
<1>2. \A u \in Tasks : task'[u] = IF u = t THEN r ELSE task[u]
  BY DEF TypeOK
<1>3. RowGoesOn(task[t], task'[t]) /\ LeavesClaims(w, task[t], task'[t])
  BY <1>1, <1>2 DEF RowGoesOn, LeavesClaims, Terminal, TerminalStates
<1>4. \A u \in Tasks : u # t =>
        RowGoesOn(task[u], task'[u]) /\ LeavesClaims(w, task[u], task'[u])
  BY <1>2, SameRow
<1> QED
  BY <1>1, <1>2, <1>3, <1>4

(* The worker gives its claim up while it runs no call.                     *)
LEMMA GivesUpStep ==
  ASSUME IInv, IInv', CInv, NEW w \in Workers, Fenced(w), NEW r,
         task' = [task EXCEPT ![wk[w].task] = r],
         r.state \in {"queued", "waiting", "unknown"},
         r.finalizing => task[wk[w].task].finalizing /\ r.state = "unknown",
         wk[w].pc \notin {"exec", "record", "cleanup"},
         GoIdle(w), UNCHANGED <<session, call, execs>>
  PROVE  CInv' /\ Promised
<1> DEFINE t == wk[w].task
<1>1. TypeOK
  BY DEF IInv
<1>2. /\ \A u \in Tasks : RowGoesOn(task[u], task'[u]) /\ LeavesClaims(w, task[u], task'[u])
      /\ t \in Tasks
  BY <1>1, OwnRow DEF Alive
<1>3. \A c \in Calls : call[c].status = "running" => task'[CallTask[c]].state = "running"
  <2> SUFFICES ASSUME NEW c \in Calls, call[c].status = "running"
               PROVE  CallTask[c] # t /\ task[CallTask[c]].state = "running"
    BY <1>1, <1>2 DEF TypeOK
  <2>1. Knows(w) /\ CallTask[c] \in Tasks
    BY CallAssumption DEF CInv
  <2>2. CallTask[c] # t
    BY <2>1 DEF Knows, Has
  <2>3. TaskKeeps(CallTask[c])
    BY <2>1 DEF CInv
  <2> QED
    BY <2>2, <2>3 DEF TaskKeeps
<1>4. Knows(w)' /\ wk'[w].pc # "exec" /\ \A v \in Workers \ {w} : wk'[v] = wk[v]
  BY <1>1, IdleKnows
<1> QED
  BY <1>2, <1>3, <1>4, PlainStep

(* A call that runs is one of a task that runs.                             *)
LEMMA RunningTask ==
  ASSUME CInv, NEW c \in Calls, call[c].status = "running"
  PROVE  task[CallTask[c]].state = "running"
BY CallAssumption DEF CInv, TaskKeeps

(* The worker keeps its claim and writes its own row.                       *)
LEMMA HoldsStep ==
  ASSUME IInv, IInv', CInv, NEW w \in Workers, Fenced(w), NEW r,
         task' = [task EXCEPT ![wk[w].task] = r],
         r.state = "running", r.owner = w, r.finalizing => task[wk[w].task].finalizing,
         \A v \in Workers \ {w} : wk'[v] = wk[v],
         Knows(w)', wk'[w].pc # "exec", UNCHANGED <<session, call, execs>>
  PROVE  CInv' /\ Promised
<1>1. TypeOK
  BY DEF IInv
<1>2. \A u \in Tasks : RowGoesOn(task[u], task'[u]) /\ LeavesClaims(w, task[u], task'[u])
  BY <1>1, OwnRow
<1>3. \A u \in Tasks : task[u].state = "running" => task'[u].state = "running"
  BY <1>1 DEF TypeOK
<1>4. \A c \in Calls : call[c].status = "running" => task'[CallTask[c]].state = "running"
  BY <1>3, RunningTask, CallAssumption
<1> QED
  BY <1>2, <1>4, PlainStep

(* The worker only changes what it does next.                               *)
LEMMA MovesStep ==
  ASSUME IInv, IInv', CInv, NEW w \in Workers, UNCHANGED <<session, task, call, execs>>,
         \A v \in Workers \ {w} : wk'[v] = wk[v], Knows(w)', wk'[w].pc # "exec"
  PROVE  CInv' /\ Promised
<1>1. \A t \in Tasks : RowGoesOn(task[t], task'[t]) /\ LeavesClaims(w, task[t], task'[t])
  BY SameRow
<1>2. \A c \in Calls : call[c].status = "running" => task'[CallTask[c]].state = "running"
  BY RunningTask
<1> QED
  BY <1>1, <1>2, PlainStep

(* The worker keeps its claim, or its memory of it, and goes to `p`.        *)
LEMMA GotoStep ==
  ASSUME IInv, IInv', CInv, NEW w \in Workers, UNCHANGED <<session, task, call, execs>>,
         NEW p \in PCs \ {"exec", "record", "tool", "wait", "park", "deliver", "fin1"}, Goto(w, p),
         p # "cleanup" => wk[w].pc \notin {"exec", "record", "cleanup"},
         p \in {"prepare", "provision", "model", "summary", "respond", "stream"} =>
           wk[w].pc \in {"prepare", "provision", "model", "summary", "respond", "stream"},
         p \notin {"hook", "fin2", "unknown", "cleanup"} =>
           wk[w].pc \notin {"hook", "fin2", "unknown", "cleanup"}
  PROVE  CInv' /\ Promised
<1>1. TypeOK
  BY DEF IInv
<1>2. wk'[w].task = wk[w].task /\ wk'[w].epoch = wk[w].epoch
  BY <1>1, GotoKeeps
<1>3. Fenced(w)' => Fenced(w)
  BY <1>2 DEF Fenced
<1>4. Knows(w)' /\ wk'[w].pc # "exec" /\ \A v \in Workers \ {w} : wk'[v] = wk[v]
  BY <1>1, <1>3, GotoKnows
<1> QED
  BY <1>4, MovesStep

-----------------------------------------------------------------------------
(* Worker steps that change no call.                                        *)

(* A worker parks its task, or queues it again (finish.go:15-60).           *)
LEMMA ParkStep ==
  ASSUME IInv, IInv', CInv, NEW w \in Workers, Park(w) \/ Requeue(w) \/ ParkUnknown(w)
  PROVE  CInv' /\ Promised
<1> DEFINE t == wk[w].task
<1>1. /\ Fenced(w) /\ GoIdle(w) /\ UNCHANGED <<session, call, execs>>
      /\ wk[w].pc \in {"park", "requeue", "unknown"}
  BY DEF Park, Requeue, ParkUnknown
<1>2. task[t] \in TaskRow /\ Knows(w)
  BY <1>1, FencedTask DEF IInv, CInv
<1>3. CASE ParkUnknown(w)
  <2> DEFINE r == [Release(task[t], "unknown") EXCEPT !.error = TRUE]
  <2>1. r.state = "unknown" /\ r.finalizing = task[t].finalizing
    BY <1>2, ReleaseErrorType DEF TaskStates
  <2>2. task' = [task EXCEPT ![t] = r]
    BY <1>3 DEF ParkUnknown
  <2> HIDE DEF r
  <2> QED
    BY <1>1, <2>1, <2>2, GivesUpStep
<1>4. CASE Park(w) \/ Requeue(w)
  <2>1. PICK s \in {"queued", "waiting"} : task' = [task EXCEPT ![t] = Release(@, s)]
    BY <1>4 DEF Park, Requeue
  <2> DEFINE r == Release(task[t], s)
  <2>2. r.state = s /\ r.finalizing = task[t].finalizing
    BY <1>2, <2>1, ReleaseType DEF TaskStates
  <2>3. ~task[t].finalizing
    BY <1>1, <1>2, <1>4 DEF Knows, Park, Requeue
  <2>4. task' = [task EXCEPT ![t] = r]
    BY <2>1
  <2> HIDE DEF r
  <2> QED
    BY <1>1, <2>1, <2>2, <2>3, <2>4, GivesUpStep
<1> QED
  BY <1>3, <1>4

(* The workspace is prepared (workspace.go:28-148).                         *)
LEMMA PrepareStep ==
  ASSUME IInv, IInv', CInv, NEW w \in Workers, PrepareBegin(w) \/ PrepareEnd(w)
  PROVE  CInv' /\ Promised
<1>1. /\ wk[w].pc \in {"prepare", "provision"} /\ UNCHANGED <<session, task, call, execs>>
      /\ \E p \in {"model", "requeue", "unknown", "provision"} : Goto(w, p)
  BY DEF PrepareBegin, PrepareEnd
<1> QED
  BY <1>1, GotoStep DEF PCs

(* The finish hook (workspace.go:150-230).                                  *)
LEMMA HookStep ==
  ASSUME IInv, IInv', CInv, NEW w \in Workers, FinishHook(w)
  PROVE  CInv' /\ Promised
<1>1. /\ wk[w].pc = "hook" /\ UNCHANGED <<session, task, call, execs>>
      /\ \E p \in {"fin2", "unknown"} : Goto(w, p)
  BY DEF FinishHook
<1> QED
  BY <1>1, GotoStep DEF PCs

(* A worker forgets its claim: it lost it, or died.                         *)
LEMMA ForgetStep ==
  ASSUME IInv, IInv', CInv, NEW w \in Workers, FenceLost(w) \/ Crash(w)
  PROVE  CInv' /\ Promised
<1>1. GoIdle(w) /\ UNCHANGED <<session, task, call, execs>>
  BY DEF FenceLost, Crash
<1>2. Knows(w)' /\ wk'[w].pc # "exec" /\ \A v \in Workers \ {w} : wk'[v] = wk[v]
  BY <1>1, IdleKnows DEF IInv
<1> QED
  BY <1>1, <1>2, MovesStep

(* A step ends early, wherever it is.                                       *)
LEMMA InterruptStep ==
  ASSUME IInv, IInv', CInv, NEW w \in Workers, Interrupt(w)
  PROVE  CInv' /\ Promised
BY GotoStep DEF Interrupt, PCs

(* A task fails, or a model turn does: it is retried, or fails the task     *)
(* (step.go:126-174, 190-252).                                              *)
LEMMA FailStep ==
  ASSUME IInv, IInv', CInv, NEW w \in Workers, Fail(w) \/ ModelFails(w)
  PROVE  CInv' /\ Promised
<1> DEFINE t == wk[w].task
           row == [task[t] EXCEPT !.gens = @ - 1, !.failures = @ + 1]
<1>1. /\ Fenced(w) /\ UNCHANGED <<session, call, execs>>
      /\ wk[w].pc \in {"model", "respond", "stream"}
  BY DEF Fail, ModelFails
<1>2. /\ task[t] \in TaskRow /\ Knows(w) /\ TypeOK /\ t \in Tasks
      /\ task[t].state = "running" /\ task[t].owner = w
  BY <1>1, FencedTask DEF IInv, CInv
<1>3. ~task[t].finalizing /\ \A d \in Calls : CallTask[d] = t => call[d].status # "running"
  BY <1>1, <1>2 DEF Knows, Has
<1>4. ASSUME NEW r, task' = [task EXCEPT ![t] = r], GoBegin(w),
             r.state = "running", r.owner = w, ~r.finalizing
      PROVE  CInv' /\ Promised
  <2>1. task'[t] = r
    BY <1>2, <1>4 DEF TypeOK
  <2>2. Knows(w)' /\ wk'[w].pc # "exec" /\ \A v \in Workers \ {w} : wk'[v] = wk[v]
    BY <1>1, <1>2, <1>3, <1>4, <2>1, BeginKnows
  <2> QED
    BY <1>1, <1>4, <2>2, HoldsStep
<1>5. CASE Fail(w)
  <2> DEFINE r == [task[t] EXCEPT !.pending = "failed", !.error = TRUE]
  <2>1. r.state = "running" /\ r.owner = w /\ ~r.finalizing
    BY <1>2, <1>3 DEF TaskRow
  <2>2. task' = [task EXCEPT ![t] = r] /\ GoBegin(w)
    BY <1>2, <1>5 DEF Fail, TypeOK
  <2> HIDE DEF r
  <2> QED
    BY <1>4, <2>1, <2>2
<1>6. row.state = "running" /\ row.owner = w /\ ~row.finalizing
  BY <1>2, <1>3 DEF TaskRow
<1>7. CASE task' = [task EXCEPT ![t] = [row EXCEPT !.error = TRUE, !.pending = "failed"]] /\ GoBegin(w)
  <2> DEFINE r == [row EXCEPT !.error = TRUE, !.pending = "failed"]
  <2>1. r.state = "running" /\ r.owner = w /\ ~r.finalizing
    BY <1>2, <1>6 DEF TaskRow
  <2> HIDE DEF r
  <2> QED
    BY <1>4, <1>7, <2>1 DEF r
<1>8. CASE task' = [task EXCEPT ![t] = Release(row, "queued")] /\ GoIdle(w)
  <2> DEFINE r == Release(row, "queued")
  <2>1. r.state = "queued" /\ ~r.finalizing
    BY <1>2, <1>6 DEF TaskRow, Release
  <2>2. task' = [task EXCEPT ![t] = r]
    BY <1>8
  <2> HIDE DEF r
  <2> QED
    BY <1>1, <1>8, <2>1, <2>2, GivesUpStep
<1> QED
  BY <1>5, <1>7, <1>8 DEF ModelFails

(* A generation is opened, or the summary's is closed (generation.go:36-51, *)
(* context.go:34-162).                                                      *)
LEMMA GenerationStep ==
  ASSUME IInv, IInv', CInv, NEW w \in Workers, StartGeneration(w) \/ CompactEnd(w)
  PROVE  CInv' /\ Promised
<1> DEFINE t == wk[w].task
<1>1. /\ Fenced(w) /\ UNCHANGED <<session, call, execs>>
      /\ wk[w].pc \in {"model", "respond", "summary"}
  BY DEF StartGeneration, CompactEnd
<1>2. /\ task[t] \in TaskRow /\ TypeOK /\ t \in Tasks
      /\ task[t].state = "running" /\ task[t].owner = w
  BY <1>1, FencedTask DEF IInv
<1>3. PICK n : task' = [task EXCEPT ![t].gens = n]
  BY DEF StartGeneration, CompactEnd
<1> DEFINE r == [task[t] EXCEPT !.gens = n]
<1>4. r.state = "running" /\ r.owner = w /\ r.finalizing = task[t].finalizing
  BY <1>2 DEF TaskRow
<1>5. task' = [task EXCEPT ![t] = r]
  BY <1>3
<1> HIDE DEF r
<1>6. task'[t] = r
  BY <1>2, <1>5 DEF TypeOK
<1>7. PICK p \in {"summary", "stream", "respond"} : Goto(w, p)
  BY DEF StartGeneration, CompactEnd
<1>8. Knows(w)' /\ wk'[w].pc # "exec" /\ \A v \in Workers \ {w} : wk'[v] = wk[v]
  BY <1>1, <1>2, <1>4, <1>6, <1>7, GotoKnows DEF PCs
<1> QED
  BY <1>1, <1>4, <1>5, <1>8, HoldsStep

(* The step's first transaction reads the task's calls in order: those with *)
(* a result are delivered first, and the first one without is dispatched on *)
(* (step.go:37-125).                                                        *)
LEMMA BeginStep ==
  ASSUME IInv, IInv', CInv, NEW w \in Workers, StepBegin(w)
  PROVE  CInv' /\ Promised
<1> DEFINE t == wk[w].task
           row == IF ~task[t].cancel /\ Undelivered(t) = {} /\ task[t].input
                    THEN [task[t] EXCEPT !.input = FALSE, !.pending = ""] ELSE task[t]
           blocked == {c \in Undelivered(t) : call[c].status # "completed"}
           head == IF blocked = {} THEN NoCall ELSE First(blocked)
           batch == {c \in Undelivered(t) : blocked = {} \/ c < head}
           then == IF blocked = {} THEN "begin" ELSE Dispatch(head)
           next == CASE row.cancel -> [pc |-> "fin1", fin |-> IF row.pending = "failed"
                                                         THEN "failed" ELSE "canceled"]
                     [] ~row.cancel /\ Undelivered(t) # {} ->
                          [pc |-> IF batch # {} THEN "deliver" ELSE then, fin |-> ""]
                     [] ~row.cancel /\ Undelivered(t) = {} /\ row.pending # "" ->
                          [pc |-> "fin1", fin |-> row.pending]
                     [] OTHER -> [pc |-> "prepare", fin |-> ""]
           x == [wk[w] EXCEPT !.pc = next.pc, !.fin = next.fin,
                   !.batch = IF next.pc = "fin1" THEN {} ELSE batch,
                   !.head = IF next.pc = "fin1" THEN NoCall ELSE head,
                   !.then = IF next.pc \in {"fin1", "prepare"} THEN "idle" ELSE then]
<1>1. /\ wk[w].pc = "begin" /\ Fenced(w) /\ UNCHANGED <<session, ws, call, execs>>
      /\ task' = [task EXCEPT ![t] = row] /\ wk' = [wk EXCEPT ![w] = x]
  BY DEF StepBegin
<1>2. /\ t \in Tasks /\ task[t] \in TaskRow /\ task[t].owner = w
      /\ task[t].state = "running" /\ wk[w] \in WorkerRow /\ TypeOK
  BY <1>1, FencedTask DEF IInv, TypeOK
<1>3. row.owner = w /\ row.state = "running" /\ row.finalizing = task[t].finalizing
  BY <1>2 DEF TaskRow
<1>4. ~task[t].finalizing /\ \A d \in Calls : CallTask[d] = t => call[d].status # "running"
  BY <1>1 DEF CInv, Knows, Has
<1>5. /\ blocked \subseteq Calls
      /\ blocked # {} => head \in blocked /\ \A d \in blocked : head <= d
  BY FirstType DEF Undelivered, CallsOf
<1>6. \A d \in Undelivered(t) : d \in Calls /\ CallTask[d] = t /\ ~call[d].delivered
                                /\ call[d].status # "none"
  BY DEF Undelivered, CallsOf
<1>7. \A d \in Calls : CallTask[d] = t /\ d \notin Undelivered(t) =>
        call[d].status = "none" \/ call[d].delivered
  BY <1>2 DEF Undelivered, CallsOf, TypeOK, CallRow
<1>8. blocked # {} => /\ then = "tool" => Has(t, head, {"ready"})
                      /\ then = "wait" => Has(t, head, {"ready", "waiting_children"})
                      /\ then = "park" => call[head].status \in Undecided \cup {"running"}
                      /\ then \in {"tool", "wait", "park"}
  <2> SUFFICES ASSUME blocked # {}
               PROVE  /\ then = "tool" => Has(t, head, {"ready"})
                      /\ then = "wait" => Has(t, head, {"ready", "waiting_children"})
                      /\ then = "park" => call[head].status \in Undecided \cup {"running"}
                      /\ then \in {"tool", "wait", "park"}
    OBVIOUS
  <2>1. /\ head \in Undelivered(t) /\ call[head].status # "completed" /\ then = Dispatch(head)
    BY <1>5
  <2>2. call[head].status \in CallStatuses \ {"none", "completed"}
    BY <1>2, <1>6, <2>1 DEF TypeOK, CallRow
  <2>3. CASE call[head].status = "waiting_children"
    BY <1>6, <2>1, <2>3 DEF Dispatch, Has
  <2>4. CASE call[head].status = "ready"
    BY <1>6, <2>1, <2>4 DEF Dispatch, Has
  <2>5. CASE call[head].status \in Undecided \cup {"running"}
    BY <2>1, <2>5 DEF Dispatch, Undecided
  <2> QED
    BY <2>2, <2>3, <2>4, <2>5 DEF CallStatuses, Undecided
<1>9. /\ batch = {} /\ Undelivered(t) # {} => blocked # {}
      /\ blocked = {} => then = "begin"
      /\ \A d : d \in batch <=> d \in Undelivered(t) /\ (blocked = {} \/ d < head)
      /\ \A d \in Undelivered(t) : call[d].status # "completed" => d \in blocked
      /\ blocked \subseteq Undelivered(t)
  OBVIOUS
<1> HIDE DEF head, batch, then, blocked
<1>10. blocked # {} /\ then = "park" => Parks(t, head, batch)
  <2> SUFFICES ASSUME blocked # {}, then = "park" PROVE Parks(t, head, batch)
    OBVIOUS
  <2>1. /\ head \in Calls /\ CallTask[head] = t /\ ~call[head].delivered
        /\ call[head].status \in Undecided
    BY <1>4, <1>5, <1>6, <1>8, <1>9
  <2>2. head \notin batch
    BY <1>9, <2>1, CallAssumption
  <2> QED
    BY <2>1, <2>2 DEF Parks, Has
<1>11. \A b \in batch : /\ Has(t, b, {"completed"}) /\ ~call[b].delivered
                       /\ \A d \in Calls : CallTask[d] = t /\ d < b => call[d].delivered \/ d \in batch
  <2> SUFFICES ASSUME NEW b \in batch
               PROVE  /\ call[b].status = "completed"
                      /\ \A d \in Calls : CallTask[d] = t /\ d < b => call[d].delivered \/ d \in batch
    BY <1>6, <1>9 DEF Has
  <2>1. b \in Undelivered(t) /\ (blocked = {} \/ b < head) /\ b \in Nat
        /\ (blocked # {} => head \in Nat)
    BY <1>5, <1>6, <1>9, CallAssumption
  <2>2. call[b].status = "completed"
    <3>1. b \notin blocked
      BY <1>5, <2>1
    <3> QED
      BY <1>9, <2>1, <3>1
  <2>3. ASSUME NEW d \in Calls, CallTask[d] = t, d < b, ~call[d].delivered
        PROVE  d \in batch
    <3>1. call[d].status # "none"
      BY <1>6, <2>1, <2>3 DEF CInv, CallKeeps
    <3>2. d \in Undelivered(t)
      BY <1>7, <2>3, <3>1
    <3>3. blocked # {} => d < head
      BY <2>1, <2>3, CallAssumption
    <3> QED
      BY <1>9, <3>2, <3>3
  <2> QED
    BY <2>2, <2>3
<1>12. \/ /\ next.pc = "fin1" /\ (Stopping(next.fin) \/ Undelivered(t) = {})
       \/ next.pc = "prepare" /\ Undelivered(t) = {}
       \/ next.pc = "deliver" /\ batch # {}
       \/ next.pc = then /\ blocked # {}
  BY <1>9 DEF Stopping
<1> HIDE DEF row, next
<1>13. /\ x.pc = next.pc /\ x.fin = next.fin /\ x.task = t
       /\ next.pc # "fin1" => x.batch = batch /\ x.head = head
       /\ next.pc \notin {"fin1", "prepare"} => x.then = then
  BY <1>2 DEF WorkerRow
<1> HIDE DEF x
<1>14. /\ wk'[w] = x /\ task'[t] = row /\ wk'[w].task = t
       /\ \A v \in Workers \ {w} : wk'[v] = wk[v]
  BY <1>1, <1>2, <1>13 DEF TypeOK
<1>15. wk'[w].pc # "exec"
  BY <1>8, <1>12, <1>13, <1>14
<1>16. Knows(w)'
  <2>1. \A d \in Calls : Has(t, d, {"running"})' => FALSE
    BY <1>1, <1>4, <1>14 DEF Has
  <2>2. ~task'[t].finalizing
    BY <1>3, <1>4, <1>14
  <2>3. CASE next.pc \in {"fin1", "prepare"}
    <3>1. Stopping(next.fin) \/ Undelivered(t) = {}
      BY <1>8, <1>12, <2>3
    <3>2. next.pc = "prepare" => Undelivered(t) = {}
      BY <1>8, <1>12
    <3> QED
      BY <1>1, <1>7, <1>13, <1>14, <2>1, <2>2, <2>3, <3>1, <3>2 DEF Knows
  <2>4. CASE next.pc = "deliver"
    <3>1. batch # {}
      BY <1>8, <1>12, <2>4
    <3>2. \A b \in batch : /\ b \in Calls /\ CallTask[b] = t
            /\ call'[b].status = "completed" /\ ~call'[b].delivered
            /\ \A d \in Calls : CallTask[d] = t /\ d < b => call'[d].delivered \/ d \in batch
      BY <1>1, <1>11, <1>14 DEF Has
    <3>3. /\ then \in {"tool", "wait"} => head \in Calls /\ CallTask[head] = t
          /\ then = "tool" => call'[head].status = "ready"
          /\ then = "wait" => call'[head].status \in {"ready", "waiting_children"}
      BY <1>1, <1>8, <1>9, <1>14 DEF Has
    <3>4. /\ x.pc = "deliver" /\ x.task = t /\ x.batch = batch /\ x.head = head /\ x.then = then
      BY <1>13, <2>4
    <3>5. then = "park" => /\ head \in Calls /\ CallTask[head] = t /\ head \notin batch
            /\ call'[head].status \in Undecided \cup Decided /\ ~call'[head].delivered
      BY <1>1, <1>9, <1>10 DEF Parks, Has
    <3> QED
      BY <1>14, <2>1, <2>2, <3>1, <3>2, <3>3, <3>4, <3>5 DEF Knows, Has, Parks
  <2>5. CASE next.pc = then /\ blocked # {}
    <3>1. /\ then \in {"tool", "wait"} => head \in Calls /\ CallTask[head] = t
          /\ then = "tool" => call'[head].status = "ready"
          /\ then = "wait" => call'[head].status \in {"ready", "waiting_children"}
          /\ then \in {"tool", "wait", "park"}
      BY <1>1, <1>8, <1>14, <2>5 DEF Has
    <3>2. x.pc = then /\ x.task = t /\ x.head = head /\ x.batch = batch
      BY <1>13, <2>5, <3>1
    <3>3. then = "park" => /\ head \in Calls /\ CallTask[head] = t /\ head \notin batch
            /\ call'[head].status \in Undecided \cup Decided /\ ~call'[head].delivered
      BY <1>1, <1>10, <2>5 DEF Parks, Has
    <3> QED
      BY <1>14, <2>1, <2>2, <3>1, <3>2, <3>3 DEF Knows, Has, Parks
  <2> QED
    BY <1>12, <2>3, <2>4, <2>5
<1> QED
  BY <1>1, <1>3, <1>14, <1>15, <1>16, HoldsStep

-----------------------------------------------------------------------------
(* Steps that take a claim, or settle what one left behind.                 *)

(* A running call whose outcome is lost is a promised step.                 *)
LEMMA PromisedLose ==
  ASSUME session'.activeRoot = session.activeRoot, session'.archived = session.archived,
         \A t \in Tasks : Life(t)' = Life(t), NEW c \in Calls,
         Phase(c) = "running", Phase(c)' = "uncertain",
         \A d \in Calls \ {c} : Phase(d)' = Phase(d)
  PROVE  Promised
<1>1. [t \in Tasks |-> Life(t)]' = [t \in Tasks |-> Life(t)]
  OBVIOUS
<1>2. [d \in Calls |-> Phase(d)]'
        = [d \in Calls |-> IF d \in {c} THEN "uncertain" ELSE [e \in Calls |-> Phase(e)][d]]
  OBVIOUS
<1>3. Contract!Lose(c)
  BY <1>1, <1>2 DEF Contract!Lose, Contract!Move
<1> QED
  BY <1>3 DEF Promised, Contract!Next

(* Settling a claim on task `t` loses the call it was executing, if any.    *)
LEMMA SettlesStep ==
  ASSUME IInv, IInv', CInv, NEW w, NEW t \in Tasks, NEW r, task[t].state = "running",
         task' = [task EXCEPT ![t] = r], r.state \in {"queued", "unknown"},
         r.finalizing => task[t].finalizing /\ r.state = "unknown",
         call' = LoseCalls(t), UNCHANGED <<session, execs>>,
         \A v \in Workers \ {w} : Fenced(v) => wk[v].task # t,
         \A v \in Workers \ {w} : wk'[v] = wk[v],
         w \in Workers => Knows(w)' /\ wk'[w].pc # "exec"
  PROVE  CInv' /\ Promised
<1>1. TypeOK
  BY DEF IInv
<1>2. \A u \in Tasks : task'[u] = IF u = t THEN r ELSE task[u]
  BY <1>1 DEF TypeOK
<1>3. \A u \in Tasks : RowGoesOn(task[u], task'[u]) /\ LeavesClaims(w, task[u], task'[u])
  <2>1. RowGoesOn(task[t], task'[t]) /\ LeavesClaims(w, task[t], task'[t])
    BY <1>2 DEF RowGoesOn, LeavesClaims, Terminal, TerminalStates, Alive
  <2> QED
    BY <1>2, <2>1, SameRow
<1>4. \A c \in Calls : IF CallTask[c] = t /\ call[c].status = "running"
        THEN call'[c].status = "unknown" /\ call'[c].delivered = call[c].delivered
        ELSE call'[c] = call[c]
  BY <1>1 DEF LoseCalls, TypeOK, CallRow
<1>5. \A c \in Calls : CallGoesOn(call[c], call'[c]) /\ (Held(call'[c]) <=> Held(call[c]))
  BY <1>4 DEF CInv, CallKeeps, CallGoesOn, Started, Held
<1>6. \A c \in Calls : call'[c].status = "running" => task'[CallTask[c]].state = "running"
  BY <1>2, <1>4, RunningTask, CallAssumption
<1>7. (\A c \in Calls : CallKeeps(c)') /\ (\A u \in Tasks : TaskKeeps(u)')
  BY <1>1, <1>3, <1>5, <1>6, CallsKept, TasksKept
<1>8. \A v \in Workers \ {w} : Knows(v)'
  BY <1>1, <1>3, <1>4, OtherKnows DEF CallLeft
<1>9. \A v \in Workers \ {w} : Executes(v)'
  BY <1>1, <1>5, OthersExecute DEF CallGoesOn
<1>10. w \in Workers => Executes(w)'
  BY DEF Executes
<1>11. ArchivedIsQuiet'
  BY <1>3, ArchiveKept DEF RowGoesOn, Closed, Terminal
<1>12. Promised
  <2>1. \A u \in Tasks : Life(u)' = Life(u)
    BY <1>3, LifeKept
  <2>2. CASE \A c \in Calls : ~(CallTask[c] = t /\ call[c].status = "running")
    BY <1>4, <2>1, <2>2, Stutters DEF Phase
  <2>3. CASE \E c \in Calls : CallTask[c] = t /\ call[c].status = "running"
    <3>1. PICK c \in Calls : CallTask[c] = t /\ call[c].status = "running"
      BY <2>3
    <3>2. \A d \in Calls \ {c} : Phase(d)' = Phase(d)
      BY <1>4, <3>1 DEF CInv, TaskKeeps, Phase
    <3>3. Phase(c) = "running" /\ Phase(c)' = "uncertain"
      BY <1>4, <3>1 DEF Phase
    <3> QED
      BY <2>1, <3>2, <3>3, PromisedLose
  <2> QED
    BY <2>2, <2>3
<1> QED
  BY <1>7, <1>8, <1>9, <1>10, <1>11, <1>12 DEF CInv

(* The worker's deferred cleanup (worker.go:158-210).                       *)
LEMMA CleanupStep ==
  ASSUME IInv, IInv', CInv, NEW w \in Workers, Cleanup(w)
  PROVE  CInv' /\ Promised
<1> DEFINE t == wk[w].task
           uncertain == task[t].finalizing \/ CallsIn(t, {"running"}) # {}
           s == IF uncertain THEN "unknown" ELSE "queued"
           r == [Release(Interrupted(task[t]), s) EXCEPT !.error = uncertain]
<1>1. /\ Fenced(w) /\ GoIdle(w) /\ UNCHANGED <<session, execs>> /\ call' = LoseCalls(t)
      /\ task' = [task EXCEPT ![t] = r]
  BY DEF Cleanup
<1>2. task[t] \in TaskRow /\ TypeOK /\ t \in Tasks /\ task[t].state = "running"
  BY <1>1, FencedTask DEF IInv
<1>3. uncertain \in BOOLEAN /\ s \in TaskStates
  BY <1>2 DEF TaskRow, TaskStates
<1>4. s \in {"queued", "unknown"} /\ (task[t].finalizing => s = "unknown")
  OBVIOUS
<1> HIDE DEF uncertain, s
<1>5. r \in TaskRow /\ r.state = s /\ r.finalizing = task[t].finalizing
  <2>1. Interrupted(task[t]) \in TaskRow /\ Interrupted(task[t]).finalizing = task[t].finalizing
    BY <1>2, InterruptedType
  <2> QED
    BY <1>3, <2>1, ReleaseErrorType
<1> HIDE DEF r
<1>6. Knows(w)' /\ wk'[w].pc # "exec" /\ \A v \in Workers \ {w} : wk'[v] = wk[v]
  BY <1>1, <1>2, IdleKnows
<1>7. \A v \in Workers \ {w} : Fenced(v) => wk[v].task # t
  BY <1>1, ClaimsApart
<1> QED
  BY <1>1, <1>2, <1>4, <1>5, <1>6, <1>7, SettlesStep

(* A lapsed claim that stopped in a call or a finalization is settled       *)
(* (claim.go:110-140).                                                      *)
LEMMA ClaimSettlesStep ==
  ASSUME IInv, IInv', CInv, NEW t \in Tasks, ClaimSettles(t)
  PROVE  CInv' /\ Promised
<1> DEFINE e == task[t].error \/ task[t].finalizing
           r == [Release(Interrupted(task[t]), "unknown") EXCEPT !.error = e]
<1>1. /\ UNCHANGED <<session, wk, execs>> /\ task[t].state = "running" /\ ~task[t].live
      /\ task' = [task EXCEPT ![t] = r]
  BY DEF ClaimSettles, Uncertain, Claimable
<1>2. task[t] \in TaskRow /\ TypeOK
  BY DEF IInv, TypeOK
<1>3. r \in TaskRow /\ r.state = "unknown" /\ r.finalizing = task[t].finalizing
  <2>1. Interrupted(task[t]) \in TaskRow /\ Interrupted(task[t]).finalizing = task[t].finalizing
    BY <1>2, InterruptedType
  <2>2. e \in BOOLEAN /\ "unknown" \in TaskStates
    BY <1>2 DEF TaskRow, TaskStates
  <2> HIDE DEF e
  <2> QED
    BY <2>1, <2>2, ReleaseErrorType
<1> HIDE DEF r
<1>4. call' = LoseCalls(t)
  <2>1. CASE task[t].finalizing
    <3>1. \A c \in Calls : CallTask[c] = t => call[c].status # "running"
      BY <2>1 DEF CInv, TaskKeeps
    <3>2. LoseCalls(t) = call
      BY <1>2, <3>1 DEF LoseCalls, TypeOK
    <3> QED
      BY <2>1, <3>2 DEF ClaimSettles
  <2> QED
    BY <2>1 DEF ClaimSettles
<1>5. \A v \in Workers \ {NoWorker} : (Fenced(v) => wk[v].task # t) /\ wk'[v] = wk[v]
  BY <1>1 DEF Fenced
<1> QED
  BY <1>1, <1>3, <1>4, <1>5, SettlesStep, WorkerAssumption

(* A step of a client or of the environment that writes one row.            *)
LEMMA RowRequest ==
  ASSUME IInv, IInv', CInv, NEW t \in Tasks, NEW r, task' = [task EXCEPT ![t] = r],
         UNCHANGED <<session, call, wk, execs>>,
         RowGoesOn(task[t], r), LeavesClaims(NoWorker, task[t], r),
         task[t].state = "running" => r.state = "running"
  PROVE  CInv' /\ Promised
<1>1. \A u \in Tasks : task'[u] = IF u = t THEN r ELSE task[u]
  BY DEF IInv, TypeOK
<1>2. \A u \in Tasks : RowGoesOn(task[u], task'[u]) /\ LeavesClaims(NoWorker, task[u], task'[u])
  BY <1>1, SameRow
<1>3. \A c \in Calls : call[c].status = "running" => task'[CallTask[c]].state = "running"
  BY <1>1, RunningTask, CallAssumption
<1> QED
  BY <1>2, <1>3, PlainStep, WorkerAssumption

(* A candidate that is skipped, and a lease that runs out, change nothing a *)
(* client sees (claim.go:141-173).                                          *)
LEMMA SkipStep ==
  ASSUME IInv, IInv', CInv, NEW t \in Tasks, ClaimSkips(t) \/ LapseLease(t)
  PROVE  CInv' /\ Promised
<1>1. task[t] \in TaskRow /\ TaskKeeps(t)
  BY DEF IInv, TypeOK, CInv
<1>2. CASE ClaimSkips(t)
  <2> DEFINE r == Interrupted(task[t])
  <2>1. task[t].state = "running" /\ ~task[t].live
    BY <1>2 DEF ClaimSkips, Claimable
  <2>2. r.state = task[t].state /\ r.finalizing = task[t].finalizing /\ ~r.live
    BY <1>1, <2>1, InterruptedType
  <2>3. task' = [task EXCEPT ![t] = r] /\ UNCHANGED <<session, call, wk, execs>>
    BY <1>2 DEF ClaimSkips
  <2> HIDE DEF r
  <2>4. RowGoesOn(task[t], r) /\ LeavesClaims(NoWorker, task[t], r)
    BY <2>1, <2>2 DEF RowGoesOn, LeavesClaims, Alive
  <2> QED
    BY <2>1, <2>2, <2>3, <2>4, RowRequest
<1>3. CASE LapseLease(t)
  <2> DEFINE r == [task[t] EXCEPT !.live = FALSE]
  <2>1. r.state = task[t].state /\ r.finalizing = task[t].finalizing /\ ~r.live
    BY <1>1 DEF TaskRow
  <2>2. task' = [task EXCEPT ![t] = r] /\ UNCHANGED <<session, call, wk, execs>>
    BY <1>3 DEF LapseLease
  <2> HIDE DEF r
  <2>3. RowGoesOn(task[t], r) /\ LeavesClaims(NoWorker, task[t], r)
    BY <1>1, <2>1 DEF RowGoesOn, LeavesClaims, Alive, TaskKeeps
  <2> QED
    BY <2>1, <2>2, <2>3, RowRequest
<1> QED
  BY <1>2, <1>3

(* A root that takes the session, or a task of its tree, is promised or     *)
(* invisible.                                                               *)
LEMMA PromisedActivate ==
  ASSUME NEW t \in Tasks, Life(RootOf(t)) = "open", session.activeRoot \in {NoTask, RootOf(t)},
         session'.activeRoot = RootOf(t), session'.archived = session.archived,
         \A u \in Tasks : Life(u)' = Life(u), \A c \in Calls : Phase(c)' = Phase(c)
  PROVE  Promised
<1> DEFINE r == RootOf(t)
<1>1. r \in Tasks /\ Parent[r] = NoTask
  BY ParentAssumption DEF RootOf
<1>2. CASE session.activeRoot = r
  BY <1>2, Stutters
<1>3. CASE session.activeRoot = NoTask
  <2>1. [u \in Tasks |-> Life(u)]' = [u \in Tasks |-> Life(u)]
    OBVIOUS
  <2>2. [c \in Calls |-> Phase(c)]' = [c \in Calls |-> Phase(c)]
    OBVIOUS
  <2>3. [u \in Tasks |-> Life(u)][r] = "open"
    BY <1>1
  <2> HIDE DEF r
  <2>4. Contract!Activate(r)
    BY <1>1, <1>3, <2>1, <2>2, <2>3 DEF Contract!Activate, r
  <2> QED
    BY <1>1, <2>4 DEF Promised, Contract!Next
<1> QED
  BY <1>2, <1>3

(* A task is claimed when nothing of it runs or is finalized, so that its   *)
(* worker starts with nothing to know (claim.go:174-236).                   *)
LEMMA ClaimTaken ==
  ASSUME IInv, IInv', CInv, NEW w \in Workers, NEW t \in Tasks, Claim(w, t)
  PROVE  CInv' /\ Promised
<1> DEFINE m == [Idle EXCEPT !.pc = "begin", !.task = t, !.epoch = task[t].epoch + 1]
<1>1. /\ TypeOK /\ TypeOK' /\ UNCHANGED <<call, execs>> /\ Claimable(t) /\ ~Uncertain(t)
      /\ session' = [session EXCEPT !.activeRoot = RootOf(t)] /\ wk' = [wk EXCEPT ![w] = m]
  BY DEF Claim, IInv
<1>2. /\ task'[t].state = "running" /\ task'[t].owner = w
      /\ task'[t].finalizing = task[t].finalizing
      /\ \A u \in Tasks : u # t => task'[u] = task[u]
  <2>1. PICK verdict : task' = [task EXCEPT ![t] =
         [Interrupted(@) EXCEPT !.state = "running", !.owner = w, !.live = TRUE,
            !.epoch = task[t].epoch + 1,
            !.pending = IF verdict = "impossible" THEN "failed" ELSE task[t].pending,
            !.error = task[t].error \/ verdict = "impossible"]]
    BY DEF Claim
  <2>2. task[t] \in TaskRow
    BY <1>1 DEF TypeOK
  <2>3. Interrupted(task[t]) \in TaskRow /\ Interrupted(task[t]).finalizing = task[t].finalizing
    BY <2>2, InterruptedType
  <2> QED
    BY <1>1, <2>1, <2>3 DEF TypeOK, TaskRow
<1>3. task[t].state \in {"queued", "running"}
  BY <1>1 DEF Claimable
<1>4. ~task[t].finalizing /\ \A c \in Calls : CallTask[c] = t => call[c].status # "running"
  <2>1. TaskKeeps(t)
    BY DEF CInv
  <2>2. CASE task[t].state = "queued"
    BY <2>1, <2>2 DEF TaskKeeps, TerminalStates
  <2>3. CASE task[t].state = "running"
    BY <1>1, <2>3 DEF Uncertain, CallsIn
  <2> QED
    BY <1>3, <2>2, <2>3
<1>5. \A u \in Tasks : RowGoesOn(task[u], task'[u]) /\ LeavesClaims(w, task[u], task'[u])
  <2>1. RowGoesOn(task[t], task'[t]) /\ LeavesClaims(w, task[t], task'[t])
    BY <1>2, <1>3, <1>4 DEF RowGoesOn, LeavesClaims, Terminal, TerminalStates
  <2> QED
    BY <1>2, <2>1, SameRow
<1>6. \A c \in Calls : /\ CallGoesOn(call[c], call'[c]) /\ CallLeft(call[c], call'[c])
                       /\ Held(call'[c]) <=> Held(call[c])
  BY <1>1 DEF CInv, CallKeeps, CallGoesOn, CallLeft
<1>7. \A c \in Calls : call'[c].status = "running" => task'[CallTask[c]].state = "running"
  BY <1>1, <1>2, RunningTask, CallAssumption
<1>8. /\ session'.writerCall = session.writerCall /\ session'.archived = session.archived
      /\ session'.activeRoot = RootOf(t)
  BY <1>1 DEF TypeOK, Session
<1>9. (\A c \in Calls : CallKeeps(c)') /\ (\A u \in Tasks : TaskKeeps(u)')
  BY <1>1, <1>5, <1>6, <1>7, <1>8, CallsKept, TasksKept
<1>10. /\ wk'[w].pc = "begin" /\ wk'[w].task = t /\ \A v \in Workers \ {w} : wk'[v] = wk[v]
  BY <1>1 DEF TypeOK, Idle
<1>11. Knows(w)'
  BY <1>1, <1>2, <1>4, <1>10 DEF Knows, Has
<1>12. \A v \in Workers : Knows(v)'
  BY <1>1, <1>5, <1>6, <1>10, <1>11, OtherKnows
<1>13. \A v \in Workers : Executes(v)'
  <2>1. \A v \in Workers \ {w} : Executes(v)'
    BY <1>1, <1>10, OthersExecute
  <2> QED
    BY <1>10, <2>1 DEF Executes
<1>14. ~Closed(task[t])
  BY <1>3 DEF Closed, TerminalStates
<1>15. ArchivedIsQuiet'
  BY <1>8, <1>14 DEF CInv, ArchivedIsQuiet, Exists, Terminal, Closed
<1>16. Promised
  <2>1. RootOf(t) \in Tasks /\ ~Closed(task[RootOf(t)])
    BY <1>14, ParentAssumption DEF CInv, TaskKeeps, RootOf
  <2>2. Life(RootOf(t)) = "open"
    BY <2>1 DEF Life, Exists, Closed, Terminal
  <2>3. session.activeRoot \in {NoTask, RootOf(t)}
    BY <1>1 DEF Claimable
  <2>4. \A c \in Calls : Phase(c)' = Phase(c)
    BY <1>1 DEF Phase
  <2> QED
    BY <1>5, <1>8, <2>2, <2>3, <2>4, LifeKept, PromisedActivate
<1> QED
  BY <1>9, <1>12, <1>13, <1>15, <1>16 DEF CInv

-----------------------------------------------------------------------------
(* What requests, and agent calls on their behalf, do to the tree.          *)

(* Every task goes on, and every claim is left to its worker.               *)
GoOn(w) == \A u \in Tasks :
  /\ RowGoesOn(task[u], task'[u]) /\ LeavesClaims(w, task[u], task'[u])
  /\ task[u].state = "running" => task'[u].state = "running"

(* One task is opened: a root of a session that is not archived, or a child *)
(* of an open coordinator.                                                  *)
Opens(t) ==
  /\ Closed(task[t]) /\ task'[t].state = "queued" /\ ~task'[t].finalizing
  /\ \A u \in Tasks : u # t => task'[u] = task[u]
  /\ Parent[t] = NoTask => task[t].state = "none" /\ ~session.archived
  /\ Parent[t] # NoTask => ~Closed(task[Parent[t]])

(* Steering disturbs no task's life (inputs.go:26-42).                      *)
LEMMA SteeredGoesOn ==
  ASSUME TypeOK, CInv, NEW w, NEW t \in Tasks, task' = Steered(t)
  PROVE  GoOn(w)
<1> DEFINE r == task[t]
           s == IF r.state = "waiting" /\ r.pending # ""
                  THEN [r EXCEPT !.input = TRUE, !.pending = "", !.state = "queued"]
                  ELSE [r EXCEPT !.input = TRUE]
<1>1. \A u \in Tasks : task'[u] = IF u = t THEN s ELSE task[u]
  BY DEF Steered, TypeOK
<1>2. r \in TaskRow /\ TaskKeeps(t)
  BY DEF TypeOK, CInv
<1>3. /\ s.finalizing = r.finalizing /\ s.owner = r.owner /\ s.epoch = r.epoch /\ s.live = r.live
      /\ \/ s.state = r.state
         \/ r.state = "waiting" /\ s.state = "queued"
  BY <1>2 DEF TaskRow
<1> HIDE DEF s
<1>4. RowGoesOn(r, s) /\ LeavesClaims(w, r, s) /\ (r.state = "running" => s.state = "running")
  BY <1>2, <1>3 DEF RowGoesOn, LeavesClaims, Alive, TaskKeeps, Terminal, TerminalStates
<1> QED
  BY <1>1, <1>4, SameRow DEF GoOn

(* Nor does asking a task to cancel (cancel.go:11-44).                      *)
LEMMA CancelMark ==
  ASSUME TypeOK, CInv, NEW w, NEW t \in Tasks
  PROVE  LET r == task[t]
             s == Rearm([r EXCEPT !.cancel = TRUE])
         IN /\ s \in TaskRow /\ RowGoesOn(r, s) /\ LeavesClaims(w, r, s)
            /\ r.state = "running" => s.state = "running"
<1> DEFINE r == task[t]
           x == [r EXCEPT !.cancel = TRUE]
           y == [x EXCEPT !.state = IF x.state = "waiting" THEN "queued" ELSE x.state]
<1>1. r \in TaskRow /\ TaskKeeps(t)
  BY DEF TypeOK, CInv
<1>2. /\ x \in TaskRow /\ x.state = r.state /\ x.finalizing = r.finalizing
      /\ x.owner = r.owner /\ x.epoch = r.epoch /\ x.live = r.live
  BY <1>1 DEF TaskRow
<1>3. Rearm(x) = y
  BY DEF Rearm
<1> HIDE DEF x
<1>4. /\ y \in TaskRow /\ y.finalizing = r.finalizing
      /\ y.owner = r.owner /\ y.epoch = r.epoch /\ y.live = r.live
      /\ \/ y.state = r.state
         \/ r.state = "waiting" /\ y.state = "queued"
  BY <1>2 DEF TaskRow, TaskStates
<1> HIDE DEF y
<1>5. RowGoesOn(r, y) /\ LeavesClaims(w, r, y) /\ (r.state = "running" => y.state = "running")
  BY <1>1, <1>4 DEF RowGoesOn, LeavesClaims, Alive, TaskKeeps, Terminal, TerminalStates
<1> QED
  BY <1>3, <1>4, <1>5 DEF x

(* Nor does canceling a task or its tree: it marks some rows.               *)
LEMMA CanceledGoesOn ==
  ASSUME TypeOK, CInv, NEW w, NEW t \in Tasks, task' = Canceled(t)
  PROVE  GoOn(w)
<1> SUFFICES ASSUME NEW u \in Tasks
             PROVE  /\ RowGoesOn(task[u], task'[u]) /\ LeavesClaims(w, task[u], task'[u])
                    /\ task[u].state = "running" => task'[u].state = "running"
  BY DEF GoOn
<1>1. CASE task'[u] = Rearm([task[u] EXCEPT !.cancel = TRUE])
  BY <1>1, CancelMark
<1>2. CASE task'[u] = task[u]
  BY <1>2, SameRow
<1> QED
  BY <1>1, <1>2 DEF Canceled

(* Maintenance that expires a task cancels it, and notes a failure          *)
(* (maintenance.go:98-147).                                                 *)
LEMMA ExpiredGoesOn ==
  ASSUME TypeOK, CInv, NEW w, NEW t \in Tasks, Expire(t)
  PROVE  GoOn(w)
<1> SUFFICES ASSUME NEW u \in Tasks
             PROVE  /\ RowGoesOn(task[u], task'[u]) /\ LeavesClaims(w, task[u], task'[u])
                    /\ task[u].state = "running" => task'[u].state = "running"
  BY DEF GoOn
<1> DEFINE c == Canceled(t)[u]
           s == [c EXCEPT !.pending = "failed", !.error = TRUE]
<1>1. c \in TaskRow /\ RowGoesOn(task[u], c) /\ LeavesClaims(w, task[u], c)
      /\ (task[u].state = "running" => c.state = "running")
  <2>1. CASE c = Rearm([task[u] EXCEPT !.cancel = TRUE])
    BY <2>1, CancelMark
  <2>2. CASE c = task[u]
    <3>1. task[u] \in TaskRow /\ TaskKeeps(u)
      BY DEF TypeOK, CInv
    <3> HIDE DEF c
    <3> QED
      BY <2>2, <3>1 DEF RowGoesOn, LeavesClaims, TaskKeeps
  <2> QED
    BY <2>1, <2>2 DEF Canceled
<1>2. task'[u] = IF u = t THEN s ELSE c
  BY DEF Expire, Canceled
<1> HIDE DEF c
<1>3. /\ s.state = c.state /\ s.finalizing = c.finalizing
      /\ s.owner = c.owner /\ s.epoch = c.epoch /\ s.live = c.live
  BY <1>1 DEF TaskRow
<1> HIDE DEF s
<1>4. RowGoesOn(task[u], s) /\ LeavesClaims(w, task[u], s)
      /\ (task[u].state = "running" => s.state = "running")
  BY <1>1, <1>3 DEF RowGoesOn, LeavesClaims, Alive
<1> QED
  BY <1>1, <1>2, <1>4

(* A task is spawned under a coordinator that is open (spawn.go:15-33).     *)
LEMMA SpawnOpens ==
  ASSUME TypeOK, NEW t \in Tasks, SpawnAllowed(Parent[t], t), task' = Spawned(t)
  PROVE  Opens(t)
<1> DEFINE s == [NewTask EXCEPT !.state = "queued", !.input = TRUE]
<1>1. s.state = "queued" /\ ~s.finalizing
  BY NewTaskType
<1>2. \A u \in Tasks : task'[u] = IF u = t THEN s ELSE task[u]
  BY DEF Spawned, TypeOK
<1> HIDE DEF s
<1> QED
  BY <1>1, <1>2 DEF Opens, SpawnAllowed, Exists, Closed, Terminal

(* A finished child is resumed under a coordinator that is open             *)
(* (followup.go:14-34): the root of a tree that exists is never absent.     *)
LEMMA FollowupOpens ==
  ASSUME TypeOK, CInv, NEW t \in Tasks, FollowupAllowed(t), task' = FollowedUp(t)
  PROVE  Opens(t)
<1> DEFINE x == [task[t] EXCEPT !.state = "queued", !.pending = "", !.finalizing = FALSE]
           s == [x EXCEPT !.cancel = FALSE, !.error = FALSE, !.failures = 0, !.input = TRUE]
<1>1. task[t] \in TaskRow /\ TaskKeeps(t)
  BY DEF TypeOK, CInv
<1>2. s.state = "queued" /\ ~s.finalizing
  BY <1>1 DEF TaskRow
<1>3. \A u \in Tasks : task'[u] = IF u = t THEN s ELSE task[u]
  BY DEF FollowedUp, TypeOK
<1> HIDE DEF s
<1>4. Terminal(task[t].state) /\ Parent[t] # NoTask /\ ~Terminal(task[Parent[t]].state)
  BY DEF FollowupAllowed
<1>5. Exists(Parent[t])
  BY <1>1, <1>4 DEF TaskKeeps, Exists, Terminal, TerminalStates
<1> QED
  BY <1>2, <1>3, <1>4, <1>5 DEF Opens, Closed, Terminal, Exists

(* A root is created in a session that is not archived (create.go).         *)
LEMMA CreateOpens ==
  ASSUME TypeOK, NEW t \in Tasks, CreateTask(t)
  PROVE  Opens(t)
<1> DEFINE s == [NewTask EXCEPT !.state = "queued", !.input = TRUE]
<1>1. s.state = "queued" /\ ~s.finalizing
  BY NewTaskType
<1>2. \A u \in Tasks : task'[u] = IF u = t THEN s ELSE task[u]
  BY DEF CreateTask, TypeOK
<1> HIDE DEF s
<1> QED
  BY <1>1, <1>2 DEF Opens, CreateTask, Exists, Closed

(* Opening a task is promised.                                              *)
LEMMA PromisedOpen ==
  ASSUME TypeOK, CInv, NEW t \in Tasks, Opens(t), UNCHANGED <<session, call>>
  PROVE  Promised
<1>1. Life(t) # "open" /\ Life(t)' = "open" /\ \A u \in Tasks \ {t} : Life(u)' = Life(u)
  BY DEF Opens, Life, Exists, Closed, Terminal, TerminalStates
<1>2. [u \in Tasks |-> Life(u)]' = [[u \in Tasks |-> Life(u)] EXCEPT ![t] = "open"]
  BY <1>1
<1>3. [c \in Calls |-> Phase(c)]' = [c \in Calls |-> Phase(c)]
  BY DEF Phase
<1>4. CASE Parent[t] = NoTask
  <2>1. Life(t) = "absent" /\ session.archived = FALSE
    BY <1>4 DEF Opens, Life, Exists, TypeOK, Session
  <2>2. Contract!Create(t)
    BY <1>2, <1>3, <1>4, <2>1 DEF Contract!Create
  <2> QED
    BY <2>2 DEF Promised, Contract!Next
<1>5. CASE Parent[t] # NoTask
  <2>1. Parent[t] \in Tasks /\ Life(Parent[t]) = "open"
    BY <1>5, ParentAssumption DEF Opens, Life, Exists, Closed, Terminal
  <2>2. Contract!Delegate(t)
    BY <1>1, <1>2, <1>3, <1>5, <2>1 DEF Contract!Delegate
  <2> QED
    BY <2>2 DEF Promised, Contract!Next
<1> QED
  BY <1>4, <1>5

(* What goes on, or is opened, keeps what is known of tasks and claims.     *)
LEMMA TreeKept ==
  ASSUME TypeOK, CInv, NEW w, UNCHANGED <<session, call>>,
         GoOn(w) \/ \E t \in Tasks : Opens(t)
  PROVE  /\ \A u \in Tasks : TaskKeeps(u)' /\ LeavesClaims(w, task[u], task'[u])
         /\ \A u \in Tasks : task'[u].finalizing => task[u].finalizing
         /\ ArchivedIsQuiet' /\ Promised
<1>1. CASE GoOn(w)
  <2>1. \A u \in Tasks : RowGoesOn(task[u], task'[u]) /\ LeavesClaims(w, task[u], task'[u])
    BY <1>1 DEF GoOn
  <2>2. \A c \in Calls : CallGoesOn(call[c], call'[c])
    BY DEF CInv, CallKeeps, CallGoesOn
  <2>3. \A c \in Calls : call'[c].status = "running" => task'[CallTask[c]].state = "running"
    BY <1>1, RunningTask, CallAssumption DEF GoOn
  <2>4. \A u \in Tasks : TaskKeeps(u)'
    BY <2>1, <2>2, <2>3, TasksKept
  <2>5. ArchivedIsQuiet'
    BY <2>1, ArchiveKept DEF RowGoesOn, Closed, Terminal
  <2>6. Promised
    BY <2>1, LifeKept, Stutters DEF Phase
  <2> QED
    BY <2>1, <2>4, <2>5, <2>6 DEF RowGoesOn
<1>2. CASE \E t \in Tasks : Opens(t)
  <2>1. PICK t \in Tasks : Opens(t)
    BY <1>2
  <2>2. \A u \in Tasks : u # t => task'[u] = task[u]
    BY <2>1 DEF Opens
  <2>3. /\ ~Closed(task'[t]) /\ task'[t].state = "queued" /\ ~task'[t].finalizing
    BY <2>1 DEF Opens, Closed, TerminalStates
  <2>4. \A u \in Tasks : LeavesClaims(w, task[u], task'[u])
    BY <2>2, <2>3 DEF LeavesClaims, Alive
  <2>5. TaskKeeps(t)'
    <3>1. \A c \in Calls : CallTask[c] = t => call[c].status # "running"
      BY <2>1, RunningTask DEF Opens, Closed, TerminalStates
    <3>2. Parent[t] # NoTask => ~Closed(task'[Parent[t]])
      BY <2>1, <2>2, <2>3, ParentAssumption DEF Opens
    <3> QED
      BY <2>3, <3>1, <3>2 DEF TaskKeeps, Exists, Closed, Terminal, TerminalStates
  <2>6. ASSUME NEW u \in Tasks, u # t PROVE TaskKeeps(u)'
    <3>1. TaskKeeps(u) /\ task'[u] = task[u]
      BY <2>2, <2>6 DEF CInv
    <3>2. Parent[u] # NoTask => /\ Exists(u) => Exists(Parent[u])'
                                /\ ~Closed(task[u]) => ~Closed(task'[Parent[u]])
      BY <2>2, <2>3, <3>1, ParentAssumption DEF TaskKeeps, Exists
    <3> QED
      BY <3>1, <3>2 DEF TaskKeeps, Exists
  <2>7. ArchivedIsQuiet'
    BY <2>1, ParentAssumption DEF Opens, CInv, ArchivedIsQuiet, Exists, Closed, Terminal
  <2>8. Promised
    BY <2>1, PromisedOpen
  <2> QED
    BY <2>2, <2>3, <2>4, <2>5, <2>6, <2>7, <2>8
<1> QED
  BY <1>1, <1>2

(* The requests of clients, and of maintenance, on a tree.                  *)
LEMMA TreeRequestStep ==
  ASSUME IInv, IInv', CInv, NEW t \in Tasks,
         \/ CreateTask(t) \/ Spawn(t) \/ Steer(t) \/ Followup(t) \/ Cancel(t) \/ Expire(t)
  PROVE  CInv' /\ Promised
<1>1. TypeOK /\ UNCHANGED <<session, call, wk, execs>>
  BY DEF CreateTask, Spawn, Steer, Followup, Cancel, Expire, IInv
<1>2. GoOn(NoWorker) \/ Opens(t)
  BY <1>1, SteeredGoesOn, CanceledGoesOn, ExpiredGoesOn, SpawnOpens, FollowupOpens, CreateOpens
  DEF Spawn, Steer, Followup, Cancel
<1>3. /\ \A u \in Tasks : TaskKeeps(u)' /\ LeavesClaims(NoWorker, task[u], task'[u])
      /\ ArchivedIsQuiet' /\ Promised
  BY <1>1, <1>2, TreeKept
<1>4. \A v \in Workers : Knows(v)'
  BY <1>1, <1>3, OtherKnows, WorkerAssumption DEF CallLeft
<1>5. \A c \in Calls : CallKeeps(c)'
  BY <1>1 DEF CInv, CallKeeps
<1>6. \A v \in Workers : Executes(v)'
  BY <1>1 DEF CInv, Executes
<1> QED
  BY <1>3, <1>4, <1>5, <1>6 DEF CInv

-----------------------------------------------------------------------------
(* Executions.                                                              *)

(* A worker about to execute a call makes its first execution.              *)
LEMMA ExecsKept ==
  ASSUME TypeOK, CInv, NEW w \in Workers, wk[w].pc = "exec", UNCHANGED call,
         session'.writerCall = session.writerCall,
         execs' = [execs EXCEPT ![wk[w].head] = @ + 1]
  PROVE  /\ \A c \in Calls : CallKeeps(c)'
         /\ \A c \in Calls : execs'[c] = execs[c] \/ wk[w].head = c
<1>1. Executes(w)
  BY DEF CInv
<1>2. \A c \in Calls : execs'[c] = IF c = wk[w].head THEN 1 ELSE execs[c]
  BY <1>1 DEF Executes, TypeOK
<1>3. \A c \in Calls : CallKeeps(c)'
  BY <1>1, <1>2 DEF CInv, CallKeeps, Executes
<1> QED
  BY <1>2, <1>3

(* A worker that executed its call goes on to record the outcome.           *)
LEMMA RecordKnows ==
  ASSUME TypeOK, CInv, NEW w \in Workers, wk[w].pc = "exec", Goto(w, "record"), UNCHANGED call,
         Fenced(w)' => Fenced(w) /\ (task'[wk[w].task].finalizing => task[wk[w].task].finalizing)
  PROVE  Knows(w)' /\ wk'[w].pc = "record" /\ \A v \in Workers \ {w} : wk'[v] = wk[v]
<1>1. /\ wk'[w].pc = "record" /\ wk'[w].task = wk[w].task /\ wk'[w].head = wk[w].head
      /\ \A v \in Workers \ {w} : wk'[v] = wk[v]
  BY GotoKeeps DEF PCs
<1>2. Knows(w)
  BY DEF CInv
<1> QED
  BY <1>1, <1>2 DEF Knows, Has

(* A call's executor runs (tools.go:46-63).                                 *)
LEMMA ExecuteStep ==
  ASSUME IInv, IInv', CInv, NEW w \in Workers, Execute(w)
  PROVE  CInv' /\ Promised
<1>1. /\ wk[w].pc = "exec" /\ Goto(w, "record") /\ UNCHANGED <<session, task, call>>
      /\ execs' = [execs EXCEPT ![wk[w].head] = @ + 1] /\ TypeOK
  BY DEF Execute, IInv
<1>2. \A c \in Calls : CallKeeps(c)' /\ (execs'[c] = execs[c] \/ wk[w].head = c)
  BY <1>1, ExecsKept
<1>3. wk'[w].task = wk[w].task /\ wk'[w].epoch = wk[w].epoch
  BY <1>1, GotoKeeps DEF PCs
<1>4. Fenced(w)' => Fenced(w)
  BY <1>1, <1>3 DEF Fenced
<1>5. Knows(w)' /\ wk'[w].pc = "record" /\ \A v \in Workers \ {w} : wk'[v] = wk[v]
  BY <1>1, <1>4, RecordKnows
<1>6. \A v \in Workers \ {w} : Knows(v)'
  BY <1>1, <1>5, SameRow, OtherKnows DEF CallLeft
<1>7. \A v \in Workers : Executes(v)'
  <2>1. \A v \in Workers \ {w} : Executes(v)'
    BY <1>1, <1>2, <1>5, OthersExecute
  <2> QED
    BY <1>5, <2>1 DEF Executes
<1>8. (\A t \in Tasks : TaskKeeps(t)') /\ ArchivedIsQuiet'
  BY <1>1 DEF CInv, TaskKeeps, Exists, ArchivedIsQuiet
<1>9. Promised
  BY <1>1, Stutters DEF Life, Phase, Exists
<1> QED
  BY <1>2, <1>5, <1>6, <1>7, <1>8, <1>9 DEF CInv

(* An agent call changes its tree (collaboration.go:51-106).                *)
LEMMA AgentStep ==
  ASSUME IInv, IInv', CInv, NEW w \in Workers, AgentOperation(w)
  PROVE  CInv' /\ Promised
<1> DEFINE t == wk[w].task
<1>1. /\ wk[w].pc = "exec" /\ Fenced(w) /\ Goto(w, "record") /\ UNCHANGED <<session, call>>
      /\ execs' = [execs EXCEPT ![wk[w].head] = @ + 1] /\ TypeOK
  BY DEF AgentOperation, IInv
<1>2. GoOn(w) \/ \E c \in Tasks : Opens(c)
  <2>1. CASE \E c \in Tasks : SpawnAllowed(t, c) /\ task' = Spawned(c)
    BY <1>1, <2>1, SpawnOpens DEF SpawnAllowed
  <2>2. CASE \E u \in Tree(t) : SteerAllowed(u) /\ task' = Steered(u)
    BY <1>1, <2>2, SteeredGoesOn DEF Tree
  <2>3. CASE \E u \in Tree(t) : FollowupAllowed(u) /\ task' = FollowedUp(u)
    BY <1>1, <2>3, FollowupOpens DEF Tree
  <2>4. CASE \E u \in Children(t) : task' = Canceled(u)
    BY <1>1, <2>4, CanceledGoesOn DEF Children
  <2>5. CASE UNCHANGED task
    BY <2>5, SameRow DEF GoOn
  <2> QED
    BY <2>1, <2>2, <2>3, <2>4, <2>5 DEF AgentOperation
<1>3. /\ \A u \in Tasks : TaskKeeps(u)' /\ LeavesClaims(w, task[u], task'[u])
      /\ \A u \in Tasks : task'[u].finalizing => task[u].finalizing
      /\ ArchivedIsQuiet' /\ Promised
  BY <1>1, <1>2, TreeKept
<1>4. \A c \in Calls : CallKeeps(c)' /\ (execs'[c] = execs[c] \/ wk[w].head = c)
  BY <1>1, ExecsKept
<1>5. Knows(w)' /\ wk'[w].pc = "record" /\ \A v \in Workers \ {w} : wk'[v] = wk[v]
  BY <1>1, <1>3, FencedTask, RecordKnows
<1>6. \A v \in Workers \ {w} : Knows(v)'
  BY <1>1, <1>3, <1>5, OtherKnows DEF CallLeft
<1>7. \A v \in Workers : Executes(v)'
  <2>1. \A v \in Workers \ {w} : Executes(v)'
    BY <1>1, <1>4, <1>5, OthersExecute
  <2> QED
    BY <1>5, <2>1 DEF Executes
<1> QED
  BY <1>3, <1>4, <1>5, <1>6, <1>7 DEF CInv

-----------------------------------------------------------------------------
(* Decisions of clients, and the clock.                                     *)

(* Answering calls of an open task is promised.                             *)
LEMMA PromisedAnswer ==
  ASSUME session'.activeRoot = session.activeRoot, session'.archived = session.archived,
         \A u \in Tasks : Life(u)' = Life(u),
         NEW t \in Tasks, Life(t) = "open",
         NEW S \in SUBSET Calls,
         \A c \in S : CallTask[c] = t /\ Phase(c) \in {"pending", "running", "uncertain"},
         \A c \in Calls : Phase(c)' = IF c \in S THEN "answered" ELSE Phase(c)
  PROVE  Promised
<1>1. [u \in Tasks |-> Life(u)]' = [u \in Tasks |-> Life(u)]
  OBVIOUS
<1>2. [d \in Calls |-> Phase(d)]'
        = [d \in Calls |-> IF d \in S THEN "answered" ELSE [e \in Calls |-> Phase(e)][d]]
  OBVIOUS
<1>3. S \in SUBSET Contract!Of(t)
  BY DEF Contract!Of
<1>4. \A c \in S : [e \in Calls |-> Phase(e)][c] \in {"pending", "running", "uncertain"}
  OBVIOUS
<1>5. Contract!Answer(t)
  BY <1>1, <1>2, <1>3, <1>4 DEF Contract!Answer, Contract!Move
<1> QED
  BY <1>5 DEF Promised, Contract!Next

(* A task with a call that is not answered is open.                         *)
LEMMA CallOpen ==
  ASSUME CInv, NEW c \in Calls, call[c].status \notin {"none", "completed"}
  PROVE  CallTask[c] \in Tasks /\ Life(CallTask[c]) = "open" /\ ~task[CallTask[c]].finalizing
<1>1. CallTask[c] \in Tasks /\ TaskKeeps(CallTask[c])
  BY CallAssumption DEF CInv
<1> QED
  BY <1>1 DEF TaskKeeps, Life, Exists

(* A client approves, denies or answers a call, whoever works on its task   *)
(* meanwhile (tool_result.go:33-91).                                        *)
LEMMA ResolveStep ==
  ASSUME IInv, IInv', CInv, NEW c \in Calls, Approve(c) \/ Deny(c) \/ SubmitResult(c)
  PROVE  CInv' /\ Promised
<1> DEFINE t == CallTask[c]
<1>1. UNCHANGED <<wk, execs>> /\ TypeOK
  BY DEF Approve, Deny, SubmitResult, Resolved, IInv
<1>2. PICK s : /\ Resolved(c, s)
               /\ \/ /\ call[c].status = "approval" /\ UNCHANGED session
                     /\ s \in {"custom", "ready", "completed"}
                  \/ /\ call[c].status \in {"custom", "unknown"} /\ s = "completed"
                     /\ session' = [session EXCEPT !.writerCall = IF @ = c THEN NoCall ELSE @]
  BY DEF Approve, Deny, SubmitResult
<1>3. t \in Tasks /\ Life(t) = "open" /\ ~task[t].finalizing
  BY <1>2, CallOpen
<1>4. \A d \in Calls : IF d = c THEN call'[d].status = s /\ call'[d].delivered = call[d].delivered
                                ELSE call'[d] = call[d]
  BY <1>1, <1>2 DEF Resolved, TypeOK, CallRow
<1>5. \A u \in Tasks :
        \/ task'[u] = task[u]
        \/ /\ u = t /\ task[u].state \in {"waiting", "unknown"} /\ task'[u].state = "queued"
           /\ ~task'[u].finalizing
  <2>1. CASE /\ task[t].state \in {"waiting", "unknown"}
             /\ task' = [task EXCEPT ![t].state = "queued", ![t].error = FALSE]
    <3> DEFINE x == [[task[t] EXCEPT !.state = "queued"] EXCEPT !.error = FALSE]
    <3>1. task[t] \in TaskRow
      BY <1>1, <1>3 DEF TypeOK
    <3>2. x.state = "queued" /\ ~x.finalizing
      BY <1>3, <3>1 DEF TaskRow
    <3>3. task' = [task EXCEPT ![t] = x]
      BY <1>1, <1>3, <2>1 DEF TypeOK
    <3> HIDE DEF x
    <3> QED
      BY <1>1, <1>3, <2>1, <3>2, <3>3 DEF TypeOK
  <2>2. CASE UNCHANGED task
    BY <2>2
  <2> QED
    BY <1>2, <2>1, <2>2 DEF Resolved
<1>6. \A u \in Tasks : /\ RowGoesOn(task[u], task'[u]) /\ LeavesClaims(NoWorker, task[u], task'[u])
                       /\ task[u].state = "running" => task'[u].state = "running"
  <2> TAKE u \in Tasks
  <2>1. CASE task'[u] = task[u]
    BY <2>1, SameRow
  <2>2. CASE /\ task[u].state \in {"waiting", "unknown"} /\ task'[u].state = "queued"
             /\ ~task'[u].finalizing
    BY <2>2 DEF RowGoesOn, LeavesClaims, Alive, Terminal, TerminalStates
  <2> QED
    BY <1>5, <2>1, <2>2
<1>7. ~call[c].delivered
  BY <1>2 DEF CInv, CallKeeps
<1>8. \A d \in Calls : CallGoesOn(call[d], call'[d]) /\ CallLeft(call[d], call'[d])
  BY <1>2, <1>4, <1>7 DEF CInv, CallKeeps, CallGoesOn, CallLeft, Started
<1>9. /\ session'.activeRoot = session.activeRoot /\ session'.archived = session.archived
      /\ session'.writerCall = IF s = "completed" /\ call[c].status # "approval"
                                  /\ session.writerCall = c THEN NoCall ELSE session.writerCall
  BY <1>1, <1>2 DEF TypeOK, Session
<1>10. \A d \in Calls : CallKeeps(d)'
  <2> SUFFICES ASSUME NEW d \in Calls PROVE CallKeeps(d)'
    OBVIOUS
  <2>1. CallKeeps(d) /\ CallKeeps(c)
    BY DEF CInv
  <2>2. CallGoesOn(call[d], call'[d]) /\ \A e \in Calls : CallGoesOn(call[e], call'[e])
    BY <1>8
  <2>3. Kind[d] = "write" => (session'.writerCall = d <=> Held(call'[d]))
    BY <1>2, <1>4, <1>9, <2>1, CallAssumption DEF CallKeeps, Held
  <2> QED
    BY <1>1, <2>1, <2>2, <2>3 DEF CallKeeps, CallGoesOn
<1>11. \A d \in Calls : call'[d].status = "running" => task'[CallTask[d]].state = "running"
  BY <1>6, <1>8, RunningTask, CallAssumption DEF CallGoesOn
<1>12. \A u \in Tasks : TaskKeeps(u)'
  BY <1>1, <1>6, <1>8, <1>11, TasksKept
<1>13. \A v \in Workers : Knows(v)'
  BY <1>1, <1>6, <1>8, OtherKnows, WorkerAssumption
<1>14. \A v \in Workers : Executes(v)'
  BY <1>1, <1>8 DEF CInv, Executes, CallGoesOn
<1>15. ArchivedIsQuiet'
  BY <1>6, <1>9, ArchiveKept DEF RowGoesOn, Closed, Terminal
<1>16. Promised
  <2>1. \A u \in Tasks : Life(u)' = Life(u)
    BY <1>6, LifeKept
  <2>2. CASE s = "completed"
    <3>1. \A d \in Calls : Phase(d)' = IF d \in {c} THEN "answered" ELSE Phase(d)
      BY <1>4, <1>7, <2>2 DEF Phase
    <3>2. Phase(c) \in {"pending", "running", "uncertain"}
      BY <1>2 DEF Phase
    <3> QED
      BY <1>3, <1>9, <2>1, <3>1, <3>2, PromisedAnswer
  <2>3. CASE s # "completed"
    <3>1. \A d \in Calls : Phase(d)' = Phase(d)
      BY <1>2, <1>4, <2>3 DEF Phase
    <3> QED
      BY <1>9, <2>1, <3>1, Stutters
  <2> QED
    BY <2>2, <2>3
<1> QED
  BY <1>10, <1>12, <1>13, <1>14, <1>15, <1>16 DEF CInv

(* A client gives an uncertain task back to the workers, and maintenance    *)
(* wakes one whose wait is over (reconcile.go:13-48, wait.go:110-138).      *)
LEMMA RequeueStep ==
  ASSUME IInv, IInv', CInv, NEW t \in Tasks,
         Reconcile(t) \/ \E c \in Calls : CallTask[c] = t /\ WakeWaiter(c)
  PROVE  CInv' /\ Promised
<1>1. /\ UNCHANGED <<session, call, wk, execs>> /\ task[t].state \in {"unknown", "waiting"}
      /\ task[t] \in TaskRow /\ TaskKeeps(t) /\ TypeOK
  BY DEF Reconcile, WakeWaiter, IInv, TypeOK, CInv
<1>2. task'[t].state = "queued" /\ ~task'[t].finalizing /\ task' = [task EXCEPT ![t] = task'[t]]
  <2>1. CASE Reconcile(t)
    BY <1>1, <2>1 DEF Reconcile, TypeOK, TaskRow
  <2>2. CASE \E c \in Calls : CallTask[c] = t /\ WakeWaiter(c)
    <3> DEFINE x == [task[t] EXCEPT !.state = "queued"]
    <3>1. task[t].state = "waiting" /\ task' = [task EXCEPT ![t] = x]
      BY <2>2 DEF WakeWaiter
    <3>2. x.state = "queued" /\ ~x.finalizing
      BY <1>1, <3>1 DEF TaskRow, TaskKeeps, TerminalStates
    <3> HIDE DEF x
    <3> QED
      BY <1>1, <3>1, <3>2 DEF TypeOK
  <2> QED
    BY <2>1, <2>2
<1>3. RowGoesOn(task[t], task'[t]) /\ LeavesClaims(NoWorker, task[t], task'[t])
  BY <1>1, <1>2 DEF RowGoesOn, LeavesClaims, Alive, Terminal, TerminalStates
<1> QED
  BY <1>1, <1>2, <1>3, RowRequest

(* A wait's deadline passes.                                                *)
LEMMA DeadlineStep ==
  ASSUME IInv, IInv', CInv, NEW c \in Calls, DeadlinePasses(c)
  PROVE  CInv' /\ Promised
<1>1. UNCHANGED <<session, task, wk, execs>> /\ TypeOK
  BY DEF DeadlinePasses, IInv
<1>2. \A d \in Calls : call'[d].status = call[d].status /\ call'[d].delivered = call[d].delivered
  BY <1>1 DEF DeadlinePasses, TypeOK, CallRow
<1>3. \A d \in Calls : CallKeeps(d)'
  BY <1>1, <1>2 DEF CInv, CallKeeps, Started, Held
<1>4. \A u \in Tasks : TaskKeeps(u)'
  BY <1>1, <1>2 DEF CInv, TaskKeeps, Exists
<1>5. \A v \in Workers : Knows(v)'
  BY <1>1, <1>2, SameRow, OtherKnows, WorkerAssumption DEF CallLeft
<1>6. \A v \in Workers : Executes(v)'
  BY <1>1, <1>2 DEF CInv, Executes, Started
<1>7. ArchivedIsQuiet'
  BY <1>1 DEF CInv, ArchivedIsQuiet, Exists
<1>8. Promised
  BY <1>1, <1>2, Stutters DEF Life, Phase, Exists
<1> QED
  BY <1>3, <1>4, <1>5, <1>6, <1>7, <1>8 DEF CInv

(* A session whose tasks are all finished is archived (archive.go:11-26).   *)
LEMMA ArchiveStep ==
  ASSUME IInv, IInv', CInv, Archive
  PROVE  CInv' /\ Promised
<1>1. /\ UNCHANGED <<task, call, wk, execs>> /\ session.activeRoot = NoTask
      /\ \A t \in Tasks : Exists(t) => Terminal(task[t].state)
      /\ session'.activeRoot = session.activeRoot /\ session'.writerCall = session.writerCall
      /\ session'.archived = TRUE
  BY DEF Archive, IInv, TypeOK, Session
<1>2. \A d \in Calls : CallKeeps(d)'
  BY <1>1 DEF CInv, CallKeeps
<1>3. \A u \in Tasks : TaskKeeps(u)'
  BY <1>1 DEF CInv, TaskKeeps, Exists
<1>4. \A v \in Workers : Knows(v)' /\ Executes(v)'
  BY <1>1 DEF CInv, Knows, Executes, Has, Parks, Fenced
<1>5. ArchivedIsQuiet'
  BY <1>1 DEF ArchivedIsQuiet, Exists
<1>6. Promised
  <2>1. [u \in Tasks |-> Life(u)]' = [u \in Tasks |-> Life(u)]
    BY <1>1 DEF Life, Exists
  <2>2. [d \in Calls |-> Phase(d)]' = [d \in Calls |-> Phase(d)]
    BY <1>1 DEF Phase
  <2>3. \A t \in Tasks : [u \in Tasks |-> Life(u)][t] # "open"
    BY <1>1 DEF Life
  <2>4. Contract!Archive
    BY <1>1, <2>1, <2>2, <2>3 DEF Contract!Archive
  <2> QED
    BY <2>4 DEF Promised, Contract!Next
<1> QED
  BY <1>2, <1>3, <1>4, <1>5, <1>6 DEF CInv

-----------------------------------------------------------------------------
(* Steps of a claim's holder that change its own calls.                     *)

(* Calls of one claim's task concern no other worker.                       *)
LEMMA OwnCallsStep ==
  ASSUME IInv, IInv', CInv, NEW w \in Workers, Fenced(w), UNCHANGED execs,
         session'.activeRoot = session.activeRoot, session'.archived = session.archived,
         \A c \in Calls : CallTask[c] # wk[w].task => call'[c] = call[c],
         \A c \in Calls : CallGoesOn(call[c], call'[c]),
         \A c \in Calls : CallKeeps(c)',
         \A c \in Calls : call'[c].status = "running" => task'[CallTask[c]].state = "running",
         \A t \in Tasks : RowGoesOn(task[t], task'[t]) /\ LeavesClaims(w, task[t], task'[t]),
         \A v \in Workers \ {w} : wk'[v] = wk[v],
         Knows(w)', wk'[w].pc # "exec"
  PROVE  CInv' /\ \A t \in Tasks : Life(t)' = Life(t)
<1>1. TypeOK
  BY DEF IInv
<1>2. \A t \in Tasks : TaskKeeps(t)'
  BY <1>1, TasksKept
<1>3. \A v \in Workers \ {w} : Knows(v)'
  BY <1>1, ClaimsApart, OtherKnows DEF CallLeft
<1>4. \A v \in Workers \ {w} : Executes(v)'
  BY <1>1, OthersExecute DEF CallGoesOn
<1>5. Executes(w)'
  BY DEF Executes
<1>6. ArchivedIsQuiet'
  BY ArchiveKept DEF RowGoesOn, Closed, Terminal
<1> QED
  BY <1>2, <1>3, <1>4, <1>5, <1>6, LifeKept DEF CInv

(* What a claim's holder may count on: its task is open and has the session.*)
LEMMA Holder ==
  ASSUME IInv, CInv, NEW w \in Workers, Fenced(w)
  PROVE  LET t == wk[w].task
         IN /\ t \in Tasks /\ task[t] \in TaskRow /\ task[t].state = "running"
            /\ task[t].owner = w /\ Life(t) = "open" /\ session.activeRoot = RootOf(t)
            /\ TaskKeeps(t) /\ Knows(w) /\ Executes(w) /\ TypeOK
            /\ wk[w] \in WorkerRow
BY FencedTask DEF IInv, CInv, OneTreeRuns, Life, Exists, Terminal, TerminalStates, TypeOK

(* A call's outcome is recorded, or found to be unknown (tools.go:64-97).   *)
LEMMA RecordStep ==
  ASSUME IInv, IInv', CInv, NEW w \in Workers, Record(w)
  PROVE  CInv' /\ Promised
<1> DEFINE t == wk[w].task
           c == wk[w].head
<1>1. wk[w].pc = "record" /\ Fenced(w) /\ UNCHANGED execs
  BY DEF Record
<1>2. /\ t \in Tasks /\ task[t] \in TaskRow /\ task[t].state = "running" /\ Life(t) = "open"
      /\ TaskKeeps(t) /\ Knows(w) /\ TypeOK
  BY <1>1, Holder
<1>3. /\ c \in Calls /\ CallTask[c] = t /\ call[c].status = "running" /\ ~task[t].finalizing
      /\ ~call[c].delivered
      /\ \A d \in Calls : CallTask[d] = t /\ call[d].status = "running" => d = c
  BY <1>1, <1>2 DEF Knows, Has, TaskKeeps, CInv, CallKeeps
<1>4. PICK s \in {"completed", "unknown"} : call' = [call EXCEPT ![c].status = s]
  BY DEF Record
<1>5. \A d \in Calls : IF d = c THEN call'[d].status = s /\ call'[d].delivered = FALSE
                                ELSE call'[d] = call[d]
  BY <1>2, <1>3, <1>4 DEF TypeOK, CallRow
<1>6. \A d \in Calls : CallGoesOn(call[d], call'[d])
  BY <1>3, <1>5 DEF CInv, CallKeeps, CallGoesOn, Started
<1>7. \A d \in Calls : call'[d].status = "running" => CallTask[d] # t /\ call[d].status = "running"
  BY <1>3, <1>5
<1>8. CASE /\ s = "completed" /\ GoBegin(w) /\ UNCHANGED task
           /\ session' = [session EXCEPT !.writerCall = IF Kind[c] = "write" THEN NoCall ELSE @]
  <2>1. /\ session'.activeRoot = session.activeRoot /\ session'.archived = session.archived
        /\ session'.writerCall = IF Kind[c] = "write" THEN NoCall ELSE session.writerCall
    BY <1>2, <1>8 DEF TypeOK, Session
  <2>2. \A d \in Calls : CallKeeps(d)'
    <3> SUFFICES ASSUME NEW d \in Calls PROVE CallKeeps(d)'
      OBVIOUS
    <3>1. CallKeeps(d) /\ CallKeeps(c)
      BY <1>3 DEF CInv
    <3>2. Kind[d] = "write" => (session'.writerCall = d <=> Held(call'[d]))
      BY <1>3, <1>5, <1>8, <2>1, <3>1, CallAssumption DEF CallKeeps, Held
    <3> QED
      BY <1>1, <1>6, <3>1, <3>2 DEF CallKeeps, CallGoesOn
  <2>3. Knows(w)' /\ wk'[w].pc # "exec" /\ \A v \in Workers \ {w} : wk'[v] = wk[v]
    BY <1>2, <1>3, <1>7, <1>8, BeginKnows
  <2>4. \A u \in Tasks : RowGoesOn(task[u], task'[u]) /\ LeavesClaims(w, task[u], task'[u])
    BY <1>8, SameRow
  <2>5. \A d \in Calls : call'[d].status = "running" => task'[CallTask[d]].state = "running"
    BY <1>7, <1>8, RunningTask
  <2>6. CInv' /\ \A u \in Tasks : Life(u)' = Life(u)
    BY <1>1, <1>3, <1>5, <1>6, <2>1, <2>2, <2>3, <2>4, <2>5, OwnCallsStep
  <2>7. /\ Phase(c) \in {"pending", "running", "uncertain"}
        /\ \A d \in Calls : Phase(d)' = IF d \in {c} THEN "answered" ELSE Phase(d)
    BY <1>3, <1>5, <1>8 DEF Phase
  <2> QED
    BY <1>2, <1>3, <2>1, <2>6, <2>7, PromisedAnswer
<1>9. CASE /\ s = "unknown" /\ GoIdle(w) /\ UNCHANGED session
           /\ task' = [task EXCEPT ![t] = [Release(@, "unknown") EXCEPT !.error = TRUE]]
  <2> DEFINE r == [Release(task[t], "unknown") EXCEPT !.error = TRUE]
  <2>1. r \in TaskRow /\ r.state = "unknown" /\ r.finalizing = task[t].finalizing
    BY <1>2, ReleaseErrorType DEF TaskStates
  <2>2. task' = [task EXCEPT ![t] = r]
    BY <1>9
  <2> HIDE DEF r
  <2>3. \A u \in Tasks : RowGoesOn(task[u], task'[u]) /\ LeavesClaims(w, task[u], task'[u])
    BY <1>1, <1>2, <1>3, <2>1, <2>2, OwnRow DEF Alive
  <2>4. \A d \in Calls : CallKeeps(d)'
    <3>1. \A d \in Calls : Held(call'[d]) <=> Held(call[d])
      BY <1>3, <1>5, <1>9 DEF Held
    <3> QED
      BY <1>1, <1>2, <1>6, <1>9, <3>1, CallsKept
  <2>5. \A d \in Calls : call'[d].status = "running" => task'[CallTask[d]].state = "running"
    BY <1>2, <1>7, <2>2, RunningTask, CallAssumption DEF TypeOK
  <2>6. Knows(w)' /\ wk'[w].pc # "exec" /\ \A v \in Workers \ {w} : wk'[v] = wk[v]
    BY <1>2, <1>9, IdleKnows
  <2>7. CInv' /\ \A u \in Tasks : Life(u)' = Life(u)
    BY <1>1, <1>3, <1>5, <1>6, <1>9, <2>3, <2>4, <2>5, <2>6, OwnCallsStep
  <2>8. PICK k \in Calls : k = c
    BY <1>3
  <2>9. /\ Phase(k) = "running" /\ Phase(k)' = "uncertain"
        /\ \A d \in Calls \ {k} : Phase(d)' = Phase(d)
    BY <1>3, <1>5, <1>9, <2>8 DEF Phase
  <2> QED
    BY <1>9, <2>7, <2>9, PromisedLose
<1> QED
  <2>1. \A x \in {"completed", "unknown"} :
          call' = [call EXCEPT ![c].status = x] => x = s
    BY <1>2, <1>3, <1>5 DEF TypeOK, CallRow
  <2> QED
    BY <1>8, <1>9, <2>1 DEF Record

(* Handing a result to the model, in order, is promised.                    *)
LEMMA PromisedDeliver ==
  ASSUME session'.activeRoot = session.activeRoot, session'.archived = session.archived,
         \A u \in Tasks : Life(u)' = Life(u), NEW c \in Calls, CallTask[c] \in Tasks,
         Life(CallTask[c]) = "open", session.activeRoot = RootOf(CallTask[c]),
         Phase(c) = "answered",
         \A d \in Calls : CallTask[d] = CallTask[c] /\ d < c => Phase(d) = "delivered",
         \A d \in Calls : Phase(d)' = IF d = c THEN "delivered" ELSE Phase(d)
  PROVE  Promised
<1>1. [u \in Tasks |-> Life(u)]' = [u \in Tasks |-> Life(u)]
  OBVIOUS
<1>2. [d \in Calls |-> Phase(d)]'
        = [d \in Calls |-> IF d \in {c} THEN "delivered" ELSE [e \in Calls |-> Phase(e)][d]]
  OBVIOUS
<1>3. Contract!Holds(CallTask[c])
  BY DEF Contract!Holds, Contract!RootOf, RootOf
<1>4. \A d \in Contract!Of(CallTask[c]) : d < c => [e \in Calls |-> Phase(e)][d] = "delivered"
  BY DEF Contract!Of
<1>5. [e \in Calls |-> Phase(e)][c] = "answered"
  OBVIOUS
<1>6. Contract!Deliver(c)
  BY <1>1, <1>2, <1>3, <1>4, <1>5 DEF Contract!Deliver, Contract!Move
<1> QED
  BY <1>6 DEF Promised, Contract!Next

(* The first result not delivered is delivered (step.go:79-102).            *)
LEMMA DeliverStep ==
  ASSUME IInv, IInv', CInv, NEW w \in Workers, Deliver(w)
  PROVE  CInv' /\ Promised
<1> DEFINE t == wk[w].task
           rest == wk[w].batch \ {First(wk[w].batch)}
<1>1. wk[w].pc = "deliver" /\ Fenced(w) /\ UNCHANGED <<session, task, execs>>
  BY DEF Deliver
<1>2. /\ t \in Tasks /\ task[t].state = "running" /\ Life(t) = "open"
      /\ session.activeRoot = RootOf(t) /\ TaskKeeps(t) /\ Knows(w) /\ TypeOK /\ wk[w] \in WorkerRow
  BY <1>1, Holder
<1>3. wk[w].batch # {} /\ wk[w].batch \in SUBSET Calls
  BY <1>1, <1>2 DEF Knows, WorkerRow
<1>4. PICK c \in wk[w].batch : c = First(wk[w].batch) /\ \A d \in wk[w].batch : c <= d
  BY <1>3, FirstType
<1>5. \A b \in wk[w].batch :
        /\ b \in Calls /\ CallTask[b] = t /\ call[b].status = "completed" /\ ~call[b].delivered
        /\ \A d \in Calls : CallTask[d] = t /\ d < b => call[d].delivered \/ d \in wk[w].batch
  BY <1>1, <1>2 DEF Knows, Has
<1>6. /\ ~task[t].finalizing /\ \A d \in Calls : CallTask[d] = t => call[d].status # "running"
  BY <1>1, <1>2 DEF Knows, Has
<1>7. \A d \in Calls : /\ call'[d].status = call[d].status
                       /\ call'[d].delivered = IF d = c THEN TRUE ELSE call[d].delivered
  BY <1>2, <1>4, <1>5 DEF Deliver, TypeOK, CallRow
<1>8. \A d \in Calls : CallGoesOn(call[d], call'[d]) /\ (Held(call'[d]) <=> Held(call[d]))
  BY <1>4, <1>5, <1>7 DEF CInv, CallKeeps, CallGoesOn, Started, Held
<1>9. \A d \in Calls : CallTask[d] # t => call'[d] = call[d]
  BY <1>2, <1>4, <1>5 DEF Deliver, TypeOK
<1>10. \A d \in Calls : CallKeeps(d)'
  BY <1>1, <1>2, <1>8, CallsKept
<1>11. \A u \in Tasks : RowGoesOn(task[u], task'[u]) /\ LeavesClaims(w, task[u], task'[u])
  BY <1>1, SameRow
<1>12. \A d \in Calls : call'[d].status = "running" => task'[CallTask[d]].state = "running"
  BY <1>1, <1>7, RunningTask
<1>13. Knows(w)' /\ wk'[w].pc # "exec" /\ \A v \in Workers \ {w} : wk'[v] = wk[v]
  <2>1. CASE GoBegin(w)
    BY <1>1, <1>2, <1>6, <1>7, <2>1, BeginKnows
  <2>2. CASE /\ ~(rest = {} /\ wk[w].then = "begin")
             /\ wk' = [wk EXCEPT ![w].batch = rest,
                                 ![w].pc = IF rest = {} THEN wk[w].then ELSE "deliver"]
    <3> DEFINE n == IF rest = {} THEN wk[w].then ELSE "deliver"
               x == [[wk[w] EXCEPT !.batch = rest] EXCEPT !.pc = n]
    <3>1. wk' = [wk EXCEPT ![w] = x]
      BY <2>2
    <3>2. /\ rest = {} => n \in {"idle", "tool", "wait", "park"} /\ n = wk[w].then
          /\ rest # {} => n = "deliver"
      BY <1>2, <2>2 DEF WorkerRow
    <3>3. \A b : b \in rest <=> b \in wk[w].batch /\ b # c
      BY <1>4
    <3> HIDE DEF rest, n
    <3>4. /\ x.pc = n /\ x.batch = rest /\ x.task = t /\ x.then = wk[w].then
          /\ x.head = wk[w].head
      BY <1>2 DEF WorkerRow
    <3> HIDE DEF x
    <3>5. wk'[w] = x /\ wk'[w].task = t /\ \A v \in Workers \ {w} : wk'[v] = wk[v]
      BY <1>2, <3>1, <3>4 DEF TypeOK
    <3>6. /\ wk[w].then = "tool" => Has(t, wk[w].head, {"ready"})
          /\ wk[w].then = "wait" => Has(t, wk[w].head, {"ready", "waiting_children"})
      BY <1>1, <1>2 DEF Knows
    <3>7. wk[w].then = "park" => \A h : h = wk[w].head =>
            /\ h \in Calls /\ CallTask[h] = t /\ h \notin rest
            /\ call'[h].status \in Undecided \cup Decided /\ ~call'[h].delivered
      <4> SUFFICES ASSUME wk[w].then = "park", NEW h, h = wk[w].head
                   PROVE  /\ h \in Calls /\ CallTask[h] = t /\ h \notin rest
                          /\ call'[h].status \in Undecided \cup Decided /\ ~call'[h].delivered
        OBVIOUS
      <4>1. /\ h \in Calls /\ CallTask[h] = t /\ h \notin wk[w].batch
            /\ call[h].status \in Undecided \cup Decided /\ ~call[h].delivered
        BY <1>1, <1>2 DEF Knows, Parks, Has
      <4> QED
        BY <1>4, <1>7, <3>3, <4>1
    <3>8. CASE rest = {}
      BY <1>1, <1>6, <1>7, <3>2, <3>4, <3>5, <3>6, <3>8, <3>7 DEF Knows, Has, Parks
    <3>9. CASE rest # {}
      <4>1. \A b \in rest : /\ b \in Calls /\ CallTask[b] = t /\ call'[b].status = "completed"
              /\ ~call'[b].delivered
              /\ \A d \in Calls : CallTask[d] = t /\ d < b => call'[d].delivered \/ d \in rest
        BY <1>5, <1>7, <3>3
      <4>2. /\ x.pc = "deliver" /\ x.batch = rest /\ x.batch # {}
        BY <3>2, <3>4, <3>9
      <4>3. PICK h : h = wk[w].head
        OBVIOUS
      <4>4. /\ x.then = "tool" => h \in Calls /\ CallTask[h] = t /\ call'[h].status = "ready"
            /\ x.then = "wait" => /\ h \in Calls /\ CallTask[h] = t
                                  /\ call'[h].status \in {"ready", "waiting_children"}
        BY <1>7, <3>4, <3>6, <4>3 DEF Has
      <4>5. \A d \in Calls : CallTask[d] = t => call'[d].status # "running"
        BY <1>6, <1>7
      <4>6. ~task'[t].finalizing /\ x.head = h /\ x.task = t
        BY <1>1, <1>6, <3>4, <4>3
      <4>7. x.then = "park" => /\ h \in Calls /\ CallTask[h] = t /\ h \notin rest
              /\ call'[h].status \in Undecided \cup Decided /\ ~call'[h].delivered
        BY <3>4, <3>7, <4>3
      <4> QED
        BY <3>5, <4>1, <4>2, <4>4, <4>5, <4>6, <4>7 DEF Knows, Has, Parks
    <3> QED
      BY <3>8, <3>9
  <2> QED
    BY <2>1, <2>2 DEF Deliver
<1>14. CInv' /\ \A u \in Tasks : Life(u)' = Life(u)
  BY <1>1, <1>8, <1>9, <1>10, <1>11, <1>12, <1>13, OwnCallsStep
<1>15. /\ Phase(c) = "answered"
       /\ \A d \in Calls : CallTask[d] = t /\ d < c => Phase(d) = "delivered"
       /\ \A d \in Calls : Phase(d)' = IF d = c THEN "delivered" ELSE Phase(d)
  <2>1. Phase(c) = "answered"
    BY <1>4, <1>5 DEF Phase
  <2>2. ASSUME NEW d \in Calls, CallTask[d] = t, d < c PROVE Phase(d) = "delivered"
    <3>1. d \notin wk[w].batch
      <4>1. c \in Nat /\ d \in Nat
        BY <1>5, CallAssumption
      <4>2. d \in wk[w].batch => c <= d
        BY <1>4
      <4> QED
        BY <2>2, <4>1, <4>2
    <3>2. call[d].delivered
      BY <1>4, <1>5, <2>2, <3>1
    <3> QED
      BY <3>2 DEF CInv, CallKeeps, Phase
  <2>3. \A d \in Calls : Phase(d)' = IF d = c THEN "delivered" ELSE Phase(d)
    BY <1>4, <1>5, <1>7 DEF Phase
  <2> QED
    BY <2>1, <2>2, <2>3
<1> QED
  BY <1>1, <1>2, <1>4, <1>5, <1>14, <1>15, PromisedDeliver

(* A coordinator that waits for its children parks, or has its answer       *)
(* (wait.go:19-108).                                                        *)
LEMMA WaitStep ==
  ASSUME IInv, IInv', CInv, NEW w \in Workers, WaitChildren(w)
  PROVE  CInv' /\ Promised
<1> DEFINE t == wk[w].task
<1>1. wk[w].pc = "wait" /\ Fenced(w) /\ UNCHANGED <<session, execs>>
  BY DEF WaitChildren
<1>2. /\ t \in Tasks /\ task[t] \in TaskRow /\ task[t].state = "running" /\ Life(t) = "open"
      /\ TaskKeeps(t) /\ Knows(w) /\ TypeOK
  BY <1>1, Holder
<1>3. PICK c \in Calls : /\ c = wk[w].head /\ CallTask[c] = t
                         /\ call[c].status \in {"ready", "waiting_children"}
  BY <1>1, <1>2 DEF Knows, Has
<1>4. ~task[t].finalizing /\ \A d \in Calls : CallTask[d] = t => call[d].status # "running"
  BY <1>1, <1>2 DEF Knows, Has
<1>5. ~call[c].delivered
  BY <1>3 DEF CInv, CallKeeps
<1>6. ASSUME NEW s \in {"waiting_children", "completed"}, NEW e,
             call' = [call EXCEPT ![c].status = s, ![c].deadline = e]
      PROVE  \A d \in Calls : IF d = c THEN call'[d].status = s /\ call'[d].delivered = FALSE
                                       ELSE call'[d] = call[d]
  <2> DEFINE x == [[call[c] EXCEPT !.status = s] EXCEPT !.deadline = e]
  <2>1. call[c] \in CallRow
    BY <1>2 DEF TypeOK
  <2>2. x.status = s /\ x.delivered = FALSE
    BY <1>5, <2>1 DEF CallRow
  <2>3. call' = [call EXCEPT ![c] = x]
    BY <1>2, <1>6 DEF TypeOK
  <2> HIDE DEF x
  <2> QED
    BY <1>2, <2>2, <2>3 DEF TypeOK
<1>7. PICK s \in {"waiting_children", "completed"} :
        /\ \A d \in Calls : IF d = c THEN call'[d].status = s /\ call'[d].delivered = FALSE
                                     ELSE call'[d] = call[d]
        /\ \/ /\ s = "waiting_children" /\ GoIdle(w)
              /\ task' = [task EXCEPT ![t] = Release(@, "waiting")]
           \/ s = "completed" /\ GoBegin(w) /\ UNCHANGED task
  BY <1>3, <1>6 DEF WaitChildren
<1>8. \A d \in Calls : CallGoesOn(call[d], call'[d]) /\ (Held(call'[d]) <=> Held(call[d]))
  BY <1>3, <1>7 DEF CInv, CallKeeps, CallGoesOn, Started, Held
<1>9. \A d \in Calls : CallKeeps(d)'
  BY <1>1, <1>2, <1>8, CallsKept
<1>10. \A d \in Calls : call'[d].status = "running" => CallTask[d] # t /\ call[d].status = "running"
  BY <1>3, <1>4, <1>7
<1>11. CASE /\ s = "waiting_children" /\ GoIdle(w)
            /\ task' = [task EXCEPT ![t] = Release(@, "waiting")]
  <2> DEFINE r == Release(task[t], "waiting")
  <2>1. r.state = "waiting" /\ r.finalizing = task[t].finalizing
    BY <1>2, ReleaseType DEF TaskStates
  <2>2. task' = [task EXCEPT ![t] = r]
    BY <1>11
  <2> HIDE DEF r
  <2>3. \A u \in Tasks : RowGoesOn(task[u], task'[u]) /\ LeavesClaims(w, task[u], task'[u])
    BY <1>1, <1>2, <1>4, <2>1, <2>2, OwnRow DEF Alive
  <2>4. \A d \in Calls : call'[d].status = "running" => task'[CallTask[d]].state = "running"
    BY <1>2, <1>10, <2>2, RunningTask, CallAssumption DEF TypeOK
  <2>5. Knows(w)' /\ wk'[w].pc # "exec" /\ \A v \in Workers \ {w} : wk'[v] = wk[v]
    BY <1>2, <1>11, IdleKnows
  <2>6. CInv' /\ \A u \in Tasks : Life(u)' = Life(u)
    BY <1>1, <1>3, <1>7, <1>8, <1>9, <2>3, <2>4, <2>5, OwnCallsStep
  <2>7. \A d \in Calls : Phase(d)' = Phase(d)
    BY <1>3, <1>7, <1>11 DEF Phase
  <2> QED
    BY <1>1, <2>6, <2>7, Stutters
<1>12. CASE s = "completed" /\ GoBegin(w) /\ UNCHANGED task
  <2>1. \A u \in Tasks : RowGoesOn(task[u], task'[u]) /\ LeavesClaims(w, task[u], task'[u])
    BY <1>12, SameRow
  <2>2. \A d \in Calls : call'[d].status = "running" => task'[CallTask[d]].state = "running"
    BY <1>10, <1>12, RunningTask
  <2>3. Knows(w)' /\ wk'[w].pc # "exec" /\ \A v \in Workers \ {w} : wk'[v] = wk[v]
    BY <1>2, <1>4, <1>10, <1>12, BeginKnows
  <2>4. CInv' /\ \A u \in Tasks : Life(u)' = Life(u)
    BY <1>1, <1>3, <1>7, <1>8, <1>9, <2>1, <2>2, <2>3, OwnCallsStep
  <2>5. /\ Phase(c) \in {"pending", "running", "uncertain"}
        /\ \A d \in Calls : Phase(d)' = IF d \in {c} THEN "answered" ELSE Phase(d)
    BY <1>3, <1>7, <1>12 DEF Phase
  <2> QED
    BY <1>1, <1>2, <1>3, <2>4, <2>5, PromisedAnswer
<1> QED
  BY <1>7, <1>11, <1>12

(* Starting a call that nothing forbids is promised.                        *)
LEMMA PromisedStart ==
  ASSUME session'.activeRoot = session.activeRoot, session'.archived = session.archived,
         \A u \in Tasks : Life(u)' = Life(u), NEW c \in Calls, CallTask[c] \in Tasks,
         Life(CallTask[c]) = "open", session.activeRoot = RootOf(CallTask[c]),
         Phase(c) = "pending",
         \A d \in Calls : CallTask[d] = CallTask[c] => Phase(d) # "running",
         Kind[c] = "write" =>
           \A d \in Calls : Kind[d] = "write" => Phase(d) \notin {"running", "uncertain"},
         \A d \in Calls : Phase(d)' = IF d = c THEN "running" ELSE Phase(d)
  PROVE  Promised
<1>1. [u \in Tasks |-> Life(u)]' = [u \in Tasks |-> Life(u)]
  OBVIOUS
<1>2. [d \in Calls |-> Phase(d)]'
        = [d \in Calls |-> IF d \in {c} THEN "running" ELSE [e \in Calls |-> Phase(e)][d]]
  OBVIOUS
<1>3. Contract!Holds(CallTask[c])
  BY DEF Contract!Holds, Contract!RootOf, RootOf
<1>4. \A d \in Contract!Of(CallTask[c]) : [e \in Calls |-> Phase(e)][d] # "running"
  BY DEF Contract!Of
<1>5. c \in {d \in Calls : Kind[d] = "write"} =>
        \A d \in {e \in Calls : Kind[e] = "write"} :
          [e \in Calls |-> Phase(e)][d] \notin {"running", "uncertain"}
  OBVIOUS
<1>6. [e \in Calls |-> Phase(e)][c] = "pending"
  OBVIOUS
<1>7. Contract!Start(c)
  BY <1>1, <1>2, <1>3, <1>4, <1>5, <1>6 DEF Contract!Start, Contract!Move
<1> QED
  BY <1>7 DEF Promised, Contract!Next

(* A call is marked running, under the writer lock if it may write, before  *)
(* its executor is asked (tools.go:19-45).                                  *)
LEMMA ToolStartStep ==
  ASSUME IInv, IInv', CInv, NEW w \in Workers, ToolStart(w)
  PROVE  CInv' /\ Promised
<1> DEFINE t == wk[w].task
<1>1. wk[w].pc = "tool" /\ Fenced(w) /\ UNCHANGED <<task, execs>>
  BY DEF ToolStart
<1>2. CASE (Goto(w, "cleanup") \/ Goto(w, "requeue")) /\ UNCHANGED <<session, call>>
  BY <1>1, <1>2, GotoStep DEF PCs
<1>3. /\ t \in Tasks /\ task[t].state = "running" /\ Life(t) = "open"
      /\ session.activeRoot = RootOf(t) /\ TaskKeeps(t) /\ Knows(w) /\ TypeOK /\ wk[w] \in WorkerRow
  BY <1>1, Holder
<1>4. PICK c \in Calls : c = wk[w].head /\ CallTask[c] = t /\ call[c].status = "ready"
  BY <1>1, <1>3 DEF Knows, Has
<1>5. ~task[t].finalizing /\ \A d \in Calls : CallTask[d] = t => call[d].status # "running"
  BY <1>1, <1>3 DEF Knows, Has
<1>6. CallKeeps(c) /\ ~call[c].delivered /\ ~Started(call[c]) /\ execs[c] = 0
  BY <1>4 DEF CInv, CallKeeps, Started
<1>7. CASE /\ WriterFree(c) /\ Goto(w, "exec")
           /\ session' = [session EXCEPT !.writerCall = IF Kind[c] = "write" THEN c ELSE @]
           /\ call' = [call EXCEPT ![c].status = "running"]
  <2>1. /\ session'.activeRoot = session.activeRoot /\ session'.archived = session.archived
        /\ session'.writerCall = IF Kind[c] = "write" THEN c ELSE session.writerCall
    BY <1>3, <1>7 DEF TypeOK, Session
  <2>2. \A d \in Calls : IF d = c THEN call'[d].status = "running" /\ call'[d].delivered = FALSE
                                  ELSE call'[d] = call[d]
    BY <1>3, <1>6, <1>7 DEF TypeOK, CallRow
  <2>3. /\ wk'[w].pc = "exec" /\ wk'[w].task = t /\ wk'[w].head = c
        /\ \A v \in Workers \ {w} : wk'[v] = wk[v]
    BY <1>3, <1>4, <1>7, GotoKeeps DEF PCs
  <2>4. Kind[c] = "write" => \A d \in Calls : Kind[d] = "write" => ~Held(call[d])
    BY <1>4, <1>6, <1>7, CallAssumption DEF WriterFree, CInv, CallKeeps, Held, Started
  <2>5. \A d \in Calls : CallKeeps(d)'
    <3> SUFFICES ASSUME NEW d \in Calls PROVE CallKeeps(d)'
      OBVIOUS
    <3>1. CallKeeps(d)
      BY DEF CInv
    <3>2. Kind[d] = "write" => (session'.writerCall = d <=> Held(call'[d]))
      BY <2>1, <2>2, <2>4, <3>1 DEF CallKeeps, Held
    <3>3. \A e \in Calls : call[e].status # "none" <=> call'[e].status # "none"
      BY <1>4, <2>2
    <3>4. /\ ~Started(call'[d]) => execs[d] = 0
          /\ call'[d].delivered => call'[d].status = "completed"
      BY <1>6, <2>2, <3>1 DEF CallKeeps
    <3> QED
      BY <1>1, <3>1, <3>2, <3>3, <3>4 DEF CallKeeps
  <2>6. \A u \in Tasks : TaskKeeps(u)'
    <3> SUFFICES ASSUME NEW u \in Tasks PROVE TaskKeeps(u)'
      OBVIOUS
    <3>1. TaskKeeps(u)
      BY DEF CInv
    <3>2. CASE u = t
      BY <1>1, <1>3, <1>4, <1>5, <2>2, <3>1, <3>2 DEF TaskKeeps, Exists
    <3>3. CASE u # t
      BY <1>1, <1>4, <2>2, <3>1, <3>3 DEF TaskKeeps, Exists
    <3> QED
      BY <3>2, <3>3
  <2>7. \A v \in Workers \ {w} : Knows(v)'
    <3>1. \A v \in Workers \ {w} : Fenced(v) => wk[v].task # t
      BY <1>1, ClaimsApart
    <3>2. \A d \in Calls : CallTask[d] # t => CallLeft(call[d], call'[d])
      BY <1>4, <2>2 DEF CallLeft
    <3>3. \A u \in Tasks : LeavesClaims(w, task[u], task'[u])
      BY <1>1, SameRow
    <3> QED
      BY <1>3, <2>3, <3>1, <3>2, <3>3, OtherKnows
  <2>8. \A v \in Workers \ {w} : Executes(v)'
    <3>1. \A d \in Calls : Started(call[d]) => Started(call'[d])
      BY <2>2 DEF Started
    <3> QED
      BY <1>1, <1>3, <1>6, <2>3, <3>1, OthersExecute
  <2>9. Knows(w)'
    BY <1>1, <1>4, <1>5, <2>2, <2>3 DEF Knows, Has
  <2>10. Executes(w)'
    <3>1. \A v \in Workers \ {w} : wk[v].pc = "exec" => wk[v].head # c
      BY <1>6 DEF CInv, Executes
    <3> QED
      BY <1>1, <1>6, <2>2, <2>3, <3>1 DEF Executes, Started
  <2>11. ArchivedIsQuiet'
    BY <1>1, <2>1, ArchiveKept
  <2>12. Promised
    <3>1. \A u \in Tasks : Life(u)' = Life(u)
      BY <1>1 DEF Life, Exists
    <3>2. Phase(c) = "pending" /\ \A d \in Calls : Phase(d)' = IF d = c THEN "running" ELSE Phase(d)
      BY <1>4, <2>2 DEF Phase
    <3>3. \A d \in Calls : CallTask[d] = t => Phase(d) # "running"
      BY <1>5 DEF Phase
    <3>4. \A d \in Calls : ~Held(call[d]) => Phase(d) \notin {"running", "uncertain"}
      BY DEF Held, Phase
    <3> QED
      BY <1>3, <1>4, <2>1, <2>4, <3>1, <3>2, <3>3, <3>4, PromisedStart
  <2> QED
    BY <2>5, <2>6, <2>7, <2>8, <2>9, <2>10, <2>11, <2>12 DEF CInv
<1> QED
  BY <1>2, <1>4, <1>7 DEF ToolStart

-----------------------------------------------------------------------------
(* A turn of the model, and the two transactions that finish a task.        *)

(* Requesting calls once every earlier one is delivered is promised.        *)
LEMMA PromisedRequest ==
  ASSUME session'.activeRoot = session.activeRoot, session'.archived = session.archived,
         \A u \in Tasks : Life(u)' = Life(u),
         NEW t \in Tasks, Life(t) = "open", session.activeRoot = RootOf(t),
         \A c \in Calls : CallTask[c] = t => Phase(c) \in {"absent", "delivered"},
         NEW S \in SUBSET Calls, NEW refused \in SUBSET S, S # {},
         \A c \in S : CallTask[c] = t /\ Phase(c) = "absent",
         \A c \in Calls : Phase(c)' = IF c \in refused THEN "answered"
                                      ELSE IF c \in S THEN "pending" ELSE Phase(c)
  PROVE  Promised
<1>1. [u \in Tasks |-> Life(u)]' = [u \in Tasks |-> Life(u)]
  OBVIOUS
<1>2. [c \in Calls |-> Phase(c)]'
        = [c \in Calls |-> CASE c \in refused -> "answered" [] c \in S \ refused -> "pending"
                             [] OTHER -> [e \in Calls |-> Phase(e)][c]]
  OBVIOUS
<1>3. Contract!Holds(t)
  BY DEF Contract!Holds, Contract!RootOf, RootOf
<1>4. \A c \in Contract!Of(t) : [e \in Calls |-> Phase(e)][c] \in {"absent", "delivered"}
  BY DEF Contract!Of
<1>5. S \in SUBSET Contract!Of(t) /\ \A c \in S : [e \in Calls |-> Phase(e)][c] = "absent"
  BY DEF Contract!Of
<1>6. Contract!Request(t)
  BY <1>1, <1>2, <1>3, <1>4, <1>5 DEF Contract!Request
<1> QED
  BY <1>6 DEF Promised, Contract!Next

(* A turn charges rows and counts failures, and changes no claim.           *)
LEMMA TurnRows ==
  ASSUME IInv, NEW w \in Workers, ModelAnswers(w)
  PROVE  \A u \in Tasks :
           /\ task'[u].state = task[u].state /\ task'[u].finalizing = task[u].finalizing
           /\ task'[u].owner = task[u].owner /\ task'[u].live = task[u].live
           /\ task'[u].epoch = task[u].epoch
<1> DEFINE t == wk[w].task
<1>1. t \in Tasks /\ \A u \in Tasks : task[u] \in TaskRow
  BY FencedTask DEF ModelAnswers, IInv, TypeOK
<1>2. PICK turn \in Turns(t), stop \in StopReasons :
        task' = [u \in Tasks |->
             CASE u = t -> [[task[t] EXCEPT !.toolCount = @ + Cardinality(Accepted(t, turn))]
                              EXCEPT !.gens = @ - 1, !.failures = 0,
                                     !.pending = IF turn = {} THEN stop ELSE @]
               [] u # t /\ u = RootOf(t) ->
                    [task[u] EXCEPT !.toolCount = @ + Cardinality(Accepted(t, turn))]
               [] OTHER -> task[u]]
  BY DEF ModelAnswers
<1> DEFINE n == Cardinality(Accepted(t, turn))
           charge(r) == [r EXCEPT !.toolCount = @ + n]
           x == charge(task[t])
           g == x.gens - 1
           p == IF turn = {} THEN stop ELSE x.pending
           s == [x EXCEPT !.gens = g, !.failures = 0, !.pending = p]
<1>3. n \in Nat
  BY <1>1, AcceptedCount
<1>4. task' = [u \in Tasks |-> CASE u = t -> s
                                [] u # t /\ u = RootOf(t) -> charge(task[u])
                                [] OTHER -> task[u]]
  BY <1>2
<1> HIDE DEF n, g, p
<1>5. \A u \in Tasks : LET y == charge(task[u]) IN
        /\ y \in TaskRow /\ y.state = task[u].state /\ y.finalizing = task[u].finalizing
        /\ y.owner = task[u].owner /\ y.live = task[u].live /\ y.epoch = task[u].epoch
  BY <1>1, <1>3, ChargedType
<1> HIDE DEF charge
<1>6. /\ x \in TaskRow /\ x.state = task[t].state /\ x.finalizing = task[t].finalizing
      /\ x.owner = task[t].owner /\ x.live = task[t].live /\ x.epoch = task[t].epoch
  BY <1>1, <1>5
<1> HIDE DEF x
<1>7. /\ s.state = x.state /\ s.finalizing = x.finalizing
      /\ s.owner = x.owner /\ s.live = x.live /\ s.epoch = x.epoch
  BY <1>6 DEF TaskRow
<1> HIDE DEF s
<1>8. \A u \in Tasks : \/ u = t /\ task'[u] = s
                       \/ task'[u] \in {charge(task[u]), task[u]}
  BY <1>4
<1> QED
  BY <1>5, <1>6, <1>7, <1>8

(* A model turn ends its generation and requests calls (step.go:253-337).   *)
LEMMA ModelAnswersStep ==
  ASSUME IInv, IInv', CInv, NEW w \in Workers, ModelAnswers(w)
  PROVE  CInv' /\ Promised
<1> DEFINE t == wk[w].task
<1>1. wk[w].pc = "stream" /\ Fenced(w) /\ GoBegin(w) /\ UNCHANGED <<session, execs>>
  BY DEF ModelAnswers
<1>2. /\ t \in Tasks /\ task[t].state = "running" /\ Life(t) = "open"
      /\ session.activeRoot = RootOf(t) /\ Knows(w) /\ TypeOK
  BY <1>1, Holder
<1>3. /\ ~task[t].finalizing
      /\ \A d \in Calls : CallTask[d] = t =>
           call[d].status # "running" /\ (call[d].status = "none" \/ call[d].delivered)
  BY <1>1, <1>2 DEF Knows, Has
<1>4. PICK turn \in Turns(t) :
        call' = [c \in Calls |-> IF c \in turn
             THEN [NewCall EXCEPT !.status = FirstStatus(c, Accepted(t, turn))] ELSE call[c]]
  BY DEF ModelAnswers
<1>5. /\ turn \in SUBSET Calls /\ \A c \in turn : CallTask[c] = t /\ call[c].status = "none"
      /\ \A c \in turn : \A d \in Calls :
           CallTask[d] = t /\ call[d].status = "none" /\ d < c => d \in turn
  BY DEF Turns
<1>6. \A c \in Calls : IF c \in turn
        THEN /\ call'[c].status \in {"completed", "approval", "custom", "ready"}
             /\ call'[c].delivered = FALSE
        ELSE call'[c] = call[c]
  BY <1>4 DEF FirstStatus, NewCall
<1>7. \A u \in Tasks :
           /\ task'[u].state = task[u].state /\ task'[u].finalizing = task[u].finalizing
           /\ task'[u].owner = task[u].owner /\ task'[u].live = task[u].live
           /\ task'[u].epoch = task[u].epoch
  BY TurnRows
<1>8. \A c \in Calls : Started(call[c]) => call'[c] = call[c]
  BY <1>5, <1>6 DEF Started
<1>9. \A c \in Calls : CallKeeps(c)'
  <2> SUFFICES ASSUME NEW c \in Calls PROVE CallKeeps(c)'
    OBVIOUS
  <2>1. CallKeeps(c)
    BY DEF CInv
  <2>2. \A d \in Calls : call[d].status # "none" => call'[d].status # "none"
    BY <1>5, <1>6
  <2>3. CASE c \in turn
    <3>1. \A d \in Calls : CallTask[d] = CallTask[c] /\ d < c => call'[d].status # "none"
      BY <1>5, <1>6, <2>2, <2>3
    <3>2. ~Held(call[c]) /\ ~Held(call'[c]) /\ execs[c] = 0 /\ ~call'[c].delivered
      BY <1>5, <1>6, <2>1, <2>3 DEF Held, CallKeeps, Started
    <3> QED
      BY <1>1, <2>1, <3>1, <3>2 DEF CallKeeps
  <2>4. CASE c \notin turn
    BY <1>1, <1>6, <2>1, <2>2, <2>4 DEF CallKeeps
  <2> QED
    BY <2>3, <2>4
<1>10. \A u \in Tasks : TaskKeeps(u)'
  <2> SUFFICES ASSUME NEW u \in Tasks PROVE TaskKeeps(u)'
    OBVIOUS
  <2>1. TaskKeeps(u)
    BY DEF CInv
  <2>2. Parent[u] # NoTask => /\ Exists(u)' => Exists(Parent[u])'
                              /\ ~Closed(task'[u]) => ~Closed(task'[Parent[u]])
    BY <1>7, <2>1, ParentAssumption DEF TaskKeeps, Exists, Closed
  <2>3. CASE u = t
    <3>1. \A c \in Calls : CallTask[c] = t => call'[c].status # "running"
      BY <1>3, <1>6
    <3> QED
      BY <1>2, <1>3, <1>7, <2>2, <2>3, <3>1 DEF TaskKeeps, Terminal, TerminalStates
  <2>4. CASE u # t
    <3>1. \A c \in Calls : CallTask[c] = u => call'[c] = call[c]
      BY <1>5, <1>6, <2>4
    <3> QED
      BY <1>7, <2>1, <2>2, <3>1 DEF TaskKeeps
  <2> QED
    BY <2>3, <2>4
<1>11. Knows(w)' /\ wk'[w].pc # "exec" /\ \A v \in Workers \ {w} : wk'[v] = wk[v]
  BY <1>1, <1>2, <1>3, <1>6, <1>7, BeginKnows
<1>12. \A v \in Workers \ {w} : Knows(v)'
  <2>1. \A v \in Workers \ {w} : Fenced(v) => wk[v].task # t
    BY <1>1, ClaimsApart
  <2>2. \A d \in Calls : CallTask[d] # t => CallLeft(call[d], call'[d])
    BY <1>5, <1>6 DEF CallLeft
  <2>3. \A u \in Tasks : LeavesClaims(w, task[u], task'[u])
    BY <1>7 DEF LeavesClaims, Alive
  <2> QED
    BY <1>2, <1>11, <2>1, <2>2, <2>3, OtherKnows
<1>13. \A v \in Workers : Executes(v)'
  <2>1. \A v \in Workers \ {w} : Executes(v)'
    BY <1>1, <1>2, <1>8, <1>11, OthersExecute
  <2> QED
    BY <1>11, <2>1 DEF Executes
<1>14. ArchivedIsQuiet'
  BY <1>1, <1>7, ArchiveKept DEF Closed
<1>15. Promised
  <2>1. \A u \in Tasks : Life(u)' = Life(u)
    BY <1>7 DEF Life, Exists
  <2>2. CASE turn = {}
    BY <1>1, <1>6, <2>1, <2>2, Stutters DEF Phase
  <2>3. CASE turn # {}
    <3> DEFINE refused == {c \in turn : call'[c].status = "completed"}
    <3>1. \A c \in Calls : CallTask[c] = t => Phase(c) \in {"absent", "delivered"}
      BY <1>3 DEF CInv, CallKeeps, Phase
    <3>2. \A c \in turn : CallTask[c] = t /\ Phase(c) = "absent"
      BY <1>5 DEF Phase
    <3>3. \A c \in Calls : Phase(c)' = IF c \in refused THEN "answered"
                                       ELSE IF c \in turn THEN "pending" ELSE Phase(c)
      BY <1>6 DEF Phase
    <3>4. refused \in SUBSET turn
      OBVIOUS
    <3> HIDE DEF refused
    <3>5. PICK k \in Tasks : k = t
      BY <1>2
    <3> QED
      BY <1>1, <1>2, <1>5, <2>1, <2>3, <3>1, <3>2, <3>3, <3>4, <3>5, PromisedRequest
  <2> QED
    BY <2>2, <2>3
<1> QED
  BY <1>9, <1>10, <1>11, <1>12, <1>13, <1>14, <1>15 DEF CInv

(* The first transaction of finish settles what must be settled, waits for  *)
(* the children, or marks the task finalizing (finish.go:70-147).           *)
LEMMA FinishBeginStep ==
  ASSUME IInv, IInv', CInv, NEW w \in Workers, FinishBegin(w)
  PROVE  CInv' /\ Promised
<1> DEFINE t == wk[w].task
           unsettled == CallsIn(t, {"running", "unknown", "custom"}) # {}
           open == OpenChildren(t)
           short == \E u \in Children(t) : task[u].state \in TerminalStates \ {"succeeded"}
           fin == IF wk[w].fin = "succeeded" /\ short THEN "partial" ELSE wk[w].fin
<1>1. /\ wk[w].pc = "fin1" /\ Fenced(w) /\ UNCHANGED <<session, execs>>
      /\ call' = IF Stopping(wk[w].fin) THEN StoppedCalls(t) ELSE call
  BY DEF FinishBegin
<1>2. /\ t \in Tasks /\ task[t] \in TaskRow /\ task[t].state = "running" /\ task[t].owner = w
      /\ Life(t) = "open" /\ TaskKeeps(t) /\ Knows(w) /\ TypeOK /\ wk[w] \in WorkerRow
  BY <1>1, Holder
<1>3. /\ ~task[t].finalizing /\ \A d \in Calls : CallTask[d] = t => call[d].status # "running"
      /\ ~Stopping(wk[w].fin) =>
           \A d \in Calls : CallTask[d] = t => call[d].status = "none" \/ call[d].delivered
  BY <1>1, <1>2 DEF Knows, Has
<1> DEFINE Stopped == {c \in Calls : /\ Stopping(wk[w].fin)
                                     /\ c \in CallsIn(t, {"ready", "approval", "waiting_children"})}
<1>4. \A c \in Calls : IF c \in Stopped
        THEN call'[c].status = "completed" /\ call'[c].delivered = FALSE ELSE call'[c] = call[c]
  <2> SUFFICES ASSUME NEW c \in Calls
               PROVE  IF c \in Stopped
                      THEN call'[c].status = "completed" /\ call'[c].delivered = FALSE
                      ELSE call'[c] = call[c]
    OBVIOUS
  <2>1. call[c] \in CallRow /\ CallKeeps(c)
    BY <1>2 DEF TypeOK, CInv
  <2>2. CASE Stopping(wk[w].fin)
    <3>1. call'[c] = IF c \in Stopped THEN [call[c] EXCEPT !.status = "completed"] ELSE call[c]
      BY <1>1, <2>2 DEF StoppedCalls
    <3>2. c \in Stopped => ~call[c].delivered
      BY <2>1 DEF CallsIn, CallKeeps
    <3> HIDE DEF Stopped
    <3> QED
      BY <2>1, <3>1, <3>2 DEF CallRow
  <2>3. CASE ~Stopping(wk[w].fin)
    BY <1>1, <2>3
  <2> QED
    BY <2>2, <2>3
<1>5. Stopped \in SUBSET Calls
      /\ \A c \in Stopped : /\ CallTask[c] = t
                            /\ call[c].status \in {"ready", "approval", "waiting_children"}
  BY DEF CallsIn
<1> HIDE DEF Stopped
<1>6. \A c \in Calls : CallGoesOn(call[c], call'[c]) /\ (Held(call'[c]) <=> Held(call[c]))
  BY <1>4, <1>5 DEF CInv, CallKeeps, CallGoesOn, Started, Held
<1>7. \A c \in Calls : CallKeeps(c)'
  BY <1>1, <1>2, <1>6, CallsKept
<1>8. \A c \in Calls : CallTask[c] # t => call'[c] = call[c]
  BY <1>4, <1>5
<1>9. \A c \in Calls : call'[c].status = "running" => CallTask[c] # t /\ call[c].status = "running"
  BY <1>3, <1>4, <1>5
<1>10. ASSUME \A u \in Tasks : Life(u)' = Life(u) PROVE Promised
  <2>1. \A c \in Stopped : CallTask[c] = t /\ Phase(c) \in {"pending", "running", "uncertain"}
    BY <1>5 DEF Phase
  <2>2. \A c \in Calls : Phase(c)' = IF c \in Stopped THEN "answered" ELSE Phase(c)
    BY <1>4 DEF Phase
  <2>3. PICK k \in Tasks : k = t
    BY <1>2
  <2> QED
    BY <1>1, <1>2, <1>5, <1>10, <2>1, <2>2, <2>3, PromisedAnswer
<1>11. ASSUME GoIdle(w),
              \A u \in Tasks : RowGoesOn(task[u], task'[u]) /\ LeavesClaims(w, task[u], task'[u]),
              \A u \in Tasks \ {t} : task[u].state = "running" => task'[u].state = "running"
       PROVE  CInv' /\ Promised
  <2>1. Knows(w)' /\ wk'[w].pc # "exec" /\ \A v \in Workers \ {w} : wk'[v] = wk[v]
    BY <1>2, <1>11, IdleKnows
  <2>2. \A d \in Calls : call'[d].status = "running" => task'[CallTask[d]].state = "running"
    BY <1>9, <1>11, RunningTask, CallAssumption
  <2>3. CInv' /\ \A u \in Tasks : Life(u)' = Life(u)
    BY <1>1, <1>6, <1>7, <1>8, <1>11, <2>1, <2>2, OwnCallsStep
  <2> QED
    BY <1>10, <2>3
<1>12. CASE /\ task' = [task EXCEPT ![t] = [Release(@, "unknown") EXCEPT !.error = TRUE]]
            /\ GoIdle(w)
  <2> DEFINE r == [Release(task[t], "unknown") EXCEPT !.error = TRUE]
  <2>1. r \in TaskRow /\ r.state = "unknown" /\ r.finalizing = task[t].finalizing
    BY <1>2, ReleaseErrorType DEF TaskStates
  <2>2. task' = [task EXCEPT ![t] = r]
    BY <1>12
  <2> HIDE DEF r
  <2>3. \A u \in Tasks : RowGoesOn(task[u], task'[u]) /\ LeavesClaims(w, task[u], task'[u])
    BY <1>1, <1>2, <1>3, <2>1, <2>2, OwnRow DEF Alive
  <2>4. \A u \in Tasks \ {t} : task'[u] = task[u]
    BY <1>2, <2>2 DEF TypeOK
  <2> QED
    BY <1>11, <1>12, <2>3, <2>4
<1>13. CASE /\ task' = [u \in Tasks |->
                 CASE u = t -> [Release(task[t], "waiting") EXCEPT !.pending = fin]
                   [] u \in open /\ Stopping(fin) -> Rearm([task[u] EXCEPT !.cancel = TRUE])
                   [] OTHER -> task[u]]
            /\ GoIdle(w)
  <2> DEFINE r == Release(task[t], "waiting")
             s == [r EXCEPT !.pending = fin]
             canceled(u) == Rearm([task[u] EXCEPT !.cancel = TRUE])
  <2>1. r \in TaskRow /\ r.state = "waiting" /\ ~r.finalizing
    BY <1>2, <1>3, ReleaseType DEF TaskStates
  <2>2. \A u \in Tasks : \/ u = t /\ task'[u] = s
                         \/ task'[u] \in {canceled(u), task[u]}
    <3> HIDE DEF fin, open, s, canceled
    <3>1. task' = [u \in Tasks |-> CASE u = t -> s
                                     [] u \in open /\ Stopping(fin) -> canceled(u)
                                     [] OTHER -> task[u]]
      BY <1>13 DEF s, canceled
    <3> QED
      BY <3>1
  <2> HIDE DEF r, fin, open
  <2>3. s.state = "waiting" /\ ~s.finalizing
    BY <2>1 DEF TaskRow
  <2> HIDE DEF s
  <2>4. RowGoesOn(task[t], s) /\ LeavesClaims(w, task[t], s)
    BY <1>2, <2>3 DEF RowGoesOn, LeavesClaims, Alive, Terminal, TerminalStates
  <2>5. \A u \in Tasks : /\ RowGoesOn(task[u], canceled(u)) /\ LeavesClaims(w, task[u], canceled(u))
                         /\ task[u].state = "running" => canceled(u).state = "running"
    BY <1>2, CancelMark
  <2> HIDE DEF canceled

  <2>6. \A u \in Tasks : RowGoesOn(task[u], task'[u]) /\ LeavesClaims(w, task[u], task'[u])
    BY <2>4, <2>5, <2>2, SameRow
  <2> QED
    BY <1>11, <1>13, <2>5, <2>2, <2>6
<1>14. CASE /\ ~(Stopping(wk[w].fin) /\ unsettled)
            /\ task' = [task EXCEPT ![t].finalizing = TRUE, ![t].pending = fin]
            /\ wk' = [wk EXCEPT ![w].pc = IF Parent[t] = NoTask THEN "hook" ELSE "fin2",
                                ![w].fin = fin]
  <2> DEFINE s == [task[t] EXCEPT !.finalizing = TRUE, !.pending = fin]
             p == IF Parent[t] = NoTask THEN "hook" ELSE "fin2"
             m == [wk[w] EXCEPT !.pc = p, !.fin = fin]
  <2>1. task' = [task EXCEPT ![t] = s] /\ wk' = [wk EXCEPT ![w] = m]
    BY <1>2, <1>14 DEF TypeOK
  <2>2. p \in {"hook", "fin2"}
    OBVIOUS
  <2> HIDE DEF fin, p
  <2>3. s.state = "running" /\ s.owner = w /\ s.finalizing
    BY <1>2 DEF TaskRow
  <2>4. m.pc \in {"hook", "fin2"} /\ m.task = t
    BY <1>2, <2>2 DEF WorkerRow
  <2> HIDE DEF s, m
  <2>5. \A u \in Tasks : task'[u] = IF u = t THEN s ELSE task[u]
    BY <2>1 DEF IInv, TypeOK
  <2>6. wk'[w] = m /\ \A v \in Workers \ {w} : wk'[v] = wk[v]
    BY <1>2, <2>1 DEF TypeOK
  <2>7. \A c \in Calls : CallTask[c] = t => call'[c].status \in {"none", "completed"}
    <3> SUFFICES ASSUME NEW c \in Calls, CallTask[c] = t
                 PROVE  call'[c].status \in {"none", "completed"}
      OBVIOUS
    <3>1. CASE Stopping(wk[w].fin)
      <4>1. call[c].status \notin {"running", "unknown", "custom"}
        BY <1>14, <3>1 DEF CallsIn
      <4>2. c \in Stopped \/ call[c].status \in {"none", "completed"}
        BY <1>2, <3>1, <4>1 DEF Stopped, CallsIn, TypeOK, CallRow, CallStatuses
      <4> QED
        BY <1>4, <4>2
    <3>2. CASE ~Stopping(wk[w].fin)
      <4>1. call[c].status \in {"none", "completed"}
        BY <1>3, <3>2 DEF CInv, CallKeeps
      <4> QED
        BY <1>4, <4>1
    <3> QED
      BY <3>1, <3>2
  <2>8. \A u \in Tasks : TaskKeeps(u)'
    <3> SUFFICES ASSUME NEW u \in Tasks PROVE TaskKeeps(u)'
      OBVIOUS
    <3>1. TaskKeeps(u)
      BY DEF CInv
    <3>2. \A v \in Tasks : (Exists(v)' <=> Exists(v)) /\ (Closed(task'[v]) <=> Closed(task[v]))
      BY <1>2, <2>3, <2>5 DEF Exists, Closed
    <3>3. Parent[u] # NoTask => /\ Exists(u)' => Exists(Parent[u])'
                                /\ ~Closed(task'[u]) => ~Closed(task'[Parent[u]])
      BY <3>1, <3>2, ParentAssumption DEF TaskKeeps
    <3>4. CASE u = t
      BY <1>2, <2>3, <2>5, <2>7, <3>3, <3>4 DEF TaskKeeps, Terminal, TerminalStates
    <3>5. CASE u # t
      <4>1. \A c \in Calls : CallTask[c] = u => call'[c] = call[c]
        BY <1>8, <3>5
      <4> QED
        BY <2>5, <3>1, <3>3, <3>5, <4>1 DEF TaskKeeps
    <3> QED
      BY <3>4, <3>5
  <2>9. Knows(w)' /\ wk'[w].pc # "exec"
    BY <1>9, <2>4, <2>6 DEF Knows, Has
  <2>10. \A v \in Workers \ {w} : Knows(v)'
    <3>1. \A v \in Workers \ {w} : Fenced(v) => wk[v].task # t
      BY <1>1, ClaimsApart
    <3>2. \A d \in Calls : CallTask[d] # t => CallLeft(call[d], call'[d])
      BY <1>8 DEF CallLeft
    <3>3. \A u \in Tasks : LeavesClaims(w, task[u], task'[u])
      BY <2>3, <2>5 DEF LeavesClaims
    <3> QED
      BY <1>2, <2>6, <3>1, <3>2, <3>3, OtherKnows
  <2>11. \A v \in Workers : Executes(v)'
    <3>1. \A v \in Workers \ {w} : Executes(v)'
      BY <1>1, <1>2, <1>6, <2>6, <2>9, OthersExecute DEF CallGoesOn
    <3> QED
      BY <2>9, <3>1 DEF Executes
  <2>12. ArchivedIsQuiet'
    BY <1>1, <1>2, <2>5, ArchiveKept DEF Closed, TerminalStates
  <2>13. Promised
    BY <1>2, <1>10, <2>3, <2>5 DEF Life, Exists, Terminal, TerminalStates
  <2> QED
    BY <1>7, <2>8, <2>9, <2>10, <2>11, <2>12, <2>13 DEF CInv
<1> QED
  BY <1>12, <1>13, <1>14 DEF FinishBegin

(* A coordinator told of a child's end goes on.                             *)
LEMMA ReportMark ==
  ASSUME TypeOK, CInv, NEW w, NEW t \in Tasks
  PROVE  LET r == task[t]
             s == Rearm([r EXCEPT !.input = TRUE])
         IN RowGoesOn(r, s) /\ LeavesClaims(w, r, s) /\ (s.state = "running" <=> r.state = "running")
<1> DEFINE r == task[t]
           x == [r EXCEPT !.input = TRUE]
           y == [x EXCEPT !.state = IF x.state = "waiting" THEN "queued" ELSE x.state]
<1>1. r \in TaskRow /\ TaskKeeps(t)
  BY DEF TypeOK, CInv
<1>2. /\ x \in TaskRow /\ x.state = r.state /\ x.finalizing = r.finalizing
      /\ x.owner = r.owner /\ x.epoch = r.epoch /\ x.live = r.live
  BY <1>1 DEF TaskRow
<1>3. Rearm(x) = y
  BY DEF Rearm
<1> HIDE DEF x
<1>4. /\ y.finalizing = r.finalizing
      /\ y.owner = r.owner /\ y.epoch = r.epoch /\ y.live = r.live
      /\ \/ y.state = r.state
         \/ r.state = "waiting" /\ y.state = "queued"
  BY <1>2 DEF TaskRow
<1> HIDE DEF y
<1>5. RowGoesOn(r, y) /\ LeavesClaims(w, r, y) /\ (y.state = "running" <=> r.state = "running")
  BY <1>1, <1>4 DEF RowGoesOn, LeavesClaims, Alive, TaskKeeps, Terminal, TerminalStates
<1> QED
  BY <1>3, <1>5 DEF x

(* Ending a task with everything under it settled is promised.              *)
LEMMA PromisedFinish ==
  ASSUME session'.archived = session.archived, NEW t \in Tasks,
         Life(t) = "open", session.activeRoot = RootOf(t),
         \A u \in Tasks : Parent[u] = t => Life(u) # "open",
         \A c \in Calls : CallTask[c] = t => Phase(c) \in {"absent", "answered", "delivered"},
         \A u \in Tasks : Life(u)' = IF u = t THEN "done" ELSE Life(u),
         session'.activeRoot = IF Parent[t] = NoTask THEN NoTask ELSE session.activeRoot,
         \A c \in Calls : Phase(c)' = Phase(c)
  PROVE  Promised
<1>1. [u \in Tasks |-> Life(u)]' = [[u \in Tasks |-> Life(u)] EXCEPT ![t] = "done"]
  OBVIOUS
<1>2. [c \in Calls |-> Phase(c)]' = [c \in Calls |-> Phase(c)]
  OBVIOUS
<1>3. Contract!Holds(t)
  BY DEF Contract!Holds, Contract!RootOf, RootOf
<1>4. \A c \in Contract!Of(t) : [e \in Calls |-> Phase(e)][c] \in {"absent", "answered", "delivered"}
  BY DEF Contract!Of
<1>5. \A u \in Tasks : Parent[u] = t => [v \in Tasks |-> Life(v)][u] # "open"
  OBVIOUS
<1>6. Contract!Finish(t)
  BY <1>1, <1>2, <1>3, <1>4, <1>5 DEF Contract!Finish
<1> QED
  BY <1>6 DEF Promised, Contract!Next

(* The last transaction of finish ends the task (finish.go:149-210).        *)
LEMMA FinishEndStep ==
  ASSUME IInv, IInv', CInv, NEW w \in Workers, FinishEnd(w)
  PROVE  CInv' /\ Promised
<1> DEFINE s == Release(task[wk[w].task], wk[w].fin)
<1>1. wk[w].pc = "fin2" /\ Fenced(w) /\ GoIdle(w) /\ UNCHANGED <<call, execs>>
  BY DEF FinishEnd
<1>2. PICK t \in Tasks : t = wk[w].task
  BY <1>1, Holder
<1>3. /\ task[t] \in TaskRow /\ task[t].state = "running" /\ Life(t) = "open"
      /\ session.activeRoot = RootOf(t) /\ TaskKeeps(t) /\ Knows(w) /\ TypeOK
  BY <1>1, <1>2, Holder
<1>4. /\ task[t].finalizing /\ wk[w].fin \in TerminalStates
      /\ \A u \in Tasks : Parent[u] = t => task[u].state \in {"none"} \cup TerminalStates
  BY <1>1, <1>2, ParentAssumption DEF IInv, FinalizerMarked, FinIsTerminal, ChildrenSettled
<1>5. s.state \in TerminalStates /\ s.finalizing
  BY <1>2, <1>3, <1>4, ReleaseType DEF TaskStates
<1> HIDE DEF s
<1>6. /\ \A u \in Tasks : IF u = t THEN task'[u] = s
           ELSE \/ task'[u] = task[u]
                \/ u = Parent[t] /\ task'[u] = Rearm([task[u] EXCEPT !.input = TRUE])
      /\ session'.activeRoot = IF Parent[t] = NoTask THEN NoTask ELSE session.activeRoot
      /\ session'.archived = session.archived /\ session'.writerCall = session.writerCall
  <2>1. CASE Parent[t] = NoTask
    <3>1. task' = [task EXCEPT ![t] = s] /\ session' = [session EXCEPT !.activeRoot = NoTask]
      BY <1>2, <2>1 DEF FinishEnd, s
    <3> QED
      BY <1>3, <2>1, <3>1 DEF TypeOK, Session
  <2>2. CASE Parent[t] # NoTask
    <3>1. Parent[t] \in Tasks /\ Parent[t] # t
      BY <2>2, ParentAssumption
    <3>2. /\ task' = [[task EXCEPT ![t] = s] EXCEPT ![Parent[t]] = Rearm([task[Parent[t]] EXCEPT !.input = TRUE])]
          /\ UNCHANGED session
      BY <1>2, <1>3, <2>2, <3>1 DEF FinishEnd, s, TypeOK
    <3> QED
      BY <1>3, <2>2, <3>1, <3>2 DEF TypeOK
  <2> QED
    BY <2>1, <2>2
<1>7. \A u \in Tasks : u # t =>
        /\ RowGoesOn(task[u], task'[u]) /\ LeavesClaims(w, task[u], task'[u])
        /\ task'[u].state = "running" <=> task[u].state = "running"
  <2>1. \A u \in Tasks : LET x == Rearm([task[u] EXCEPT !.input = TRUE]) IN
          RowGoesOn(task[u], x) /\ LeavesClaims(w, task[u], x)
          /\ (x.state = "running" <=> task[u].state = "running")
    BY <1>3, ReportMark
  <2> QED
    BY <1>6, <2>1, SameRow
<1>8. LeavesClaims(w, task[t], task'[t])
  BY <1>5, <1>6 DEF LeavesClaims, Alive, TerminalStates
<1>9. \A c \in Calls : CallKeeps(c)'
  BY <1>1, <1>6 DEF CInv, CallKeeps
<1>10. \A u \in Tasks : /\ Exists(u)' <=> Exists(u)
                        /\ u # t => (Closed(task'[u]) <=> Closed(task[u]))
  BY <1>3, <1>5, <1>6, <1>7 DEF Exists, Closed, RowGoesOn, Terminal, TerminalStates
<1>11. \A u \in Tasks : TaskKeeps(u)'
  <2> SUFFICES ASSUME NEW u \in Tasks PROVE TaskKeeps(u)'
    OBVIOUS
  <2>1. TaskKeeps(u)
    BY DEF CInv
  <2>2. Parent[u] # NoTask => (Exists(u)' => Exists(Parent[u])')
    BY <1>10, <2>1, ParentAssumption DEF TaskKeeps
  <2>3. Parent[u] # NoTask => (~Closed(task'[u]) => ~Closed(task'[Parent[u]]))
    <3> SUFFICES ASSUME Parent[u] # NoTask, ~Closed(task'[u]) PROVE ~Closed(task'[Parent[u]])
      OBVIOUS
    <3>1. u # t
      BY <1>5, <1>6 DEF Closed
    <3>2. ~Closed(task[u])
      BY <1>10, <3>1
    <3>3. Parent[u] # t
      BY <1>4, <3>2 DEF Closed
    <3> QED
      BY <1>10, <2>1, <3>2, <3>3, ParentAssumption DEF TaskKeeps
  <2>4. CASE u = t
    <3>1. \A c \in Calls : CallTask[c] = t => call'[c].status \in {"none", "completed"}
      BY <1>1, <1>3, <1>4 DEF TaskKeeps
    <3> QED
      BY <1>5, <1>6, <2>2, <2>3, <2>4, <3>1 DEF TaskKeeps, TerminalStates
  <2>5. CASE u # t
    <3>1. RowGoesOn(task[u], task'[u]) /\ (task'[u].state = "running" <=> task[u].state = "running")
      BY <1>7, <2>5
    <3> QED
      BY <1>1, <2>1, <2>2, <2>3, <3>1 DEF TaskKeeps, RowGoesOn
  <2> QED
    BY <2>4, <2>5
<1>12. Knows(w)' /\ wk'[w].pc # "exec" /\ \A v \in Workers \ {w} : wk'[v] = wk[v]
  BY <1>1, <1>3, IdleKnows
<1>13. \A v \in Workers \ {w} : Knows(v)'
  BY <1>1, <1>3, <1>7, <1>8, <1>12, OtherKnows DEF CallLeft
<1>14. \A v \in Workers : Executes(v)'
  <2>1. \A v \in Workers \ {w} : Executes(v)'
    BY <1>1, <1>3, <1>12, OthersExecute
  <2> QED
    BY <1>12, <2>1 DEF Executes
<1>15. ArchivedIsQuiet'
  <2>1. RootOf(t) # NoTask
    BY ParentAssumption DEF RootOf
  <2> QED
    BY <1>3, <1>6, <2>1 DEF CInv, ArchivedIsQuiet
<1>16. Promised
  <2>1. \A u \in Tasks : Life(u)' = IF u = t THEN "done" ELSE Life(u)
    <3>1. Life(t)' = "done"
      BY <1>5, <1>6 DEF Life, Exists, Terminal, TerminalStates
    <3>2. \A u \in Tasks : u # t => Life(u)' = Life(u)
      BY <1>7, LifeKept
    <3> QED
      BY <3>1, <3>2
  <2>2. \A u \in Tasks : Parent[u] = t => Life(u) # "open"
    BY <1>4 DEF Life, Exists, Terminal
  <2>3. \A c \in Calls : CallTask[c] = t => Phase(c) \in {"absent", "answered", "delivered"}
    BY <1>3, <1>4 DEF TaskKeeps, Phase
  <2>4. \A c \in Calls : Phase(c)' = Phase(c)
    BY <1>1 DEF Phase
  <2> QED
    BY <1>3, <1>6, <2>1, <2>2, <2>3, <2>4, PromisedFinish
<1> QED
  BY <1>9, <1>11, <1>12, <1>13, <1>14, <1>15, <1>16 DEF CInv

-----------------------------------------------------------------------------
(* The invariant is inductive, and every step is promised.                  *)

(* At first no row says anything, and the contract has its first state.     *)
LEMMA InitCInv == Init => CInv /\ Contract!Init
<1> SUFFICES ASSUME Init PROVE CInv /\ Contract!Init
  OBVIOUS
<1>1. /\ \A t \in Tasks : task[t].state = "none" /\ ~task[t].finalizing
      /\ \A c \in Calls : call[c].status = "none" /\ ~call[c].delivered /\ execs[c] = 0
      /\ \A w \in Workers : wk[w].pc = "idle" /\ wk[w].task = NoTask
      /\ session.activeRoot = NoTask /\ session.writerCall = NoCall /\ session.archived = FALSE
  BY DEF Init, NewTask, NewCall, Idle
<1>2. \A c \in Calls : CallKeeps(c)
  BY <1>1, CallAssumption DEF CallKeeps, Started, Held
<1>3. \A t \in Tasks : TaskKeeps(t)
  BY <1>1, ParentAssumption DEF TaskKeeps, Exists, Closed, Terminal, TerminalStates
<1>4. \A w \in Workers : Knows(w) /\ Executes(w)
  BY <1>1 DEF Knows, Fenced, Executes
<1>5. ArchivedIsQuiet
  BY <1>1 DEF ArchivedIsQuiet
<1>6. Contract!Init
  <2>1. [t \in Tasks |-> Life(t)] = [t \in Tasks |-> "absent"]
    BY <1>1 DEF Life, Exists
  <2>2. [c \in Calls |-> Phase(c)] = [c \in Calls |-> "absent"]
    BY <1>1 DEF Phase
  <2> QED
    BY <1>1, <2>1, <2>2 DEF Contract!Init
<1> QED
  BY <1>2, <1>3, <1>4, <1>5, <1>6 DEF CInv

(* Every step of the engine, its clients and its faults keeps CInv, and is  *)
(* one the client was promised.                                             *)
LEMMA StepCInv == IInv /\ IInv' /\ CInv /\ [Next]_vars => CInv' /\ Promised
<1> SUFFICES ASSUME IInv, IInv', CInv, [Next]_vars PROVE CInv' /\ Promised
  OBVIOUS
<1>1. CASE \E w \in Workers : WorkerStep(w)
  <2>1. PICK w \in Workers : WorkerStep(w)
    BY <1>1
  <2> QED
    BY <2>1, BeginStep, DeliverStep, ToolStartStep, ExecuteStep, RecordStep, AgentStep, WaitStep,
       ParkStep, PrepareStep, FailStep, GenerationStep, ModelAnswersStep, FinishBeginStep,
       HookStep, FinishEndStep, CleanupStep, ForgetStep
    DEF WorkerStep
<1>2. CASE ClaimStep
  BY <1>2, ClaimSettlesStep, SkipStep, ClaimTaken DEF ClaimStep
<1>3. CASE TaskRequest
  BY <1>3, TreeRequestStep, RequeueStep DEF TaskRequest
<1>4. CASE CallRequest
  BY <1>4, ResolveStep, DeadlineStep, RequeueStep, CallAssumption DEF CallRequest
<1>5. CASE Archive
  BY <1>5, ArchiveStep
<1>6. CASE Fault
  BY <1>6, SkipStep, ForgetStep, InterruptStep DEF Fault
<1>7. CASE UNCHANGED vars
  <2>1. \A t \in Tasks :
          RowGoesOn(task[t], task'[t]) /\ LeavesClaims(NoWorker, task[t], task'[t])
    BY <1>7, SameRow DEF vars
  <2>2. \A c \in Calls : call[c].status = "running" => task'[CallTask[c]].state = "running"
    BY <1>7, RunningTask DEF vars
  <2> QED
    BY <1>7, <2>1, <2>2, PlainStep, WorkerAssumption DEF vars
<1> QED
  BY <1>1, <1>2, <1>3, <1>4, <1>5, <1>6, <1>7 DEF Next

(* What the rows say of each other, and what each claim's holder may rely   *)
(* on, holds in every state the engine can reach.                           *)
THEOREM ContractInvariance == Spec => []CInv
<1>1. Init => CInv
  BY InitCInv
<1>2. IInv /\ IInv' /\ CInv /\ [Next]_vars => CInv'
  BY StepCInv
<1> QED
  BY <1>1, <1>2, Invariance, PTL DEF Spec

(* No crash, lapse, retry or reconciliation, of any number of workers,      *)
(* invokes the executor of a tool call twice (tools.go, claim.go).          *)
THEOREM ExecutedAtMostOnce == Spec => []AtMostOnce
<1>1. CInv => AtMostOnce
  BY DEF CInv, CallKeeps, AtMostOnce
<1> QED
  BY <1>1, ContractInvariance, PTL

(* The writer lock names the write call that runs or may still run, and no  *)
(* other, at all times (tools.go:19-97, tool_result.go).                    *)
THEOREM WriterLockExact == Spec => []WriterLock
<1>1. CInv => WriterLock
  BY DEF CInv, CallKeeps, WriterLock, Held
<1> QED
  BY <1>1, ContractInvariance, PTL

(* A task executes one call at a time, and only while it is claimed         *)
(* (claim.go:110-140, worker.go:158-210).                                   *)
THEOREM OneCallRuns == Spec => []RunningCallOwned
<1>1. CInv => RunningCallOwned
  <2> SUFFICES ASSUME CInv, NEW t \in Tasks, NEW c \in CallsIn(t, {"running"})
               PROVE  task[t].state = "running" /\ Cardinality(CallsIn(t, {"running"})) = 1
    BY DEF RunningCallOwned
  <2>1. TaskKeeps(t) /\ c \in Calls /\ CallTask[c] = t /\ call[c].status = "running"
    BY DEF CInv, CallsIn
  <2>2. CallsIn(t, {"running"}) = {c}
    BY <2>1 DEF TaskKeeps, CallsIn
  <2> QED
    BY <2>1, <2>2, FS_Singleton DEF TaskKeeps
<1> QED
  BY <1>1, ContractInvariance, PTL

(* From the decision to finalize on, every call of the task is answered and *)
(* every child is terminal (finish.go:70-210).                              *)
THEOREM SettledBeforeTheEnd == Spec => []FinalizingIsSettled
<1>1. IInv /\ CInv => FinalizingIsSettled
  <2> SUFFICES ASSUME IInv, CInv, NEW t \in Tasks, task[t].finalizing
               PROVE  /\ CallsOf(t) = CallsIn(t, {"completed"})
                      /\ \A u \in Children(t) : Terminal(task[u].state)
    BY DEF FinalizingIsSettled
  <2>1. \A c \in Calls : CallTask[c] = t => call[c].status \in {"none", "completed"}
    BY DEF CInv, TaskKeeps
  <2>2. \A u \in Tasks : Parent[u] = t => task[u].state \in {"none"} \cup TerminalStates
    BY ParentAssumption DEF IInv, ChildrenSettled
  <2> QED
    BY <2>1, <2>2 DEF CallsOf, CallsIn, Children, Exists, Terminal
<1> QED
  BY <1>1, Invariance, ContractInvariance, PTL

(* An archived session has no work left and never gets any (session.go,     *)
(* create.go, collaboration.go).                                            *)
THEOREM ArchivedStaysQuiet == Spec => []ArchivedIsQuiet
<1>1. CInv => ArchivedIsQuiet
  BY DEF CInv
<1> QED
  BY <1>1, ContractInvariance, PTL

(* The engine implements DurableSession: for any tree of tasks, any calls   *)
(* and any number of workers that lapse, crash and race with clients, every *)
(* transaction is a step the session's client was promised, or invisible.   *)
THEOREM Refinement == Spec => KeepsContract
<1>1. Init => Contract!Init
  BY InitCInv
<1>2. IInv /\ IInv' /\ CInv /\ [Next]_vars => [Contract!Next]_(Contract!vars)
  BY StepCInv DEF Promised
<1> QED
  BY <1>1, <1>2, Invariance, ContractInvariance, PTL DEF Spec, KeepsContract, Contract!Spec

-----------------------------------------------------------------------------
(* What most steps leave alone: nothing starts to wait, to run or to be     *)
(* charged, and nothing that a waiting task may be woken by goes away.      *)

Patient(r, s) ==
  /\ s.state = "waiting" => r.state = "waiting"
  /\ ~Closed(r) => ~Closed(s)
Unstarted(r, s) ==
  /\ s.state = "running" => r.state = "running"
  /\ s.state = "running" /\ ~s.cancel => ~r.cancel
Uncharged(r, s) == s.toolCount = r.toolCount \/ (r.state = "none" /\ s.toolCount = 0)

Calm(r, s) == Patient(r, s) /\ Unstarted(r, s) /\ Uncharged(r, s)
RowsCalm == \A u \in Tasks : Calm(task[u], task'[u])

(* No call is requested.                                                    *)
Pending(x) == x.status \notin {"none", "completed"}
Unrequested == \A c \in Calls : Pending(call'[c]) => Pending(call[c])

(* What a waiting task waits for stays as it is while the task waits.       *)
CallsWait == \A c \in Calls :
  \/ /\ call'[c].status = call[c].status
     /\ call[c].deadline # "none" => call'[c].deadline # "none"
  \/ task[CallTask[c]].state = "running"
  \/ task'[CallTask[c]].state # "waiting"

(* Only a requested call is executed.                                       *)
ExecsCalm ==
  /\ \A w \in Workers : wk'[w].pc = "exec" =>
       \/ wk[w].pc = "exec" /\ wk'[w].head = wk[w].head
       \/ wk'[w].head \in Calls /\ Pending(call[wk'[w].head])
  /\ \A c \in Calls : \/ execs'[c] = execs[c]
                      \/ \E w \in Workers : wk[w].pc = "exec" /\ wk[w].head = c

CalmStep == RowsCalm /\ Unrequested /\ CallsWait /\ ExecsCalm

(* A row whose state, cancellation and charge are kept is calm.             *)
LEMMA KeptCalm ==
  ASSUME NEW r, NEW s, s.state = r.state, s.cancel = r.cancel, s.toolCount = r.toolCount
  PROVE  Calm(r, s)
BY DEF Calm, Patient, Unstarted, Uncharged, Closed

(* So is one that is queued or left unknown.                                *)
LEMMA QueuedCalm ==
  ASSUME NEW r, NEW s, s.state \in {"queued", "unknown"}, s.toolCount = r.toolCount
  PROVE  Calm(r, s)
BY DEF Calm, Patient, Unstarted, Uncharged, Closed, TerminalStates

(* One row written, calmly.                                                 *)
LEMMA OneCalm ==
  ASSUME TypeOK, NEW t, NEW r, task' = [task EXCEPT ![t] = r],
         t \in Tasks => Calm(task[t], r)
  PROVE  RowsCalm
<1>1. \A u \in Tasks : task'[u] = IF u = t THEN r ELSE task[u]
  BY DEF TypeOK
<1>2. \A u \in Tasks : Calm(task[u], task[u])
  BY KeptCalm
<1> QED
  BY <1>1, <1>2 DEF RowsCalm

(* No row written.                                                          *)
LEMMA NoneCalm ==
  ASSUME UNCHANGED task
  PROVE  RowsCalm
BY KeptCalm DEF RowsCalm

(* No call changed.                                                         *)
LEMMA SameCalls ==
  ASSUME UNCHANGED call
  PROVE  Unrequested /\ CallsWait
BY DEF Unrequested, CallsWait

(* The calls of a running task change, and none is requested.               *)
LEMMA OwnCallsCalm ==
  ASSUME NEW t, task[t].state = "running",
         \A c \in Calls : \/ call'[c] = call[c]
                          \/ CallTask[c] = t /\ (Pending(call[c]) \/ ~Pending(call'[c]))
  PROVE  Unrequested /\ CallsWait
BY DEF Unrequested, CallsWait

(* No executor asked.                                                       *)
LEMMA SameExecs ==
  ASSUME UNCHANGED execs, \A w \in Workers : wk'[w] = wk[w] \/ wk'[w].pc # "exec"
  PROVE  ExecsCalm
BY DEF ExecsCalm

(* Worker `w` does not go on to an execution, and changed no count of one.  *)
LEMMA MovesOn ==
  ASSUME TypeOK, NEW w \in Workers, UNCHANGED execs,
         \/ GoIdle(w) \/ GoBegin(w) \/ \E p \in PCs \ {"exec"} : Goto(w, p)
  PROVE  ExecsCalm
<1>1. CASE GoIdle(w)
  BY <1>1, IdleKnows, SameExecs
<1>2. CASE GoBegin(w)
  BY <1>2, BeginMemory, SameExecs
<1>3. CASE \E p \in PCs \ {"exec"} : Goto(w, p)
  BY <1>3, GotoKeeps, SameExecs
<1> QED
  BY <1>1, <1>2, <1>3

(* A row that is released, with an error or without.                        *)
LEMMA ReleasedCalm ==
  ASSUME NEW r \in TaskRow, NEW s \in {"queued", "unknown"}
  PROVE  /\ Calm(r, Release(r, s))
         /\ \A e : /\ Calm(r, [Release(r, s) EXCEPT !.error = e])
                   /\ Calm(r, [Release(Interrupted(r), s) EXCEPT !.error = e])
<1> DEFINE x == Release(r, s)
           y == Release(Interrupted(r), s)
<1>1. Interrupted(r) \in TaskRow /\ Interrupted(r).toolCount = r.toolCount
  BY DEF Interrupted, TaskRow
<1>2. x \in TaskRow /\ x.state = s /\ x.toolCount = r.toolCount
  BY DEF Release, TaskRow, TaskStates
<1>3. y \in TaskRow /\ y.state = s /\ y.toolCount = r.toolCount
  BY <1>1 DEF Release, TaskRow, TaskStates
<1> HIDE DEF x, y
<1>4. \A e : LET z == [x EXCEPT !.error = e] IN z.state = s /\ z.toolCount = r.toolCount
  BY <1>2 DEF TaskRow
<1>5. \A e : LET z == [y EXCEPT !.error = e] IN z.state = s /\ z.toolCount = r.toolCount
  BY <1>3 DEF TaskRow
<1>6. Calm(r, x)
  BY <1>2, QueuedCalm
<1>7. ASSUME NEW e PROVE Calm(r, [x EXCEPT !.error = e]) /\ Calm(r, [y EXCEPT !.error = e])
  <2> DEFINE z == [x EXCEPT !.error = e]
             v == [y EXCEPT !.error = e]
  <2>1. z.state = s /\ z.toolCount = r.toolCount /\ v.state = s /\ v.toolCount = r.toolCount
    BY <1>4, <1>5
  <2> HIDE DEF z, v
  <2>2. Calm(r, z) /\ Calm(r, v)
    BY <2>1, QueuedCalm
  <2> QED
    BY <2>2 DEF z, v
<1> QED
  BY <1>6, <1>7 DEF x, y

(* A row that is canceled, and woken if it waits.                           *)
LEMMA CanceledCalm ==
  ASSUME NEW r \in TaskRow
  PROVE  Calm(r, Rearm([r EXCEPT !.cancel = TRUE]))
<1> DEFINE x == [r EXCEPT !.cancel = TRUE]
           y == [x EXCEPT !.state = IF x.state = "waiting" THEN "queued" ELSE x.state]
<1>1. x \in TaskRow /\ x.state = r.state /\ x.cancel /\ x.toolCount = r.toolCount
  BY DEF TaskRow
<1>2. Rearm(x) = y
  BY DEF Rearm
<1> HIDE DEF x
<1>3. /\ y.state = IF x.state = "waiting" THEN "queued" ELSE x.state
      /\ y.cancel /\ y.toolCount = r.toolCount
  BY <1>1 DEF TaskRow
<1> HIDE DEF y
<1>4. Calm(r, y)
  BY <1>1, <1>3 DEF Calm, Patient, Unstarted, Uncharged, Closed, TerminalStates
<1> QED
  BY <1>2, <1>4 DEF x

(* The worker's own moves: nothing, or its memory only.                     *)
LEMMA MovesCalm ==
  ASSUME IInv, NEW w \in Workers,
         \/ Execute(w) \/ PrepareBegin(w) \/ PrepareEnd(w) \/ FinishHook(w) \/ FenceLost(w)
         \/ Crash(w) \/ Interrupt(w)
  PROVE  CalmStep
<1>1. UNCHANGED <<task, call>> /\ TypeOK
  BY DEF Execute, PrepareBegin, PrepareEnd, FinishHook, FenceLost, Crash, Interrupt, IInv
<1>2. ASSUME Execute(w) PROVE ExecsCalm
  <2>1. /\ wk[w].pc = "exec" /\ Goto(w, "record")
        /\ execs' = [execs EXCEPT ![wk[w].head] = @ + 1]
    BY <1>2 DEF Execute
  <2>2. wk'[w].pc = "record" /\ \A v \in Workers \ {w} : wk'[v] = wk[v]
    BY <1>1, <2>1, GotoKeeps DEF PCs
  <2>3. \A c \in Calls : execs'[c] = execs[c] \/ wk[w].head = c
    BY <1>1, <2>1 DEF TypeOK
  <2> QED
    BY <2>1, <2>2, <2>3 DEF ExecsCalm
<1>3. ASSUME ~Execute(w) PROVE ExecsCalm
  <2>1. /\ UNCHANGED execs
        /\ GoIdle(w) \/ \E p \in {"model", "requeue", "unknown", "provision", "fin2", "cleanup"} : Goto(w, p)
    BY <1>3 DEF PrepareBegin, PrepareEnd, FinishHook, FenceLost, Crash, Interrupt
  <2> QED
    BY <1>1, <2>1, MovesOn DEF PCs
<1> QED
  BY <1>1, <1>2, <1>3, NoneCalm, SameCalls DEF CalmStep

(* The step's first transaction consumes an input at most.                  *)
LEMMA BeginCalm ==
  ASSUME IInv, NEW w \in Workers, StepBegin(w)
  PROVE  CalmStep
<1> DEFINE t == wk[w].task
           row == IF ~task[t].cancel /\ Undelivered(t) = {} /\ task[t].input
                    THEN [task[t] EXCEPT !.input = FALSE, !.pending = ""] ELSE task[t]
           blocked == {c \in Undelivered(t) : call[c].status # "completed"}
           head == IF blocked = {} THEN NoCall ELSE First(blocked)
           batch == {c \in Undelivered(t) : blocked = {} \/ c < head}
           then == IF blocked = {} THEN "begin" ELSE Dispatch(head)
           next == CASE row.cancel -> [pc |-> "fin1", fin |-> IF row.pending = "failed"
                                                         THEN "failed" ELSE "canceled"]
                     [] ~row.cancel /\ Undelivered(t) # {} ->
                          [pc |-> IF batch # {} THEN "deliver" ELSE then, fin |-> ""]
                     [] ~row.cancel /\ Undelivered(t) = {} /\ row.pending # "" ->
                          [pc |-> "fin1", fin |-> row.pending]
                     [] OTHER -> [pc |-> "prepare", fin |-> ""]
           x == [wk[w] EXCEPT !.pc = next.pc, !.fin = next.fin,
                   !.batch = IF next.pc = "fin1" THEN {} ELSE batch,
                   !.head = IF next.pc = "fin1" THEN NoCall ELSE head,
                   !.then = IF next.pc \in {"fin1", "prepare"} THEN "idle" ELSE then]
<1>1. /\ UNCHANGED <<call, execs>> /\ Fenced(w)
      /\ task' = [task EXCEPT ![t] = row] /\ wk' = [wk EXCEPT ![w] = x]
  BY DEF StepBegin
<1>2. /\ TypeOK /\ t \in Tasks /\ task[t] \in TaskRow /\ wk[w] \in WorkerRow
  BY <1>1, FencedTask DEF IInv, TypeOK
<1>3. row.state = task[t].state /\ row.cancel = task[t].cancel /\ row.toolCount = task[t].toolCount
  BY <1>2 DEF TaskRow
<1>4. then # "exec"
  BY DEF Dispatch
<1> HIDE DEF then, head, batch, row
<1>5. next.pc # "exec"
  BY <1>4
<1> HIDE DEF next
<1>6. x.pc = next.pc
  BY <1>2 DEF WorkerRow
<1> HIDE DEF x
<1>7. \A v \in Workers : wk'[v] = wk[v] \/ wk'[v].pc # "exec"
  BY <1>1, <1>2, <1>5, <1>6 DEF TypeOK
<1>8. RowsCalm
  BY <1>1, <1>2, <1>3, KeptCalm, OneCalm
<1> QED
  BY <1>1, <1>7, <1>8, SameCalls, SameExecs DEF CalmStep

(* Delivering a result changes no status and no deadline.                   *)
LEMMA DeliverCalm ==
  ASSUME IInv, NEW w \in Workers, Deliver(w)
  PROVE  CalmStep
<1> DEFINE c == First(wk[w].batch)
           rest == wk[w].batch \ {c}
<1>1. /\ UNCHANGED <<task, execs>> /\ TypeOK
      /\ call' = [call EXCEPT ![c].delivered = TRUE]
      /\ \/ GoBegin(w)
         \/ wk' = [wk EXCEPT ![w].batch = rest,
                             ![w].pc = IF rest = {} THEN wk[w].then ELSE "deliver"]
  BY DEF Deliver, IInv
<1> HIDE DEF c, rest
<1>2. \A d \in Calls : call'[d].status = call[d].status /\ call'[d].deadline = call[d].deadline
  <2> SUFFICES ASSUME NEW d \in Calls
               PROVE  call'[d].status = call[d].status /\ call'[d].deadline = call[d].deadline
    OBVIOUS
  <2>1. call[d] \in CallRow /\ call'[d] \in {call[d], [call[d] EXCEPT !.delivered = TRUE]}
    BY <1>1 DEF TypeOK
  <2> QED
    BY <2>1 DEF CallRow
<1>3. Unrequested /\ CallsWait
  BY <1>2 DEF Unrequested, CallsWait, Pending
<1>4. CASE GoBegin(w)
  BY <1>1, <1>3, <1>4, MovesOn, NoneCalm DEF CalmStep
<1>5. CASE wk' = [wk EXCEPT ![w].batch = rest,
                            ![w].pc = IF rest = {} THEN wk[w].then ELSE "deliver"]
  <2>1. wk[w] \in WorkerRow /\ wk \in [Workers -> WorkerRow]
    BY <1>1 DEF TypeOK
  <2>2. wk'[w].pc \in {wk[w].then, "deliver"} /\ \A v \in Workers \ {w} : wk'[v] = wk[v]
    BY <1>5, <2>1 DEF WorkerRow
  <2>3. ExecsCalm
    BY <1>1, <2>1, <2>2, SameExecs DEF WorkerRow
  <2> QED
    BY <1>1, <1>3, <2>3, NoneCalm DEF CalmStep
<1> QED
  BY <1>1, <1>4, <1>5

(* A call that is started was ready.                                        *)
LEMMA ToolStartCalm ==
  ASSUME IInv, CInv, NEW w \in Workers, ToolStart(w)
  PROVE  CalmStep
<1> DEFINE t == wk[w].task
           c == wk[w].head
<1>1. /\ UNCHANGED <<task, execs>> /\ TypeOK /\ Fenced(w) /\ wk[w].pc = "tool" /\ Knows(w)
  BY DEF ToolStart, IInv, CInv
<1>2. /\ c \in Calls /\ CallTask[c] = t /\ call[c].status = "ready" /\ task[t].state = "running"
  BY <1>1, FencedTask DEF Knows, Has
<1>3. CASE UNCHANGED call /\ (Goto(w, "cleanup") \/ Goto(w, "requeue"))
  BY <1>1, <1>3, MovesOn, NoneCalm, SameCalls DEF CalmStep, PCs
<1>4. CASE call' = [call EXCEPT ![c].status = "running"] /\ Goto(w, "exec")
  <2>1. /\ wk'[w].pc = "exec" /\ wk'[w].head = c /\ \A v \in Workers \ {w} : wk'[v] = wk[v]
    BY <1>1, <1>4, GotoKeeps DEF PCs
  <2>2. \A d \in Calls : call'[d] = call[d] \/ d = c
    BY <1>1, <1>4 DEF TypeOK
  <2>3. Pending(call[c])
    BY <1>2 DEF Pending
  <2>4. ExecsCalm
    BY <1>1, <1>2, <2>1, <2>3 DEF ExecsCalm
  <2>5. Unrequested /\ CallsWait
    BY <1>2, <2>2, <2>3, OwnCallsCalm
  <2> QED
    BY <1>1, <2>4, <2>5, NoneCalm DEF CalmStep
<1> QED
  BY <1>3, <1>4 DEF ToolStart

(* A recorded outcome answers the call, or leaves task and call unknown.    *)
LEMMA RecordCalm ==
  ASSUME IInv, CInv, NEW w \in Workers, Record(w)
  PROVE  CalmStep
<1> DEFINE t == wk[w].task
           c == wk[w].head
<1>1. /\ UNCHANGED execs /\ TypeOK /\ Fenced(w) /\ wk[w].pc = "record" /\ Knows(w)
      /\ \E s \in {"completed", "unknown"} : call' = [call EXCEPT ![c].status = s]
      /\ GoIdle(w) \/ GoBegin(w)
      /\ UNCHANGED task \/ task' = [task EXCEPT ![t] = [Release(@, "unknown") EXCEPT !.error = TRUE]]
  BY DEF Record, IInv, CInv
<1>2. /\ c \in Calls /\ CallTask[c] = t /\ Pending(call[c])
      /\ t \in Tasks /\ task[t] \in TaskRow /\ task[t].state = "running"
  BY <1>1, FencedTask DEF Knows, Has, Pending
<1>3. \A d \in Calls : call'[d] = call[d] \/ d = c
  BY <1>1 DEF TypeOK
<1>4. Unrequested /\ CallsWait
  BY <1>2, <1>3, OwnCallsCalm
<1>5. RowsCalm
  <2>1. Calm(task[t], [Release(task[t], "unknown") EXCEPT !.error = TRUE])
    BY <1>2, ReleasedCalm
  <2> QED
    BY <1>1, <2>1, OneCalm, NoneCalm
<1>6. ExecsCalm
  BY <1>1, MovesOn
<1> QED
  BY <1>4, <1>5, <1>6 DEF CalmStep

(* A claim that is given up, or settled by a later one, loses its calls.    *)
LEMMA ReleaseCalm ==
  ASSUME IInv, NEW w \in Workers, Requeue(w) \/ ParkUnknown(w) \/ Cleanup(w)
  PROVE  CalmStep
<1> DEFINE t == wk[w].task
<1>1. /\ UNCHANGED execs /\ TypeOK /\ Fenced(w) /\ GoIdle(w)
      /\ call' \in {call, LoseCalls(t)}
      /\ \E s \in {"queued", "unknown"} : \E e :
           task' \in {[task EXCEPT ![t] = Release(@, s)],
                      [task EXCEPT ![t] = [Release(@, s) EXCEPT !.error = e]],
                      [task EXCEPT ![t] = [Release(Interrupted(@), s) EXCEPT !.error = e]]}
  BY DEF Requeue, ParkUnknown, Cleanup, IInv
<1>2. t \in Tasks /\ task[t] \in TaskRow /\ task[t].state = "running"
  BY <1>1, FencedTask
<1>3. \A c \in Calls : call'[c] = call[c] \/ (CallTask[c] = t /\ Pending(call[c]))
  BY <1>1 DEF LoseCalls, Pending
<1>4. Unrequested /\ CallsWait
  BY <1>2, <1>3, OwnCallsCalm
<1>5. RowsCalm
  <2>1. PICK s \in {"queued", "unknown"} : \E e :
           task' \in {[task EXCEPT ![t] = Release(@, s)],
                      [task EXCEPT ![t] = [Release(@, s) EXCEPT !.error = e]],
                      [task EXCEPT ![t] = [Release(Interrupted(@), s) EXCEPT !.error = e]]}
    BY <1>1
  <2>2. PICK e :
           task' \in {[task EXCEPT ![t] = Release(@, s)],
                      [task EXCEPT ![t] = [Release(@, s) EXCEPT !.error = e]],
                      [task EXCEPT ![t] = [Release(Interrupted(@), s) EXCEPT !.error = e]]}
    BY <2>1
  <2>3. /\ Calm(task[t], Release(task[t], s))
        /\ Calm(task[t], [Release(task[t], s) EXCEPT !.error = e])
        /\ Calm(task[t], [Release(Interrupted(task[t]), s) EXCEPT !.error = e])
    BY <1>2, ReleasedCalm
  <2>4. CASE task' = [task EXCEPT ![t] = Release(@, s)]
    BY <1>1, <2>3, <2>4, OneCalm
  <2>5. CASE task' = [task EXCEPT ![t] = [Release(@, s) EXCEPT !.error = e]]
    BY <1>1, <2>3, <2>5, OneCalm
  <2>6. CASE task' = [task EXCEPT ![t] = [Release(Interrupted(@), s) EXCEPT !.error = e]]
    BY <1>1, <2>3, <2>6, OneCalm
  <2> QED
    BY <2>2, <2>4, <2>5, <2>6
<1>6. ExecsCalm
  BY <1>1, MovesOn
<1> QED
  BY <1>4, <1>5, <1>6 DEF CalmStep

(* A lapsed claim that is settled, or skipped once its generations are      *)
(* closed, wakes and uses nothing.                                          *)
LEMMA SettlesCalm ==
  ASSUME IInv, NEW t \in Tasks, ClaimSettles(t) \/ ClaimSkips(t)
  PROVE  CalmStep
<1>1. /\ UNCHANGED <<execs, wk>> /\ TypeOK /\ task[t] \in TaskRow /\ task[t].state = "running"
      /\ call' \in {call, LoseCalls(t)}
  BY DEF ClaimSettles, ClaimSkips, Uncertain, IInv, TypeOK
<1>2. \A c \in Calls : call'[c] = call[c] \/ (CallTask[c] = t /\ Pending(call[c]))
  BY <1>1 DEF LoseCalls, Pending
<1>3. Unrequested /\ CallsWait
  BY <1>1, <1>2, OwnCallsCalm
<1>4. CASE ClaimSettles(t)
  <2> DEFINE e == task[t].error \/ task[t].finalizing
  <2>1. task' = [task EXCEPT ![t] = [Release(Interrupted(@), "unknown") EXCEPT !.error = e]]
    BY <1>4 DEF ClaimSettles
  <2> HIDE DEF e
  <2>2. Calm(task[t], [Release(Interrupted(task[t]), "unknown") EXCEPT !.error = e])
    BY <1>1, ReleasedCalm
  <2> QED
    BY <1>1, <1>3, <2>1, <2>2, OneCalm, SameExecs DEF CalmStep
<1>5. CASE ClaimSkips(t)
  <2>1. task' = [task EXCEPT ![t] = Interrupted(@)]
    BY <1>5 DEF ClaimSkips
  <2>2. /\ Interrupted(task[t]).state = task[t].state /\ Interrupted(task[t]).cancel = task[t].cancel
        /\ Interrupted(task[t]).toolCount = task[t].toolCount
    BY <1>1 DEF Interrupted, TaskRow
  <2> QED
    BY <1>1, <1>3, <2>1, <2>2, KeptCalm, OneCalm, SameExecs DEF CalmStep
<1> QED
  BY <1>4, <1>5

(* Model work opens and closes generations, and counts failures.            *)
LEMMA ModelCalm ==
  ASSUME IInv, NEW w \in Workers,
         Fail(w) \/ StartGeneration(w) \/ CompactEnd(w) \/ ModelFails(w)
  PROVE  CalmStep
<1> DEFINE t == wk[w].task
           g == task[t].gens - 1
           n == task[t].failures + 1
           row == [task[t] EXCEPT !.gens = g, !.failures = n]
<1>1. /\ UNCHANGED <<call, execs>> /\ TypeOK /\ Fenced(w)
      /\ GoIdle(w) \/ GoBegin(w) \/ \E p \in {"summary", "stream", "respond"} : Goto(w, p)
  BY DEF Fail, StartGeneration, CompactEnd, ModelFails, IInv
<1>2. t \in Tasks /\ task[t] \in TaskRow
  BY <1>1, FencedTask
<1>3. ExecsCalm
  BY <1>1, MovesOn DEF PCs
<1>4. CASE Fail(w)
  <2> DEFINE x == [task[t] EXCEPT !.pending = "failed", !.error = TRUE]
  <2>1. task' = [task EXCEPT ![t] = x]
    BY <1>1, <1>2, <1>4 DEF Fail, TypeOK
  <2>2. x.state = task[t].state /\ x.cancel = task[t].cancel /\ x.toolCount = task[t].toolCount
    BY <1>2 DEF TaskRow
  <2> HIDE DEF x
  <2> QED
    BY <1>1, <1>3, <2>1, <2>2, KeptCalm, OneCalm, SameCalls DEF CalmStep
<1>5. CASE StartGeneration(w) \/ CompactEnd(w)
  <2>1. PICK m : task' = [task EXCEPT ![t].gens = m]
    BY <1>5 DEF StartGeneration, CompactEnd
  <2> DEFINE x == [task[t] EXCEPT !.gens = m]
  <2>2. task' = [task EXCEPT ![t] = x]
    BY <2>1
  <2>3. x.state = task[t].state /\ x.cancel = task[t].cancel /\ x.toolCount = task[t].toolCount
    BY <1>2 DEF TaskRow
  <2> HIDE DEF x
  <2> QED
    BY <1>1, <1>3, <2>2, <2>3, KeptCalm, OneCalm, SameCalls DEF CalmStep
<1>6. CASE ModelFails(w)
  <2>1. \/ task' = [task EXCEPT ![t] = [row EXCEPT !.error = TRUE, !.pending = "failed"]]
        \/ task' = [task EXCEPT ![t] = Release(row, "queued")]
    BY <1>6 DEF ModelFails
  <2> HIDE DEF g, n
  <2> DEFINE x == [row EXCEPT !.error = TRUE, !.pending = "failed"]
  <2>2. /\ x.state = task[t].state /\ x.cancel = task[t].cancel /\ x.toolCount = task[t].toolCount
        /\ Release(row, "queued").state = "queued"
        /\ Release(row, "queued").toolCount = task[t].toolCount
    BY <1>2 DEF TaskRow, Release
  <2> HIDE DEF x, row
  <2>3. Calm(task[t], x) /\ Calm(task[t], Release(row, "queued"))
    BY <2>2, KeptCalm, QueuedCalm
  <2>4. RowsCalm
    BY <1>1, <2>1, <2>3, OneCalm DEF x
  <2> QED
    BY <1>1, <1>3, <2>4, SameCalls DEF CalmStep
<1> QED
  BY <1>4, <1>5, <1>6

(* What clients, and agent calls on their behalf, do to the rows.           *)
LEMMA RequestedRowsCalm ==
  ASSUME TypeOK, NEW t \in Tasks,
         \/ task' = Canceled(t) \/ task' = Steered(t)
         \/ task' = Spawned(t) /\ ~Exists(t)
         \/ task' = FollowedUp(t) /\ Terminal(task[t].state)
  PROVE  RowsCalm
<1>1. task[t] \in TaskRow
  BY DEF TypeOK
<1>2. CASE task' = Canceled(t)
  <2>1. \A u \in Tasks : task'[u] \in {task[u], Rearm([task[u] EXCEPT !.cancel = TRUE])}
    BY <1>2 DEF Canceled
  <2>2. \A u \in Tasks : Calm(task[u], task[u])
    BY KeptCalm
  <2>3. \A u \in Tasks : Calm(task[u], Rearm([task[u] EXCEPT !.cancel = TRUE]))
    BY CanceledCalm DEF TypeOK
  <2> QED
    BY <2>1, <2>2, <2>3 DEF RowsCalm
<1>3. CASE task' = Steered(t)
  <2> DEFINE x == [task[t] EXCEPT !.input = TRUE]
             y == [task[t] EXCEPT !.input = TRUE, !.pending = "", !.state = "queued"]
  <2>1. task' = [task EXCEPT ![t] = x] \/ task' = [task EXCEPT ![t] = y]
    BY <1>3 DEF Steered
  <2>2. /\ x.state = task[t].state /\ x.cancel = task[t].cancel /\ x.toolCount = task[t].toolCount
        /\ y.state = "queued" /\ y.toolCount = task[t].toolCount
    BY <1>1 DEF TaskRow
  <2> HIDE DEF x, y
  <2>3. Calm(task[t], x) /\ Calm(task[t], y)
    BY <2>2, KeptCalm, QueuedCalm
  <2> QED
    BY <2>1, <2>3, OneCalm
<1>4. CASE task' = Spawned(t) /\ ~Exists(t)
  <2> DEFINE x == [NewTask EXCEPT !.state = "queued", !.input = TRUE]
  <2>1. task' = [task EXCEPT ![t] = x]
    BY <1>4 DEF Spawned
  <2>2. x.state = "queued" /\ x.toolCount = 0
    BY DEF NewTask
  <2> HIDE DEF x
  <2>3. Calm(task[t], x)
    BY <1>4, <2>2 DEF Calm, Patient, Unstarted, Uncharged, Closed, TerminalStates, Exists
  <2> QED
    BY <2>1, <2>3, OneCalm
<1>5. CASE task' = FollowedUp(t) /\ Terminal(task[t].state)
  <2> DEFINE x == [task[t] EXCEPT !.state = "queued", !.pending = "", !.finalizing = FALSE,
                     !.cancel = FALSE, !.error = FALSE, !.failures = 0, !.input = TRUE]
  <2>1. task' = [task EXCEPT ![t] = x]
    BY <1>5 DEF FollowedUp
  <2>2. x.state = "queued" /\ x.toolCount = task[t].toolCount
    BY <1>1 DEF TaskRow
  <2> HIDE DEF x
  <2>3. Calm(task[t], x)
    BY <2>2, QueuedCalm
  <2> QED
    BY <2>1, <2>3, OneCalm
<1> QED
  BY <1>2, <1>3, <1>4, <1>5

(* An agent call spawns, steers, resumes or cancels on the tree, and is     *)
(* executed once more.                                                      *)
LEMMA AgentCalm ==
  ASSUME IInv, NEW w \in Workers, AgentOperation(w)
  PROVE  CalmStep
<1>1. /\ wk[w].pc = "exec" /\ Goto(w, "record") /\ UNCHANGED call /\ TypeOK
      /\ execs' = [execs EXCEPT ![wk[w].head] = @ + 1]
  BY DEF AgentOperation, IInv
<1>2. RowsCalm
  <2>1. \/ UNCHANGED task
        \/ \E t \in Tasks : \/ task' = Canceled(t) \/ task' = Steered(t)
                            \/ task' = Spawned(t) /\ ~Exists(t)
                            \/ task' = FollowedUp(t) /\ Terminal(task[t].state)
    BY DEF AgentOperation, SpawnAllowed, FollowupAllowed, Tree, Children
  <2> QED
    BY <1>1, <2>1, RequestedRowsCalm, NoneCalm
<1>3. wk'[w].pc = "record" /\ \A v \in Workers \ {w} : wk'[v] = wk[v]
  BY <1>1, GotoKeeps DEF PCs
<1>4. \A c \in Calls : execs'[c] = execs[c] \/ wk[w].head = c
  BY <1>1 DEF TypeOK
<1>5. ExecsCalm
  BY <1>1, <1>3, <1>4 DEF ExecsCalm
<1> QED
  BY <1>1, <1>2, <1>5, SameCalls DEF CalmStep

(* Clients create, steer, resume, cancel and reconcile tasks; a task's time *)
(* runs out; a lease lapses; a session is archived.                         *)
LEMMA TreeRequestCalm ==
  ASSUME IInv, NEW t \in Tasks,
         \/ CreateTask(t) \/ Spawn(t) \/ Steer(t) \/ Followup(t) \/ Cancel(t)
         \/ Reconcile(t) \/ Expire(t) \/ LapseLease(t) \/ Archive
  PROVE  CalmStep
<1>1. UNCHANGED <<call, wk, execs>> /\ TypeOK /\ task[t] \in TaskRow
  BY DEF CreateTask, Spawn, Steer, Followup, Cancel, Reconcile, Expire, LapseLease, Archive,
         IInv, TypeOK
<1>2. Unrequested /\ CallsWait /\ ExecsCalm
  BY <1>1, SameCalls, SameExecs
<1>3. CASE CreateTask(t) \/ Spawn(t) \/ Steer(t) \/ Followup(t) \/ Cancel(t)
  <2>1. \/ task' = Canceled(t) \/ task' = Steered(t)
        \/ task' = Spawned(t) /\ ~Exists(t)
        \/ task' = FollowedUp(t) /\ Terminal(task[t].state)
    BY <1>3 DEF CreateTask, Spawn, Steer, Followup, Cancel, SpawnAllowed, FollowupAllowed, Spawned
  <2> QED
    BY <1>1, <1>2, <2>1, RequestedRowsCalm DEF CalmStep
<1>4. CASE Reconcile(t)
  <2> DEFINE x == [task[t] EXCEPT !.state = "queued", !.error = FALSE, !.finalizing = FALSE]
  <2>1. task' = [task EXCEPT ![t] = x]
    BY <1>4 DEF Reconcile
  <2>2. x.state = "queued" /\ x.toolCount = task[t].toolCount
    BY <1>1 DEF TaskRow
  <2> HIDE DEF x
  <2>3. Calm(task[t], x)
    BY <2>2, QueuedCalm
  <2> QED
    BY <1>1, <1>2, <2>1, <2>3, OneCalm DEF CalmStep
<1>5. CASE LapseLease(t)
  <2> DEFINE x == [task[t] EXCEPT !.live = FALSE]
  <2>1. task' = [task EXCEPT ![t] = x]
    BY <1>5 DEF LapseLease
  <2>2. x.state = task[t].state /\ x.cancel = task[t].cancel /\ x.toolCount = task[t].toolCount
    BY <1>1 DEF TaskRow
  <2> HIDE DEF x
  <2> QED
    BY <1>1, <1>2, <2>1, <2>2, KeptCalm, OneCalm DEF CalmStep
<1>6. CASE Archive
  BY <1>2, <1>6, NoneCalm DEF Archive, CalmStep
<1>7. CASE Expire(t)
  <2> DEFINE r == Rearm([task[t] EXCEPT !.cancel = TRUE])
             x == [r EXCEPT !.pending = "failed", !.error = TRUE]
  <2>1. \A u \in Tasks : \/ u # t /\ task'[u] \in {task[u], Rearm([task[u] EXCEPT !.cancel = TRUE])}
                         \/ u = t /\ task'[u] = x
    <3>1. t \in CancelScope(t)
      BY <1>7 DEF Expire, CancelScope, Tree
    <3>2. task' = [Canceled(t) EXCEPT ![t] = [Canceled(t)[t] EXCEPT !.pending = "failed", !.error = TRUE]]
      BY <1>7 DEF Expire, Canceled
    <3>3. Canceled(t)[t] = r
      BY <3>1 DEF Canceled
    <3>4. task' = [Canceled(t) EXCEPT ![t] = x]
      BY <3>2, <3>3
    <3> HIDE DEF x
    <3> QED
      BY <3>4 DEF Canceled
  <2>2. r \in TaskRow
    <3>1. GensBound(task[t])
      BY Parts
    <3> QED
      BY <1>1, <3>1, CanceledRow
  <2>3. Calm(task[t], r)
    BY <1>1, CanceledCalm
  <2> HIDE DEF r
  <2>4. x.state = r.state /\ x.cancel = r.cancel /\ x.toolCount = r.toolCount
    BY <2>2 DEF TaskRow
  <2> HIDE DEF x
  <2>5. Calm(task[t], x)
    BY <2>3, <2>4 DEF Calm, Patient, Unstarted, Uncharged, Closed
  <2>6. \A u \in Tasks : Calm(task[u], task[u])
    BY KeptCalm
  <2>7. \A u \in Tasks : Calm(task[u], Rearm([task[u] EXCEPT !.cancel = TRUE]))
    BY <1>1, CanceledCalm DEF TypeOK
  <2> QED
    BY <1>2, <2>1, <2>5, <2>6, <2>7 DEF CalmStep, RowsCalm
<1> QED
  BY <1>3, <1>4, <1>5, <1>6, <1>7

(* A client's decision, or a deadline's pass, leaves no task waiting for it.*)
LEMMA DecisionCalm ==
  ASSUME IInv, NEW c \in Calls,
         Approve(c) \/ Deny(c) \/ SubmitResult(c) \/ DeadlinePasses(c) \/ WakeWaiter(c)
  PROVE  CalmStep
<1> DEFINE t == CallTask[c]
<1>1. UNCHANGED <<wk, execs>> /\ TypeOK /\ t \in Tasks /\ task[t] \in TaskRow /\ call[c] \in CallRow
  BY CallAssumption DEF Approve, Deny, SubmitResult, DeadlinePasses, WakeWaiter, Resolved, IInv, TypeOK
<1>2. ExecsCalm
  BY <1>1, SameExecs
<1>3. CASE Approve(c) \/ Deny(c) \/ SubmitResult(c)
  <2> DEFINE x == [task[t] EXCEPT !.state = "queued", !.error = FALSE]
  <2>1. \E s : call' = [call EXCEPT ![c].status = s]
    BY <1>3 DEF Approve, Deny, SubmitResult, Resolved
  <2>2. Pending(call[c])
    BY <1>3 DEF Approve, Deny, SubmitResult, Pending
  <2>3. IF task[t].state \in {"waiting", "unknown"} THEN task' = [task EXCEPT ![t] = x] ELSE UNCHANGED task
    BY <1>1, <1>3 DEF Approve, Deny, SubmitResult, Resolved, TypeOK
  <2>4. x.state = "queued" /\ x.toolCount = task[t].toolCount
    BY <1>1 DEF TaskRow
  <2> HIDE DEF x
  <2>5. RowsCalm
    BY <1>1, <2>3, <2>4, QueuedCalm, OneCalm, NoneCalm
  <2>6. task'[t].state # "waiting"
    BY <1>1, <2>3, <2>4 DEF TypeOK
  <2>7. \A d \in Calls : call'[d] = call[d] \/ d = c
    BY <1>1, <2>1 DEF TypeOK
  <2>8. Unrequested /\ CallsWait
    BY <2>2, <2>6, <2>7 DEF Unrequested, CallsWait
  <2> QED
    BY <1>2, <2>5, <2>8 DEF CalmStep
<1>4. CASE DeadlinePasses(c)
  <2>1. \A d \in Calls : \/ call'[d] = call[d]
                         \/ d = c /\ call'[d] = [call[c] EXCEPT !.deadline = "passed"]
    BY <1>1, <1>4 DEF DeadlinePasses, TypeOK
  <2>2. LET y == [call[c] EXCEPT !.deadline = "passed"]
        IN y.status = call[c].status /\ y.deadline = "passed"
    BY <1>1 DEF CallRow
  <2>3. Unrequested /\ CallsWait
    BY <2>1, <2>2 DEF Unrequested, CallsWait, Pending
  <2> QED
    BY <1>2, <1>4, <2>3, NoneCalm DEF CalmStep, DeadlinePasses
<1>5. CASE WakeWaiter(c)
  <2> DEFINE x == [task[t] EXCEPT !.state = "queued"]
  <2>1. task' = [task EXCEPT ![t] = x] /\ UNCHANGED call
    BY <1>5 DEF WakeWaiter
  <2>2. x.state = "queued" /\ x.toolCount = task[t].toolCount
    BY <1>1 DEF TaskRow
  <2> HIDE DEF x
  <2>3. Calm(task[t], x)
    BY <2>2, QueuedCalm
  <2> QED
    BY <1>1, <1>2, <2>1, <2>3, OneCalm, SameCalls DEF CalmStep
<1> QED
  BY <1>3, <1>4, <1>5

(* The steps that are not calm: those by which a task starts to wait, or is *)
(* charged, claimed or ended.                                               *)
LEMMA AnyStep ==
  ASSUME IInv, CInv, [Next]_vars
  PROVE  \/ CalmStep
         \/ \E w \in Workers, t \in Tasks : Claim(w, t)
         \/ \E w \in Workers : \/ Park(w) \/ WaitChildren(w) \/ FinishBegin(w) \/ FinishEnd(w)
                               \/ ModelAnswers(w)
<1>1. CASE \E w \in Workers : WorkerStep(w)
  BY <1>1, MovesCalm, BeginCalm, DeliverCalm, ToolStartCalm, RecordCalm, ReleaseCalm, ModelCalm,
     AgentCalm DEF WorkerStep
<1>2. CASE ClaimStep
  BY <1>2, SettlesCalm DEF ClaimStep
<1>3. CASE TaskRequest
  BY <1>3, TreeRequestCalm DEF TaskRequest
<1>4. CASE CallRequest
  BY <1>4, DecisionCalm DEF CallRequest
<1>5. CASE Archive
  <2>1. UNCHANGED <<task, call, wk, execs>>
    BY <1>5 DEF Archive
  <2> QED
    BY <2>1, NoneCalm, SameCalls, SameExecs DEF CalmStep
<1>6. CASE Fault
  BY <1>6, TreeRequestCalm, MovesCalm DEF Fault
<1>7. CASE UNCHANGED vars
  BY <1>7, NoneCalm, SameCalls, SameExecs DEF CalmStep, vars
<1> QED
  BY <1>1, <1>2, <1>3, <1>4, <1>5, <1>6, <1>7 DEF Next

(* Claiming starts one task, and charges none.                              *)
LEMMA ClaimRows ==
  ASSUME IInv, NEW w \in Workers, NEW t \in Tasks, Claim(w, t)
  PROVE  /\ \A u \in Tasks : Patient(task[u], task'[u]) /\ Uncharged(task[u], task'[u])
         /\ \A u \in Tasks \ {t} : task'[u] = task[u]
         /\ task'[t].cancel = task[t].cancel
         /\ Unrequested /\ CallsWait /\ ExecsCalm
<1>1. PICK verdict \in {"ok", "declined", "impossible"} :
        task' = [task EXCEPT ![t] =
         [Interrupted(@) EXCEPT !.state = "running", !.owner = w, !.live = TRUE,
            !.epoch = task[t].epoch + 1,
            !.pending = IF verdict = "impossible" THEN "failed" ELSE task[t].pending,
            !.error = task[t].error \/ verdict = "impossible"]]
  BY BoundAssumption DEF Claim
<1> DEFINE r == Interrupted(task[t])
           n == task[t].epoch + 1
           p == IF verdict = "impossible" THEN "failed" ELSE task[t].pending
           e == task[t].error \/ verdict = "impossible"
           x == [r EXCEPT !.state = "running", !.owner = w, !.live = TRUE,
                          !.epoch = n, !.pending = p, !.error = e]
<1>2. task' = [task EXCEPT ![t] = x]
  BY <1>1
<1>3. /\ TypeOK /\ task[t] \in TaskRow /\ UNCHANGED <<call, execs>>
      /\ wk' = [wk EXCEPT ![w] = [Idle EXCEPT !.pc = "begin", !.task = t, !.epoch = n]]
  BY DEF IInv, TypeOK, Claim
<1> HIDE DEF n, p, e
<1>4. r \in TaskRow /\ r.state = task[t].state /\ r.cancel = task[t].cancel /\ r.toolCount = task[t].toolCount
  BY <1>3 DEF Interrupted, TaskRow
<1> HIDE DEF r
<1>5. x.state = "running" /\ x.cancel = task[t].cancel /\ x.toolCount = task[t].toolCount
  BY <1>4 DEF TaskRow
<1> HIDE DEF x
<1>6. \A u \in Tasks : task'[u] = IF u = t THEN x ELSE task[u]
  BY <1>2, <1>3 DEF TypeOK
<1>7. \A v \in Workers : wk'[v] = wk[v] \/ wk'[v].pc # "exec"
  BY <1>3 DEF TypeOK, Idle
<1> QED
  BY <1>3, <1>5, <1>6, <1>7, SameCalls, SameExecs
  DEF Patient, Uncharged, Closed, TerminalStates

(* A worker that parks its task, or waits for its children, leaves the      *)
(* other rows alone, and its own waiting at most.                           *)
LEMMA WaitRows ==
  ASSUME IInv, CInv, NEW w \in Workers, Park(w) \/ WaitChildren(w)
  PROVE  /\ \A u \in Tasks \ {wk[w].task} : task'[u] = task[u]
         /\ \A u \in Tasks : /\ Unstarted(task[u], task'[u]) /\ Uncharged(task[u], task'[u])
                             /\ ~Closed(task[u]) => ~Closed(task'[u])
         /\ Unrequested /\ CallsWait /\ ExecsCalm
<1> DEFINE t == wk[w].task
           c == wk[w].head
<1>1. Fenced(w) /\ UNCHANGED execs /\ TypeOK /\ (GoIdle(w) \/ GoBegin(w))
  BY DEF Park, WaitChildren, IInv
<1>2. \/ UNCHANGED task
      \/ task' = [task EXCEPT ![t] = Release(@, "queued")]
      \/ task' = [task EXCEPT ![t] = Release(@, "waiting")]
  BY DEF Park, WaitChildren
<1>3. \A d \in Calls : call'[d] = call[d] \/ (wk[w].pc = "wait" /\ d = c)
  BY <1>1 DEF Park, WaitChildren, TypeOK
<1>4. t \in Tasks /\ task[t] \in TaskRow /\ task[t].state = "running"
  BY <1>1, FencedTask
<1>5. Unrequested /\ CallsWait
  <2>1. wk[w].pc = "wait" => CallTask[c] = t /\ Pending(call[c])
    BY <1>1 DEF CInv, Knows, Has, Pending
  <2> QED
    BY <1>4, <1>3, <2>1, OwnCallsCalm
<1>6. ExecsCalm
  BY <1>1, MovesOn
<1>7. \A s \in {"queued", "waiting"} :
        Release(task[t], s).state = s /\ Release(task[t], s).toolCount = task[t].toolCount
  BY <1>4 DEF Release, TaskRow
<1>8. \A u \in Tasks : \/ task'[u] = task[u]
                       \/ u = t /\ task'[u] = Release(task[t], "queued")
                       \/ u = t /\ task'[u] = Release(task[t], "waiting")
  BY <1>1, <1>2 DEF TypeOK
<1> QED
  BY <1>5, <1>6, <1>7, <1>8 DEF Unstarted, Uncharged, Closed, TerminalStates

(* The first transaction of finish, for its own row and for the others.     *)
LEMMA FinishRows ==
  ASSUME IInv, CInv, NEW w \in Workers, FinishBegin(w)
  PROVE  /\ \A u \in Tasks \ {wk[w].task} : Calm(task[u], task'[u])
         /\ \A u \in Tasks : Unstarted(task[u], task'[u]) /\ Uncharged(task[u], task'[u])
         /\ ~Closed(task'[wk[w].task])
         /\ task'[wk[w].task].state = "waiting" => OpenChildren(wk[w].task) # {}
         /\ Unrequested /\ CallsWait /\ ExecsCalm
<1> DEFINE t == wk[w].task
           short == \E u \in Children(t) : task[u].state \in TerminalStates \ {"succeeded"}
           fin == IF wk[w].fin = "succeeded" /\ short THEN "partial" ELSE wk[w].fin
<1>1. Fenced(w) /\ UNCHANGED execs /\ TypeOK /\ call' \in {call, StoppedCalls(t)}
  BY DEF FinishBegin, IInv
<1>2. t \in Tasks /\ task[t] \in TaskRow /\ task[t].state = "running"
  BY <1>1, FencedTask
<1>3. Unrequested /\ CallsWait
  <2>1. \A c \in Calls : call'[c] = call[c] \/ (CallTask[c] = t /\ Pending(call[c]))
    BY <1>1 DEF StoppedCalls, CallsIn, Pending
  <2> QED
    BY <1>2, <2>1, OwnCallsCalm
<1>4. \A u \in Tasks : Calm(task[u], task[u]) /\ Calm(task[u], Rearm([task[u] EXCEPT !.cancel = TRUE]))
  BY <1>1, KeptCalm, CanceledCalm DEF TypeOK
<1> HIDE DEF fin
<1>5. CASE /\ task' = [task EXCEPT ![t] = [Release(@, "unknown") EXCEPT !.error = TRUE]]
           /\ GoIdle(w)
  <2> DEFINE x == [Release(task[t], "unknown") EXCEPT !.error = TRUE]
  <2>1. x.state = "unknown" /\ Calm(task[t], x)
    BY <1>2, ReleasedCalm, ReleaseErrorType DEF TaskStates
  <2> HIDE DEF x
  <2>2. \A u \in Tasks : task'[u] = IF u = t THEN x ELSE task[u]
    BY <1>1, <1>5 DEF TypeOK, x
  <2>3. ExecsCalm
    BY <1>1, <1>5, MovesOn
  <2> QED
    BY <1>2, <1>3, <1>4, <2>1, <2>2, <2>3 DEF Calm, Closed, TerminalStates
<1>6. CASE /\ OpenChildren(t) # {} /\ GoIdle(w)
           /\ task' = [u \in Tasks |->
                CASE u = t -> [Release(task[t], "waiting") EXCEPT !.pending = fin]
                  [] u \in OpenChildren(t) /\ Stopping(fin) -> Rearm([task[u] EXCEPT !.cancel = TRUE])
                  [] OTHER -> task[u]]
  <2> DEFINE y == Release(task[t], "waiting")
             x == [y EXCEPT !.pending = fin]
  <2>1. y \in TaskRow /\ y.state = "waiting" /\ y.toolCount = task[t].toolCount
    BY <1>2 DEF Release, TaskRow, TaskStates
  <2> HIDE DEF y
  <2>2. x.state = "waiting" /\ x.toolCount = task[t].toolCount
    BY <2>1 DEF TaskRow
  <2> HIDE DEF x
  <2>3. \A u \in Tasks : \/ u = t /\ task'[u] = x
                         \/ u # t /\ task'[u] \in {task[u], Rearm([task[u] EXCEPT !.cancel = TRUE])}
    <3> DEFINE k(u) == Rearm([task[u] EXCEPT !.cancel = TRUE])
    <3>1. task' = [u \in Tasks |-> CASE u = t -> x
                                    [] u \in OpenChildren(t) /\ Stopping(fin) -> k(u)
                                    [] OTHER -> task[u]]
      BY <1>6 DEF x, y
    <3> HIDE DEF k
    <3>2. \A u \in Tasks : u # t => task'[u] \in {task[u], k(u)}
      BY <3>1
    <3>3. task'[t] = x
      <4>1. t \notin OpenChildren(t)
        BY <1>2, ParentAssumption DEF OpenChildren, Children
      <4> QED
        BY <1>2, <3>1, <4>1
    <3> QED
      BY <3>2, <3>3 DEF k
  <2>4. ExecsCalm
    BY <1>1, <1>6, MovesOn
  <2>5. Unstarted(task[t], x) /\ Uncharged(task[t], x) /\ ~Closed(x)
    BY <2>2 DEF Unstarted, Uncharged, Closed, TerminalStates
  <2>6. \A u \in Tasks \ {t} : Calm(task[u], task'[u])
    BY <1>4, <2>3
  <2> QED
    BY <1>2, <1>3, <1>6, <2>3, <2>4, <2>5, <2>6 DEF Calm
<1>7. CASE /\ task' = [task EXCEPT ![t].finalizing = TRUE, ![t].pending = fin]
           /\ wk' = [wk EXCEPT ![w].pc = IF Parent[t] = NoTask THEN "hook" ELSE "fin2",
                               ![w].fin = fin]
  <2> DEFINE x == [task[t] EXCEPT !.finalizing = TRUE, !.pending = fin]
  <2>1. task' = [task EXCEPT ![t] = x]
    BY <1>1, <1>2, <1>7 DEF TypeOK
  <2>2. x.state = task[t].state /\ x.cancel = task[t].cancel /\ x.toolCount = task[t].toolCount
    BY <1>2 DEF TaskRow
  <2> HIDE DEF x
  <2>3. Calm(task[t], x)
    BY <2>2, KeptCalm
  <2>4. \A u \in Tasks : task'[u] = IF u = t THEN x ELSE task[u]
    BY <1>1, <2>1 DEF TypeOK
  <2>5. wk[w] \in WorkerRow /\ wk \in [Workers -> WorkerRow]
    BY <1>1 DEF TypeOK
  <2>6. wk'[w].pc \in {"hook", "fin2"} /\ \A v \in Workers \ {w} : wk'[v] = wk[v]
    BY <1>7, <2>5 DEF WorkerRow
  <2>7. ExecsCalm
    BY <1>1, <2>6, SameExecs
  <2> QED
    BY <1>2, <1>3, <1>4, <2>2, <2>3, <2>4, <2>7 DEF Calm, Closed, TerminalStates
<1> QED
  BY <1>5, <1>6, <1>7 DEF FinishBegin, fin

(* The last transaction of finish ends its own task, and leaves no          *)
(* coordinator waiting for it.                                              *)
LEMMA EndRows ==
  ASSUME IInv, NEW w \in Workers, FinishEnd(w)
  PROVE  LET t == wk[w].task IN
         /\ \A u \in Tasks \ {t} : Calm(task[u], task'[u])
         /\ \A u \in Tasks : Unstarted(task[u], task'[u]) /\ Uncharged(task[u], task'[u])
         /\ task'[t].state # "waiting"
         /\ Parent[t] # NoTask => task'[Parent[t]].state # "waiting"
         /\ Unrequested /\ CallsWait /\ ExecsCalm
<1> DEFINE s == Release(task[wk[w].task], wk[w].fin)
<1>1. wk[w].pc = "fin2" /\ Fenced(w) /\ GoIdle(w) /\ UNCHANGED <<call, execs>> /\ TypeOK
  BY DEF FinishEnd, IInv
<1>2. PICK t \in Tasks : t = wk[w].task
  BY <1>1, FencedTask
<1>3. task[t] \in TaskRow /\ wk[w].fin \in TerminalStates
  BY <1>1, <1>2, FencedTask DEF IInv, FinIsTerminal
<1>4. s.state \in TerminalStates /\ s.toolCount = task[t].toolCount
  BY <1>2, <1>3 DEF Release, TaskRow
<1>5. Unstarted(task[t], s) /\ Uncharged(task[t], s) /\ s.state # "waiting"
  BY <1>4 DEF Unstarted, Uncharged, TerminalStates
<1>6. Unrequested /\ CallsWait /\ ExecsCalm
  BY <1>1, SameCalls, MovesOn
<1>7. \A u \in Tasks : Calm(task[u], task[u])
  BY KeptCalm
<1>8. CASE Parent[t] = NoTask
  <2>1. task' = [task EXCEPT ![t] = s]
    BY <1>2, <1>8 DEF FinishEnd
  <2> HIDE DEF s
  <2>2. \A u \in Tasks : task'[u] = IF u = t THEN s ELSE task[u]
    BY <1>1, <2>1 DEF TypeOK
  <2> QED
    BY <1>2, <1>5, <1>6, <1>7, <1>8, <2>2 DEF Calm
<1>9. CASE Parent[t] # NoTask
  <2> DEFINE p == Parent[t]
             y == [task[p] EXCEPT !.input = TRUE]
             z == Rearm(y)
  <2>1. p \in Tasks /\ p # t /\ task[p] \in TaskRow
    BY <1>1, <1>9, ParentAssumption DEF TypeOK
  <2>2. task' = [[task EXCEPT ![t] = s] EXCEPT ![p] = z]
    BY <1>1, <1>2, <1>9, <2>1 DEF FinishEnd, TypeOK
  <2> HIDE DEF s
  <2>3. y \in TaskRow /\ y.state = task[p].state /\ y.cancel = task[p].cancel /\ y.toolCount = task[p].toolCount
    BY <2>1 DEF TaskRow
  <2> HIDE DEF y
  <2>4. /\ z.state = IF y.state = "waiting" THEN "queued" ELSE y.state
        /\ z.cancel = y.cancel /\ z.toolCount = y.toolCount
    BY <2>3 DEF Rearm, TaskRow
  <2> HIDE DEF z
  <2>5. Calm(task[p], z) /\ z.state # "waiting"
    BY <2>3, <2>4 DEF Calm, Patient, Unstarted, Uncharged, Closed, TerminalStates
  <2>6. \A u \in Tasks : task'[u] = IF u = p THEN z ELSE IF u = t THEN s ELSE task[u]
    BY <1>1, <2>1, <2>2 DEF TypeOK
  <2> QED
    BY <1>2, <1>5, <1>6, <1>7, <2>1, <2>5, <2>6 DEF Calm
<1> QED
  BY <1>8, <1>9

(* A turn charges its task and the root for the calls it is granted, and    *)
(* requests them.                                                           *)
LEMMA TurnCharges ==
  ASSUME IInv, NEW w \in Workers, ModelAnswers(w)
  PROVE  /\ \E turn \in Turns(wk[w].task) :
              LET granted == Accepted(wk[w].task, turn)
                  n == Cardinality(granted)
              IN /\ n \in Nat
                 /\ \A u \in Tasks :
                      /\ task'[u].state = task[u].state /\ task'[u].cancel = task[u].cancel
                      /\ task'[u].toolCount = task[u].toolCount
                                              + IF u \in {wk[w].task, RootOf(wk[w].task)} THEN n ELSE 0
                 /\ \A c \in Calls : Pending(call'[c]) => Pending(call[c]) \/ c \in granted
         /\ CallsWait /\ ExecsCalm
<1> DEFINE t == wk[w].task
<1>1. /\ t \in Tasks /\ (\A u \in Tasks : task[u] \in TaskRow) /\ TypeOK /\ task[t].state = "running"
      /\ GoBegin(w) /\ UNCHANGED execs
  BY FencedTask DEF ModelAnswers, IInv, TypeOK
<1>2. PICK turn \in Turns(t), stop \in StopReasons :
        /\ call' = [c \in Calls |-> IF c \in turn
             THEN [NewCall EXCEPT !.status = FirstStatus(c, Accepted(t, turn))] ELSE call[c]]
        /\ task' = [u \in Tasks |->
             CASE u = t -> [[task[t] EXCEPT !.toolCount = @ + Cardinality(Accepted(t, turn))]
                              EXCEPT !.gens = @ - 1, !.failures = 0,
                                     !.pending = IF turn = {} THEN stop ELSE @]
               [] u # t /\ u = RootOf(t) ->
                    [task[u] EXCEPT !.toolCount = @ + Cardinality(Accepted(t, turn))]
               [] OTHER -> task[u]]
  BY DEF ModelAnswers
<1> DEFINE n == Cardinality(Accepted(t, turn))
           more(u) == task[u].toolCount + n
           charge(u) == [task[u] EXCEPT !.toolCount = more(u)]
           x == charge(t)
           g == x.gens - 1
           p == IF turn = {} THEN stop ELSE x.pending
           s == [x EXCEPT !.gens = g, !.failures = 0, !.pending = p]
<1>3. n \in Nat
  BY <1>1, AcceptedCount
<1>4. task' = [u \in Tasks |-> CASE u = t -> s
                                [] u # t /\ u = RootOf(t) -> charge(u)
                                [] OTHER -> task[u]]
  BY <1>2
<1> HIDE DEF n, g, p
<1>5. \A u \in Tasks : task[u].toolCount \in Nat /\ more(u) = task[u].toolCount + n
  BY <1>1, CountersType
<1> HIDE DEF more
<1>6. \A u \in Tasks : LET y == charge(u) IN
        y.state = task[u].state /\ y.cancel = task[u].cancel /\ y.toolCount = more(u)
  BY <1>1 DEF TaskRow
<1>7. x.state = task[t].state /\ x.cancel = task[t].cancel /\ x.toolCount = more(t)
  BY <1>1, <1>6
<1>8. s.state = x.state /\ s.cancel = x.cancel /\ s.toolCount = x.toolCount
  BY <1>1 DEF TaskRow
<1> HIDE DEF x, s, charge
<1>9. \A u \in Tasks : \/ u = t /\ task'[u] = s
                       \/ u # t /\ u = RootOf(t) /\ task'[u] = charge(u)
                       \/ u \notin {t, RootOf(t)} /\ task'[u] = task[u]
  BY <1>4
<1>10. \A u \in Tasks :
         /\ task'[u].state = task[u].state /\ task'[u].cancel = task[u].cancel
         /\ task'[u].toolCount = task[u].toolCount + IF u \in {t, RootOf(t)} THEN n ELSE 0
  BY <1>3, <1>5, <1>6, <1>7, <1>8, <1>9
<1>11. turn \subseteq Calls /\ \A c \in turn : CallTask[c] = t /\ call[c].status = "none"
  BY DEF Turns
<1>12. \A c \in Calls : IF c \in turn
         THEN call'[c].status = FirstStatus(c, Accepted(t, turn)) ELSE call'[c] = call[c]
  BY <1>2 DEF NewCall
<1>13. CallsWait
  BY <1>1, <1>11, <1>12 DEF CallsWait
<1>14. \A c \in Calls : Pending(call'[c]) => Pending(call[c]) \/ c \in Accepted(t, turn)
  BY <1>12 DEF Pending, FirstStatus
<1>15. ExecsCalm
  BY <1>1, MovesOn
<1> QED
  BY <1>3, <1>10, <1>13, <1>14, <1>15 DEF n

-----------------------------------------------------------------------------
(* A waiting task is never stranded.                                        *)

(* Something will queue task `t` again.                                     *)
Waker(t) ==
  \/ CallsIn(t, {"approval", "custom", "unknown"}) # {}
  \/ \E u \in Children(t) : ~Terminal(task[u].state)
  \/ \E c \in CallsIn(t, {"waiting_children"}) : call[c].deadline # "none"

(* A task that goes on waiting keeps what will wake it, as long as none of  *)
(* its children ends.                                                       *)
LEMMA WakerKept ==
  ASSUME TypeOK, WaitingHasWaker, NEW t \in Tasks,
         task'[t].state = "waiting" => task[t].state = "waiting",
         task'[t].state = "waiting" =>
           \A u \in Tasks : Parent[u] = t => (~Closed(task[u]) => ~Closed(task'[u])),
         CallsWait
  PROVE  task'[t].state = "waiting" => Waker(t)'
<1> SUFFICES ASSUME task'[t].state = "waiting" PROVE Waker(t)'
  OBVIOUS
<1>1. task[t].state = "waiting" /\ Waker(t)
  BY DEF WaitingHasWaker, Waker
<1>2. \A c \in Calls : CallTask[c] = t =>
        call'[c].status = call[c].status /\ (call[c].deadline # "none" => call'[c].deadline # "none")
  BY <1>1 DEF CallsWait
<1>3. \A c : c \in CallsIn(t, {"approval", "custom", "unknown"})
             => c \in CallsIn(t, {"approval", "custom", "unknown"})'
  BY <1>2 DEF CallsIn
<1>4. \A c : c \in CallsIn(t, {"waiting_children"}) /\ call[c].deadline # "none"
             => c \in CallsIn(t, {"waiting_children"})' /\ call'[c].deadline # "none"
  BY <1>2 DEF CallsIn
<1>5. \A u : u \in Children(t) /\ ~Terminal(task[u].state)
             => u \in Children(t)' /\ ~Terminal(task'[u].state)
  BY DEF Children, Exists, Closed, Terminal
<1> QED
  BY <1>1, <1>3, <1>4, <1>5 DEF Waker

(* park leaves a task waiting only for the client's decision it stopped at, *)
(* and waitChildren only for a child that is open.                          *)
LEMMA WaitHasWaker ==
  ASSUME IInv, CInv, NEW w \in Workers, Park(w) \/ WaitChildren(w),
         NEW t \in Tasks, t = wk[w].task, task'[t].state = "waiting"
  PROVE  Waker(t)'
<1> DEFINE c == wk[w].head
<1>1. Fenced(w) /\ TypeOK /\ Knows(w)
  BY DEF Park, WaitChildren, IInv, CInv
<1>2. t \in Tasks /\ task[t] \in TaskRow /\ task[t].state = "running"
  BY <1>1, FencedTask
<1>3. CASE Park(w)
  <2>1. task' = [task EXCEPT ![t] = Release(@, IF Progressed(t) THEN "queued" ELSE "waiting")]
        /\ UNCHANGED call /\ wk[w].pc = "park"
    BY <1>3 DEF Park
  <2>2. \A s \in TaskStates : Release(task[t], s).state = s
    BY <1>2, ReleaseType
  <2>3. ~Progressed(t)
    BY <1>1, <1>2, <2>1, <2>2 DEF TypeOK, TaskStates
  <2>4. Parks(t, c, wk[w].batch)
    BY <1>1, <2>1 DEF Knows
  <2>5. c \in CallsIn(t, {"approval", "custom", "unknown"})
    BY <2>3, <2>4 DEF Parks, Has, Progressed, CallsOf, CallsIn, Undecided, Decided
  <2> QED
    BY <2>1, <2>5 DEF Waker, CallsIn
<1>4. CASE WaitChildren(w)
  <2>1. WaitPending(t, c) /\ task' = [task EXCEPT ![t] = Release(@, "waiting")]
    BY <1>2, <1>4 DEF WaitChildren
  <2>2. PICK u \in Children(t) : ~Terminal(task[u].state)
    BY <2>1 DEF WaitPending, WaitSelection
  <2>3. u \in Tasks /\ Parent[u] = t /\ u # t
    BY <1>2, <2>2, ParentAssumption DEF Children
  <2>4. task'[u] = task[u]
    BY <1>1, <2>1, <2>3 DEF TypeOK
  <2>5. u \in Children(t)' /\ ~Terminal(task'[u].state)
    BY <2>2, <2>3, <2>4 DEF Children, Exists
  <2> QED
    BY <2>5 DEF Waker
<1> QED
  BY <1>3, <1>4

(* Each step leaves every waiting task something that will queue it.        *)
LEMMA StepWaker == IInv /\ CInv /\ WaitingHasWaker /\ [Next]_vars => WaitingHasWaker'
<1> SUFFICES ASSUME IInv, CInv, WaitingHasWaker, [Next]_vars, NEW t \in Tasks
             PROVE  task'[t].state = "waiting" => Waker(t)'
  BY DEF WaitingHasWaker, Waker
<1>1. TypeOK
  BY DEF IInv
<1>2. CASE CalmStep
  BY <1>1, <1>2, WakerKept DEF CalmStep, RowsCalm, Calm, Patient
<1>3. CASE \E w \in Workers, u \in Tasks : Claim(w, u)
  <2>1. CallsWait /\ \A u \in Tasks : Patient(task[u], task'[u])
    BY <1>3, ClaimRows
  <2> QED
    BY <1>1, <2>1, WakerKept DEF Patient
<1>4. CASE \E w \in Workers : ModelAnswers(w)
  <2>1. CallsWait /\ \A u \in Tasks : task'[u].state = task[u].state
    BY <1>4, TurnCharges
  <2> QED
    BY <1>1, <2>1, WakerKept DEF Closed
<1>5. CASE \E w \in Workers : Park(w) \/ WaitChildren(w)
  <2>1. PICK w \in Workers : Park(w) \/ WaitChildren(w)
    BY <1>5
  <2>2. CASE t = wk[w].task
    BY <2>1, <2>2, WaitHasWaker
  <2>3. CASE t # wk[w].task
    <3>1. /\ task'[t] = task[t] /\ CallsWait
          /\ \A u \in Tasks : ~Closed(task[u]) => ~Closed(task'[u])
      BY <2>1, <2>3, WaitRows
    <3> QED
      BY <1>1, <3>1, WakerKept
  <2> QED
    BY <2>2, <2>3
<1>6. CASE \E w \in Workers : FinishBegin(w)
  <2>1. PICK w \in Workers : FinishBegin(w)
    BY <1>6
  <2> DEFINE o == wk[w].task
  <2>2. /\ \A u \in Tasks \ {o} : Calm(task[u], task'[u])
        /\ ~Closed(task'[o]) /\ CallsWait
        /\ task'[o].state = "waiting" => OpenChildren(o) # {}
    BY <2>1, FinishRows
  <2>3. \A u \in Tasks : ~Closed(task[u]) => ~Closed(task'[u])
    BY <2>2 DEF Calm, Patient
  <2>4. CASE t = o
    <3> SUFFICES ASSUME task'[t].state = "waiting" PROVE Waker(t)'
      OBVIOUS
    <3>1. PICK u \in Children(t) : ~Terminal(task[u].state)
      BY <2>2, <2>4 DEF OpenChildren
    <3>2. u \in Tasks /\ Parent[u] = t /\ ~Closed(task[u])
      BY <3>1 DEF Children, Exists, Closed, Terminal
    <3>3. u \in Children(t)' /\ ~Terminal(task'[u].state)
      BY <2>3, <3>2 DEF Children, Exists, Closed, Terminal
    <3> QED
      BY <3>3 DEF Waker
  <2>5. CASE t # o
    BY <1>1, <2>2, <2>3, <2>5, WakerKept DEF Calm, Patient
  <2> QED
    BY <2>4, <2>5
<1>7. CASE \E w \in Workers : FinishEnd(w)
  <2>1. PICK w \in Workers : FinishEnd(w)
    BY <1>7
  <2> DEFINE o == wk[w].task
  <2>2. /\ \A u \in Tasks \ {o} : Calm(task[u], task'[u])
        /\ task'[o].state # "waiting" /\ CallsWait
        /\ Parent[o] # NoTask => task'[Parent[o]].state # "waiting"
    BY <2>1, EndRows
  <2> SUFFICES ASSUME task'[t].state = "waiting" PROVE Waker(t)'
    OBVIOUS
  <2>3. t # o /\ NoTask \notin Tasks
    BY <2>2, ParentAssumption
  <2>4. \A u \in Tasks : Parent[u] = t => u # o
    BY <2>2, <2>3
  <2> QED
    BY <1>1, <2>2, <2>3, <2>4, WakerKept DEF Calm, Patient
<1> QED
  BY <1>2, <1>3, <1>4, <1>5, <1>6, <1>7, AnyStep

(* A waiting task is never stranded: a client's decision, an unfinished     *)
(* child or a deadline will queue it, whatever happened between the         *)
(* transactions of the workers that parked it and finished its children     *)
(* (finish.go:36-66, collaboration.go:15-49).                               *)
THEOREM WaitingIsWoken == Spec => []WaitingHasWaker
<1>1. Init => WaitingHasWaker
  <2> SUFFICES ASSUME Init PROVE \A t \in Tasks : task[t].state # "waiting"
    BY DEF WaitingHasWaker
  <2> QED
    BY DEF Init, NewTask
<1> QED
  BY <1>1, StepWaker, Invariance, ContractInvariance, PTL DEF Spec

-----------------------------------------------------------------------------
(* A coordinator's children never run beyond its limit.                     *)

RunningTasks == {u \in Tasks : task[u].state = "running"}
RunningUnder(r) == {u \in Children(r) : task[u].state = "running" /\ ~task[u].cancel}
FewRun == IsFiniteSet(RunningTasks) /\ ConcurrentAgents

(* A step that starts no task lets no more of them run.                     *)
LEMMA FewStillRun ==
  ASSUME FewRun, \A u \in Tasks : Unstarted(task[u], task'[u])
  PROVE  FewRun'
<1>1. RunningTasks' \subseteq RunningTasks
  BY DEF RunningTasks, Unstarted
<1>2. \A r \in Roots : Cardinality(RunningUnder(r)') <= MaxConcurrentAgents
  <2> SUFFICES ASSUME NEW r \in Roots PROVE Cardinality(RunningUnder(r)') <= MaxConcurrentAgents
    OBVIOUS
  <2>1. RunningUnder(r)' \subseteq RunningUnder(r)
    BY DEF RunningUnder, Children, Exists, Unstarted
  <2>2. IsFiniteSet(RunningUnder(r))
    BY FS_Subset DEF RunningUnder, RunningTasks, Children, FewRun
  <2>3. /\ Cardinality(RunningUnder(r)) \in Nat /\ Cardinality(RunningUnder(r)') \in Nat
        /\ Cardinality(RunningUnder(r)') <= Cardinality(RunningUnder(r))
    BY <2>1, <2>2, FS_Subset, FS_CardinalityType
  <2>4. Cardinality(RunningUnder(r)) <= MaxConcurrentAgents
    BY DEF FewRun, ConcurrentAgents, RunningUnder
  <2> QED
    BY <2>3, <2>4, BoundAssumption
<1>3. IsFiniteSet(RunningTasks')
  BY <1>1, FS_Subset DEF FewRun
<1> QED
  BY <1>2, <1>3 DEF FewRun, ConcurrentAgents, RunningUnder, Roots

(* A claim starts a canceled child, or one of too few.                      *)
LEMMA FewClaimed ==
  ASSUME IInv, FewRun, NEW w \in Workers, NEW t \in Tasks, Claim(w, t)
  PROVE  FewRun'
<1>1. /\ \A u \in Tasks \ {t} : task'[u] = task[u]
      /\ task'[t].cancel = task[t].cancel /\ task[t].state # "none"
      /\ ~SiblingsFull(t)
  BY ClaimRows DEF Claim, Claimable
<1>2. RunningTasks' \subseteq RunningTasks \cup {t}
  BY <1>1 DEF RunningTasks
<1>3. IsFiniteSet(RunningTasks')
  <2>1. IsFiniteSet(RunningTasks \cup {t})
    BY FS_AddElement DEF FewRun
  <2> QED
    BY <1>2, <2>1, FS_Subset
<1>4. ASSUME NEW r \in Roots PROVE Cardinality(RunningUnder(r)') <= MaxConcurrentAgents
  <2> DEFINE S == {u \in Tasks \ {t} : Parent[u] = Parent[t] /\ task[u].state = "running"}
  <2>1. CASE Parent[t] = r /\ ~task[t].cancel
    <3>1. IsFiniteSet(S)
      BY FS_Subset DEF FewRun, RunningTasks
    <3>2. ~(Cardinality(S) >= MaxConcurrentAgents)
      BY <1>1, <2>1, ParentAssumption DEF SiblingsFull, Roots
    <3>3. RunningUnder(r)' \subseteq S \cup {t}
      BY <1>1, <2>1 DEF RunningUnder, Children, Exists
    <3>4. /\ IsFiniteSet(S \cup {t}) /\ Cardinality(S \cup {t}) = Cardinality(S) + 1
      BY <3>1, FS_AddElement
    <3>5. /\ Cardinality(RunningUnder(r)') <= Cardinality(S) + 1
          /\ Cardinality(S) \in Nat /\ Cardinality(RunningUnder(r)') \in Nat
      BY <3>1, <3>3, <3>4, FS_Subset, FS_CardinalityType
    <3> QED
      BY <3>2, <3>5, BoundAssumption
  <2>2. CASE ~(Parent[t] = r /\ ~task[t].cancel)
    <3>1. RunningUnder(r)' \subseteq RunningUnder(r)
      BY <1>1, <2>2 DEF RunningUnder, Children, Exists
    <3>2. IsFiniteSet(RunningUnder(r))
      BY FS_Subset DEF RunningUnder, RunningTasks, Children, FewRun
    <3>3. /\ Cardinality(RunningUnder(r)) \in Nat /\ Cardinality(RunningUnder(r)') \in Nat
          /\ Cardinality(RunningUnder(r)') <= Cardinality(RunningUnder(r))
      BY <3>1, <3>2, FS_Subset, FS_CardinalityType
    <3>4. Cardinality(RunningUnder(r)) <= MaxConcurrentAgents
      BY DEF FewRun, ConcurrentAgents, RunningUnder
    <3> QED
      BY <3>3, <3>4, BoundAssumption
  <2> QED
    BY <2>1, <2>2
<1> QED
  BY <1>3, <1>4 DEF FewRun, ConcurrentAgents, RunningUnder, Roots

(* Each step keeps the children that run within the limit.                  *)
LEMMA StepFewRun == IInv /\ CInv /\ FewRun /\ [Next]_vars => FewRun'
<1> SUFFICES ASSUME IInv, CInv, FewRun, [Next]_vars PROVE FewRun'
  OBVIOUS
<1>1. CASE CalmStep
  BY <1>1, FewStillRun DEF CalmStep, RowsCalm, Calm
<1>2. CASE \E w \in Workers : Park(w) \/ WaitChildren(w)
  BY <1>2, WaitRows, FewStillRun
<1>3. CASE \E w \in Workers : FinishBegin(w)
  BY <1>3, FinishRows, FewStillRun
<1>4. CASE \E w \in Workers : FinishEnd(w)
  BY <1>4, EndRows, FewStillRun
<1>5. CASE \E w \in Workers : ModelAnswers(w)
  <2>1. \A u \in Tasks : task'[u].state = task[u].state /\ task'[u].cancel = task[u].cancel
    BY <1>5, TurnCharges
  <2> QED
    BY <2>1, FewStillRun DEF Unstarted
<1> QED
  BY <1>1, <1>2, <1>3, <1>4, <1>5, AnyStep, FewClaimed

(* However leases lapse, workers die and children are steered, resumed or   *)
(* canceled, no coordinator has more children running than its budget says, *)
(* those that only run to be canceled excepted (claim.go:60-104).           *)
THEOREM AgentsWithinLimit == Spec => []ConcurrentAgents
<1>1. Init => FewRun
  <2> SUFFICES ASSUME Init PROVE FewRun
    OBVIOUS
  <2>1. \A t \in Tasks : task[t].state = "none"
    BY DEF Init, NewTask
  <2>2. RunningTasks = {} /\ \A r : RunningUnder(r) = {}
    BY <2>1 DEF RunningTasks, RunningUnder, Children
  <2>3. MaxConcurrentAgents \in Nat
    BY BoundAssumption
  <2>4. \A r \in Roots : Cardinality(RunningUnder(r)) <= MaxConcurrentAgents
    BY <2>2, <2>3, FS_EmptySet
  <2>5. ConcurrentAgents
    BY <2>4 DEF ConcurrentAgents, RunningUnder
  <2> QED
    BY <2>2, <2>5, FS_EmptySet DEF FewRun
<1>2. FewRun => ConcurrentAgents
  BY DEF FewRun
<1> QED
  BY <1>1, <1>2, StepFewRun, Invariance, ContractInvariance, PTL DEF Spec

-----------------------------------------------------------------------------
(* The root's tool budget bounds its tree.                                  *)

(* The calls of a tree that were granted and are open, or were executed, or *)
(* are about to be: one may be answered while a worker that lost its claim  *)
(* is about to execute it.                                                  *)
Granted(r) == {c \in Calls : RootOf(CallTask[c]) = r
                 /\ \/ execs[c] > 0 \/ Pending(call[c])
                    \/ \E w \in Workers : wk[w].pc = "exec" /\ wk[w].head = c}
Budgeted(r) == /\ IsFiniteSet(Granted(r)) /\ Cardinality(Granted(r)) <= task[r].toolCount
               /\ task[r].toolCount <= MaxToolCalls[r]

(* A finite set of numbers that is not empty has a last one: the sets of    *)
(* those that follow one of them are ordered by strict inclusion.           *)
LEMMA LastType ==
  ASSUME NEW S \in SUBSET Nat, IsFiniteSet(S), S # {}
  PROVE  \E m \in S : \A d \in S : d <= m
<1> DEFINE R == StrictSubsetOrdering(S)
           After(c) == {d \in S : d > c}
           T == {After(c) : c \in S}
<1>1. IsWellFoundedOn(R, FiniteSubsetsOf(S))
  BY FS_StrictSubsetOrderingWellFounded
<1>2. T \subseteq FiniteSubsetsOf(S) /\ T # {}
  <2>1. \A c \in S : IsFiniteSet(After(c)) /\ After(c) \subseteq S
    BY FS_Subset
  <2> QED
    BY <2>1 DEF FiniteSubsetsOf
<1> HIDE DEF R
<1>3. \E x \in T : \A y \in T : ~(<<y, x>> \in R)
  BY <1>1, <1>2, WFMin
<1>4. PICK m \in S : \A d \in S : ~(<<After(d), After(m)>> \in R)
  BY <1>3
<1>5. \A d \in S : d <= m
  <2> TAKE d \in S
  <2>1. ~(<<After(d), After(m)>> \in R)
    BY <1>4
  <2>2. S \subseteq Nat /\ d \in Nat /\ m \in Nat
    OBVIOUS
  <2>3. ASSUME d > m PROVE After(d) \subseteq After(m) /\ d \in After(m) /\ d \notin After(d)
    <3>1. \A e \in S : e > d => e > m
      BY <2>2, <2>3
    <3>2. \A c : After(c) = {e \in S : e > c}
      OBVIOUS
    <3>3. ~(d > d)
      BY <2>2
    <3> HIDE DEF After
    <3> QED
      BY <2>3, <3>1, <3>2, <3>3
  <2>4. d > m => <<After(d), After(m)>> \in R
    BY <2>3 DEF R, StrictSubsetOrdering
  <2> QED
    BY <2>1, <2>2, <2>4
<1> QED
  BY <1>5

(* What a turn is granted fits what is left of its task's budget and of its *)
(* root's (step.go:270-300).                                                *)
LEMMA GrantedFits ==
  ASSUME NEW t \in Tasks, NEW turn \in Turns(t), NEW u \in {t, RootOf(t)},
         task[u].toolCount \in Nat, MaxToolCalls[u] \in Nat, task[u].toolCount <= MaxToolCalls[u]
  PROVE  task[u].toolCount + Cardinality(Accepted(t, turn)) <= MaxToolCalls[u]
<1> DEFINE A == Accepted(t, turn)
           usable == {c \in turn : Kind[c] # "unavailable"}
           Before(c) == {d \in usable : d < c}
<1>1. IsFiniteSet(turn) /\ turn \subseteq Nat
  BY CallAssumption DEF Turns
<1>2. A \subseteq usable /\ IsFiniteSet(usable) /\ IsFiniteSet(A) /\ A \in SUBSET Nat
  <2>1. A \subseteq usable /\ usable \subseteq turn
    BY DEF Accepted
  <2> QED
    BY <1>1, <2>1, FS_Subset
<1>3. \A c \in A : task[u].toolCount + Cardinality(Before(c)) < MaxToolCalls[u]
  BY DEF Accepted
<1>4. Cardinality(A) \in Nat
  BY <1>2, FS_CardinalityType
<1>5. CASE A = {}
  <2>1. Cardinality(A) = 0
    BY <1>5, FS_EmptySet
  <2> QED
    BY <2>1
<1>6. CASE A # {}
  <2>1. PICK m \in A : \A d \in A : d <= m
    BY <1>2, <1>6, LastType
  <2>2. A \subseteq Before(m) \cup {m}
    BY <1>2, <2>1
  <2>3. IsFiniteSet(Before(m)) /\ Cardinality(Before(m)) \in Nat
    BY <1>2, FS_Subset, FS_CardinalityType
  <2>4. IsFiniteSet(Before(m) \cup {m}) /\ Cardinality(Before(m) \cup {m}) = Cardinality(Before(m)) + 1
    <3>1. m \notin Before(m)
      BY <1>2, <2>1
    <3> QED
      BY <2>3, <3>1, FS_AddElement
  <2>5. Cardinality(A) <= Cardinality(Before(m)) + 1
    BY <2>2, <2>4, FS_Subset
  <2>6. task[u].toolCount + Cardinality(Before(m)) < MaxToolCalls[u]
    BY <1>3, <2>1
  <2> QED
    BY <1>4, <2>3, <2>5, <2>6
<1> QED
  BY <1>5, <1>6

(* A tree that does not exist yet was granted nothing.                      *)
LEMMA NothingGranted ==
  ASSUME CInv, NEW r \in Roots, task[r].state = "none"
  PROVE  Granted(r) = {}
<1> SUFFICES ASSUME NEW c \in Calls, RootOf(CallTask[c]) = r
             PROVE  /\ ~(execs[c] > 0) /\ ~Pending(call[c])
                    /\ ~\E w \in Workers : wk[w].pc = "exec" /\ wk[w].head = c
  BY DEF Granted
<1> DEFINE u == CallTask[c]
<1>1. u \in Tasks /\ TaskKeeps(u) /\ CallKeeps(c) /\ \A w \in Workers : Executes(w)
  BY CallAssumption DEF CInv
<1>2. task[u].state = "none"
  BY <1>1 DEF RootOf, TaskKeeps, Exists
<1>3. call[c].status = "none"
  BY <1>1, <1>2 DEF TaskKeeps
<1> QED
  BY <1>1, <1>3 DEF CallKeeps, Started, Pending, Executes

(* A step that requests no call and charges no one keeps within the budget. *)
LEMMA BudgetKept ==
  ASSUME TypeOK, CInv, NEW r \in Roots, Budgeted(r), Uncharged(task[r], task'[r]),
         Unrequested, ExecsCalm
  PROVE  Budgeted(r)'
<1>1. Granted(r)' \subseteq Granted(r)
  <2> SUFFICES ASSUME NEW c \in Calls, RootOf(CallTask[c]) = r,
                      \/ execs'[c] > 0 \/ Pending(call'[c])
                      \/ \E w \in Workers : wk'[w].pc = "exec" /\ wk'[w].head = c
               PROVE  c \in Granted(r)
    BY DEF Granted
  <2>1. CASE execs'[c] > 0
    BY <2>1 DEF ExecsCalm, Granted
  <2>2. CASE Pending(call'[c])
    BY <2>2 DEF Unrequested, Granted
  <2>3. CASE \E w \in Workers : wk'[w].pc = "exec" /\ wk'[w].head = c
    BY <2>3 DEF ExecsCalm, Granted
  <2> QED
    BY <2>1, <2>2, <2>3
<1>2. /\ IsFiniteSet(Granted(r)') /\ Cardinality(Granted(r)') \in Nat
      /\ Cardinality(Granted(r)') <= Cardinality(Granted(r)) /\ Cardinality(Granted(r)) \in Nat
  BY <1>1, FS_Subset, FS_CardinalityType DEF Budgeted
<1>3. r \in Tasks /\ task[r].toolCount \in Nat /\ MaxToolCalls[r] \in Nat
  BY CountersType, BoundAssumption DEF TypeOK, Roots
<1>4. CASE task'[r].toolCount = task[r].toolCount
  BY <1>2, <1>3, <1>4 DEF Budgeted
<1>5. CASE task[r].state = "none" /\ task'[r].toolCount = 0
  <2>1. Granted(r) = {}
    BY <1>5, NothingGranted
  <2>2. Cardinality(Granted(r)') = 0
    BY <1>1, <2>1, FS_EmptySet
  <2> QED
    BY <1>2, <1>3, <1>5, <2>2 DEF Budgeted
<1> QED
  BY <1>4, <1>5 DEF Uncharged

(* A turn charges the root for every call it is granted.                    *)
LEMMA BudgetCharged ==
  ASSUME IInv, CInv, NEW r \in Roots, Budgeted(r), NEW w \in Workers, ModelAnswers(w)
  PROVE  Budgeted(r)'
<1>1. PICK t \in Tasks : t = wk[w].task
  BY FencedTask DEF ModelAnswers, IInv
<1>2. PICK turn \in Turns(t) :
         /\ Cardinality(Accepted(t, turn)) \in Nat
         /\ \A u \in Tasks :
              /\ task'[u].state = task[u].state /\ task'[u].cancel = task[u].cancel
              /\ task'[u].toolCount = task[u].toolCount + IF u \in {t, RootOf(t)}
                                        THEN Cardinality(Accepted(t, turn)) ELSE 0
         /\ \A c \in Calls : Pending(call'[c]) => Pending(call[c]) \/ c \in Accepted(t, turn)
  BY <1>1, TurnCharges
<1> DEFINE A == Accepted(t, turn)
<1>3. ExecsCalm /\ TypeOK
  BY TurnCharges DEF IInv
<1>4. r \in Tasks /\ task[r].toolCount \in Nat /\ MaxToolCalls[r] \in Nat
  BY <1>3, CountersType, BoundAssumption DEF TypeOK, Roots
<1>5. A \subseteq turn /\ IsFiniteSet(turn) /\ \A c \in turn : CallTask[c] = t
  BY DEF Accepted, Turns
<1>6. Granted(r)' \subseteq Granted(r) \cup A
  <2> SUFFICES ASSUME NEW c \in Calls, RootOf(CallTask[c]) = r, c \notin A,
                      \/ execs'[c] > 0 \/ Pending(call'[c])
                      \/ \E v \in Workers : wk'[v].pc = "exec" /\ wk'[v].head = c
               PROVE  c \in Granted(r)
    BY DEF Granted
  <2>1. CASE execs'[c] > 0
    BY <1>3, <2>1 DEF ExecsCalm, Granted
  <2>2. CASE Pending(call'[c])
    BY <1>2, <2>2 DEF Granted
  <2>3. CASE \E v \in Workers : wk'[v].pc = "exec" /\ wk'[v].head = c
    BY <1>3, <2>3 DEF ExecsCalm, Granted
  <2> QED
    BY <2>1, <2>2, <2>3
<1>7. IsFiniteSet(A) /\ IsFiniteSet(Granted(r)) /\ Cardinality(Granted(r)) \in Nat
  BY <1>5, FS_Subset, FS_CardinalityType DEF Budgeted
<1>8. CASE r \in {t, RootOf(t)}
  <2>1. task'[r].toolCount = task[r].toolCount + Cardinality(A)
    BY <1>2, <1>4, <1>8
  <2>2. task[r].toolCount + Cardinality(A) <= MaxToolCalls[r]
    BY <1>4, <1>8, GrantedFits DEF Budgeted
  <2>3. /\ IsFiniteSet(Granted(r) \cup A)
        /\ Cardinality(Granted(r) \cup A)
             = Cardinality(Granted(r)) + Cardinality(A) - Cardinality(Granted(r) \cap A)
    BY <1>7, FS_Union
  <2>4. Cardinality(Granted(r) \cap A) \in Nat /\ Cardinality(Granted(r) \cup A) \in Nat
    BY <1>7, <2>3, FS_Subset, FS_CardinalityType
  <2>5. /\ IsFiniteSet(Granted(r)') /\ Cardinality(Granted(r)') \in Nat
        /\ Cardinality(Granted(r)') <= Cardinality(Granted(r) \cup A)
    BY <1>6, <2>3, FS_Subset, FS_CardinalityType
  <2>6. Cardinality(Granted(r)) <= task[r].toolCount
    BY DEF Budgeted
  <2>7. Cardinality(Granted(r)') <= task'[r].toolCount
    BY <1>2, <1>4, <1>7, <2>1, <2>3, <2>4, <2>5, <2>6
  <2> QED
    BY <2>1, <2>2, <2>5, <2>7 DEF Budgeted
<1>9. CASE r \notin {t, RootOf(t)}
  <2>1. task'[r].toolCount = task[r].toolCount
    BY <1>2, <1>4, <1>9
  <2>2. Granted(r)' \cap A = {}
    BY <1>5, <1>9 DEF Granted
  <2>3. /\ IsFiniteSet(Granted(r)') /\ Cardinality(Granted(r)') \in Nat
        /\ Cardinality(Granted(r)') <= Cardinality(Granted(r))
    BY <1>6, <1>7, <2>2, FS_Subset, FS_CardinalityType
  <2> QED
    BY <1>4, <1>7, <2>1, <2>3 DEF Budgeted
<1> QED
  BY <1>8, <1>9

(* Each step keeps every tree within its root's budget.                     *)
LEMMA StepBudget ==
  IInv /\ CInv /\ (\A r \in Roots : Budgeted(r)) /\ [Next]_vars => (\A r \in Roots : Budgeted(r))'
<1> SUFFICES ASSUME IInv, CInv, [Next]_vars, NEW r \in Roots, Budgeted(r) PROVE Budgeted(r)'
  BY DEF Roots
<1>1. TypeOK /\ r \in Tasks
  BY DEF IInv, Roots
<1>2. CASE CalmStep
  BY <1>1, <1>2, BudgetKept DEF CalmStep, RowsCalm, Calm
<1>3. CASE \E w \in Workers, t \in Tasks : Claim(w, t)
  BY <1>1, <1>3, ClaimRows, BudgetKept
<1>4. CASE \E w \in Workers : Park(w) \/ WaitChildren(w)
  BY <1>1, <1>4, WaitRows, BudgetKept
<1>5. CASE \E w \in Workers : FinishBegin(w)
  BY <1>1, <1>5, FinishRows, BudgetKept
<1>6. CASE \E w \in Workers : FinishEnd(w)
  BY <1>1, <1>6, EndRows, BudgetKept
<1> QED
  BY <1>2, <1>3, <1>4, <1>5, <1>6, BudgetCharged, AnyStep

(* The calls a tree of tasks was granted, executed or not, are never more   *)
(* than its root's budget, however its tasks interleave their turns         *)
(* (step.go:270-337).                                                       *)
THEOREM BudgetBoundsTree == Spec => []TreeToolBudget
<1>1. Init => \A r \in Roots : Budgeted(r)
  <2> SUFFICES ASSUME Init, NEW r \in Roots PROVE Budgeted(r)
    OBVIOUS
  <2>1. /\ \A c \in Calls : execs[c] = 0 /\ call[c].status = "none"
        /\ \A w \in Workers : wk[w].pc = "idle"
    BY DEF Init, NewCall, Idle
  <2>2. Granted(r) = {}
    BY <2>1 DEF Granted, Pending
  <2>3. task[r].toolCount = 0 /\ MaxToolCalls[r] \in Nat
    BY BoundAssumption DEF Init, NewTask, Roots
  <2> QED
    BY <2>3, <2>2, FS_EmptySet DEF Budgeted
<1>2. TypeOK /\ (\A r \in Roots : Budgeted(r)) => TreeToolBudget
  <2> SUFFICES ASSUME TypeOK, NEW r \in Roots, Budgeted(r)
               PROVE  Cardinality({c \in Calls : RootOf(CallTask[c]) = r
                        /\ (execs[c] > 0 \/ call[c].status \notin {"none", "completed"})})
                        <= MaxToolCalls[r]
    BY DEF TreeToolBudget
  <2> DEFINE S == {c \in Calls : RootOf(CallTask[c]) = r
                     /\ (execs[c] > 0 \/ call[c].status \notin {"none", "completed"})}
  <2>1. S \subseteq Granted(r)
    BY DEF Granted, Pending
  <2>2. /\ Cardinality(S) \in Nat /\ Cardinality(Granted(r)) \in Nat
        /\ Cardinality(S) <= Cardinality(Granted(r))
    BY <2>1, FS_Subset, FS_CardinalityType DEF Budgeted
  <2>3. task[r].toolCount \in Nat /\ MaxToolCalls[r] \in Nat
    BY CountersType, BoundAssumption DEF TypeOK, Roots
  <2> QED
    BY <2>2, <2>3 DEF Budgeted
<1>3. IInv => TypeOK
  BY DEF IInv
<1> QED
  BY <1>1, <1>2, <1>3, StepBudget, Invariance, ContractInvariance, PTL DEF Spec

=============================================================================
