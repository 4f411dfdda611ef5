----------------------------- MODULE MCServices -----------------------------
(***************************************************************************)
(* The scheduler and the services that store what tasks make and use. They *)
(* share no state: a behavior is one of the component that `focus` names,  *)
(* the others stay in their initial state.                                 *)
(*                                                                         *)
(* One deployment has two occurrences, fired by two schedulers and by a    *)
(* client whose keyed request is sent twice; its runs are announced to a   *)
(* subscription that may come late.                                        *)
(***************************************************************************)
EXTENDS Deployments, Sandbox, SpanLog, Mcp, Memory, Files, History, Workspace,
        ModelStream, TLC

CONSTANTS d1, c1, k1, p1, p2, s1, s2, t1, t2

MCKeyOf == c1 :> k1
MCBodyOf == c1 :> d1
MCOccurrences == d1 :> {1, 2}
(* Only one of the two sessions' containers may run at a time.           *)
MCExecIds == s1 :> {"q"} @@ s2 :> {}
MCMemoryOf == s1 :> 2 @@ s2 :> 1
(* Two short contents or one long one fill the quota of files.           *)
MCSizeOf == "a" :> 1 @@ "b" :> 2
MCQuota == "files" :> 2 @@ "skills" :> 1
MCTurns == {<<>>, <<"a">>, <<"a", "b">>}
(* Two calls under the indices 0 and 2, each in two pieces, and a fragment  *)
(* that gives the second the id of the first and no name.                   *)
Fragment(index, id, name, piece) ==
  [index |-> index, id |-> id, name |-> name, pieces |-> piece]
MCFragments ==
  {Fragment(0, "a", "read", <<"{">>), Fragment(0, "", "", <<"}">>),
   Fragment(2, "b", "read", <<"{">>), Fragment(2, "", "", <<"}">>), Fragment(2, "a", "", <<>>)}
MCValidJson == {<<>>, <<"{", "}">>}

VARIABLE focus
servicesVars ==
  <<focus, vars, boxVars, spanVars, mcpVars, memoryVars, fileVars, historyVars,
    workspaceVars, modelVars>>

ServicesInit ==
  /\ focus \in {"schedule", "sandbox", "spans", "mcp", "memory", "files", "history",
               "workspace", "model"}
  /\ Init /\ BoxInit /\ SpanInit /\ McpInit
  /\ MemoryInit /\ FilesInit /\ HistoryInit /\ WorkspaceInit /\ ModelInit
  /\ focus = "history" \/ kind = "root"

(* Bound: a session is worked on by two processes only while the other one  *)
(* has no row and nobody works on it; the run on MCSandbox has no bound.     *)
SharedAlone ==
  \A s \in shared', t \in Sessions \ shared' :
    /\ box'[t].state = "absent" /\ container'[t] = "none"
    /\ \A p \in Processes : op'[p][t].pc = "idle"

(* Both publishers are busy only while no upload is.                        *)
OnePublisher ==
  (\A u \in Uploaders : upload'[u].pc = "idle") \/ (\E w \in Publishers : publish'[w].pc = "idle")

ServicesNext ==
  \/ /\ focus = "schedule" /\ Next
     /\ UNCHANGED <<focus, boxVars, spanVars, mcpVars, memoryVars, fileVars, historyVars,
                    workspaceVars, modelVars>>
  \/ /\ focus = "sandbox" /\ BoxNext /\ SharedAlone
     /\ UNCHANGED <<focus, vars, spanVars, mcpVars, memoryVars, fileVars, historyVars,
                    workspaceVars, modelVars>>
  \/ /\ focus = "spans" /\ SpanNext
     /\ UNCHANGED <<focus, vars, boxVars, mcpVars, memoryVars, fileVars, historyVars,
                    workspaceVars, modelVars>>
  \/ /\ focus = "mcp" /\ McpNext
     /\ UNCHANGED <<focus, vars, boxVars, spanVars, memoryVars, fileVars, historyVars,
                    workspaceVars, modelVars>>
  \/ /\ focus = "memory" /\ MemoryNext
     /\ UNCHANGED <<focus, vars, boxVars, spanVars, mcpVars, fileVars, historyVars,
                    workspaceVars, modelVars>>
  \/ /\ focus = "files" /\ FilesNext /\ OnePublisher
     /\ UNCHANGED <<focus, vars, boxVars, spanVars, mcpVars, memoryVars, historyVars,
                    workspaceVars, modelVars>>
  \/ /\ focus = "history" /\ HistoryNext
     /\ UNCHANGED <<focus, vars, boxVars, spanVars, mcpVars, memoryVars, fileVars,
                    workspaceVars, modelVars>>
  \/ /\ focus = "workspace" /\ WorkspaceNext
     /\ UNCHANGED <<focus, vars, boxVars, spanVars, mcpVars, memoryVars, fileVars,
                    historyVars, modelVars>>
  \/ /\ focus = "model" /\ ModelNext
     /\ UNCHANGED <<focus, vars, boxVars, spanVars, mcpVars, memoryVars, fileVars,
                    historyVars, workspaceVars>>

(* No scheduler has anything to do in an initial state. *)
ServicesSpec == ServicesInit /\ [][ServicesNext]_servicesVars /\ Fairness

(* Type correctness of every component.                 *)
ServicesTypeOK ==
  /\ TypeOK /\ BoxTypeOK /\ SpanTypeOK /\ McpTypeOK
  /\ MemoryTypeOK /\ FilesTypeOK /\ HistoryTypeOK /\ WorkspaceTypeOK /\ ModelTypeOK
=============================================================================
