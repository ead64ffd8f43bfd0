---------------------------- MODULE CommandLine ----------------------------
(***************************************************************************)
(* The command line program (internal/cli/cmd.go) with the calls of the    *)
(* client library it makes (pkg/client/client.go), together with the D-Bus *)
(* service.  Each process runs one command; Callers are the processes.     *)
(* The command "monitor" is the subscriber of module StatusClient.         *)
(*                                                                         *)
(* External are the bus, which answers a call to an agent that is not      *)
(* there, and one whose agent is gone, with an error; and what a handler of *)
(* the agent's loop waits for: the desktop, which need not answer, and a   *)
(* client that is being stopped, whose request need not end without a      *)
(* timeout.                                                                *)
(***************************************************************************)
EXTENDS DBusService

\* "help" is also -version, "unknown" any command line that is not valid.
Commands == {"help", "unknown", "status", "relogin"}

VARIABLES
    cli,        \* where the process is
    command,    \* what it runs, or ran last
    failed,     \* run returns an error
    code,       \* how the process ended
    handled,    \* the agent did what its ReLogin asked for
    left,       \* the agent stopped or crashed since the start of the process
    hangs       \* the agent's loop waits in a handler

cliVars == <<cli, command, failed, code, handled, left>>
vars == <<serviceVars, cliVars, hangs>>

Init ==
    /\ ServiceInit
    /\ cli = [k \in Callers |-> "off"]
    /\ command = [k \in Callers |-> "help"]
    /\ failed = [k \in Callers |-> FALSE]
    /\ code = [k \in Callers |-> "none"]
    /\ handled = [k \in Callers |-> FALSE]
    /\ left = [k \in Callers |-> FALSE]
    /\ hangs = FALSE

\* Definitions named Bug... are the definition that follows with a mistake in it,
\* which some property must notice (the mutants of PROJECT.json).

-----------------------------------------------------------------------------
\* The process.

Launch(k, c) ==
    /\ cli[k] = "off" /\ call[k] = "idle"
    /\ cli' = [cli EXCEPT ![k] = "parse"]
    /\ command' = [command EXCEPT ![k] = c]
    /\ failed' = [failed EXCEPT ![k] = FALSE]
    /\ code' = [code EXCEPT ![k] = "none"]
    /\ handled' = [handled EXCEPT ![k] = FALSE]
    /\ left' = [left EXCEPT ![k] = FALSE]
    /\ UNCHANGED serviceVars

Moves(k, from, to, err) ==
    /\ cli[k] = from
    /\ cli' = [cli EXCEPT ![k] = to]
    /\ failed' = [failed EXCEPT ![k] = err]
    /\ UNCHANGED <<command, code, handled, left>>

ParseCommandLine(k) ==
    /\ \/ command[k] \in {"status", "relogin"} /\ Moves(k, "parse", "connect", FALSE)
       \/ command[k] = "help" /\ Moves(k, "parse", "exit", FALSE)
       \/ command[k] = "unknown" /\ Moves(k, "parse", "exit", TRUE)
    /\ UNCHANGED serviceVars

\* There may be no session bus.
NewClient(k) ==
    /\ Moves(k, "connect", "run", FALSE) \/ Moves(k, "connect", "exit", TRUE)
    /\ UNCHANGED serviceVars

\* Query of a running agent prints its status.
GetStatus(k) ==
    /\ command[k] = "status"
    /\ Moves(k, "run", "close", spc \notin Exported)
    /\ UNCHANGED serviceVars

ReLogin(k) ==
    /\ command[k] = "relogin"
    /\ \/ Moves(k, "run", "wait", FALSE) /\ CallReLogin(k)
       \/ /\ spc \notin Exported
          /\ Moves(k, "run", "close", TRUE) /\ UNCHANGED serviceVars

\* The error of the request is not looked at.
BugReplies(k) ==
    /\ ReLoginReturns(k)
    /\ spc \notin Gone
    /\ Moves(k, "wait", "close", call[k] = "sending")

\* The method returns, and with it the call: if done is closed too, Wait may find
\* that first and give the call up though it was handled.
Replies(k) ==
    /\ ReLoginReturns(k)
    /\ spc \notin Gone
    /\ \/ call[k] = "ok" /\ Moves(k, "wait", "close", FALSE)
       \/ /\ call[k] # "ok" \/ done
          /\ Moves(k, "wait", "close", TRUE)

\* The bus ends a call whose agent is gone, also if there is a new one by now.
Disconnected(k) ==
    /\ spc \in Gone \/ call[k] = "idle"
    /\ Moves(k, "wait", "close", TRUE)
    /\ UNCHANGED serviceVars

\* The deferred Close, with no goroutine to wait for, has nothing to wait for.
Closes(k) ==
    /\ Moves(k, "close", "exit", failed[k])
    /\ UNCHANGED serviceVars

Exits(k) ==
    /\ cli[k] = "exit"
    /\ cli' = [cli EXCEPT ![k] = "off"]
    /\ code' = [code EXCEPT ![k] = IF failed[k] THEN "error" ELSE "ok"]
    /\ UNCHANGED <<serviceVars, command, failed, handled, left>>

\* The user interrupts the process.  The agent does not notice.
Interrupted(k) ==
    /\ cli[k] # "off"
    /\ cli' = [cli EXCEPT ![k] = "off"]
    /\ code' = [code EXCEPT ![k] = "interrupted"]
    /\ UNCHANGED <<serviceVars, command, failed, handled, left>>

-----------------------------------------------------------------------------
\* The agent's side of it, with what became of each call.

\* The loop waits in a handler, of a request or of another event: for the desktop to
\* take a notification, or for client.Stop.
LoopWaits ==
    /\ owner = "idle" /\ ~hangs
    /\ hangs' = TRUE
    /\ UNCHANGED <<serviceVars, cliVars>>

\* The desktop answers, the notifier is closed, or the client ends.
LoopReturns ==
    /\ hangs
    /\ hangs' = FALSE
    /\ UNCHANGED <<serviceVars, cliVars>>

\* A method whose process is gone returns too.
ReturnsUnheard(k) ==
    /\ ReLoginReturns(k)
    /\ cli[k] # "wait" \/ spc \in Gone
    /\ UNCHANGED cliVars

Answers ==
    /\ ~hangs
    /\ ClosesRequest
    /\ handled' = [k \in Callers |-> handled[k] \/ (call[k] = "waiting" /\ call'[k] = "ok")]
    /\ UNCHANGED <<cli, command, failed, code, left, hangs>>

Leaves ==
    /\ (~hangs /\ Stop) \/ Crash
    /\ hangs' = FALSE
    /\ left' = [k \in Callers |-> TRUE]
    /\ UNCHANGED <<cli, command, failed, code, handled>>

Goes ==
    \/ Start
    \/ Export
    \/ ~hangs /\ AgentSets
    \/ SetMust
    \/ TakesUpdate
    \/ DoneCase
    \/ \E k \in Callers : ~hangs /\ TakesRequest(k)

ProcessStep(k) ==
    \/ ParseCommandLine(k)
    \/ NewClient(k)
    \/ GetStatus(k)
    \/ ReLogin(k)
    \/ Replies(k)
    \/ Disconnected(k)
    \/ Closes(k)
    \/ Exits(k)

CallerStep(k) ==
    \/ \E c \in Commands : Launch(k, c)
    \/ ProcessStep(k)
    \/ Interrupted(k)
    \/ ReturnsUnheard(k)

Next ==
    \/ \E k \in Callers : CallerStep(k) /\ UNCHANGED hangs
    \/ LoopWaits
    \/ LoopReturns
    \/ Answers
    \/ Leaves
    \/ Goes /\ UNCHANGED <<cliVars, hangs>>

Spec == Init /\ [][Next]_vars

\* The goroutines of the agent run.  Select is fair to an update, a request or a
\* done that stays ready.  A handler sets some properties and waits some times, not
\* for ever more; a wait may be for ever.  The processes run and the bus answers.
\* Nothing is assumed of crashes.
ServiceAlone(A) == A /\ UNCHANGED <<cliVars, hangs>>

FairSpec ==
    /\ Spec
    /\ WF_vars(ServiceAlone(SetMust))
    /\ WF_vars(ServiceAlone(Export))
    /\ SF_vars(ServiceAlone(TakesUpdate))
    /\ SF_vars(ServiceAlone(DoneCase))
    /\ SF_vars(Answers)
    /\ \A k \in Callers :
        /\ SF_vars(ServiceAlone(~hangs /\ TakesRequest(k)))
        /\ WF_vars(ProcessStep(k) /\ UNCHANGED hangs)

-----------------------------------------------------------------------------
(* Properties *)

\* A command ends, whether the agent starts, sets properties without end, stops,
\* crashes or is not there.  "status" does so even if the loop hangs for good, as it
\* may when the desktop does not answer (notify.go:51) or a request has no timeout
\* (config.go:122).  "relogin" has no timeout (client.go:281, service.go:121): it ends
\* if the loop always gets out of its waits.
CommandsEnd ==
    \A k \in Callers :
        /\ cli[k] # "off" /\ command[k] # "relogin" ~> cli[k] = "off"
        /\ []<>(~hangs) => (cli[k] # "off" ~> cli[k] = "off")

\* What "relogin" ends with is what happened: success only after the agent did the
\* restart for this very call, and an error after it did only if the agent ended
\* meanwhile (the race in service.go:94).
ExitTellsTruth ==
    \A k \in Callers : command[k] = "relogin" =>
        /\ code[k] = "ok" => handled[k]
        /\ code[k] = "error" /\ handled[k] => left[k]

=============================================================================
