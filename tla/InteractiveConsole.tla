------------------------- MODULE InteractiveConsole -------------------------
(***************************************************************************)
(* Interactive runs of a student's program: the console of the browser     *)
(* (InteractiveConsole.jsx), the calls of the API (console.repository.ts,  *)
(* createCodeRun of submission.repository.ts) and the worker that feeds    *)
(* the program and watches over it (console.worker.ts, executeInteractive  *)
(* of java-runner.ts).                                                     *)
(*                                                                         *)
(* The browser has at most one start, one control call and one read under  *)
(* way.  Their answers take any time, and may be lost: the browser then    *)
(* gives the call up, but the request may still arrive.  The worker runs   *)
(* the program while a monitor reads the console, renews the lease and     *)
(* writes the input to the program, in steps that the calls of the API     *)
(* fall between.  Time is a choice: a lease may lapse, a session expire    *)
(* and a program end or be ended at any moment.                            *)
(*                                                                         *)
(* One student, one activity.  The execution job and the practice record   *)
(* of a run change together and are one status.  COMPLETED stands for      *)
(* every end the program itself came to, CANCELLED also for EXPIRED, and   *)
(* output is left out.                                                     *)
(***************************************************************************)
EXTENDS ConsolePromises

CONSTANTS
    Lines,      \* texts of an input line
    MaxRuns,    \* bound on the consoles created
    MaxInputs   \* inputs of a run (256 messages or 20,000 bytes)

ASSUME ConsoleAssumption == MaxRuns \in Nat /\ MaxInputs \in Nat

Inputs == Lines \cup {EOF}

VARIABLES
    eligible,   \* the student may still run code for the activity
    worker,     \* the worker: the run it has, its two tasks, the pipe to the program
    intent,     \* the key of the start it last asked for
    call,       \* [start, control, read -> the call under way]
    stray,      \* requests given up that may still arrive
    pending     \* the input not acknowledged yet: pendingInput

server == <<run, eligible>>
browser == <<shown, intent, call, stray, pending, typed>>
vars == <<server, worker, browser>>

Terminal(n) == ~Active(run[n].phase) \/ run[n].status \notin {"QUEUED", "RUNNING"}

NoRecord == [run |-> 0, phase |-> "NONE", next |-> 1, closed |-> FALSE, cancel |-> FALSE]
NoCall == [state |-> "idle"]
NoInput == [seq |-> 0, line |-> EOF]
Off == [run |-> 0, pc |-> "idle", monitor |-> "idle", seen |-> 0, delivered |-> 0,
        stdin |-> FALSE, reason |-> "none"]

Init ==
    /\ run = <<>> /\ eligible = TRUE /\ worker = Off
    /\ shown = NoRecord /\ intent = 0
    /\ call = [k \in {"start", "control", "read"} |-> NoCall]
    /\ stray = {} /\ pending = NoInput
    /\ typed = [n \in 1..MaxRuns |-> <<>>]

-----------------------------------------------------------------------------
(* The browser.                                                            *)

Idle(k) == call[k] = NoCall
Ask(k, req) == call' = [call EXCEPT ![k] = [state |-> "sent", req |-> req]]

\* A new start gets a new key, except to repeat the very first one.
Start ==
    /\ Idle("start") /\ ~Active(shown.phase)
    /\ LET key == IF shown = NoRecord /\ intent # 0 THEN intent ELSE intent + 1
       IN  /\ key <= MaxRuns
           /\ intent' = key /\ Ask("start", [op |-> "start", key |-> key])
    /\ UNCHANGED <<server, worker, shown, stray, pending, typed>>

\* Mutant: an input that was not acknowledged is numbered again when repeated.
SendRenumbered(line) ==
    LET taken == [seq |-> shown.next, line |-> IF pending = NoInput THEN line ELSE pending.line]
    IN  /\ Idle("control") /\ shown.phase = "RUNNING" /\ ~shown.closed /\ ~shown.cancel
        /\ Len(typed[shown.run]) < MaxInputs
        /\ pending' = taken
        /\ typed' = IF pending = NoInput
                      THEN [typed EXCEPT ![shown.run] = Append(@, line)] ELSE typed
        /\ Ask("control", [op |-> "input", run |-> shown.run, input |-> taken])
        /\ UNCHANGED <<server, worker, shown, intent, stray>>

\* A line, or the end of the input; one that was not acknowledged is repeated.
Send(line) ==
    LET taken == IF pending = NoInput THEN [seq |-> shown.next, line |-> line] ELSE pending
    IN  /\ Idle("control") /\ shown.phase = "RUNNING" /\ ~shown.closed /\ ~shown.cancel
        /\ pending = NoInput => Len(typed[shown.run]) < MaxInputs
        /\ pending' = taken
        /\ typed' = IF pending = NoInput
                      THEN [typed EXCEPT ![shown.run] = Append(@, line)] ELSE typed
        /\ Ask("control", [op |-> "input", run |-> shown.run, input |-> taken])
        /\ UNCHANGED <<server, worker, shown, intent, stray>>

Stop ==
    /\ Idle("control") /\ Active(shown.phase) /\ ~shown.cancel
    /\ Ask("control", [op |-> "stop", run |-> shown.run])
    /\ UNCHANGED <<server, worker, shown, intent, stray, pending, typed>>

\* Polling, and the button that asks for the status again.
Read ==
    /\ Idle("read") /\ shown # NoRecord
    /\ Ask("read", [op |-> "read", run |-> shown.run])
    /\ UNCHANGED <<server, worker, shown, intent, stray, pending, typed>>

\* update: an older answer does not take back what is shown of the same run.
Merged(incoming) ==
    IF shown.run # incoming.run THEN incoming
    ELSE [incoming EXCEPT
            !.phase  = IF Rank(shown.phase) > Rank(@) THEN shown.phase ELSE @,
            !.next   = IF shown.next > @ THEN shown.next ELSE @,
            !.closed = @ \/ shown.closed,
            !.cancel = @ \/ shown.cancel]

\* A poll of a run that is no longer shown was aborted.
Receive(k) ==
    /\ call[k].state = "answered"
    /\ k = "read" => call[k].body.run = shown.run
    /\ shown' = Merged(call[k].body)
    /\ call' = [call EXCEPT ![k] = NoCall]
    /\ pending' = IF k = "start" \/ (k = "control" /\ call[k].req.op = "input")
                    THEN NoInput ELSE pending
    /\ UNCHANGED <<server, worker, intent, stray, typed>>

\* The call failed, or its answer was lost: reported, nothing else.
GiveUp(k) ==
    /\ ~Idle(k)
    /\ stray' = IF call[k].state = "sent" /\ k # "read" THEN stray \cup {call[k].req} ELSE stray
    /\ call' = [call EXCEPT ![k] = NoCall]
    /\ UNCHANGED <<server, worker, shown, intent, pending, typed>>

-----------------------------------------------------------------------------
(* The API.  Each call is one transaction that has the console locked.     *)

Existing(key) == {n \in DOMAIN run : run[n].key = key}

\* createCodeRun: the key of an earlier start gives its run; one live console.
Create(key) ==
    /\ eligible /\ Existing(key) = {}
    /\ \A n \in DOMAIN run : run[n].status \notin {"QUEUED", "RUNNING"}
    /\ run' = Append(run, [key |-> key, phase |-> "QUEUED", status |-> "QUEUED",
                           cancel |-> FALSE, inputs |-> <<>>, given |-> <<>>])

\* The input is already stored under its number.
Replay(n, input) ==
    input.seq <= Len(run[n].inputs) /\ run[n].inputs[input.seq] = input.line

AppendInput(n, input) ==
    /\ eligible /\ ~Terminal(n) /\ run[n].phase = "RUNNING"
    /\ ~Closed(n) /\ ~run[n].cancel
    /\ input.seq = Len(run[n].inputs) + 1 /\ Len(run[n].inputs) < MaxInputs
    /\ run' = [run EXCEPT ![n].inputs = Append(@, input.line)]

\* What a request does, and the run it is answered with; others are refused.
Handle(req, n) ==
    \/ req.op = "start" /\ Create(req.key) /\ n = Len(run) + 1
    \/ req.op = "start" /\ eligible /\ n \in Existing(req.key) /\ UNCHANGED run
    \/ req.op = "read" /\ n = req.run /\ UNCHANGED run
    \/ /\ req.op = "stop" /\ n = req.run
       /\ run' = IF Terminal(n) THEN run ELSE [run EXCEPT ![n].cancel = TRUE]
    \/ /\ req.op = "input" /\ n = req.run
       /\ \/ eligible /\ Replay(n, req.input) /\ UNCHANGED run
          \/ ~Replay(n, req.input) /\ AppendInput(n, req.input)

Answer(k, n) ==
    /\ call[k].state = "sent" /\ Handle(call[k].req, n)
    /\ call' = [call EXCEPT ![k] = [state |-> "answered", req |-> call[k].req,
                                    body |-> Projection(n)']]
    /\ UNCHANGED <<eligible, worker, shown, intent, stray, pending, typed>>

Arrive(req, n) ==
    /\ Handle(req, n) /\ stray' = stray \ {req}
    /\ UNCHANGED <<eligible, worker, shown, intent, call, pending, typed>>

\* The activity closes, or the student is removed.
Revoke ==
    /\ eligible /\ eligible' = FALSE
    /\ UNCHANGED <<run, worker, browser>>

-----------------------------------------------------------------------------
(* The worker.                                                             *)

Claim(n) ==
    /\ worker = Off /\ run[n].status = "QUEUED"
    /\ run' = [run EXCEPT ![n].status = "RUNNING"]
    /\ worker' = [Off EXCEPT !.run = n, !.pc = "claimed", !.monitor = "due"]
    /\ UNCHANGED <<eligible, browser>>

Watching == worker.pc \in {"claimed", "compiling", "running"} /\ worker.reason = "none"

\* control reads the console; the session may have expired, the worker be told
\* to stop, the database fail.
Control(reason) ==
    LET n == worker.run
    IN  /\ Watching /\ worker.monitor \in {"idle", "due"}
        /\ worker.pc = "claimed" => worker.monitor = "due"
        /\ reason = "none" => ~run[n].cancel /\ eligible
        /\ worker' = [worker EXCEPT !.monitor = "renew", !.seen = Len(run[n].inputs),
                                    !.reason = reason]
        /\ UNCHANGED <<server, browser>>

\* The inputs it saw are written to the program, if that has started.
Deliver(n) ==
    LET new == SubSeq(run[n].inputs, worker.delivered + 1, worker.seen)
    IN  /\ worker' = [worker EXCEPT !.monitor = "idle", !.delivered = worker.seen,
                                    !.stdin = EOF \notin ToSet(new)]
        /\ run' = [run EXCEPT ![n].given = @ \o new]

\* then it renews the lease, which tells whether the job is still its own.
Renew ==
    LET n == worker.run
        owned == run[n].status = "RUNNING"
    IN  /\ worker.monitor = "renew"
        /\ IF owned /\ worker.reason = "none" /\ worker.stdin THEN Deliver(n)
           ELSE /\ worker' = [worker EXCEPT !.monitor = "idle",
                     !.reason = IF @ = "none" /\ ~owned THEN "FAILED" ELSE @]
                /\ UNCHANGED run
        /\ UNCHANGED <<eligible, browser>>

\* The phase is written without looking at the job.
Compile ==
    LET n == worker.run
    IN  /\ worker.pc = "claimed" /\ worker.monitor = "idle" /\ worker.reason = "none"
        /\ run' = [run EXCEPT ![n].phase = "COMPILING"]
        /\ worker' = [worker EXCEPT !.pc = "compiling"]
        /\ UNCHANGED <<eligible, browser>>

Execute ==
    LET n == worker.run
    IN  /\ worker.pc = "compiling" /\ worker.reason = "none"
        /\ run' = [run EXCEPT ![n].phase = "RUNNING"]
        /\ worker' = [worker EXCEPT !.pc = "running", !.stdin = TRUE]
        /\ UNCHANGED <<eligible, browser>>

\* The compiler or the program ends, by itself or by the abort, or fails to
\* start; the monitor makes no further round.
Exit(reason) ==
    /\ worker.pc \in {"compiling", "running"} \/ (worker.pc = "claimed" /\ worker.reason # "none")
    /\ worker' = [worker EXCEPT !.pc = "exited", !.stdin = FALSE,
                                !.reason = IF @ = "none" THEN reason ELSE @]
    /\ UNCHANGED <<server, browser>>

\* Mutant: the result is written whoever has the job.
CompleteUnowned ==
    LET n == worker.run
    IN  /\ worker.pc = "exited" /\ worker.monitor = "idle"
        /\ run' = [run EXCEPT ![n].phase = worker.reason,
                      ![n].status = IF worker.reason = "COMPLETED" THEN "SUCCEEDED" ELSE "FAILED"]
        /\ worker' = Off
        /\ UNCHANGED <<eligible, browser>>

\* complete, once the monitor has ended.
Complete ==
    LET n == worker.run
    IN  /\ worker.pc = "exited" /\ worker.monitor = "idle"
        /\ run' = IF run[n].status = "RUNNING"
             THEN [run EXCEPT ![n].phase = worker.reason,
                      ![n].status = IF worker.reason = "COMPLETED" THEN "SUCCEEDED" ELSE "FAILED"]
             ELSE run
        /\ worker' = Off
        /\ UNCHANGED <<eligible, browser>>

\* The first round of control failed: failInfrastructure, the only claim is used.
Abandon ==
    LET n == worker.run
    IN  /\ worker.pc = "claimed" /\ worker.monitor # "idle"
        /\ run' = [run EXCEPT ![n].status = IF @ = "RUNNING" THEN "FAILED" ELSE @]
        /\ worker' = Off
        /\ UNCHANGED <<eligible, browser>>

\* The worker is killed; the supervisor ends the program.
Crash ==
    /\ worker # Off /\ worker' = Off
    /\ UNCHANGED <<server, browser>>

\* Mutant: a run that has not begun to compile is overlooked.
ExpireLeaseCompiling(n) ==
    /\ run[n].status = "RUNNING" /\ run[n].phase # "QUEUED"
    /\ run' = [run EXCEPT ![n].status = "FAILED"]
    /\ UNCHANGED <<eligible, worker, browser>>

\* markExpiredExhausted, of any worker that looks for work: the lease has lapsed.
ExpireLease(n) ==
    /\ run[n].status = "RUNNING"
    /\ run' = [run EXCEPT ![n].status = "FAILED"]
    /\ UNCHANGED <<eligible, worker, browser>>

-----------------------------------------------------------------------------
Browser ==
    \/ Start \/ Stop \/ Read \/ \E line \in Inputs : Send(line)
    \/ \E k \in DOMAIN call : Receive(k) \/ GiveUp(k)

Api ==
    \/ \E n \in 1..MaxRuns :
          \/ \E k \in DOMAIN call : Answer(k, n)
          \/ \E req \in stray : Arrive(req, n)
    \/ Revoke

Worker ==
    \/ \E n \in DOMAIN run : Claim(n) \/ ExpireLease(n)
    \/ \E reason \in {"none", "CANCELLED", "FAILED"} : Control(reason)
    \/ \E reason \in {"COMPLETED", "FAILED"} : Exit(reason)
    \/ Renew \/ Compile \/ Execute \/ Complete \/ Abandon \/ Crash

Next == Browser \/ Api \/ Worker

\* A worker takes the work there is and goes through with it: the compiler and
\* the program have time limits.  The lease of a run that no worker has lapses,
\* and a worker that looks for work then ends the run.
Fairness ==
    /\ \A n \in 1..MaxRuns :
          /\ WF_vars(n \in DOMAIN run /\ Claim(n))
          /\ WF_vars(n \in DOMAIN run /\ worker.run # n /\ ExpireLease(n))
    /\ WF_vars(worker.pc = "claimed" /\ \E r \in {"none", "CANCELLED"} : Control(r))
    /\ WF_vars(Renew) /\ WF_vars(Compile) /\ WF_vars(Exit("COMPLETED")) /\ WF_vars(Complete)

Spec == Init /\ [][Next]_vars /\ Fairness

-----------------------------------------------------------------------------
(* Properties.                                                             *)

\* Every console that was created comes to an end, also when its worker dies.
Settles == \A n \in 1..MaxRuns : n \in DOMAIN run ~> n \in DOMAIN run /\ Terminal(n)
=============================================================================
