--------------------------- MODULE RemoteRequests ---------------------------
(***************************************************************************)
(* check_remote_requests.py: the script that sends five requests to each   *)
(* of some repeaters through a multiplexer of its own, one after the       *)
(* other, and waits for each result as long as the multiplexer protects    *)
(* the request.                                                            *)
(*                                                                         *)
(* Time is discrete; a timer that is due fires before time goes on.  The   *)
(* multiplexer is external to the script: it forwards one remote request   *)
(* at a time, and holds the lease from the acceptance until the result or  *)
(* until the suggested timeout and its margin have elapsed.                *)
(***************************************************************************)
EXTENDS Naturals, Sequences

CONSTANTS
  Targets,    \* number of contacts that were asked for
  Timeout,    \* --timeout
  Limits,     \* suggested timeouts of the companion, margin included
  MaxTime     \* bound on time

VARIABLES
  now,
  stage,          \* where the script is
  outcome,        \* "none" while it runs, "ok", "failed"
  mux,            \* the process: "none", "running", "exited"
  sessions,       \* clients of the script that are connected
  op,             \* the operation under way, 0 before the first
  reported,       \* result of each operation so far
  send_until,     \* when the send itself times out
  waiter_until,   \* when the waiters of this operation expire; Never
  result_until,   \* when wait_for_terminal gives up
  local_query,    \* the observer's clock query has been answered
  terminal,       \* a result of this operation has come
  queue,          \* operations the multiplexer has still to forward
  lease           \* [op, until], the request the companion works on

timers == <<send_until, waiter_until, result_until>>
remoteVars == <<now, stage, outcome, mux, sessions, op, reported, timers,
                local_query, terminal, queue, lease>>

Never == MaxTime + Timeout + 1
NoLease == [op |-> 0, until |-> Never]

OperationsPerTarget ==
  <<"login", "status", "telemetry", "path-discovery", "binary-status">>
Operations == Targets * Len(OperationsPerTarget)
Operation(i) == OperationsPerTarget[((i - 1) % Len(OperationsPerTarget)) + 1]

RemoteInit ==
  /\ now = 0
  /\ stage = "spawn"
  /\ outcome = "none"
  /\ mux = "none"
  /\ sessions = {}
  /\ op = 0
  /\ reported = <<>>
  /\ send_until = Never
  /\ waiter_until = Never
  /\ result_until = Never
  /\ local_query = FALSE
  /\ terminal = FALSE
  /\ queue = <<>>
  /\ lease = NoLease

-----------------------------------------------------------------------------
(* run() up to the first operation.  Each step may fail instead.           *)

Spawn ==
  /\ stage = "spawn"
  /\ stage' = "ready"
  /\ mux' = "running"
  /\ UNCHANGED <<now, outcome, sessions, op, reported, timers, local_query,
                 terminal, queue, lease>>

Connect ==
  /\ stage = "ready"
  /\ mux = "running"
  /\ stage' = "select"
  /\ sessions' = {"owner", "observer"}
  /\ UNCHANGED <<now, outcome, mux, op, reported, timers, local_query,
                 terminal, queue, lease>>

\* Every target is one contact of exactly that name, else the run has failed.
SelectTargets ==
  /\ stage = "select"
  /\ stage' = "create"
  /\ op' = 1
  /\ UNCHANGED <<now, outcome, mux, sessions, reported, timers, local_query,
                 terminal, queue, lease>>

Fail ==
  /\ stage \notin {"finally", "reap", "end"}
  /\ stage' = "finally"
  /\ outcome' = "failed"
  /\ UNCHANGED <<now, mux, sessions, op, reported, timers, local_query,
                 terminal, queue, lease>>

-----------------------------------------------------------------------------
(* check_target: an operation begins with its waiters.  A waiter for an    *)
(* event has a timeout of its own; the one for a binary response has not.  *)

create_waiter ==
  /\ stage = "create"
  /\ stage' = "send"
  /\ waiter_until' = IF Operation(op) = "binary-status" THEN Never
                     ELSE now + Timeout
  /\ send_until' = now + Timeout
  /\ queue' = Append(queue, op)
  /\ local_query' = FALSE
  /\ terminal' = FALSE
  /\ UNCHANGED <<now, outcome, mux, sessions, op, reported, result_until, lease>>

-----------------------------------------------------------------------------
(* one_remote_operation *)

\* The operation is reported and its waiters are cancelled; the next begins.
Report(result) ==
  /\ reported' = Append(reported, result)
  /\ waiter_until' = Never
  /\ send_until' = Never
  /\ result_until' = Never
  /\ IF op = Operations
     THEN stage' = "finally" /\ outcome' = "ok" /\ UNCHANGED op
     ELSE stage' = "create" /\ op' = op + 1 /\ UNCHANGED outcome

\* The companion refuses, or the client library waits no longer.
NotAccepted ==
  /\ stage = "send"
  /\ \/ queue # <<>> /\ Head(queue) = op /\ lease = NoLease /\ queue' = Tail(queue)
     \/ now >= send_until /\ UNCHANGED queue
  /\ Report("not-sent-or-rejected")
  /\ UNCHANGED <<now, mux, sessions, local_query, terminal, lease>>

\* The companion accepts the request that the multiplexer forwards, which need
\* not be one that the script still waits for.
Accepted ==
  /\ queue # <<>>
  /\ lease = NoLease
  /\ queue' = Tail(queue)
  /\ \E result_limit \in Limits :
       /\ lease' = [op |-> Head(queue), until |-> now + result_limit]
       /\ IF stage = "send" /\ Head(queue) = op
          THEN /\ send_until' = Never
               /\ IF result_limit > Timeout
                  THEN /\ stage' = "finally"
                       /\ outcome' = "failed"
                       /\ UNCHANGED result_until
                  ELSE /\ stage' = "gather"
                       /\ result_until' = now + result_limit
                       /\ UNCHANGED outcome
          ELSE UNCHANGED <<stage, outcome, send_until, result_until>>
  /\ UNCHANGED <<now, mux, sessions, op, reported, waiter_until, local_query,
                 terminal>>

LocalQuery ==
  /\ stage = "gather"
  /\ ~ local_query
  /\ local_query' = TRUE
  /\ UNCHANGED <<now, stage, outcome, mux, sessions, op, reported, timers,
                 terminal, queue, lease>>

\* The result goes to the waiter, if the operation still has one.
Result ==
  /\ lease # NoLease
  /\ lease' = NoLease
  /\ terminal' = (terminal \/ (lease.op = op /\ now < waiter_until
                               /\ stage = "gather"))
  /\ UNCHANGED <<now, stage, outcome, mux, sessions, op, reported, timers,
                 local_query, queue>>

LeaseExpires ==
  /\ lease # NoLease
  /\ now >= lease.until
  /\ lease' = NoLease
  /\ UNCHANGED <<now, stage, outcome, mux, sessions, op, reported, timers,
                 local_query, terminal, queue>>

\* wait_for_terminal returns with a result, or without one when the first
\* waiter or the result limit has expired; gather waits for both.
wait_for_terminal ==
  /\ stage = "gather"
  /\ local_query
  /\ terminal \/ now >= waiter_until \/ now >= result_until
  /\ Report(IF terminal THEN "result" ELSE "timeout")
  /\ UNCHANGED <<now, mux, sessions, local_query, terminal, queue, lease>>

-----------------------------------------------------------------------------
(* The finally clause, and time *)

Disconnect ==
  /\ stage = "finally"
  /\ stage' = "reap"
  /\ sessions' = {}
  /\ UNCHANGED <<now, outcome, mux, op, reported, timers, local_query,
                 terminal, queue, lease>>

\* SIGTERM, or SIGKILL five seconds later.
Reap ==
  /\ stage = "reap"
  /\ stage' = "end"
  /\ mux' = IF mux = "none" THEN "none" ELSE "exited"
  /\ UNCHANGED <<now, outcome, sessions, op, reported, timers, local_query,
                 terminal, queue, lease>>

\* The observer's query is answered within the instant: what is late in this
\* model is the radio.
Tick ==
  /\ now < MaxTime
  /\ stage \in {"send", "gather"}
  /\ stage = "send" => now < send_until
  /\ stage = "gather" =>
       local_query /\ ~ terminal /\ now < waiter_until /\ now < result_until
  /\ now < lease.until
  /\ now' = now + 1
  /\ UNCHANGED <<stage, outcome, mux, sessions, op, reported, timers,
                 local_query, terminal, queue, lease>>

RemoteNext ==
  \/ Spawn \/ Connect \/ SelectTargets \/ Fail
  \/ create_waiter \/ NotAccepted \/ Accepted \/ LocalQuery \/ Result
  \/ LeaseExpires \/ wait_for_terminal
  \/ Disconnect \/ Reap
  \/ Tick

RemoteSpec == RemoteInit /\ [][RemoteNext]_remoteVars

-----------------------------------------------------------------------------
(* Properties *)

\* "Never start a competing operation before that interval can have elapsed
\* when a result is missing": an operation that was accepted and is reported
\* as timed out has no lease any more when the next one is sent.
NoEarlyCompetitor ==
  stage = "send" /\ lease # NoLease /\ lease.op < op =>
    \/ reported[lease.op] # "timeout"
    \/ now >= lease.until
=============================================================================
