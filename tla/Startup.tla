------------------------------ MODULE Startup ------------------------------
(***************************************************************************)
(* The synchronization fence that Runtime runs on every new connection     *)
(* before it admits a client.  The companion keeps a few outgoing frames,  *)
(* and the iterator of a contacts stream, across the replacement of its    *)
(* TCP client; replies carry no tag.  The fence sends SelfReplies          *)
(* APP_STARTs and a DEVICE_QUERY, waits for as many SELF_INFOs in a row    *)
(* with a DEVICE_INFO after them, and then resets the flood scope.         *)
(*                                                                         *)
(* A frame is a record [code, stale].  `stale` is history: the frame was   *)
(* produced for an earlier connection, or by a stream begun there.         *)
(***************************************************************************)
EXTENDS Naturals, Sequences

CONSTANTS
  SelfReplies,     \* number of APP_STARTs sent and of SELF_INFOs expected
  RetainedFrames,  \* frames the companion's queue holds
  StaleCodes,      \* codes of the frames an epoch may leave in that queue
  MaxContacts,     \* bound on the frames left of an old contacts stream
  MaxPushes,       \* bound on pushes per connection
  MaxConnections   \* bound on connections

ASSUME StartupAssumption ==
  /\ RetainedFrames \in Nat
  /\ SelfReplies \in Nat
  /\ RetainedFrames < SelfReplies
  /\ MaxContacts \in Nat
  /\ MaxPushes \in Nat
  /\ MaxConnections \in Nat

VARIABLES
  stage,        \* "fence", "scope" (@awaiting_scope), "ready", or "error"
  self_run,     \* @self_run
  self_key,     \* @self_key: "none", or whether its frame was "stale"/"fresh"
  device_info,  \* @device_info, likewise
  to_write,     \* commands in the upstream writer's queue
  commands,     \* commands on the wire to the companion
  pipe,         \* frames on their way: on the wire, then in the queue
  sent,         \* number of frames of pipe that are on the wire
  iterator,     \* frames left of an earlier connection's contacts stream
  pushes,       \* number of pushes since the connection began
  connections,  \* number of connections
  disturbed     \* history: since the connection began a reply was lost or
                \* was a refusal, or the startup was aborted

startupVars == <<stage, self_run, self_key, device_info, to_write, commands,
                 pipe, sent, iterator, pushes, connections, disturbed>>

Age(f) == IF f.stale THEN "stale" ELSE "fresh"
Synchronizing == stage \in {"fence", "scope"}

Probes ==
  [i \in 1 .. SelfReplies + 1 |->
     IF i <= SelfReplies THEN "app_start" ELSE "device_query"]

\* What the companion's queue may hold when a client is replaced.
RetainedQueues ==
  UNION {[1 .. n -> [code : StaleCodes, stale : {TRUE}]] :
           n \in 0 .. RetainedFrames}

Begin ==
  /\ stage' = "fence"
  /\ self_run' = 0
  /\ self_key' = "none"
  /\ device_info' = "none"
  /\ to_write' = Probes
  /\ commands' = <<>>
  /\ sent' = 0
  /\ pushes' = 0
  /\ disturbed' = FALSE

StartupInit ==
  /\ stage = "fence"
  /\ self_run = 0
  /\ self_key = "none"
  /\ device_info = "none"
  /\ to_write = Probes
  /\ commands = <<>>
  /\ pipe \in RetainedQueues
  /\ sent = 0
  /\ iterator \in 0 .. MaxContacts
  /\ pushes = 0
  /\ connections = 1
  /\ disturbed = FALSE

-----------------------------------------------------------------------------
(* The multiplexer *)

WriteProbe ==
  /\ to_write # <<>>
  /\ stage # "error"
  /\ commands' = Append(commands, Head(to_write))
  /\ to_write' = Tail(to_write)
  /\ UNCHANGED <<stage, self_run, self_key, device_info, pipe, sent, iterator,
                 pushes, connections, disturbed>>

NextFrame ==
  /\ Synchronizing
  /\ sent > 0
  /\ pipe' = Tail(pipe)
  /\ sent' = sent - 1
  /\ UNCHANGED <<commands, iterator, pushes, connections, disturbed>>

Raise ==
  /\ stage' = "error"
  /\ UNCHANGED <<self_run, self_key, device_info, to_write>>

ReceivePush ==
  /\ NextFrame
  /\ Head(pipe).code = "push"
  /\ UNCHANGED <<stage, self_run, self_key, device_info, to_write>>

ReceiveSelfInfo ==
  /\ NextFrame
  /\ stage = "fence"
  /\ Head(pipe).code = "self_info"
  /\ self_run' = self_run + 1
  /\ self_key' = Age(Head(pipe))
  /\ UNCHANGED <<stage, device_info, to_write>>

CrossedEarly == self_run + 1 >= SelfReplies
FenceCrossed == self_run >= SelfReplies

ReadyAtOnce == "ready"
AfterDeviceInfo == "scope"

\* The DEVICE_INFO behind the fence; the scope reset is sent.
ReceiveDeviceInfo ==
  /\ NextFrame
  /\ stage = "fence"
  /\ Head(pipe).code \in {"device_info", "unsupported"}
  /\ FenceCrossed
  /\ IF Head(pipe).code = "unsupported" THEN Raise
     ELSE /\ device_info' = Age(Head(pipe))
          /\ stage' = AfterDeviceInfo
          /\ to_write' = Append(to_write, "set_flood_scope_key")
          /\ UNCHANGED <<self_run, self_key>>

\* Any other ordinary frame: the run of SELF_INFOs starts again.
NotTolerated == Raise
Interrupted ==
  /\ self_run' = 0
  /\ self_key' = "none"
  /\ UNCHANGED <<stage, device_info, to_write>>

ReceiveOther ==
  /\ NextFrame
  /\ stage = "fence"
  /\ Head(pipe).code \notin {"push", "self_info"}
  /\ Head(pipe).code \in {"device_info", "unsupported"} => ~ FenceCrossed
  /\ Interrupted

ReceiveScopeReply ==
  /\ NextFrame
  /\ stage = "scope"
  /\ Head(pipe).code # "push"
  /\ IF Head(pipe).code = "ok"
     THEN /\ stage' = "ready"
          /\ UNCHANGED <<self_run, self_key, device_info, to_write>>
     ELSE Raise

\* The startup deadline passes, the connection closes, or a write fails.
Abort ==
  /\ Synchronizing
  /\ Raise
  /\ disturbed' = TRUE
  /\ UNCHANGED <<commands, pipe, sent, iterator, pushes, connections>>

\* Runtime connects again, after a startup that failed or after an epoch.
\* Frames on the wire are gone; the companion's queue and iterator are not.
Connect ==
  /\ connections < MaxConnections
  /\ connections' = connections + 1
  /\ Begin
  /\ \/ /\ stage = "error"
        /\ pipe' = [i \in 1 .. Len(pipe) - sent |->
                      [pipe[sent + i] EXCEPT !.stale = TRUE]]
        /\ iterator' = iterator
     \/ /\ stage = "ready"
        /\ pipe' \in RetainedQueues
        /\ iterator' \in 0 .. MaxContacts

-----------------------------------------------------------------------------
(* The companion's loop: it sends a queued frame if there is one, else it  *)
(* reads a command, else it goes on with an unfinished contacts stream.    *)

Queued == Len(pipe) - sent

Enqueue(f) == IF Queued < RetainedFrames THEN Append(pipe, f) ELSE pipe

Send ==
  /\ Queued > 0
  /\ sent' = sent + 1
  /\ UNCHANGED <<stage, self_run, self_key, device_info, to_write, commands,
                 pipe, iterator, pushes, connections, disturbed>>

\* The replies to a command; the second one is a refusal, because the
\* firmware is too old or does not reset the scope.
Reply(command) ==
  CASE command = "app_start" -> {"self_info"}
    [] command = "device_query" -> {"device_info", "unsupported"}
    [] OTHER -> {"ok", "err"}

\* A command is executed and answered; the reply may be lost.
Handle ==
  /\ Queued = 0
  /\ commands # <<>>
  /\ \/ \E code \in Reply(Head(commands)) :
          /\ pipe' = Enqueue([code |-> code, stale |-> FALSE])
          /\ disturbed' = (disturbed \/ code \in {"unsupported", "err"})
     \/ /\ pipe' = pipe
        /\ disturbed' = TRUE
  /\ commands' = Tail(commands)
  /\ iterator' = IF Head(commands) = "app_start" THEN 0 ELSE iterator
  /\ UNCHANGED <<stage, self_run, self_key, device_info, to_write, sent,
                 pushes, connections>>

Iterate ==
  /\ Queued = 0
  /\ commands = <<>>
  /\ iterator > 0
  /\ pipe' = Enqueue([code |-> "contact", stale |-> TRUE])
  /\ iterator' = iterator - 1
  /\ UNCHANGED <<stage, self_run, self_key, device_info, to_write, commands,
                 sent, pushes, connections, disturbed>>

PushFrame ==
  /\ pushes < MaxPushes
  /\ pushes' = pushes + 1
  /\ pipe' = Enqueue([code |-> "push", stale |-> FALSE])
  /\ UNCHANGED <<stage, self_run, self_key, device_info, to_write, commands,
                 sent, iterator, connections, disturbed>>

-----------------------------------------------------------------------------

Receive ==
  ReceivePush \/ ReceiveSelfInfo \/ ReceiveDeviceInfo \/ ReceiveOther
    \/ ReceiveScopeReply

CompanionLoop == Send \/ Handle \/ Iterate

StartupNext ==
  WriteProbe \/ Receive \/ Abort \/ Connect \/ CompanionLoop \/ PushFrame

StartupSpec == StartupInit /\ [][StartupNext]_startupVars

\* The writer fiber and the coordinator keep running and so does the
\* companion's loop.
FairStartupSpec ==
  /\ StartupSpec
  /\ WF_startupVars(WriteProbe)
  /\ WF_startupVars(Receive)
  /\ WF_startupVars(CompanionLoop)

-----------------------------------------------------------------------------
(* Properties *)

\* The identity and the device that an epoch begins with were reported by the
\* companion to this connection, whatever mixture of SELF_INFO, DEVICE_INFO
\* and other replies an earlier connection has left behind.
FreshIdentity ==
  stage \in {"scope", "ready"} =>
    self_key = "fresh" /\ device_info = "fresh"

Codes ==
  {"self_info", "device_info", "unsupported", "ok", "err", "contact", "push"}
    \cup StaleCodes
Frames == [code : Codes, stale : BOOLEAN]
Commands == {"app_start", "device_query", "set_flood_scope_key"}

StartupTypeOK ==
  /\ stage \in {"fence", "scope", "ready", "error"}
  /\ self_run \in Nat
  /\ self_key \in {"none", "stale", "fresh"}
  /\ device_info \in {"none", "stale", "fresh"}
  /\ to_write \in Seq(Commands)
  /\ commands \in Seq(Commands)
  /\ pipe \in Seq(Frames)
  /\ sent \in 0 .. Len(pipe)
  /\ iterator \in Nat
  /\ pushes \in Nat
  /\ connections \in Nat
  /\ disturbed \in BOOLEAN

\* The first k frames on their way are all that is left of the queue that the
\* connection began with; an old frame behind them is only a contact.  Old
\* SELF_INFOs already counted and frames still ahead fit that queue together.
Leftovers(k) ==
  /\ \A i \in 1 .. k : pipe[i].stale
  /\ \A i \in k + 1 .. Len(pipe) :
       pipe[i].stale => pipe[i].code \in {"contact", "push"}
  /\ IF self_key = "fresh" THEN k = 0 ELSE self_run + k <= RetainedFrames

\* Why FreshIdentity holds: as long as the last SELF_INFO is an old one, fewer
\* of them have been counted than the fence asks for; once it is a new one,
\* no old DEVICE_INFO is ahead.  (The inductive invariant of StartupProofs.)
StartupInv ==
  /\ StartupTypeOK
  /\ Len(pipe) - sent <= RetainedFrames
  /\ FreshIdentity
  /\ stage = "fence" => \E k \in 0 .. Len(pipe) : Leftovers(k)

\* When the epoch begins nothing but pushes is on its way and no command of
\* the handshake is left to be answered, so that the first ordinary reply the
\* broker sees answers the first command it sends.
ReadyIsClean ==
  stage = "ready" =>
    /\ \A i \in DOMAIN pipe : pipe[i].code = "push"
    /\ commands = <<>>
    /\ to_write = <<>>
    /\ iterator = 0

\* A startup in which no reply is lost, nothing is refused and neither deadline
\* nor connection gives out reaches readiness: what earlier connections have
\* left behind never makes the fence fail or wait.
StartupCompletes == (stage = "fence") ~> (stage = "ready" \/ disturbed)
=============================================================================
