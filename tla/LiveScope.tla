----------------------------- MODULE LiveScope -----------------------------
(***************************************************************************)
(* check_scope.py: the script that sends one request with a temporary      *)
(* flood scope and reports "ok" if the commands that crossed the relay     *)
(* were the setup of that scope, the request, the restoration of the       *)
(* default and then the clock query of another client.                     *)
(*                                                                         *)
(* It starts, reads and stops the multiplexer and the relay the way        *)
(* LiveReconnect does, with "old-a" as the scope's owner and "old-b" as    *)
(* the observer, and waits for the request as RemoteRequests does.  The    *)
(* relay keeps the opcode and the length of a frame and not its payload.   *)
(* In the conduct "unruly" the multiplexer sends and answers as it likes,  *)
(* one exchange after the other; that it may also pipeline its commands    *)
(* and fail is the business of LiveReconnect.                              *)
(***************************************************************************)
EXTENDS LiveReconnect, SequencesExt

CONSTANT Modes   \* the values of --mode that are run

ASSUME LiveScopeAssumption ==
  /\ Modes \subseteq {"test", "unscoped"}
  /\ {"scope", "default", "status"} \subseteq Commands
  /\ {"ok", "sent"} \subseteq Responses

VARIABLES
  frame_history,  \* scope, status and clock commands from history_start on
  order           \* history: the same at the companion

scopeVars == <<frame_history, order>>
checkVars == <<reconnectVars, scopeVars>>

\* "scope" is SET_FLOOD_SCOPE_KEY with the temporary scope, "default" the same
\* command with the default scope.
Watched == {"scope", "default", "status", "time"}

\* What the relay knows of a command: its opcode and the bytes of its frame.
Frame(op) ==
  CASE op = "scope" -> <<54, IF scenario = "test" THEN 21 ELSE 5>>
    [] op = "default" -> <<54, 5>>
    [] op = "status" -> <<27, 36>>
    [] OTHER -> <<5, 4>>

Frames(ops) == [i \in DOMAIN ops |-> Frame(ops[i])]
Opcodes(ops) == [i \in DOMAIN ops |-> Frame(ops[i])[1]]
ExpectedOrder == <<"scope", "status", "default", "time">>

\* From the selection of the scope on, commands are recorded.
Recording ==
  pc \notin {"spawn", "generation_1", "ready_1", "connect_1", "contacts",
             "selecting"}

\* The relay's record of a command that it copies.
RecordFrame(c) ==
  frame_history' = IF up' # up /\ Recording /\ Head(up[c]) \in Watched
                   THEN Append(frame_history, Head(up[c])) ELSE frame_history

RecordOrder ==
  order' = IF fwd' = fwd THEN order
           ELSE LET c == CHOOSE d \in Conns : fwd'[d] # fwd[d]
                IN IF Recording /\ Head(fwd[c]) \in Watched
                   THEN Append(order, Head(fwd[c])) ELSE order

-----------------------------------------------------------------------------
(* The multiplexer.  A good one answers the choice of a scope itself and   *)
(* wraps the next request in its setup and restoration.                    *)

Virtual == <<"old-a", "virtual">>

Scoped == << <<"mux", "scope">>, <<"old-a", "status">>, <<"mux", "default">> >>

AnswerLocally ==
  /\ stage = "ready"
  /\ pending # <<>>
  /\ \/ Head(pending) = Virtual
     \/ conduct = "unruly" /\ Recording /\ Quiet(link)
  /\ pending' = Tail(pending)
  /\ clients' = [c \in DOMAIN clients |->
                   IF c = Head(pending)[1] THEN "open" ELSE clients[c]]
  /\ UNCHANGED <<relayVars, process, link, stage, epoch, outstanding,
                 scriptVars, ready, executed, got>>

\* Any other may send these commands when it likes, until the order is wrong
\* (a bound: what follows can not make it right).
SendUnasked ==
  /\ stage = "ready"
  /\ conduct = "unruly"
  /\ Recording /\ pc \notin Cleanup
  /\ Quiet(link)
  /\ IsPrefix(Opcodes(frame_history), Opcodes(ExpectedOrder))
  /\ \E op \in Watched : MuxSends(link, op)
  /\ UNCHANGED <<muxVars, scriptVars, otherVars>>

-----------------------------------------------------------------------------
(* run() *)

\* Any epoch will do here.
AwaitReady ==
  /\ Goto("ready_1", "connect_1")
  /\ Take(ready)
  /\ UNCHANGED <<relayVars, muxVars, clients, executed, got>>

ScopeSetup ==
  \/ Spawn
  \/ ExpectGeneration(1, "generation_1", "ready_1")
  \/ AwaitReady
  \/ ConnectPair(Old, "connect_1", "contacts")

AskContacts ==
  /\ Goto("contacts", "selecting")
  /\ Ask(Request("old-a", "contacts"), {"old-a"})
  /\ UNCHANGED <<relayVars, ready, executed, got>>

\* The target is one contact, and the scope is chosen for this session.
SelectScope ==
  /\ Goto("selecting", "selected")
  /\ clients["old-a"] = "open"
  /\ Ask(Request("old-a", "virtual"), {"old-a"})
  /\ UNCHANGED <<relayVars, ready, executed, got>>

ScopeNotSent ==
  \A i \in DOMAIN frame_history : frame_history[i] \notin {"scope", "default"}

SendStatus ==
  /\ Goto("selected", "sent")
  /\ clients["old-a"] = "open"
  /\ ScopeNotSent
  /\ pending' = pending \o Scoped
  /\ clients' = [clients EXCEPT !["old-a"] = "waiting"]
  /\ UNCHANGED <<relayVars, process, link, stage, epoch, outstanding, ready,
                 executed, got>>

\* The request is accepted: the observer's clock query begins.
StatusAccepted ==
  /\ Goto("sent", "gather")
  /\ clients["old-a"] = "open"
  /\ Ask(Request("old-b", "time"), {"old-b"})
  /\ UNCHANGED <<relayVars, ready, executed, got>>

\* The request is refused, or not answered in time.
StatusRejected ==
  /\ conduct = "unruly"
  /\ Goto("sent", "reset_scope")
  /\ UNCHANGED <<relayVars, muxVars, otherVars>>

\* With a result of the request or without one.
ClockRead ==
  /\ Goto("gather", "reset_scope")
  /\ clients["old-b"] = "open"
  /\ UNCHANGED <<relayVars, muxVars, otherVars>>

ResetScope ==
  /\ Goto("reset_scope", "compare")
  /\ Ask(Request("old-a", "virtual"), {"old-a"})
  /\ UNCHANGED <<relayVars, ready, executed, got>>

\* Mutant of OrderMatches: the opcodes alone.
OpcodesMatch(ops) == Opcodes(ops) = Opcodes(ExpectedOrder)

OrderMatches(ops) == Frames(ops) = Frames(ExpectedOrder)

CompareOrder ==
  /\ pc = "compare"
  /\ clients["old-a"] = "open"
  /\ OrderMatches(frame_history)
  /\ pc' = "finally"
  /\ verdict' = "ok"
  /\ UNCHANGED <<scenario, conduct, relayVars, muxVars, otherVars>>

\* A wait that times out does so when nothing moves any more.
ScopeRaise ==
  /\ link # 0 => Quiet(link)
  /\ Raise

ScopeScript ==
  \/ ScopeSetup \/ AskContacts \/ SelectScope \/ SendStatus
  \/ StatusAccepted \/ StatusRejected \/ ClockRead \/ ResetScope
  \/ CompareOrder \/ ScopeRaise

-----------------------------------------------------------------------------
(* Both scripts: scenario is that of LiveReconnect, or the mode of this.   *)

InScope == scenario \in {"test", "unscoped"}

CheckInit ==
  /\ ReconnectInit \/ ScriptInit(Modes, {"good", "unruly"})
  /\ frame_history = <<>>
  /\ order = <<>>

CopyTask(c) ==
  /\ HandlerTask(c)
  /\ IF InScope THEN RecordFrame(c) ELSE UNCHANGED frame_history
  /\ UNCHANGED order

CompanionTurn ==
  /\ CompanionStep
  /\ IF InScope THEN RecordOrder ELSE UNCHANGED order
  /\ UNCHANGED frame_history

MuxTurn ==
  /\ MuxStep \/ (InScope /\ (AnswerLocally \/ SendUnasked))
  /\ UNCHANGED scopeVars

ScriptTurn ==
  /\ IF InScope THEN ScopeScript ELSE ScriptStep
  /\ UNCHANGED scopeVars

\* The finally clauses of the two scripts are the same.
CleanupTurn == CleanupStep /\ UNCHANGED scopeVars

CloseTurn == CloseTask /\ UNCHANGED scopeVars

CheckNext ==
  \/ \E c \in Conns : CopyTask(c)
  \/ CloseTurn
  \/ CompanionTurn
  \/ MuxTurn
  \/ ScriptTurn
  \/ CleanupTurn

CheckSpec == CheckInit /\ [][CheckNext]_checkVars

\* The event loop runs every task that can run, every wait of the script ends
\* (with a timeout, if nothing else), and a good multiplexer and its companion
\* go on.
FairCheckSpec ==
  /\ CheckSpec
  /\ \A c \in Conns : WF_checkVars(CopyTask(c))
  /\ WF_checkVars(CloseTurn)
  /\ WF_checkVars(ScriptTurn \/ CleanupTurn)
  /\ WF_checkVars(Good /\ CompanionTurn)
  /\ WF_checkVars(Good /\ MuxTurn)

-----------------------------------------------------------------------------
(* Properties *)

\* "ok" means that the commands reached the companion in that order, with the
\* request between a temporary scope and the default, whatever the multiplexer
\* sent and answered.  (Where the two scopes have frames of one length the
\* script can only tell that there were two of them.)
ScopeOrderShown ==
  verdict = "ok" /\ InScope =>
    \/ IsPrefix(Frames(order), Frames(ExpectedOrder))
    \/ IsPrefix(Frames(ExpectedOrder), Frames(order))
=============================================================================
