----------------------------- MODULE Transport -----------------------------
(***************************************************************************)
(* The socket endpoints.  Each has a reader and a writer fiber, which hand *)
(* their events to the coordinator over channels without buffer, and a     *)
(* bounded queue of writes.  The coordinator receives events, queues       *)
(* writes and stops endpoints; while it waits in stop for the two fibers   *)
(* it receives nothing.  A signal or an acceptor closes all sockets from   *)
(* outside (Runtime#request_stop).                                         *)
(*                                                                         *)
(* Writes of an endpoint are numbered in the order they are accepted.      *)
(***************************************************************************)
EXTENDS Naturals, Sequences

CONSTANTS
  Endpoints,       \* ids of endpoints: 0 is upstream, the others clients
  OutputCapacity,  \* size of the write queue
  MaxWrites,       \* bound on the writes accepted, for each endpoint
  MaxFrames,       \* bound on the frames the peer sends, likewise
  None             \* no endpoint

ASSUME TransportAssumption ==
  /\ OutputCapacity \in Nat \ {0}
  /\ MaxWrites \in [Endpoints -> Nat]
  /\ MaxFrames \in [Endpoints -> Nat]
  /\ None \notin Endpoints

VARIABLES
  stopped,        \* @stopped; @cancel and @writes are closed with it
  open,           \* the socket has not been closed on this side
  reader,         \* [at, frames, spoiled]: what the reader is doing, frames of
                  \* the chunk it still has to publish, whether malformed
                  \* input follows them
  arrived,        \* number of frames read
  writer,         \* [at, id]: what the writer is doing, and with which write
  writes,         \* @writes
  accepted,       \* number of writes accepted
  wire,           \* history: writes that reached the socket
  settled,        \* history: writes whose Written event was received
  failures,       \* history: a Closed or WriteFailed event was received
  stopping,       \* endpoint whose stop the coordinator is in
  stop_requested  \* @stop_requested

transportVars == <<stopped, open, reader, arrived, writer, writes, accepted,
                   wire, settled, failures, stopping, stop_requested>>

readerVars == <<reader, arrived>>
writerVars == <<writer, writes, wire>>
coordinatorVars ==
  <<stopped, accepted, settled, failures, stopping, stop_requested>>

Reading == [at |-> "read", frames |-> 0, spoiled |-> FALSE]
Closing == [Reading EXCEPT !.at = "closed"]
ReaderDone == [Reading EXCEPT !.at = "done"]

Writer(at, id) == [at |-> at, id |-> id]
WriterDone == Writer("done", 0)

TransportInit ==
  /\ stopped = [e \in Endpoints |-> FALSE]
  /\ open = [e \in Endpoints |-> TRUE]
  /\ reader = [e \in Endpoints |-> Reading]
  /\ arrived = [e \in Endpoints |-> 0]
  /\ writer = [e \in Endpoints |-> Writer("select", 0)]
  /\ writes = [e \in Endpoints |-> <<>>]
  /\ accepted = [e \in Endpoints |-> 0]
  /\ wire = [e \in Endpoints |-> <<>>]
  /\ settled = [e \in Endpoints |-> {}]
  /\ failures = [e \in Endpoints |-> FALSE]
  /\ stopping = None
  /\ stop_requested = FALSE

-----------------------------------------------------------------------------
(* The reader fiber *)

\* The fiber raises: it publishes Closed unless the endpoint is stopped.
Raised(e) == IF stopped[e] THEN ReaderDone ELSE Closing

\* A read returns n whole frames, and perhaps malformed input behind them.
ReadChunk(e) ==
  /\ reader[e].at = "read"
  /\ open[e]
  /\ \E n \in 0 .. MaxFrames[e] - arrived[e], bad \in BOOLEAN :
       /\ n > 0 \/ bad
       /\ arrived' = [arrived EXCEPT ![e] = @ + n]
       /\ reader' = [reader EXCEPT ![e] =
            IF n > 0
            THEN [at |-> "frame", frames |-> n, spoiled |-> bad]
            ELSE Raised(e)]
  /\ UNCHANGED <<open, writerVars, coordinatorVars>>

\* End of file, a reset, the frame deadline, or the socket was closed here.
ReadFails(e) ==
  /\ reader[e].at = "read"
  /\ reader' = [reader EXCEPT ![e] = Raised(e)]
  /\ UNCHANGED <<arrived, open, writerVars, coordinatorVars>>

\* A read times out every 200 ms, after which @stopped is looked at.
ReadTimeout(e) ==
  /\ reader[e].at = "read"
  /\ stopped[e]
  /\ reader' = [reader EXCEPT ![e] = ReaderDone]
  /\ UNCHANGED <<arrived, open, writerVars, coordinatorVars>>

\* publish returns because @cancel is closed.
NeverCancelled(e) == FALSE
Cancelled(e) == stopped[e]

ReaderCancelled(e) ==
  /\ Cancelled(e)
  /\ reader[e].at \in {"frame", "closed"}
  /\ reader' = [reader EXCEPT ![e] = ReaderDone]
  /\ UNCHANGED <<arrived, open, writerVars, coordinatorVars>>

\* What the reader does when its event has been received.
AfterPublish(e) ==
  CASE reader[e].at = "closed" -> ReaderDone
    [] reader[e].frames > 1 -> [reader[e] EXCEPT !.frames = @ - 1]
    [] reader[e].spoiled -> Raised(e)
    [] stopped[e] -> ReaderDone
    [] OTHER -> Reading

-----------------------------------------------------------------------------
(* The writer fiber *)

\* The writer's select: a queued write, a closed channel, or it blocks.
WriterSelects(e) ==
  /\ writer[e].at = "select"
  /\ \/ /\ writes[e] # <<>>
        /\ writer' = [writer EXCEPT ![e] = Writer("write", Head(writes[e]))]
        /\ writes' = [writes EXCEPT ![e] = Tail(@)]
     \/ /\ stopped[e]
        /\ writer' = [writer EXCEPT ![e] = WriterDone]
        /\ UNCHANGED writes
     \/ /\ ~ stopped[e]
        /\ writes[e] = <<>>
        /\ writer' = [writer EXCEPT ![e] = Writer("blocked", 0)]
        /\ UNCHANGED writes
  /\ UNCHANGED <<wire, open, readerVars, coordinatorVars>>

\* Closing @cancel and @writes wakes a writer that is blocked.
WriterSleeps(e) == UNCHANGED transportVars
WriterWakes(e) ==
  /\ writer[e].at = "blocked"
  /\ stopped[e]
  /\ writer' = [writer EXCEPT ![e] = WriterDone]
  /\ UNCHANGED <<writes, wire, open, readerVars, coordinatorVars>>

SocketWrites(e) ==
  /\ writer[e].at = "write"
  /\ open[e]
  /\ wire' = [wire EXCEPT ![e] = Append(@, writer[e].id)]
  /\ writer' = [writer EXCEPT ![e].at = "written"]
  /\ UNCHANGED <<writes, open, readerVars, coordinatorVars>>

\* A write fails, perhaps with a part of the frame sent.
FailsInSilence(e) == WriterDone
WriteFailed(e) ==
  IF stopped[e] THEN WriterDone ELSE Writer("failed", writer[e].id)

WriteFails(e) ==
  /\ writer[e].at = "write"
  /\ writer' = [writer EXCEPT ![e] = WriteFailed(e)]
  /\ UNCHANGED <<writes, wire, open, readerVars, coordinatorVars>>

WriterCancelled(e) ==
  /\ Cancelled(e)
  /\ writer[e].at \in {"written", "failed"}
  /\ writer' = [writer EXCEPT ![e] = WriterDone]
  /\ UNCHANGED <<writes, wire, open, readerVars, coordinatorVars>>

\* The writer ends after a failure; it goes on after a success.
WriterGoesOn(e) == Writer("select", 0)
AfterEvent(e) ==
  IF writer[e].at = "failed" THEN WriterDone ELSE Writer("select", 0)

-----------------------------------------------------------------------------
(* The coordinator *)

ReceiveFromReader(e) ==
  /\ stopping = None
  /\ reader[e].at \in {"frame", "closed"}
  /\ reader' = [reader EXCEPT ![e] = AfterPublish(e)]
  /\ failures' = [failures EXCEPT ![e] = @ \/ reader[e].at = "closed"]
  /\ UNCHANGED <<arrived, open, writerVars, stopped, accepted, settled,
                 stopping, stop_requested>>

ReceiveFromWriter(e) ==
  /\ stopping = None
  /\ writer[e].at \in {"written", "failed"}
  /\ writer' = [writer EXCEPT ![e] = AfterEvent(e)]
  /\ IF writer[e].at = "written"
     THEN /\ settled' = [settled EXCEPT ![e] = @ \cup {writer[e].id}]
          /\ UNCHANGED failures
     ELSE /\ failures' = [failures EXCEPT ![e] = TRUE]
          /\ UNCHANGED settled
  /\ UNCHANGED <<writes, wire, open, readerVars, stopped, accepted, stopping,
                 stop_requested>>

\* A writer that is blocked gets the write at once; otherwise it is queued.
\* A full queue refuses it, and the coordinator will stop the endpoint.
Enqueue(e) ==
  /\ stopping = None
  /\ ~ stopped[e]
  /\ accepted[e] < MaxWrites[e]
  /\ \/ /\ writer[e].at = "blocked"
        /\ writer' = [writer EXCEPT ![e] = Writer("write", accepted[e] + 1)]
        /\ UNCHANGED writes
     \/ /\ writer[e].at # "blocked"
        /\ Len(writes[e]) < OutputCapacity
        /\ writes' = [writes EXCEPT ![e] = Append(@, accepted[e] + 1)]
        /\ UNCHANGED writer
  /\ accepted' = [accepted EXCEPT ![e] = @ + 1]
  /\ UNCHANGED <<wire, open, readerVars, stopped, settled, failures, stopping,
                 stop_requested>>

\* stop, up to the joins.
Stop(e) ==
  /\ stopping = None
  /\ ~ stopped[e]
  /\ stopped' = [stopped EXCEPT ![e] = TRUE]
  /\ open' = [open EXCEPT ![e] = FALSE]
  /\ stopping' = e
  /\ UNCHANGED <<readerVars, writerVars, accepted, settled, failures,
                 stop_requested>>

OneDone(e) == reader[e].at = "done" \/ writer[e].at = "done"
BothDone(e) == reader[e].at = "done" /\ writer[e].at = "done"

\* Both fibers have signalled @done: stop returns.
Joined(e) ==
  /\ stopping = e
  /\ BothDone(e)
  /\ stopping' = None
  /\ UNCHANGED <<open, readerVars, writerVars, stopped, accepted, settled,
                 failures, stop_requested>>

\* Another fiber wants the process to end: it closes every socket, but leaves
\* the endpoints to the coordinator.
RequestStop ==
  /\ ~ stop_requested
  /\ stop_requested' = TRUE
  /\ open' = [e \in Endpoints |-> FALSE]
  /\ UNCHANGED <<readerVars, writerVars, stopped, accepted, settled, failures,
                 stopping>>

-----------------------------------------------------------------------------

ReaderStep(e) ==
  ReadChunk(e) \/ ReadFails(e) \/ ReadTimeout(e) \/ ReaderCancelled(e)

WriterStep(e) ==
  \/ WriterSelects(e)
  \/ WriterWakes(e)
  \/ SocketWrites(e)
  \/ WriteFails(e)
  \/ WriterCancelled(e)

CoordinatorStep(e) ==
  \/ ReceiveFromReader(e)
  \/ ReceiveFromWriter(e)
  \/ Enqueue(e)
  \/ Stop(e)
  \/ Joined(e)

TransportNext ==
  \/ \E e \in Endpoints : ReaderStep(e) \/ WriterStep(e) \/ CoordinatorStep(e)
  \/ RequestStop

TransportSpec == TransportInit /\ [][TransportNext]_transportVars

\* A fiber that can go on does.  A read ends only if the socket is closed
\* here or the endpoint is stopped: a peer may be silent for ever.
ReaderMustStep(e) ==
  \/ ~ open[e] /\ ReadFails(e)
  \/ ReadTimeout(e)
  \/ ReaderCancelled(e)

\* The coordinator's loop receives what is offered, returns from stop, and
\* stops every endpoint once the process is to end.
TransportFairness ==
  \A e \in Endpoints :
    /\ WF_transportVars(ReaderMustStep(e))
    /\ WF_transportVars(WriterStep(e))
    /\ WF_transportVars(ReceiveFromReader(e))
    /\ WF_transportVars(ReceiveFromWriter(e))
    /\ WF_transportVars(Joined(e) \/ (stop_requested /\ Stop(e)))

FairTransportSpec == TransportSpec /\ TransportFairness

-----------------------------------------------------------------------------
(* Properties *)

\* The writes that reach a socket are the accepted ones, in order, each once
\* and without a gap: nothing is written behind a write that failed, where the
\* peer would take it for the rest of a torn frame.
WritesInOrder ==
  \A e \in Endpoints :
    /\ \A i \in DOMAIN wire[e] : wire[e][i] = i
    /\ settled[e] \subseteq 1 .. Len(wire[e])

\* No event of a stopped endpoint is handled: neither while stop waits, nor
\* after it has returned and its session number has been forgotten.
NoEventAfterStop ==
  [][\A e \in Endpoints :
       ReceiveFromReader(e) \/ ReceiveFromWriter(e) => ~ stopped[e]
    ]_transportVars

\* stop returns, although each fiber may be blocked handing an event to the
\* very coordinator that waits for it, in a read, or in a write.
StopReturns ==
  \A e \in Endpoints : (stopping = e) ~> (stopping = None)

\* An accepted write is reported as written, or the coordinator learns that the
\* connection is broken, or it has stopped the endpoint itself: no transaction
\* waits for its write for ever.
WritesSettle ==
  \A e \in Endpoints : \A i \in 1 .. MaxWrites[e] :
    (accepted[e] >= i) ~> (i \in settled[e] \/ failures[e] \/ stopped[e])

\* Once the process is to end every fiber ends, whatever it was doing when the
\* sockets were closed under it.
ShutdownJoins ==
  stop_requested ~> (stopping = None /\ \A e \in Endpoints : BothDone(e))
=============================================================================
