-------------------------- MODULE TransportProofs --------------------------
(***************************************************************************)
(* For any number of endpoints, any capacity of the write queue and any    *)
(* number of writes and frames: the writes that reach a socket are the     *)
(* accepted ones in order and without a gap, and no event of a stopped     *)
(* endpoint is ever received.                                              *)
(*                                                                         *)
(* The invariant: as long as the writer is neither done nor about to       *)
(* report a failure, the writes that are on the wire, the one in its       *)
(* hands, and those in the queue are together exactly the accepted ones,   *)
(* in this order; and an endpoint that was stopped either still holds the  *)
(* coordinator in stop, or has neither of its fibers left.                 *)
(***************************************************************************)
EXTENDS Transport, SequenceTheorems, TLAPS

ReaderStates ==
  [at : {"read", "frame", "closed", "done"}, frames : Nat, spoiled : BOOLEAN]
WriterStates ==
  [at : {"select", "blocked", "write", "written", "failed", "done"}, id : Nat]

TransportTypeOK ==
  /\ stopped \in [Endpoints -> BOOLEAN]
  /\ open \in [Endpoints -> BOOLEAN]
  /\ reader \in [Endpoints -> ReaderStates]
  /\ arrived \in [Endpoints -> Nat]
  /\ writer \in [Endpoints -> WriterStates]
  /\ writes \in [Endpoints -> Seq(Nat)]
  /\ accepted \in [Endpoints -> Nat]
  /\ wire \in [Endpoints -> Seq(Nat)]
  /\ settled \in [Endpoints -> SUBSET Nat]
  /\ failures \in [Endpoints -> BOOLEAN]
  /\ stopping \in Endpoints \cup {None}
  /\ stop_requested \in BOOLEAN

\* The queue holds the writes after the first k, up to the last accepted one.
QueueFollows(e, k) ==
  /\ accepted[e] = k + Len(writes[e])
  /\ \A i \in 1 .. Len(writes[e]) : writes[e][i] = k + i

\* The write in the hands of the writer follows those on the wire, and the
\* queue follows it.
NoGap(e) ==
  LET n == Len(wire[e])
      at == writer[e].at
  IN  /\ at \in {"select", "blocked"} => QueueFollows(e, n)
      /\ at = "blocked" => writes[e] = <<>>
      /\ at = "write" => writer[e].id = n + 1 /\ QueueFollows(e, n + 1)
      /\ at = "written" =>
           n > 0 /\ writer[e].id = n /\ QueueFollows(e, n)

WireInOrder(e) ==
  /\ \A i \in 1 .. Len(wire[e]) : wire[e][i] = i
  /\ settled[e] \subseteq 1 .. Len(wire[e])

OutputInv == \A e \in Endpoints : NoGap(e) /\ WireInOrder(e)

\* stop does not return before both fibers have ended.
JoinInv == \A e \in Endpoints : stopped[e] => stopping = e \/ BothDone(e)

TransportInv == TransportTypeOK /\ OutputInv /\ JoinInv

-----------------------------------------------------------------------------
(* Types *)

WriterPlaces == {"select", "blocked", "write", "written", "failed", "done"}

LEMMA WriterType ==
  /\ \A at \in WriterPlaces, id \in Nat : Writer(at, id) \in WriterStates
  /\ \A at \in WriterPlaces, id \in Nat :
       Writer(at, id).at = at /\ Writer(at, id).id = id
  /\ WriterDone \in WriterStates
  /\ WriterDone.at = "done"
BY DEF Writer, WriterDone, WriterStates, WriterPlaces

LEMMA TransportTypeInit == TransportInit => TransportTypeOK
<1> SUFFICES ASSUME TransportInit PROVE TransportTypeOK
  OBVIOUS
<1>1. reader \in [Endpoints -> ReaderStates]
  BY DEF TransportInit, Reading, ReaderStates
<1>2. writer \in [Endpoints -> WriterStates]
  BY WriterType DEF TransportInit, WriterPlaces
<1>3. stop_requested \in BOOLEAN
  BY Zenon DEF TransportInit
<1>4. /\ stopped \in [Endpoints -> BOOLEAN]
      /\ open \in [Endpoints -> BOOLEAN]
      /\ failures \in [Endpoints -> BOOLEAN]
  BY DEF TransportInit
<1> QED
  BY <1>1, <1>2, <1>3, <1>4 DEF TransportInit, TransportTypeOK

LEMMA AfterPublishType ==
  ASSUME TransportTypeOK, NEW e \in Endpoints
  PROVE  /\ AfterPublish(e) \in ReaderStates
         /\ Raised(e) \in ReaderStates
         /\ ReaderDone \in ReaderStates
<1>1. reader[e] \in ReaderStates
  BY DEF TransportTypeOK
<1>2. /\ Reading \in ReaderStates
      /\ ReaderDone \in ReaderStates
      /\ Closing \in ReaderStates
  BY DEF Reading, ReaderDone, Closing, ReaderStates
<1>3. Raised(e) \in ReaderStates
  BY <1>2 DEF Raised
<1>4. ASSUME reader[e].frames > 1
      PROVE  [reader[e] EXCEPT !.frames = @ - 1] \in ReaderStates
  BY <1>1, <1>4 DEF ReaderStates
<1> QED
  BY <1>2, <1>3, <1>4 DEF AfterPublish

LEMMA ReaderStepType ==
  ASSUME TransportTypeOK, NEW e \in Endpoints, ReaderStep(e)
  PROVE  TransportTypeOK'
<1>1. UNCHANGED <<open, writerVars, coordinatorVars>>
  BY DEF ReaderStep, ReadChunk, ReadFails, ReadTimeout, ReaderCancelled
<1>2. reader' \in [Endpoints -> ReaderStates]
      /\ arrived' \in [Endpoints -> Nat]
  <2>1. CASE ReadChunk(e)
    <3>1. PICK n \in 0 .. MaxFrames[e] - arrived[e], bad \in BOOLEAN :
            /\ arrived' = [arrived EXCEPT ![e] = @ + n]
            /\ reader' = [reader EXCEPT ![e] =
                 IF n > 0
                 THEN [at |-> "frame", frames |-> n, spoiled |-> bad]
                 ELSE Raised(e)]
      BY <2>1 DEF ReadChunk
    <3>2. n \in Nat /\ arrived[e] \in Nat
      BY TransportAssumption DEF TransportTypeOK
    <3>3. [at |-> "frame", frames |-> n, spoiled |-> bad] \in ReaderStates
      BY <3>2 DEF ReaderStates
    <3> QED
      BY <3>1, <3>2, <3>3, AfterPublishType DEF TransportTypeOK
  <2>2. CASE ReadFails(e) \/ ReadTimeout(e) \/ ReaderCancelled(e)
    BY <2>2, AfterPublishType
       DEF ReadFails, ReadTimeout, ReaderCancelled, TransportTypeOK
  <2> QED
    BY <2>1, <2>2 DEF ReaderStep
<1> QED
  BY <1>1, <1>2 DEF TransportTypeOK, writerVars, coordinatorVars

LEMMA WriterStepType ==
  ASSUME TransportTypeOK, NEW e \in Endpoints, WriterStep(e)
  PROVE  TransportTypeOK'
<1>1. UNCHANGED <<open, readerVars, coordinatorVars>>
  BY DEF WriterStep, WriterSelects, WriterWakes, SocketWrites, WriteFails,
         WriterCancelled
<1>2. writer[e] \in WriterStates /\ writes[e] \in Seq(Nat)
      /\ wire[e] \in Seq(Nat)
  BY DEF TransportTypeOK
<1>3. /\ writer' \in [Endpoints -> WriterStates]
      /\ writes' \in [Endpoints -> Seq(Nat)]
      /\ wire' \in [Endpoints -> Seq(Nat)]
  <2>1. CASE WriterSelects(e)
    <3>1. wire' = wire
      BY <2>1 DEF WriterSelects
    <3>2. CASE /\ writes[e] # <<>>
               /\ writer' = [writer EXCEPT ![e] =
                               Writer("write", Head(writes[e]))]
               /\ writes' = [writes EXCEPT ![e] = Tail(@)]
      <4>1. Head(writes[e]) \in Nat /\ Tail(writes[e]) \in Seq(Nat)
        BY <1>2, <3>2, HeadTailProperties
      <4>2. Writer("write", Head(writes[e])) \in WriterStates
        BY <4>1, WriterType DEF WriterPlaces
      <4> QED
        BY <3>1, <3>2, <4>1, <4>2 DEF TransportTypeOK
    <3>3. CASE /\ \/ writer' = [writer EXCEPT ![e] = WriterDone]
                  \/ writer' = [writer EXCEPT ![e] = Writer("blocked", 0)]
               /\ writes' = writes
      <4>1. Writer("blocked", 0) \in WriterStates
        BY WriterType DEF WriterPlaces
      <4> QED
        BY <3>1, <3>3, <4>1, WriterType DEF TransportTypeOK
    <3> QED
      BY <2>1, <3>2, <3>3 DEF WriterSelects
  <2>2. CASE SocketWrites(e)
    <3>1. Append(wire[e], writer[e].id) \in Seq(Nat)
      BY <1>2, AppendProperties DEF WriterStates
    <3> QED
      BY <3>1, <1>2, <2>2 DEF SocketWrites, TransportTypeOK, WriterStates
  <2>3. CASE WriterWakes(e) \/ WriteFails(e) \/ WriterCancelled(e)
    <3>1. writer[e].id \in Nat
      BY <1>2 DEF WriterStates
    <3>2. WriteFailed(e) \in WriterStates
      BY <3>1, WriterType DEF WriteFailed, WriterPlaces
    <3> QED
      <4>1. \/ writer' = [writer EXCEPT ![e] = WriterDone]
            \/ writer' = [writer EXCEPT ![e] = WriteFailed(e)]
        BY <2>3 DEF WriterWakes, WriteFails, WriterCancelled
      <4>2. writes' = writes /\ wire' = wire
        BY <2>3 DEF WriterWakes, WriteFails, WriterCancelled
      <4> QED
        BY <3>2, <4>1, <4>2, WriterType DEF TransportTypeOK
  <2> QED
    BY <2>1, <2>2, <2>3 DEF WriterStep
<1> QED
  BY <1>1, <1>3 DEF TransportTypeOK, readerVars, coordinatorVars

LEMMA CoordinatorStepType ==
  ASSUME TransportTypeOK, NEW e \in Endpoints, CoordinatorStep(e)
  PROVE  TransportTypeOK'
<1>1. CASE ReceiveFromReader(e)
  <2>1. AfterPublish(e) \in ReaderStates
    BY AfterPublishType
  <2>2. failures' \in [Endpoints -> BOOLEAN]
    BY <1>1 DEF ReceiveFromReader, TransportTypeOK
  <2> QED
    BY <1>1, <2>1, <2>2 DEF ReceiveFromReader, TransportTypeOK, writerVars
<1>2. CASE ReceiveFromWriter(e)
  <2>1. AfterEvent(e) \in WriterStates /\ writer[e].id \in Nat
    BY DEF AfterEvent, Writer, WriterDone, WriterStates, TransportTypeOK
  <2> QED
    <3>1. /\ settled' \in [Endpoints -> SUBSET Nat]
          /\ failures' \in [Endpoints -> BOOLEAN]
      <4>1. \/ /\ settled' = [settled EXCEPT ![e] = @ \cup {writer[e].id}]
               /\ failures' = failures
            \/ /\ failures' = [failures EXCEPT ![e] = TRUE]
               /\ settled' = settled
        BY <1>2 DEF ReceiveFromWriter
      <4>2. settled[e] \cup {writer[e].id} \in SUBSET Nat
        BY <2>1 DEF TransportTypeOK
      <4> QED
        BY <4>1, <4>2 DEF TransportTypeOK
    <3> QED
      BY <1>2, <2>1, <3>1 DEF ReceiveFromWriter, TransportTypeOK, readerVars
<1>3. CASE Enqueue(e)
  <2>1. accepted[e] + 1 \in Nat /\ writes[e] \in Seq(Nat)
    BY DEF TransportTypeOK
  <2>2. Writer("write", accepted[e] + 1) \in WriterStates
        /\ Append(writes[e], accepted[e] + 1) \in Seq(Nat)
    BY <2>1, AppendProperties DEF Writer, WriterStates
  <2> QED
    BY <1>3, <2>1, <2>2 DEF Enqueue, TransportTypeOK, readerVars
<1>4. CASE Stop(e) \/ Joined(e)
  BY <1>4 DEF Stop, Joined, TransportTypeOK, readerVars, writerVars
<1> QED
  BY <1>1, <1>2, <1>3, <1>4 DEF CoordinatorStep

LEMMA RequestStopType ==
  ASSUME TransportTypeOK, RequestStop
  PROVE  TransportTypeOK'
BY DEF RequestStop, TransportTypeOK, readerVars, writerVars

-----------------------------------------------------------------------------
(* Order of writes *)

outputVars == <<writer, writes, wire, accepted, settled>>

LEMMA OutputInit == TransportInit => OutputInv
<1> SUFFICES ASSUME TransportInit, NEW e \in Endpoints
             PROVE  NoGap(e) /\ WireInOrder(e)
  BY DEF OutputInv
<1>1. /\ wire[e] = <<>> /\ writes[e] = <<>> /\ accepted[e] = 0
      /\ settled[e] = {} /\ writer[e].at = "select"
  BY DEF TransportInit, Writer
<1>2. Len(wire[e]) = 0 /\ Len(writes[e]) = 0
  BY <1>1
<1>3. WireInOrder(e)
  BY <1>1, <1>2 DEF WireInOrder
<1>4. QueueFollows(e, Len(wire[e]))
  BY <1>1, <1>2 DEF QueueFollows
<1> QED
  BY <1>1, <1>3, <1>4 DEF NoGap

LEMMA OutputUntouched ==
  ASSUME OutputInv, UNCHANGED outputVars
  PROVE  OutputInv'
BY DEF OutputInv, NoGap, WireInOrder, QueueFollows, outputVars

\* A step that touches the output of one endpoint only has to be looked at
\* for that endpoint.
LEMMA OutputOfOne ==
  ASSUME OutputInv, NEW e \in Endpoints,
         NoGap(e)', WireInOrder(e)',
         \A f \in Endpoints \ {e} :
           /\ writer'[f] = writer[f]
           /\ writes'[f] = writes[f]
           /\ wire'[f] = wire[f]
           /\ accepted'[f] = accepted[f]
           /\ settled'[f] = settled[f]
  PROVE  OutputInv'
<1> SUFFICES ASSUME NEW f \in Endpoints \ {e}
             PROVE  NoGap(f)' /\ WireInOrder(f)'
  BY DEF OutputInv
<1>1. NoGap(f) /\ WireInOrder(f)
  BY DEF OutputInv
<1>2. WireInOrder(f)'
  BY <1>1 DEF WireInOrder
<1>3. \A k : QueueFollows(f, k) => QueueFollows(f, k)'
  BY DEF QueueFollows
<1>4. NoGap(f)'
  BY <1>1, <1>3 DEF NoGap
<1> QED
  BY <1>2, <1>4

LEMMA WriterSelectsOutput ==
  ASSUME TransportTypeOK, OutputInv, NEW e \in Endpoints, WriterSelects(e)
  PROVE  OutputInv'
<1>1. /\ writes[e] \in Seq(Nat) /\ Len(writes[e]) \in Nat
      /\ Len(wire[e]) \in Nat /\ accepted[e] \in Nat
      /\ writer[e].at = "select"
      /\ UNCHANGED <<wire, accepted, settled>>
  BY LenProperties DEF TransportTypeOK, WriterSelects, coordinatorVars
<1>2. QueueFollows(e, Len(wire[e])) /\ WireInOrder(e)
  BY <1>1 DEF OutputInv, NoGap
<1>3. WireInOrder(e)'
  BY <1>1, <1>2 DEF WireInOrder
<1>4. NoGap(e)'
  <2>1. CASE /\ writes[e] # <<>>
             /\ writer' = [writer EXCEPT ![e] =
                             Writer("write", Head(writes[e]))]
             /\ writes' = [writes EXCEPT ![e] = Tail(@)]
    <3>1. /\ Head(writes[e]) = writes[e][1]
          /\ Len(Tail(writes[e])) = Len(writes[e]) - 1
          /\ \A i \in 1 .. Len(Tail(writes[e])) :
               Tail(writes[e])[i] = writes[e][i + 1]
          /\ Len(writes[e]) > 0
      BY <1>1, <2>1, HeadTailProperties, EmptySeq
    <3>2. writer'[e] = Writer("write", Head(writes[e]))
          /\ writes'[e] = Tail(writes[e])
      BY <2>1 DEF TransportTypeOK
    <3> DEFINE k == Len(wire[e])
    <3>3. QueueFollows(e, k + 1)'
      <4>1. accepted'[e] = k + 1 + Len(writes'[e])
        <5>1. accepted[e] = k + Len(writes[e])
          BY <1>2 DEF QueueFollows
        <5>2. Len(writes'[e]) = Len(writes[e]) - 1
          BY <1>1, <3>1, <3>2
        <5>3. accepted'[e] = accepted[e]
          BY <1>1
        <5>4. Len(writes[e]) \in Int /\ k \in Int
          BY <1>1
        <5>5. \A a, l \in Int : a + 1 + (l - 1) = a + l
          OBVIOUS
        <5> QED
          BY <5>1, <5>2, <5>3, <5>4, <5>5
      <4>2. ASSUME NEW i \in 1 .. Len(writes'[e])
            PROVE  writes'[e][i] = k + 1 + i
        <5>1. writes'[e][i] = writes[e][i + 1] /\ i + 1 \in 1 .. Len(writes[e])
          BY <1>1, <3>1, <3>2
        <5> QED
          BY <1>1, <1>2, <5>1 DEF QueueFollows
      <4>3. wire' = wire
        BY <1>1
      <4> QED
        BY <4>1, <4>2, <4>3 DEF QueueFollows
    <3>4. Head(writes[e]) = Len(wire[e]) + 1
      BY <1>1, <1>2, <3>1 DEF QueueFollows
    <3> QED
      BY <1>1, <3>2, <3>3, <3>4 DEF NoGap, Writer, QueueFollows
  <2>2. CASE /\ writer' = [writer EXCEPT ![e] = WriterDone]
             /\ UNCHANGED writes
    BY <2>2 DEF NoGap, WriterDone, Writer, TransportTypeOK
  <2>3. CASE /\ writes[e] = <<>>
             /\ writer' = [writer EXCEPT ![e] = Writer("blocked", 0)]
             /\ UNCHANGED writes
    BY <1>1, <1>2, <2>3 DEF NoGap, QueueFollows, Writer, TransportTypeOK
  <2> QED
    BY <2>1, <2>2, <2>3 DEF WriterSelects
<1> QED
  BY <1>1, <1>3, <1>4, OutputOfOne DEF WriterSelects, TransportTypeOK

LEMMA SocketWritesOutput ==
  ASSUME TransportTypeOK, OutputInv, NEW e \in Endpoints, SocketWrites(e)
  PROVE  OutputInv'
<1>1. /\ wire[e] \in Seq(Nat) /\ Len(wire[e]) \in Nat
      /\ writer[e].id = Len(wire[e]) + 1
      /\ QueueFollows(e, Len(wire[e]) + 1)
      /\ WireInOrder(e)
      /\ UNCHANGED <<writes, accepted, settled>>
      /\ wire'[e] = Append(wire[e], writer[e].id)
      /\ writer'[e] = [writer[e] EXCEPT !.at = "written"]
  BY LenProperties
     DEF TransportTypeOK, SocketWrites, coordinatorVars, OutputInv, NoGap
<1>2. /\ Len(wire'[e]) = Len(wire[e]) + 1
      /\ \A i \in 1 .. Len(wire[e]) : wire'[e][i] = wire[e][i]
      /\ wire'[e][Len(wire[e]) + 1] = Len(wire[e]) + 1
  BY <1>1, AppendProperties
<1>3. WireInOrder(e)'
  BY <1>1, <1>2 DEF WireInOrder
<1>4. NoGap(e)'
  BY <1>1, <1>2 DEF NoGap, QueueFollows, TransportTypeOK, WriterStates
<1> QED
  BY <1>1, <1>3, <1>4, OutputOfOne DEF SocketWrites, TransportTypeOK

\* The writer ends, or is about to report a failure: nothing follows.
LEMMA WriterEndsOutput ==
  ASSUME TransportTypeOK, OutputInv, NEW e \in Endpoints,
         WriterWakes(e) \/ WriteFails(e) \/ WriterCancelled(e)
  PROVE  OutputInv'
<1>1. /\ UNCHANGED <<writes, wire, accepted, settled>>
      /\ writer'[e].at \in {"done", "failed"}
      /\ \A f \in Endpoints \ {e} : writer'[f] = writer[f]
  BY DEF WriterWakes, WriteFails, WriterCancelled, WriteFailed, WriterDone,
         Writer, coordinatorVars, TransportTypeOK
<1>2. NoGap(e)' /\ WireInOrder(e)'
  BY <1>1 DEF NoGap, OutputInv, WireInOrder
<1> QED
  BY <1>1, <1>2, OutputOfOne

LEMMA ReceiveFromWriterOutput ==
  ASSUME TransportTypeOK, OutputInv, NEW e \in Endpoints, ReceiveFromWriter(e)
  PROVE  OutputInv'
<1>1. /\ UNCHANGED <<writes, wire, accepted>>
      /\ writer'[e] = AfterEvent(e)
      /\ \A f \in Endpoints \ {e} :
           writer'[f] = writer[f] /\ settled'[f] = settled[f]
      /\ Len(wire[e]) \in Nat
  BY DEF ReceiveFromWriter, TransportTypeOK
<1>2. CASE writer[e].at = "written"
  <2>1. /\ settled'[e] = settled[e] \cup {Len(wire[e])}
        /\ Len(wire[e]) > 0
        /\ QueueFollows(e, Len(wire[e]))
        /\ WireInOrder(e)
        /\ writer'[e].at = "select"
    <3>1. NoGap(e) /\ WireInOrder(e)
      BY DEF OutputInv
    <3>2. /\ writer[e].id = Len(wire[e]) /\ Len(wire[e]) > 0
          /\ QueueFollows(e, Len(wire[e]))
      BY <1>2, <3>1 DEF NoGap
    <3>3. settled'[e] = settled[e] \cup {writer[e].id}
      BY <1>2 DEF ReceiveFromWriter, TransportTypeOK
    <3>4. AfterEvent(e).at = "select"
      BY <1>2 DEF AfterEvent, Writer
    <3> QED
      BY <1>1, <3>1, <3>2, <3>3, <3>4
  <2>2. WireInOrder(e)'
    BY <1>1, <2>1 DEF WireInOrder
  <2>3. NoGap(e)'
    BY <1>1, <2>1 DEF NoGap, QueueFollows
  <2> QED
    BY <1>1, <2>2, <2>3, OutputOfOne
<1>3. CASE writer[e].at # "written"
  <2>1. settled' = settled /\ writer'[e].at = "done"
    BY <1>1, <1>3 DEF ReceiveFromWriter, AfterEvent, WriterDone, Writer
  <2>2. NoGap(e)' /\ WireInOrder(e)'
    BY <1>1, <2>1 DEF NoGap, OutputInv, WireInOrder
  <2> QED
    BY <1>1, <2>1, <2>2, OutputOfOne
<1> QED
  BY <1>2, <1>3

LEMMA EnqueueOutput ==
  ASSUME TransportTypeOK, OutputInv, NEW e \in Endpoints, Enqueue(e)
  PROVE  OutputInv'
<1>1. /\ writes[e] \in Seq(Nat) /\ Len(writes[e]) \in Nat
      /\ Len(wire[e]) \in Nat /\ accepted[e] \in Nat
      /\ UNCHANGED <<wire, settled>>
      /\ accepted'[e] = accepted[e] + 1
      /\ NoGap(e) /\ WireInOrder(e)
  BY LenProperties DEF TransportTypeOK, Enqueue, OutputInv
<1>2. WireInOrder(e)'
  BY <1>1 DEF WireInOrder
<1>3. CASE /\ writer[e].at = "blocked"
           /\ writer' = [writer EXCEPT ![e] = Writer("write", accepted[e] + 1)]
           /\ UNCHANGED writes
  <2>1. /\ writes[e] = <<>> /\ accepted[e] = Len(wire[e])
        /\ writer'[e] = Writer("write", Len(wire[e]) + 1)
    BY <1>1, <1>3 DEF NoGap, QueueFollows, TransportTypeOK
  <2>2. NoGap(e)'
    BY <1>1, <1>3, <2>1 DEF NoGap, QueueFollows, Writer
  <2> QED
    BY <1>1, <1>2, <1>3, <2>2, OutputOfOne DEF Enqueue, TransportTypeOK
<1>4. CASE /\ writer[e].at # "blocked"
           /\ writes' = [writes EXCEPT ![e] = Append(@, accepted[e] + 1)]
           /\ UNCHANGED writer
  <2>1. /\ writes'[e] = Append(writes[e], accepted[e] + 1)
        /\ Len(writes'[e]) = Len(writes[e]) + 1
        /\ \A i \in 1 .. Len(writes[e]) : writes'[e][i] = writes[e][i]
        /\ writes'[e][Len(writes[e]) + 1] = accepted[e] + 1
    BY <1>1, <1>4, AppendProperties DEF TransportTypeOK
  <2>2. ASSUME NEW k \in Nat, QueueFollows(e, k)
        PROVE  QueueFollows(e, k)'
    <3>1. accepted[e] = k + Len(writes[e])
          /\ \A i \in 1 .. Len(writes[e]) : writes[e][i] = k + i
      BY <2>2 DEF QueueFollows
    <3>2. accepted'[e] = k + Len(writes'[e])
      BY <1>1, <2>1, <3>1
    <3>3. ASSUME NEW i \in 1 .. Len(writes'[e])
          PROVE  writes'[e][i] = k + i
      <4>1. CASE i \in 1 .. Len(writes[e])
        BY <2>1, <3>1, <4>1
      <4>2. CASE i = Len(writes[e]) + 1
        BY <1>1, <2>1, <3>1, <4>2
      <4> QED
        BY <1>1, <2>1, <4>1, <4>2
    <3> QED
      BY <3>2, <3>3 DEF QueueFollows
  <2>3. NoGap(e)'
    BY <1>1, <1>4, <2>2 DEF NoGap
  <2> QED
    BY <1>1, <1>2, <1>4, <2>3, OutputOfOne DEF Enqueue, TransportTypeOK
<1> QED
  BY <1>3, <1>4 DEF Enqueue

-----------------------------------------------------------------------------
(* Joins *)

\* A fiber that has ended stays ended.
LEMMA DoneIsFinal ==
  ASSUME TransportTypeOK, TransportNext, NEW e \in Endpoints
  PROVE  BothDone(e) => BothDone(e)'
<1>1. ASSUME NEW f \in Endpoints, ReaderStep(f)
      PROVE  reader[f].at # "done" /\ writer' = writer
             /\ \A g \in Endpoints \ {f} : reader'[g] = reader[g]
  BY <1>1 DEF ReaderStep, ReadChunk, ReadFails, ReadTimeout, ReaderCancelled,
              writerVars, TransportTypeOK
<1>2. ASSUME NEW f \in Endpoints, WriterStep(f)
      PROVE  writer[f].at # "done" /\ reader' = reader
             /\ \A g \in Endpoints \ {f} : writer'[g] = writer[g]
  BY <1>2 DEF WriterStep, WriterSelects, WriterWakes, SocketWrites, WriteFails,
              WriterCancelled, readerVars, TransportTypeOK
<1>3. ASSUME NEW f \in Endpoints, CoordinatorStep(f), BothDone(e)
      PROVE  BothDone(e)'
  BY <1>3 DEF CoordinatorStep, ReceiveFromReader, ReceiveFromWriter, Enqueue,
              Stop, Joined, readerVars, writerVars, TransportTypeOK, BothDone
<1>4. RequestStop => UNCHANGED <<reader, writer>>
  BY DEF RequestStop, readerVars, writerVars
<1> QED
  BY <1>1, <1>2, <1>3, <1>4 DEF TransportNext, BothDone

LEMMA JoinStep ==
  ASSUME TransportTypeOK, JoinInv, TransportNext
  PROVE  JoinInv'
<1> SUFFICES ASSUME NEW e \in Endpoints, stopped'[e]
             PROVE  stopping' = e \/ BothDone(e)'
  BY DEF JoinInv
<1>1. BothDone(e) => BothDone(e)'
  BY DoneIsFinal
<1>2. CASE UNCHANGED <<stopped, stopping>>
  BY <1>1, <1>2 DEF JoinInv
<1>3. ASSUME NEW f \in Endpoints, Stop(f)
      PROVE  stopping' = e \/ BothDone(e)'
  BY <1>1, <1>3, TransportAssumption DEF Stop, JoinInv, TransportTypeOK
<1>4. ASSUME NEW f \in Endpoints, Joined(f)
      PROVE  stopping' = e \/ BothDone(e)'
  BY <1>1, <1>4 DEF Joined, JoinInv
<1> QED
  BY <1>2, <1>3, <1>4
     DEF TransportNext, ReaderStep, ReadChunk, ReadFails, ReadTimeout,
         ReaderCancelled, WriterStep, WriterSelects, WriterWakes, SocketWrites,
         WriteFails, WriterCancelled, CoordinatorStep, ReceiveFromReader,
         ReceiveFromWriter, Enqueue, RequestStop, coordinatorVars

-----------------------------------------------------------------------------

LEMMA TransportInvInit == TransportInit => TransportInv
<1>1. TransportInit => JoinInv
  BY DEF TransportInit, JoinInv
<1> QED
  BY <1>1, TransportTypeInit, OutputInit DEF TransportInv

LEMMA TransportInvStep ==
  TransportInv /\ [TransportNext]_transportVars => TransportInv'
<1> SUFFICES ASSUME TransportInv, [TransportNext]_transportVars
             PROVE  TransportInv'
  OBVIOUS
<1> USE DEF TransportInv
<1>1. CASE UNCHANGED transportVars
  <2>1. TransportTypeOK'
    BY <1>1 DEF transportVars, TransportTypeOK
  <2>2. OutputInv'
    BY <1>1, OutputUntouched DEF transportVars, outputVars
  <2>3. JoinInv'
    BY <1>1 DEF transportVars, JoinInv, BothDone
  <2> QED
    BY <2>1, <2>2, <2>3
<1>2. CASE TransportNext
  <2>1. TransportTypeOK'
    BY <1>2, ReaderStepType, WriterStepType, CoordinatorStepType,
       RequestStopType DEF TransportNext
  <2>2. JoinInv'
    BY <1>2, JoinStep
  <2>3. OutputInv'
    <3>1. ASSUME NEW e \in Endpoints, ReaderStep(e)
          PROVE  OutputInv'
      BY <3>1, OutputUntouched
         DEF ReaderStep, ReadChunk, ReadFails, ReadTimeout, ReaderCancelled,
             writerVars, coordinatorVars, outputVars
    <3>2. ASSUME NEW e \in Endpoints, WriterStep(e)
          PROVE  OutputInv'
      BY <3>2, WriterSelectsOutput, SocketWritesOutput, WriterEndsOutput
         DEF WriterStep
    <3>3. ASSUME NEW e \in Endpoints,
                 ReceiveFromReader(e) \/ Stop(e) \/ Joined(e)
          PROVE  OutputInv'
      BY <3>3, OutputUntouched
         DEF ReceiveFromReader, Stop, Joined, writerVars, outputVars
    <3>4. RequestStop => OutputInv'
      BY OutputUntouched DEF RequestStop, writerVars, outputVars
    <3> QED
      BY <1>2, <3>1, <3>2, <3>3, <3>4, ReceiveFromWriterOutput, EnqueueOutput
         DEF TransportNext, CoordinatorStep
  <2> QED
    BY <2>1, <2>2, <2>3
<1> QED
  BY <1>1, <1>2

THEOREM TransportInvariant == TransportSpec => []TransportInv
BY TransportInvInit, TransportInvStep, PTL DEF TransportSpec

\* The writes that reach a socket are the accepted ones in order, each once
\* and without a gap, and only those are reported as written: nothing is
\* written behind a write that failed (Endpoint#writer_loop).
THEOREM OutputIsOrdered == TransportSpec => []WritesInOrder
<1>1. TransportInv => WritesInOrder
  <2> SUFFICES ASSUME TransportInv, NEW e \in Endpoints
               PROVE  /\ \A i \in DOMAIN wire[e] : wire[e][i] = i
                      /\ settled[e] \subseteq 1 .. Len(wire[e])
    BY DEF WritesInOrder
  <2>1. wire[e] \in Seq(Nat) /\ WireInOrder(e)
    BY DEF TransportInv, TransportTypeOK, OutputInv
  <2>2. DOMAIN wire[e] = 1 .. Len(wire[e])
    BY <2>1, LenProperties
  <2> QED
    BY <2>1, <2>2 DEF WireInOrder
<1> QED
  BY <1>1, TransportInvariant, PTL

\* No event of a stopped endpoint is received: while Endpoint#stop waits the
\* coordinator receives nothing, and when it returns both fibers have ended.
THEOREM StoppedIsSilent == TransportSpec => NoEventAfterStop
<1>1. ASSUME TransportInv, NEW e \in Endpoints,
             ReceiveFromReader(e) \/ ReceiveFromWriter(e)
      PROVE  ~ stopped[e]
  <2>1. stopping = None /\ ~ BothDone(e)
    BY <1>1 DEF ReceiveFromReader, ReceiveFromWriter, BothDone
  <2>2. None \notin Endpoints
    BY TransportAssumption
  <2> QED
    BY <1>1, <2>1, <2>2 DEF TransportInv, JoinInv
<1>2. TransportInv /\ [TransportNext]_transportVars =>
        [\A e \in Endpoints :
           ReceiveFromReader(e) \/ ReceiveFromWriter(e) => ~ stopped[e]
        ]_transportVars
  BY <1>1
<1> QED
  BY <1>2, TransportInvariant, PTL DEF TransportSpec, NoEventAfterStop
=============================================================================
