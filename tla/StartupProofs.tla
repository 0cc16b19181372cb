--------------------------- MODULE StartupProofs ---------------------------
(***************************************************************************)
(* The startup fence never takes an identity or a DEVICE_INFO of an        *)
(* earlier connection for a new one, for every queue length below the      *)
(* number of APP_STARTs, every sequence of leftovers and any number of     *)
(* losses, pushes, failures and reconnections.                             *)
(***************************************************************************)
EXTENDS Startup, SequenceTheorems, TLAPS

LEMMA FunctionIsSeq ==
  ASSUME NEW S, NEW n \in Nat, NEW q \in [1 .. n -> S]
  PROVE  q \in Seq(S) /\ Len(q) = n
<1>1. q \in Seq(S)
  BY SeqDef
<1>2. Len(q) \in Nat /\ 1 .. Len(q) = 1 .. n
  BY <1>1, LenProperties
<1> QED
  BY <1>1, <1>2

LEMMA ProbesIsSeq == Probes \in Seq(Commands)
<1>1. SelfReplies + 1 \in Nat
  BY StartupAssumption
<1>2. Probes \in [1 .. SelfReplies + 1 -> Commands]
  BY DEF Probes, Commands
<1> QED
  BY <1>1, <1>2, FunctionIsSeq

LEMMA InitialLeftovers ==
  ASSUME NEW q \in RetainedQueues
  PROVE  /\ q \in Seq(Frames)
         /\ Len(q) <= RetainedFrames
         /\ \A i \in 1 .. Len(q) : q[i].stale
<1>1. PICK n \in 0 .. RetainedFrames :
        q \in [1 .. n -> [code : StaleCodes, stale : {TRUE}]]
  BY DEF RetainedQueues
<1>2. n \in Nat /\ n <= RetainedFrames
  BY StartupAssumption
<1>3. q \in [1 .. n -> Frames] /\ \A i \in 1 .. n : q[i].stale
  BY <1>1 DEF Frames, Codes
<1>4. q \in Seq(Frames) /\ Len(q) = n
  BY <1>2, <1>3, FunctionIsSeq
<1> QED
  BY <1>2, <1>3, <1>4

LEMMA StartupInvInit == StartupInit => StartupInv
<1> SUFFICES ASSUME StartupInit PROVE StartupInv
  OBVIOUS
<1>1. /\ pipe \in Seq(Frames)
      /\ Len(pipe) <= RetainedFrames
      /\ \A i \in 1 .. Len(pipe) : pipe[i].stale
  BY InitialLeftovers DEF StartupInit
<1>2. Probes \in Seq(Commands)
  BY ProbesIsSeq
<1>3. StartupTypeOK
  <2>1. disturbed \in BOOLEAN
    BY Zenon DEF StartupInit
  <2> QED
    BY <1>1, <1>2, <2>1, StartupAssumption DEF StartupInit, StartupTypeOK
<1>4. Leftovers(Len(pipe))
  BY <1>1, StartupAssumption DEF StartupInit, Leftovers
<1> QED
  BY <1>1, <1>3, <1>4 DEF StartupInit, StartupInv, FreshIdentity

\* Reading a frame shortens what is left over, by the frame if it is an old
\* one and by nothing otherwise.
LEMMA NextFramePipe ==
  ASSUME StartupTypeOK, NextFrame, Len(pipe) - sent <= RetainedFrames
  PROVE  /\ pipe # <<>>
         /\ pipe' \in Seq(Frames)
         /\ Len(pipe') = Len(pipe) - 1
         /\ \A i \in 1 .. Len(pipe') : pipe'[i] = pipe[i + 1]
         /\ Head(pipe) = pipe[1]
         /\ Head(pipe) \in Frames
         /\ sent' \in 0 .. Len(pipe')
         /\ Len(pipe') - sent' <= RetainedFrames
<1>1. /\ pipe \in Seq(Frames) /\ Len(pipe) \in Nat /\ Len(pipe) > 0
      /\ sent \in Nat /\ sent <= Len(pipe) /\ sent > 0
      /\ pipe' = Tail(pipe) /\ sent' = sent - 1
  BY LenProperties DEF StartupTypeOK, NextFrame
<1>2. pipe # <<>> /\ Head(pipe) = pipe[1]
  BY <1>1
<1>3. /\ Head(pipe) \in Frames
      /\ pipe' \in Seq(Frames)
      /\ Len(pipe') = Len(pipe) - 1
      /\ \A i \in 1 .. Len(pipe') : pipe'[i] = pipe[i + 1]
  BY <1>1, <1>2, HeadTailProperties
<1> QED
  BY <1>1, <1>2, <1>3, StartupAssumption

LEMMA EnqueuePipe ==
  ASSUME StartupTypeOK, Len(pipe) - sent <= RetainedFrames,
         NEW f \in Frames,
         pipe' = Enqueue(f)
  PROVE  /\ pipe' \in Seq(Frames)
         /\ Len(pipe') \in {Len(pipe), Len(pipe) + 1}
         /\ Len(pipe') - sent <= RetainedFrames
         /\ \A i \in 1 .. Len(pipe) : pipe'[i] = pipe[i]
         /\ Len(pipe') = Len(pipe) + 1 => pipe'[Len(pipe) + 1] = f
<1>1. /\ pipe \in Seq(Frames) /\ Len(pipe) \in Nat
      /\ sent \in Nat /\ sent <= Len(pipe)
  BY LenProperties DEF StartupTypeOK
<1>2. /\ Append(pipe, f) \in Seq(Frames)
      /\ Len(Append(pipe, f)) = Len(pipe) + 1
      /\ \A i \in 1 .. Len(pipe) : Append(pipe, f)[i] = pipe[i]
      /\ Append(pipe, f)[Len(pipe) + 1] = f
  BY <1>1, AppendProperties
<1>3. CASE Len(pipe) - sent < RetainedFrames
  BY <1>1, <1>2, <1>3, StartupAssumption DEF Enqueue, Queued
<1>4. CASE ~ (Len(pipe) - sent < RetainedFrames)
  BY <1>1, <1>4 DEF Enqueue, Queued
<1> QED
  BY <1>3, <1>4

\* A frame that is new, or a contact, may join the frames on their way.
LEMMA EnqueueInv ==
  ASSUME StartupInv,
         NEW f \in Frames,
         f.stale => f.code = "contact",
         pipe' \in {pipe, Enqueue(f)},
         UNCHANGED <<stage, self_run, self_key, device_info, to_write, sent,
                     connections>>,
         commands' \in Seq(Commands), iterator' \in Nat, pushes' \in Nat,
         disturbed' \in BOOLEAN
  PROVE  StartupInv'
<1>1. /\ pipe' \in Seq(Frames)
      /\ Len(pipe') \in {Len(pipe), Len(pipe) + 1}
      /\ Len(pipe') - sent <= RetainedFrames
      /\ \A i \in 1 .. Len(pipe) : pipe'[i] = pipe[i]
      /\ Len(pipe') = Len(pipe) + 1 => pipe'[Len(pipe) + 1] = f
  <2>1. CASE pipe' = pipe
    BY <2>1 DEF StartupInv, StartupTypeOK
  <2>2. CASE pipe' = Enqueue(f)
    BY <2>2, EnqueuePipe DEF StartupInv
  <2> QED
    BY <2>1, <2>2
<1>2. StartupTypeOK'
  BY <1>1 DEF StartupInv, StartupTypeOK
<1>3. ASSUME stage' = "fence" PROVE \E k \in 0 .. Len(pipe') : Leftovers(k)'
  <2>1. PICK k \in 0 .. Len(pipe) : Leftovers(k)
    BY <1>3 DEF StartupInv
  <2>2. \A i \in 1 .. k : pipe'[i].stale
    BY <1>1, <2>1 DEF Leftovers
  <2>3. \A i \in k + 1 .. Len(pipe') :
          pipe'[i].stale => pipe'[i].code \in {"contact", "push"}
    <3> SUFFICES ASSUME NEW i \in k + 1 .. Len(pipe'), pipe'[i].stale
                 PROVE  pipe'[i].code \in {"contact", "push"}
      OBVIOUS
    <3>1. Len(pipe) \in Nat
      BY LenProperties DEF StartupInv, StartupTypeOK
    <3>2. CASE i = Len(pipe) + 1
      BY <1>1, <3>1, <3>2
    <3>3. CASE i <= Len(pipe)
      <4>1. i \in 1 .. Len(pipe) /\ i \in k + 1 .. Len(pipe)
        BY <3>1, <3>3
      <4> QED
        BY <1>1, <2>1, <4>1 DEF Leftovers
    <3> QED
      BY <1>1, <3>1, <3>2, <3>3
  <2>4. Leftovers(k)'
    BY <2>1, <2>2, <2>3 DEF Leftovers
  <2> QED
    BY <1>1, <2>4 DEF StartupInv, StartupTypeOK
<1> QED
  BY <1>1, <1>2, <1>3 DEF StartupInv, FreshIdentity

\* One frame less is on its way: the leftovers lose their first, if any.
LEMMA ReadLeftovers ==
  ASSUME StartupInv, stage = "fence", NextFrame
  PROVE  \E k \in 0 .. Len(pipe') :
           /\ \A i \in 1 .. k : pipe'[i].stale
           /\ \A i \in k + 1 .. Len(pipe') :
                pipe'[i].stale => pipe'[i].code \in {"contact", "push"}
           /\ self_key = "fresh" => k = 0
           /\ self_key # "fresh" => self_run + k <= RetainedFrames
           /\ Head(pipe).stale /\ Head(pipe).code \notin {"contact", "push"}
                => self_key # "fresh" /\ self_run + k + 1 <= RetainedFrames
           /\ ~ Head(pipe).stale => k = 0
<1>1. PICK k \in 0 .. Len(pipe) : Leftovers(k)
  BY DEF StartupInv
<1>2. /\ Len(pipe) \in Nat /\ Len(pipe) > 0
      /\ Len(pipe') = Len(pipe) - 1
      /\ \A i \in 1 .. Len(pipe') : pipe'[i] = pipe[i + 1]
      /\ Head(pipe) = pipe[1]
      /\ self_run \in Nat
  BY NextFramePipe DEF StartupInv, StartupTypeOK
<1>3. CASE k = 0
  <2>1. \A i \in 1 .. Len(pipe') :
          pipe'[i].stale => pipe'[i].code \in {"contact", "push"}
    BY <1>1, <1>2, <1>3 DEF Leftovers
  <2>2. Head(pipe).stale => Head(pipe).code \in {"contact", "push"}
    BY <1>1, <1>2, <1>3 DEF Leftovers
  <2> WITNESS 0 \in 0 .. Len(pipe')
  <2> QED
    BY <1>1, <1>2, <1>3, <2>1, <2>2 DEF Leftovers
<1>4. CASE k > 0
  <2>1. k - 1 \in 0 .. Len(pipe')
    BY <1>2, <1>4
  <2>2. \A i \in 1 .. k - 1 : pipe'[i].stale
    BY <1>1, <1>2, <1>4 DEF Leftovers
  <2>3. \A i \in (k - 1) + 1 .. Len(pipe') :
          pipe'[i].stale => pipe'[i].code \in {"contact", "push"}
    BY <1>1, <1>2, <1>4 DEF Leftovers
  <2>4. Head(pipe).stale
    BY <1>1, <1>2, <1>4 DEF Leftovers
  <2>5. self_key # "fresh" /\ self_run + k <= RetainedFrames
    BY <1>1, <1>4 DEF Leftovers
  <2> WITNESS k - 1 \in 0 .. Len(pipe')
  <2> QED
    BY <1>2, <2>2, <2>3, <2>4, <2>5, StartupAssumption
<1> QED
  BY <1>1, <1>3, <1>4

LEMMA ReceiveInv == StartupInv /\ Receive => StartupInv'
<1> SUFFICES ASSUME StartupInv, Receive PROVE StartupInv'
  OBVIOUS
<1>1. NextFrame
  BY DEF Receive, ReceivePush, ReceiveSelfInfo, ReceiveDeviceInfo,
         ReceiveOther, ReceiveScopeReply
<1>2. /\ pipe' \in Seq(Frames)
      /\ Head(pipe) \in Frames
      /\ sent' \in 0 .. Len(pipe')
      /\ Len(pipe') - sent' <= RetainedFrames
  BY <1>1, NextFramePipe DEF StartupInv
<1>3. Age(Head(pipe)) \in {"stale", "fresh"}
  BY DEF Age
<1>4. ASSUME self_run' \in Nat,
             stage' \in {"fence", "scope", "ready", "error"},
             self_key' \in {"none", "stale", "fresh"},
             device_info' \in {"none", "stale", "fresh"},
             to_write' \in Seq(Commands)
      PROVE  StartupTypeOK'
  BY <1>1, <1>2, <1>4 DEF StartupInv, StartupTypeOK, NextFrame
<1>5. CASE ReceivePush
  <2>1. StartupTypeOK'
    BY <1>4, <1>5 DEF ReceivePush, StartupInv, StartupTypeOK
  <2>2. ASSUME stage' = "fence" PROVE \E k \in 0 .. Len(pipe') : Leftovers(k)'
    <3>1. stage = "fence" /\ self_key' = self_key /\ self_run' = self_run
      BY <1>5, <2>2 DEF ReceivePush
    <3> QED
      BY <1>1, <3>1, ReadLeftovers DEF Leftovers
  <2> QED
    BY <1>2, <1>5, <2>1, <2>2 DEF ReceivePush, StartupInv, FreshIdentity
<1>6. CASE ReceiveSelfInfo
  <2>0. /\ stage = "fence" /\ stage' = "fence"
        /\ self_run' = self_run + 1
        /\ self_key' = Age(Head(pipe))
        /\ Head(pipe).code = "self_info"
        /\ UNCHANGED <<device_info, to_write>>
    BY <1>6 DEF ReceiveSelfInfo
  <2>1. StartupTypeOK'
    BY <1>3, <1>4, <2>0 DEF StartupInv, StartupTypeOK
  <2>2. PICK k \in 0 .. Len(pipe') :
           /\ \A i \in 1 .. k : pipe'[i].stale
           /\ \A i \in k + 1 .. Len(pipe') :
                pipe'[i].stale => pipe'[i].code \in {"contact", "push"}
           /\ Head(pipe).stale => self_run + k + 1 <= RetainedFrames
           /\ ~ Head(pipe).stale => k = 0
    BY <1>1, <2>0, ReadLeftovers
  <2>3. self_run + 1 + k = self_run + k + 1
    BY <1>2 DEF StartupInv, StartupTypeOK
  <2>4. Leftovers(k)'
    BY <2>0, <2>2, <2>3 DEF Leftovers, Age
  <2> QED
    BY <1>2, <2>0, <2>1, <2>4 DEF StartupInv, FreshIdentity
<1>7. CASE ReceiveDeviceInfo
  <2>1. stage = "fence" /\ FenceCrossed
        /\ Head(pipe).code \in {"device_info", "unsupported"}
    BY <1>7 DEF ReceiveDeviceInfo
  <2>2. self_key = "fresh" /\ ~ Head(pipe).stale
    <3>1. PICK k \in 0 .. Len(pipe') :
             /\ self_key # "fresh" => self_run + k <= RetainedFrames
             /\ Head(pipe).stale /\ Head(pipe).code \notin {"contact", "push"}
                  => self_key # "fresh" /\ self_run + k + 1 <= RetainedFrames
      BY <1>1, <2>1, ReadLeftovers
    <3> QED
      BY <1>2, <2>1, <3>1, StartupAssumption
         DEF FenceCrossed, StartupInv, StartupTypeOK
  <2>3. StartupTypeOK' /\ stage' \in {"scope", "error"}
    <3>1. Append(to_write, "set_flood_scope_key") \in Seq(Commands)
      BY AppendProperties DEF StartupInv, StartupTypeOK, Commands
    <3> QED
      BY <1>3, <1>4, <1>7, <3>1
         DEF ReceiveDeviceInfo, Raise, AfterDeviceInfo, StartupInv,
             StartupTypeOK
  <2>4. stage' = "scope" => self_key' = "fresh" /\ device_info' = "fresh"
    BY <1>7, <2>2 DEF ReceiveDeviceInfo, Raise, Age
  <2> QED
    BY <1>2, <2>3, <2>4 DEF StartupInv, FreshIdentity
<1>8. CASE ReceiveOther
  <2>0. /\ stage = "fence" /\ stage' = "fence"
        /\ self_run' = 0 /\ self_key' = "none"
        /\ UNCHANGED <<device_info, to_write>>
    BY <1>8 DEF ReceiveOther, Interrupted
  <2>1. StartupTypeOK'
    BY <1>4, <2>0 DEF StartupInv, StartupTypeOK
  <2>2. PICK k \in 0 .. Len(pipe') :
           /\ \A i \in 1 .. k : pipe'[i].stale
           /\ \A i \in k + 1 .. Len(pipe') :
                pipe'[i].stale => pipe'[i].code \in {"contact", "push"}
           /\ self_key = "fresh" => k = 0
           /\ self_key # "fresh" => self_run + k <= RetainedFrames
    BY <1>1, <2>0, ReadLeftovers
  <2>3. 0 + k <= RetainedFrames
    BY <2>2, StartupAssumption DEF StartupInv, StartupTypeOK
  <2>4. Leftovers(k)'
    BY <2>0, <2>2, <2>3 DEF Leftovers
  <2> QED
    BY <1>2, <2>0, <2>1, <2>4 DEF StartupInv, FreshIdentity
<1>9. CASE ReceiveScopeReply
  <2>1. /\ stage = "scope" /\ stage' \in {"ready", "error"}
        /\ UNCHANGED <<self_run, self_key, device_info, to_write>>
    BY <1>9 DEF ReceiveScopeReply, Raise
  <2>2. StartupTypeOK'
    BY <1>4, <2>1 DEF StartupInv, StartupTypeOK
  <2> QED
    BY <1>2, <2>1, <2>2 DEF StartupInv, FreshIdentity
<1> QED
  BY <1>5, <1>6, <1>7, <1>8, <1>9 DEF Receive

\* A connection begins with nothing but what earlier ones have left behind.
LEMMA ConnectPipe ==
  ASSUME StartupInv, Connect
  PROVE  /\ pipe' \in Seq(Frames)
         /\ Len(pipe') <= RetainedFrames
         /\ \A i \in 1 .. Len(pipe') : pipe'[i].stale
         /\ iterator' \in Nat
<1>1. CASE /\ pipe' = [i \in 1 .. Len(pipe) - sent |->
                         [pipe[sent + i] EXCEPT !.stale = TRUE]]
           /\ iterator' = iterator
  <2>1. Len(pipe) - sent \in Nat
    BY DEF StartupInv, StartupTypeOK
  <2>2. \A i \in 1 .. Len(pipe) - sent :
          /\ sent + i \in 1 .. Len(pipe)
          /\ pipe[sent + i] \in Frames
    BY DEF StartupInv, StartupTypeOK
  <2>3. /\ pipe' \in [1 .. Len(pipe) - sent -> Frames]
        /\ \A i \in 1 .. Len(pipe) - sent : pipe'[i].stale
    BY <1>1, <2>2 DEF Frames
  <2>4. /\ pipe' \in Seq(Frames)
        /\ Len(pipe') = Len(pipe) - sent
    BY <2>1, <2>3, FunctionIsSeq
  <2> QED
    BY <1>1, <2>3, <2>4 DEF StartupInv, StartupTypeOK
<1>2. CASE pipe' \in RetainedQueues /\ iterator' \in 0 .. MaxContacts
  BY <1>2, InitialLeftovers, StartupAssumption
<1> QED
  BY <1>1, <1>2 DEF Connect

LEMMA ConnectInv == StartupInv /\ Connect => StartupInv'
<1> SUFFICES ASSUME StartupInv, Connect PROVE StartupInv'
  OBVIOUS
<1>1. /\ pipe' \in Seq(Frames)
      /\ Len(pipe') <= RetainedFrames
      /\ \A i \in 1 .. Len(pipe') : pipe'[i].stale
      /\ iterator' \in Nat
  BY ConnectPipe
<1>2. Probes \in Seq(Commands)
  BY ProbesIsSeq
<1>3. Len(pipe') \in Nat
  BY <1>1
<1>4. StartupTypeOK'
  <2>1. disturbed' \in BOOLEAN
    BY Zenon DEF Connect, Begin
  <2> QED
    BY <1>1, <1>2, <1>3, <2>1 DEF Connect, Begin, StartupInv, StartupTypeOK
<1>5. Leftovers(Len(pipe))'
  BY <1>1, <1>3, StartupAssumption DEF Connect, Begin, Leftovers
<1>6. Len(pipe') - sent' <= RetainedFrames
  BY <1>1, <1>3 DEF Connect, Begin
<1>7. FreshIdentity'
  BY DEF Connect, Begin, FreshIdentity
<1>8. \E k \in 0 .. Len(pipe') : Leftovers(k)'
  BY <1>3, <1>5
<1> QED
  BY <1>4, <1>6, <1>7, <1>8 DEF StartupInv

\* StartupInv is kept by every step of the handshake and the companion.
LEMMA StartupInvNext == StartupInv /\ [StartupNext]_startupVars => StartupInv'
<1> SUFFICES ASSUME StartupInv, [StartupNext]_startupVars PROVE StartupInv'
  OBVIOUS
<1>1. CASE WriteProbe
  <2>1. to_write' \in Seq(Commands) /\ commands' \in Seq(Commands)
    BY <1>1 DEF WriteProbe, StartupInv, StartupTypeOK
  <2> QED
    BY <1>1, <2>1
       DEF WriteProbe, StartupInv, StartupTypeOK, FreshIdentity, Leftovers
<1>2. CASE Receive
  BY <1>2, ReceiveInv
<1>3. CASE Abort
  BY <1>3 DEF Abort, Raise, StartupInv, StartupTypeOK, FreshIdentity
<1>4. CASE Connect
  BY <1>4, ConnectInv
<1>5. CASE Send
  <2>1. sent' \in 0 .. Len(pipe') /\ Len(pipe') - sent' <= RetainedFrames
    BY <1>5, StartupAssumption DEF Send, Queued, StartupInv, StartupTypeOK
  <2> QED
    BY <1>5, <2>1
       DEF Send, StartupInv, StartupTypeOK, FreshIdentity, Leftovers
<1>6. CASE Handle
  <2>1. PICK code \in Codes :
          pipe' \in {pipe, Enqueue([code |-> code, stale |-> FALSE])}
    BY <1>6 DEF Handle, Reply, Codes
  <2>2. /\ commands' \in Seq(Commands) /\ iterator' \in Nat /\ pushes' \in Nat
    BY <1>6 DEF Handle, StartupInv, StartupTypeOK
  <2>5. disturbed' \in BOOLEAN
    BY <1>6, Zenon DEF Handle
  <2>3. [code |-> code, stale |-> FALSE] \in Frames
    BY DEF Frames, Codes
  <2> DEFINE f == [code |-> code, stale |-> FALSE]
  <2>4. ~ f.stale
    OBVIOUS
  <2> HIDE DEF f
  <2> QED
    BY <1>6, <2>1, <2>2, <2>3, <2>4, <2>5, EnqueueInv DEF Handle, f
<1>7. CASE Iterate
  <2> DEFINE f == [code |-> "contact", stale |-> TRUE]
  <2>1. f \in Frames /\ f.code = "contact"
    BY DEF Frames, Codes
  <2>2. pipe' = Enqueue(f)
    BY <1>7 DEF Iterate
  <2>3. /\ commands' \in Seq(Commands) /\ iterator' \in Nat /\ pushes' \in Nat
        /\ disturbed' \in BOOLEAN
    BY <1>7 DEF Iterate, StartupInv, StartupTypeOK
  <2> HIDE DEF f
  <2> QED
    BY <1>7, <2>1, <2>2, <2>3, EnqueueInv DEF Iterate
<1>8. CASE PushFrame
  <2> DEFINE f == [code |-> "push", stale |-> FALSE]
  <2>1. f \in Frames /\ ~ f.stale
    BY DEF Frames, Codes
  <2>2. pipe' = Enqueue(f)
    BY <1>8 DEF PushFrame
  <2>3. /\ commands' \in Seq(Commands) /\ iterator' \in Nat /\ pushes' \in Nat
        /\ disturbed' \in BOOLEAN
    BY <1>8 DEF PushFrame, StartupInv, StartupTypeOK
  <2> HIDE DEF f
  <2> QED
    BY <1>8, <2>1, <2>2, <2>3, EnqueueInv DEF PushFrame
<1>9. CASE UNCHANGED startupVars
  BY <1>9 DEF startupVars, StartupInv, StartupTypeOK, FreshIdentity, Leftovers
<1> QED
  BY <1>1, <1>2, <1>3, <1>4, <1>5, <1>6, <1>7, <1>8, <1>9
     DEF StartupNext, CompanionLoop

\* The SELF_INFO and the DEVICE_INFO that Runtime builds the epoch from are
\* the ones the companion sent to this connection, for every queue length and
\* every number of APP_STARTs above it (Startup#receive).
THEOREM StartupFreshIdentity == StartupSpec => []FreshIdentity
<1>1. StartupInv => FreshIdentity
  BY DEF StartupInv
<1> QED
  BY <1>1, StartupInvInit, StartupInvNext, PTL DEF StartupSpec

-----------------------------------------------------------------------------
(* The handshake leaves nothing behind. *)

\* Commands of the fence that the companion has executed.
Handled == SelfReplies + 1 - (Len(commands) + Len(to_write))

Answers(f) == ~ f.stale /\ f.code \in {"device_info", "unsupported"}

\* In the fence the commands not yet executed are the last of Probes, in
\* order; the first one executed has ended an old contacts stream; and when
\* the new DEVICE_INFO is on its way all of them are, with pushes behind it.
FenceClean ==
  /\ Handled >= 0
  /\ \A i \in 1 .. Len(commands) : commands[i] = Probes[Handled + i]
  /\ \A i \in 1 .. Len(to_write) :
       to_write[i] = Probes[Handled + Len(commands) + i]
  /\ Handled > 0 => iterator = 0
  /\ \A i \in 1 .. Len(pipe) : Answers(pipe[i]) =>
       /\ Handled = SelfReplies + 1
       /\ \A j \in i + 1 .. Len(pipe) : pipe[j].code = "push"

\* While the scope is reset there is one command or one reply, never both.
ScopeClean ==
  /\ Len(commands) + Len(to_write) <= 1
  /\ iterator = 0
  /\ \A i \in 1 .. Len(pipe) : pipe[i].code # "push" =>
       /\ Len(commands) + Len(to_write) = 0
       /\ \A j \in 1 .. Len(pipe) : j # i => pipe[j].code = "push"

ReadyClean ==
  /\ Len(commands) + Len(to_write) = 0
  /\ iterator = 0
  /\ \A i \in 1 .. Len(pipe) : pipe[i].code = "push"

CleanInv ==
  /\ stage = "fence" => FenceClean
  /\ stage = "scope" => ScopeClean
  /\ stage = "ready" => ReadyClean

LEMMA Counts ==
  ASSUME StartupTypeOK
  PROVE  /\ Len(commands) \in Nat
         /\ Len(to_write) \in Nat
         /\ Len(pipe) \in Nat
         /\ SelfReplies \in Nat \ {0}
         /\ Handled \in Int
         /\ Handled = SelfReplies + 1 <=> Len(commands) + Len(to_write) = 0
<1>1. /\ Len(commands) \in Nat
      /\ Len(to_write) \in Nat
      /\ Len(pipe) \in Nat
  BY LenProperties DEF StartupTypeOK
<1>2. SelfReplies \in Nat \ {0}
  BY StartupAssumption
<1> QED
  BY <1>1, <1>2 DEF Handled

LEMMA ProbesFacts ==
  /\ Len(Probes) = SelfReplies + 1
  /\ \A i \in 1 .. SelfReplies : Probes[i] = "app_start"
  /\ Probes[SelfReplies + 1] = "device_query"
<1>1. SelfReplies + 1 \in Nat /\ SelfReplies \in Nat
  BY StartupAssumption
<1>2. Probes \in [1 .. SelfReplies + 1 -> Commands]
  BY <1>1 DEF Probes, Commands
<1>3. Len(Probes) = SelfReplies + 1
  BY <1>1, <1>2, FunctionIsSeq
<1>4. \A i \in 1 .. SelfReplies : i \in 1 .. SelfReplies + 1 /\ i <= SelfReplies
  BY <1>1
<1>5. /\ SelfReplies + 1 \in 1 .. SelfReplies + 1
      /\ ~ (SelfReplies + 1 <= SelfReplies)
  BY <1>1
<1> QED
  BY <1>3, <1>4, <1>5 DEF Probes

\* Every frame of a pipe that a frame may have joined was there before, at the
\* same place, or is that frame, at the end.
LEMMA JoinedPipe ==
  ASSUME StartupInv, NEW f \in Frames, pipe' \in {pipe, Enqueue(f)}
  PROVE  /\ Len(pipe') \in Nat
         /\ \A i \in 1 .. Len(pipe') :
              \/ i \in 1 .. Len(pipe) /\ pipe'[i] = pipe[i]
              \/ i = Len(pipe) + 1 /\ Len(pipe') = i /\ pipe'[i] = f
<1>1. Len(pipe) \in Nat
  BY Counts DEF StartupInv
<1>2. CASE pipe' = pipe
  BY <1>1, <1>2
<1>3. CASE pipe' = Enqueue(f)
  <2>1. /\ Len(pipe') \in {Len(pipe), Len(pipe) + 1}
        /\ \A i \in 1 .. Len(pipe) : pipe'[i] = pipe[i]
        /\ Len(pipe') = Len(pipe) + 1 => pipe'[Len(pipe) + 1] = f
    BY <1>3, EnqueuePipe DEF StartupInv
  <2> QED
    BY <1>1, <2>1
<1> QED
  BY <1>2, <1>3

\* A push, or a frame of an old contacts stream that no command has ended.
LEMMA JoinClean ==
  ASSUME StartupInv, CleanInv, NEW f \in Frames,
         pipe' \in {pipe, Enqueue(f)},
         \/ f.code = "push" /\ iterator' = iterator
         \/ f.stale /\ iterator > 0 /\ iterator' \in Nat,
         UNCHANGED <<stage, to_write, commands>>
  PROVE  CleanInv'
<1>1. /\ \A i \in 1 .. Len(pipe') :
           \/ i \in 1 .. Len(pipe) /\ pipe'[i] = pipe[i]
           \/ i = Len(pipe) + 1 /\ Len(pipe') = i /\ pipe'[i] = f
      /\ Len(pipe') \in Nat /\ Len(pipe) \in Nat
  BY JoinedPipe, Counts DEF StartupInv
<1>2. /\ Handled' = Handled /\ Handled \in Int
      /\ SelfReplies \in Nat /\ iterator \in Nat
  BY Counts DEF Handled, StartupInv, StartupTypeOK
<1>3. ~ Answers(f)
  BY <1>2 DEF Answers, CleanInv
<1>4. ASSUME stage = "fence" PROVE FenceClean'
  <2>1. FenceClean
    BY <1>4 DEF CleanInv
  <2>2. ASSUME NEW i \in 1 .. Len(pipe'), Answers(pipe'[i])
        PROVE  /\ Handled = SelfReplies + 1
               /\ \A j \in i + 1 .. Len(pipe') : pipe'[j].code = "push"
    <3>1. i \in 1 .. Len(pipe) /\ pipe'[i] = pipe[i]
      BY <1>1, <1>3, <2>2
    <3>2. /\ Handled = SelfReplies + 1
          /\ \A j \in i + 1 .. Len(pipe) : pipe[j].code = "push"
      BY <2>1, <2>2, <3>1 DEF FenceClean
    <3>3. f.code = "push"
      BY <1>2, <2>1, <3>2 DEF FenceClean
    <3> QED
      BY <1>1, <3>2, <3>3
  <2>3. Handled > 0 => iterator' = 0
    BY <1>2, <2>1 DEF FenceClean
  <2> QED
    BY <1>2, <2>1, <2>2, <2>3 DEF FenceClean, Answers
<1>5. ASSUME stage = "scope" PROVE ScopeClean'
  <2>1. ScopeClean /\ f.code = "push" /\ iterator' = iterator
    BY <1>2, <1>5 DEF CleanInv, ScopeClean
  <2> QED
    BY <1>1, <2>1 DEF ScopeClean
<1>6. ASSUME stage = "ready" PROVE ReadyClean'
  <2>1. ReadyClean /\ f.code = "push" /\ iterator' = iterator
    BY <1>2, <1>6 DEF CleanInv, ReadyClean
  <2> QED
    BY <1>1, <2>1 DEF ReadyClean
<1> QED
  BY <1>4, <1>5, <1>6 DEF CleanInv

LEMMA WriteProbeClean ==
  ASSUME StartupInv, CleanInv, WriteProbe
  PROVE  CleanInv'
<1>1. /\ commands \in Seq(Commands) /\ to_write \in Seq(Commands)
      /\ Len(commands) \in Nat /\ Len(to_write) \in Nat
      /\ to_write # <<>>
      /\ commands' = Append(commands, Head(to_write))
      /\ to_write' = Tail(to_write)
      /\ UNCHANGED <<stage, pipe, iterator>>
  BY Counts DEF StartupInv, StartupTypeOK, WriteProbe
<1>2. /\ Len(to_write) > 0
      /\ Head(to_write) = to_write[1]
      /\ Head(to_write) \in Commands
      /\ Len(to_write') = Len(to_write) - 1
      /\ \A i \in 1 .. Len(to_write') : to_write'[i] = to_write[i + 1]
  BY <1>1, HeadTailProperties, EmptySeq
<1>3. /\ Len(commands') = Len(commands) + 1
      /\ \A i \in 1 .. Len(commands) : commands'[i] = commands[i]
      /\ commands'[Len(commands) + 1] = to_write[1]
  BY <1>1, <1>2, AppendProperties
<1>4. /\ Len(commands') + Len(to_write') = Len(commands) + Len(to_write)
      /\ Len(commands) + Len(to_write) # 0
  BY <1>1, <1>2, <1>3
<1>5. Handled' = Handled /\ Handled \in Int
  BY <1>4, Counts DEF Handled, StartupInv
<1>6. ASSUME stage = "fence" PROVE FenceClean'
  <2>1. FenceClean
    BY <1>6 DEF CleanInv
  <2>2. \A i \in 1 .. Len(commands') : commands'[i] = Probes[Handled + i]
    <3> SUFFICES ASSUME NEW i \in 1 .. Len(commands')
                 PROVE  commands'[i] = Probes[Handled + i]
      OBVIOUS
    <3>1. CASE i \in 1 .. Len(commands)
      BY <1>3, <2>1, <3>1 DEF FenceClean
    <3>2. CASE i = Len(commands) + 1
      <4>1. to_write[1] = Probes[Handled + Len(commands) + 1]
        BY <1>1, <1>2, <2>1 DEF FenceClean
      <4>2. Handled + Len(commands) + 1 = Handled + i
        BY <1>1, <1>5, <3>2
      <4> QED
        BY <1>3, <3>2, <4>1, <4>2
    <3> QED
      BY <1>1, <1>3, <3>1, <3>2
  <2>3. \A i \in 1 .. Len(to_write') :
          to_write'[i] = Probes[Handled + Len(commands') + i]
    <3> SUFFICES ASSUME NEW i \in 1 .. Len(to_write')
                 PROVE  to_write'[i] = Probes[Handled + Len(commands') + i]
      OBVIOUS
    <3>1. i + 1 \in 1 .. Len(to_write) /\ to_write'[i] = to_write[i + 1]
      BY <1>1, <1>2
    <3>2. to_write[i + 1] = Probes[Handled + Len(commands) + (i + 1)]
      BY <2>1, <3>1 DEF FenceClean
    <3>3. Handled + Len(commands) + (i + 1) = Handled + Len(commands') + i
      BY <1>1, <1>3, <1>5
    <3> QED
      BY <3>1, <3>2, <3>3
  <2> QED
    BY <1>1, <1>5, <2>1, <2>2, <2>3 DEF FenceClean, Answers
<1>7. ASSUME stage = "scope" PROVE ScopeClean'
  BY <1>1, <1>4, <1>7 DEF CleanInv, ScopeClean
<1>8. stage # "ready"
  BY <1>4 DEF CleanInv, ReadyClean
<1> QED
  BY <1>1, <1>6, <1>7, <1>8 DEF CleanInv

\* A command of the fence is executed: the APP_STARTs answer themselves and end
\* the old stream, the DEVICE_QUERY is the last.
LEMMA HandleInFence ==
  ASSUME StartupInv, FenceClean, Handle
  PROVE  /\ Handled' = Handled + 1
         /\ Handled' <= SelfReplies + 1
         /\ \A i \in 1 .. Len(commands') : commands'[i] = Probes[Handled' + i]
         /\ \A i \in 1 .. Len(to_write') :
              to_write'[i] = Probes[Handled' + Len(commands') + i]
         /\ Head(commands) # "app_start" => Handled' = SelfReplies + 1
         /\ iterator' = 0
<1>1. /\ commands \in Seq(Commands)
      /\ Len(commands) \in Nat /\ Len(to_write) \in Nat
      /\ commands # <<>>
      /\ commands' = Tail(commands)
      /\ to_write' = to_write
      /\ SelfReplies \in Nat \ {0}
      /\ Handled \in Int /\ Handled >= 0
  BY Counts DEF StartupInv, StartupTypeOK, Handle, FenceClean
<1>2. /\ Len(commands) > 0
      /\ Head(commands) = commands[1]
      /\ Len(commands') = Len(commands) - 1
      /\ \A i \in 1 .. Len(commands') : commands'[i] = commands[i + 1]
  BY <1>1, HeadTailProperties, EmptySeq
<1>3. Handled' = Handled + 1 /\ Handled' <= SelfReplies + 1
  BY <1>1, <1>2 DEF Handled
<1>4. \A i \in 1 .. Len(commands') : commands'[i] = Probes[Handled' + i]
  <2> SUFFICES ASSUME NEW i \in 1 .. Len(commands')
               PROVE  commands'[i] = Probes[Handled' + i]
    OBVIOUS
  <2>1. i + 1 \in 1 .. Len(commands) /\ commands'[i] = commands[i + 1]
    BY <1>1, <1>2
  <2>2. commands[i + 1] = Probes[Handled + (i + 1)]
    BY <2>1 DEF FenceClean
  <2>3. Handled + (i + 1) = Handled' + i
    BY <1>1, <1>3
  <2> QED
    BY <2>1, <2>2, <2>3
<1>5. \A i \in 1 .. Len(to_write') :
        to_write'[i] = Probes[Handled' + Len(commands') + i]
  <2> SUFFICES ASSUME NEW i \in 1 .. Len(to_write)
               PROVE  to_write[i] = Probes[Handled' + Len(commands') + i]
    BY <1>1
  <2>1. to_write[i] = Probes[Handled + Len(commands) + i]
    BY DEF FenceClean
  <2>2. Handled + Len(commands) + i = Handled' + Len(commands') + i
    BY <1>1, <1>2, <1>3
  <2> QED
    BY <2>1, <2>2
<1>6. Head(commands) = Probes[Handled + 1]
  BY <1>1, <1>2 DEF FenceClean
<1>7. CASE Handled + 1 <= SelfReplies
  <2>1. Head(commands) = "app_start"
    BY <1>1, <1>6, <1>7, ProbesFacts
  <2> QED
    BY <1>3, <1>4, <1>5, <2>1 DEF Handle
<1>8. CASE Handled + 1 = SelfReplies + 1
  <2>1. Handled > 0
    BY <1>1, <1>8
  <2>2. iterator = 0
    BY <2>1 DEF FenceClean
  <2>3. iterator' = 0
    BY <2>2 DEF Handle
  <2> QED
    BY <1>1, <1>3, <1>4, <1>5, <1>8, <2>3
<1> QED
  BY <1>1, <1>3, <1>7, <1>8

LEMMA HandleClean ==
  ASSUME StartupInv, CleanInv, Handle
  PROVE  CleanInv'
<1>1. PICK f \in Frames :
        /\ pipe' \in {pipe, Enqueue(f)}
        /\ Answers(f) => Head(commands) # "app_start"
  <2>1. PICK code \in Codes :
          /\ pipe' \in {pipe, Enqueue([code |-> code, stale |-> FALSE])}
          /\ code \in {"device_info", "unsupported"} =>
               Head(commands) # "app_start"
    <3>1. CASE pipe' = pipe
      <4>1. "ok" \in Codes /\ "ok" \notin {"device_info", "unsupported"}
        BY DEF Codes
      <4> QED
        BY <3>1, <4>1
    <3>2. CASE pipe' # pipe
      <4>1. PICK code \in Reply(Head(commands)) :
              pipe' = Enqueue([code |-> code, stale |-> FALSE])
        BY <3>2 DEF Handle
      <4>2. /\ code \in Codes
            /\ code \in {"device_info", "unsupported"} =>
                 Head(commands) # "app_start"
        BY DEF Reply, Codes
      <4> QED
        BY <4>1, <4>2
    <3> QED
      BY <3>1, <3>2
  <2> DEFINE f == [code |-> code, stale |-> FALSE]
  <2>2. f \in Frames /\ f.code = code
    BY DEF Frames
  <2> QED
    BY <2>1, <2>2 DEF Answers
<1>2. /\ \A i \in 1 .. Len(pipe') :
           \/ i \in 1 .. Len(pipe) /\ pipe'[i] = pipe[i]
           \/ i = Len(pipe) + 1 /\ Len(pipe') = i /\ pipe'[i] = f
      /\ Len(pipe') \in Nat /\ Len(pipe) \in Nat
  BY <1>1, JoinedPipe, Counts DEF StartupInv
<1>3. /\ UNCHANGED <<stage, to_write>>
      /\ Len(commands) \in Nat /\ Len(to_write) \in Nat
      /\ Len(commands) > 0 /\ Len(commands') = Len(commands) - 1
      /\ iterator = 0 => iterator' = 0
  BY Counts, HeadTailProperties, EmptySeq
     DEF StartupInv, StartupTypeOK, Handle
<1>4. ASSUME stage = "fence" PROVE FenceClean'
  <2>1. FenceClean
    BY <1>4 DEF CleanInv
  <2>2. Handled # SelfReplies + 1
    BY <1>3, Counts DEF StartupInv
  <2>3. ASSUME NEW i \in 1 .. Len(pipe'), Answers(pipe'[i])
        PROVE  /\ Handled' = SelfReplies + 1
               /\ \A j \in i + 1 .. Len(pipe') : pipe'[j].code = "push"
    <3>1. i \notin 1 .. Len(pipe) \/ pipe'[i] # pipe[i]
      BY <2>1, <2>2, <2>3 DEF FenceClean
    <3>2. Len(pipe') = i /\ pipe'[i] = f
      BY <1>2, <3>1
    <3>3. Handled' = SelfReplies + 1
      BY <1>1, <2>1, <2>3, <3>2, HandleInFence
    <3> QED
      BY <1>2, <3>2, <3>3
  <2>4. Handled' >= 0
    BY <2>1, HandleInFence, Counts DEF StartupInv, FenceClean
  <2> QED
    BY <2>1, <2>3, <2>4, HandleInFence DEF FenceClean, Answers
<1>5. ASSUME stage = "scope" PROVE ScopeClean'
  <2>1. ScopeClean
    BY <1>5 DEF CleanInv
  <2>2. \A i \in 1 .. Len(pipe) : pipe[i].code = "push"
    BY <1>3, <2>1 DEF ScopeClean
  <2>3. Len(commands') + Len(to_write') = 0
    BY <1>3, <2>1 DEF ScopeClean
  <2>4. ASSUME NEW i \in 1 .. Len(pipe'), pipe'[i].code # "push",
               NEW j \in 1 .. Len(pipe'), j # i
        PROVE  pipe'[j].code = "push"
    <3>1. i = Len(pipe) + 1
      BY <1>2, <2>2, <2>4
    <3> QED
      BY <1>2, <2>2, <2>4, <3>1
  <2> QED
    BY <1>3, <2>1, <2>3, <2>4 DEF ScopeClean
<1>6. stage # "ready"
  BY <1>3 DEF CleanInv, ReadyClean
<1> QED
  BY <1>3, <1>4, <1>5, <1>6 DEF CleanInv

LEMMA ReceiveClean ==
  ASSUME StartupInv, CleanInv, Receive
  PROVE  CleanInv'
<1>1. NextFrame
  BY DEF Receive, ReceivePush, ReceiveSelfInfo, ReceiveDeviceInfo,
         ReceiveOther, ReceiveScopeReply
<1>2. /\ Len(pipe) \in Nat /\ Len(pipe) > 0 /\ Len(pipe') \in Nat
      /\ Len(pipe') = Len(pipe) - 1
      /\ \A i \in 1 .. Len(pipe') :
           i + 1 \in 1 .. Len(pipe) /\ pipe'[i] = pipe[i + 1]
      /\ Head(pipe) = pipe[1]
      /\ UNCHANGED <<commands, iterator>>
  <2>1. Len(pipe) \in Nat /\ UNCHANGED <<commands, iterator>>
    BY <1>1, Counts DEF StartupInv, NextFrame
  <2>2. /\ pipe # <<>>
        /\ Len(pipe') = Len(pipe) - 1
        /\ \A i \in 1 .. Len(pipe') : pipe'[i] = pipe[i + 1]
        /\ Head(pipe) = pipe[1]
        /\ Len(pipe') \in Nat
    BY <1>1, NextFramePipe, LenProperties DEF StartupInv
  <2> QED
    BY <2>1, <2>2
<1>3. /\ Len(commands) \in Nat /\ Len(to_write) \in Nat
      /\ SelfReplies \in Nat \ {0}
      /\ Handled = SelfReplies + 1 <=> Len(commands) + Len(to_write) = 0
  BY Counts DEF StartupInv
<1>4. ASSUME stage = "fence", to_write' = to_write PROVE FenceClean'
  <2>1. FenceClean /\ Handled' = Handled
    BY <1>2, <1>4 DEF CleanInv, Handled
  <2>2. ASSUME NEW i \in 1 .. Len(pipe'), Answers(pipe'[i])
        PROVE  /\ Handled = SelfReplies + 1
               /\ \A j \in i + 1 .. Len(pipe') : pipe'[j].code = "push"
    <3>1. i + 1 \in 1 .. Len(pipe) /\ Answers(pipe[i + 1])
      BY <1>2, <2>2
    <3>2. /\ Handled = SelfReplies + 1
          /\ \A j \in (i + 1) + 1 .. Len(pipe) : pipe[j].code = "push"
      BY <2>1, <3>1 DEF FenceClean
    <3>3. ASSUME NEW j \in i + 1 .. Len(pipe') PROVE pipe'[j].code = "push"
      <4>1. j + 1 \in (i + 1) + 1 .. Len(pipe) /\ pipe'[j] = pipe[j + 1]
        BY <1>2
      <4> QED
        BY <3>2, <4>1
    <3> QED
      BY <3>2, <3>3
  <2> QED
    BY <1>2, <1>4, <2>1, <2>2 DEF FenceClean, Answers
<1>5. CASE ReceivePush
  <2>1. stage' = stage /\ to_write' = to_write /\ stage \in {"fence", "scope"}
    BY <1>1, <1>5 DEF ReceivePush, NextFrame, Synchronizing
  <2>2. ASSUME stage = "scope" PROVE ScopeClean'
    <3>1. ScopeClean
      BY <2>2 DEF CleanInv
    <3>2. ASSUME NEW i \in 1 .. Len(pipe'), pipe'[i].code # "push"
          PROVE  /\ Len(commands) + Len(to_write) = 0
                 /\ \A j \in 1 .. Len(pipe') : j # i => pipe'[j].code = "push"
      <4>1. i + 1 \in 1 .. Len(pipe) /\ pipe[i + 1].code # "push"
        BY <1>2, <3>2
      <4>2. /\ Len(commands) + Len(to_write) = 0
            /\ \A j \in 1 .. Len(pipe) : j # i + 1 => pipe[j].code = "push"
        BY <3>1, <4>1 DEF ScopeClean
      <4>3. ASSUME NEW j \in 1 .. Len(pipe'), j # i
            PROVE  pipe'[j].code = "push"
        <5>1. /\ j + 1 \in 1 .. Len(pipe) /\ pipe'[j] = pipe[j + 1]
              /\ j + 1 # i + 1
          BY <1>2, <4>3
        <5> QED
          BY <4>2, <5>1
      <4> QED
        BY <4>2, <4>3
    <3> QED
      BY <1>2, <2>1, <3>1, <3>2 DEF ScopeClean
  <2> QED
    BY <1>4, <2>1, <2>2 DEF CleanInv
<1>6. CASE ReceiveSelfInfo \/ ReceiveOther
  <2>1. stage = "fence" /\ stage' = "fence" /\ to_write' = to_write
    BY <1>6 DEF ReceiveSelfInfo, ReceiveOther, Interrupted
  <2> QED
    BY <1>4, <2>1 DEF CleanInv
<1>7. CASE ReceiveDeviceInfo
  <2>1. CASE stage' = "error"
    BY <2>1 DEF CleanInv
  <2>2. CASE stage' # "error"
    <3>1. /\ stage = "fence" /\ stage' = "scope"
          /\ device_info' = Age(Head(pipe))
          /\ to_write' = Append(to_write, "set_flood_scope_key")
          /\ Head(pipe).code \in {"device_info", "unsupported"}
      BY <1>7, <2>2 DEF ReceiveDeviceInfo, Raise, AfterDeviceInfo
    <3>2. Age(Head(pipe)) = "fresh"
      BY <3>1, ReceiveInv DEF StartupInv, FreshIdentity
    <3>3. Answers(pipe[1])
      BY <1>2, <3>1, <3>2 DEF Age, Answers
    <3>4. /\ Handled = SelfReplies + 1 /\ iterator = 0
          /\ \A j \in 1 + 1 .. Len(pipe) : pipe[j].code = "push"
      BY <1>2, <1>3, <3>1, <3>3 DEF CleanInv, FenceClean
    <3>5. \A i \in 1 .. Len(pipe') : pipe'[i].code = "push"
      BY <1>2, <3>4
    <3>6. Len(to_write') = Len(to_write) + 1
      <4>1. "set_flood_scope_key" \in Commands /\ to_write \in Seq(Commands)
        BY DEF Commands, StartupInv, StartupTypeOK
      <4> QED
        BY <3>1, <4>1, AppendProperties
    <3>7. ScopeClean'
      BY <1>2, <1>3, <3>4, <3>5, <3>6 DEF ScopeClean
    <3> QED
      BY <3>1, <3>7 DEF CleanInv
  <2> QED
    BY <2>1, <2>2
<1>8. CASE ReceiveScopeReply
  <2>1. CASE stage' = "error"
    BY <2>1 DEF CleanInv
  <2>2. CASE stage' # "error"
    <3>1. /\ stage = "scope" /\ stage' = "ready" /\ to_write' = to_write
          /\ Head(pipe).code # "push"
      BY <1>8, <2>2 DEF ReceiveScopeReply, Raise
    <3>2. /\ Len(commands) + Len(to_write) = 0 /\ iterator = 0
          /\ \A j \in 1 .. Len(pipe) : j # 1 => pipe[j].code = "push"
      BY <1>2, <3>1 DEF CleanInv, ScopeClean
    <3>3. ReadyClean'
      BY <1>2, <3>1, <3>2 DEF ReadyClean
    <3> QED
      BY <3>1, <3>3 DEF CleanInv
  <2> QED
    BY <2>1, <2>2
<1> QED
  BY <1>5, <1>6, <1>7, <1>8 DEF Receive

LEMMA CleanInit == StartupInit => CleanInv
<1> SUFFICES ASSUME StartupInit PROVE FenceClean
  BY DEF StartupInit, CleanInv
<1>1. \A i \in 1 .. Len(pipe) : ~ Answers(pipe[i])
  BY InitialLeftovers DEF StartupInit, Answers
<1>2. /\ Len(commands) = 0 /\ Len(to_write) = SelfReplies + 1
      /\ to_write = Probes
  BY ProbesFacts DEF StartupInit
<1>3. \A n \in Int : n + 1 - (0 + (n + 1)) = 0 /\ \A i \in Int : 0 + 0 + i = i
  OBVIOUS
<1>4. Handled = 0
  BY <1>2, <1>3, StartupAssumption DEF Handled
<1> QED
  BY <1>1, <1>2, <1>3, <1>4 DEF FenceClean

LEMMA ConnectClean ==
  ASSUME StartupInv, CleanInv, Connect
  PROVE  CleanInv'
<1>1. \A i \in 1 .. Len(pipe') : ~ Answers(pipe'[i])
  BY ConnectPipe DEF Answers
<1>2. /\ Len(commands') = 0 /\ Len(to_write') = SelfReplies + 1
      /\ to_write' = Probes /\ stage' = "fence"
  BY ProbesFacts DEF Connect, Begin
<1>3. \A n \in Int : n + 1 - (0 + (n + 1)) = 0 /\ \A i \in Int : 0 + 0 + i = i
  OBVIOUS
<1>4. Handled' = 0
  BY <1>2, <1>3, StartupAssumption DEF Handled
<1>5. FenceClean'
  BY <1>1, <1>2, <1>3, <1>4 DEF FenceClean, Answers
<1> QED
  BY <1>2, <1>5 DEF CleanInv

LEMMA CleanNext ==
  StartupInv /\ CleanInv /\ [StartupNext]_startupVars => CleanInv'
<1> SUFFICES ASSUME StartupInv, CleanInv, [StartupNext]_startupVars
             PROVE  CleanInv'
  OBVIOUS
<1>1. CASE Abort
  BY <1>1 DEF Abort, Raise, CleanInv
<1>2. CASE Send \/ UNCHANGED startupVars
  BY <1>2 DEF Send, startupVars, CleanInv, FenceClean, ScopeClean, ReadyClean,
              Handled, Answers
<1>3. CASE Iterate
  <2> DEFINE f == [code |-> "contact", stale |-> TRUE]
  <2>1. f \in Frames /\ f.stale
    BY DEF Frames, Codes
  <2>2. pipe' = Enqueue(f)
    BY <1>3 DEF Iterate
  <2>3. /\ iterator > 0 /\ iterator' \in Nat
        /\ UNCHANGED <<stage, to_write, commands>>
    BY <1>3 DEF Iterate, StartupInv, StartupTypeOK
  <2> HIDE DEF f
  <2> QED
    BY <2>1, <2>2, <2>3, JoinClean
<1>4. CASE PushFrame
  <2> DEFINE f == [code |-> "push", stale |-> FALSE]
  <2>1. f \in Frames /\ f.code = "push"
    BY DEF Frames, Codes
  <2>2. pipe' = Enqueue(f)
    BY <1>4 DEF PushFrame
  <2>3. UNCHANGED <<stage, to_write, commands, iterator>>
    BY <1>4 DEF PushFrame
  <2> HIDE DEF f
  <2> QED
    BY <2>1, <2>2, <2>3, JoinClean
<1> QED
  BY <1>1, <1>2, <1>3, <1>4, WriteProbeClean, ReceiveClean, ConnectClean,
     HandleClean DEF StartupNext, CompanionLoop

\* When the epoch begins nothing but pushes is on its way, and no command of
\* the handshake is left to be answered, for every number of APP_STARTs and
\* every sequence of leftovers (Startup#receive, Runtime#start_epoch).
THEOREM StartupLeavesNothing == StartupSpec => []ReadyIsClean
<1>1. StartupInv /\ CleanInv => ReadyIsClean
  <2> SUFFICES ASSUME StartupInv, CleanInv, stage = "ready"
               PROVE  /\ \A i \in DOMAIN pipe : pipe[i].code = "push"
                      /\ commands = <<>>
                      /\ to_write = <<>>
                      /\ iterator = 0
    BY DEF ReadyIsClean
  <2>1. ReadyClean /\ Len(commands) \in Nat /\ Len(to_write) \in Nat
    BY Counts DEF CleanInv, StartupInv
  <2>2. Len(commands) = 0 /\ Len(to_write) = 0
    BY <2>1 DEF ReadyClean
  <2>3. /\ commands = <<>> /\ to_write = <<>>
        /\ DOMAIN pipe = 1 .. Len(pipe)
    BY <2>2, EmptySeq, LenProperties DEF StartupInv, StartupTypeOK
  <2> QED
    BY <2>1, <2>3 DEF ReadyClean
<1> QED
  BY <1>1, StartupInvInit, StartupInvNext, CleanInit, CleanNext, PTL
     DEF StartupSpec
=============================================================================
