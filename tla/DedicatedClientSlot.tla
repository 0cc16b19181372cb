------------------------ MODULE DedicatedClientSlot ------------------------
(***************************************************************************)
(* The bounded offline queue of one dedicated client port.  At capacity    *)
(* the oldest channel-class item makes room; when only direct messages are *)
(* queued the arriving item is discarded.                                  *)
(***************************************************************************)
EXTENDS Naturals, Sequences

CONSTANTS
  ChannelItems,      \* items whose frame code is a channel message or datum
  OfflineQueueSize   \* config.offline_queue_size

ASSUME OfflineQueueAssumption == OfflineQueueSize \in Nat \ {0}

EveryIndex(queue) == 1 .. Len(queue)
ChannelIndexes(queue) == {i \in 1 .. Len(queue) : queue[i] \in ChannelItems}

Full(queue) == Len(queue) >= OfflineQueueSize

\* EnqueueResult::NewMessageDiscarded
Discards(queue) == Full(queue) /\ ChannelIndexes(queue) = {}

OldestChannel(queue) ==
  CHOOSE i \in ChannelIndexes(queue) : \A j \in ChannelIndexes(queue) : i <= j

DeleteAt(queue, i) ==
  [j \in 1 .. Len(queue) - 1 |-> IF j < i THEN queue[j] ELSE queue[j + 1]]

EnqueueOffline(queue, item) ==
  CASE Discards(queue) -> queue
    [] Full(queue) /\ ~ Discards(queue) ->
         Append(DeleteAt(queue, OldestChannel(queue)), item)
    [] OTHER -> Append(queue, item)
=============================================================================
