--------------------- MODULE ReceivedMessageDeduplicator ---------------------
(***************************************************************************)
(* The bounded history of text messages already taken from the physical    *)
(* inbox: a queue of identities, the oldest evicted first.  `@seen` is the *)
(* set of the identities in `@order`, so the queue alone is the state.     *)
(***************************************************************************)
EXTENDS Naturals, Sequences

CONSTANTS
  Text,            \* Text[item]: its identity, 0 for an item that is not text
  HistoryCapacity, \* ReceivedMessageDeduplicator::CAPACITY
  Deduplicate      \* config.deduplicate_received_messages

ASSUME DeduplicatorAssumption ==
  HistoryCapacity \in Nat \ {0} /\ Deduplicate \in BOOLEAN

Remembered(seen, item) ==
  Text[item] # 0 /\ \E i \in 1 .. Len(seen) : seen[i] = Text[item]

Duplicate(seen, item) == Deduplicate /\ Remembered(seen, item)

Remember(seen, item) ==
  CASE ~ Deduplicate \/ Text[item] = 0 \/ Remembered(seen, item) -> seen
    [] OTHER ->
         Append(IF Len(seen) >= HistoryCapacity THEN Tail(seen) ELSE seen,
                Text[item])
=============================================================================
