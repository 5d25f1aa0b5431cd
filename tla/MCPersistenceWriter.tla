------------------------- MODULE MCPersistenceWriter -------------------------
(* The writer under TLC: a key and a receipt more than the queue is explored with. *)
EXTENDS PersistenceWriter

CONSTANTS Excess,  \* the key that comes when the queue is full
          Spare    \* the receipt it is refused with

\* What an accepted key or receipt does shows with the others: these two are to be refused, and
\* accepted only by a queue that has overrun its limit.
ExcessIsRefused ==
  Pending(Excess) \/ receipt[Spare] = "open" => Len(order) > PendingKeyLimit
===============================================================================
