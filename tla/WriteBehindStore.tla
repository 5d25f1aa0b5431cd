--------------------------- MODULE WriteBehindStore ---------------------------
(***************************************************************************)
(* What the persistence writer promises, without its thread, lock, queue   *)
(* and flags.  Every key has a durable row and a backlog of accepted       *)
(* requests, each a snapshot and the receipt of the caller who asked for   *)
(* it.  The store may write any request of a backlog: that settles it and  *)
(* every older request of the same key with one verdict.  The row is       *)
(* therefore never taken back to a snapshot older than one it has held,    *)
(* and a receipt says "saved" only when its own snapshot or a newer one of *)
(* the same key reached the row.                                           *)
(***************************************************************************)
EXTENDS Naturals, Sequences

CONSTANTS
  Keys,         \* lower-cased account names, or the one key of a shared document
  States,       \* encoded snapshots
  Receipts,     \* identities of SaveReceipt objects
  InitialState  \* what every row holds at the start

VARIABLES
  backlog,      \* backlog[k]: accepted requests of k, oldest first
  durable,      \* durable[k]: the row of k in the database
  verdict       \* verdict[r]: what is known of the request r stands for

storeVars == <<backlog, durable, verdict>>

Request == [receipt : Receipts, encoded_state : States]

StoreInit ==
  /\ backlog = [k \in Keys |-> <<>>]
  /\ durable = [k \in Keys |-> InitialState]
  /\ verdict = [r \in Receipts |-> "unused"]

\* A caller's request is queued behind the older ones of its key.
Accept(k, s, r) ==
  /\ verdict[r] = "unused"
  /\ backlog' = [backlog EXCEPT ![k] = Append(@, [receipt |-> r, encoded_state |-> s])]
  /\ verdict' = [verdict EXCEPT ![r] = "open"]
  /\ UNCHANGED durable

\* The caller of the newest request gives it up for a newer snapshot.
Supersede(k, s, r) ==
  LET n == Len(backlog[k]) IN
  /\ n > 0
  /\ backlog[k][n].receipt = r
  /\ backlog' = [backlog EXCEPT ![k][n].encoded_state = s]
  /\ UNCHANGED <<durable, verdict>>

\* A request the store does not take.
Refuse(r) ==
  /\ verdict[r] = "unused"
  /\ verdict' = [verdict EXCEPT ![r] = "failed"]
  /\ UNCHANGED <<backlog, durable>>

\* The oldest n requests of k get the verdict v.
Settle(k, n, v) ==
  LET settled == {backlog[k][i].receipt : i \in 1..n} IN
  /\ backlog' = [backlog EXCEPT ![k] = SubSeq(@, n + 1, Len(@))]
  /\ verdict' = [r \in Receipts |-> IF r \in settled THEN v ELSE verdict[r]]

Commit(k, n) ==
  /\ durable' = [durable EXCEPT ![k] = backlog[k][n].encoded_state]
  /\ Settle(k, n, "saved")

Lose(k, n) ==
  /\ Settle(k, n, "failed")
  /\ UNCHANGED durable

\* A receipt whose verdict is known is dropped, and its identity reused.
Forget(r) ==
  /\ verdict[r] \in {"saved", "failed"}
  /\ verdict' = [verdict EXCEPT ![r] = "unused"]
  /\ UNCHANGED <<backlog, durable>>

StoreNext ==
  \/ \E k \in Keys, s \in States, r \in Receipts : Accept(k, s, r) \/ Supersede(k, s, r)
  \/ \E k \in Keys : \E n \in 1..Len(backlog[k]) : Commit(k, n) \/ Lose(k, n)
  \/ \E r \in Receipts : Refuse(r) \/ Forget(r)

StoreSpec == StoreInit /\ [][StoreNext]_storeVars
===============================================================================
