---------------------------- MODULE TurnJournal ----------------------------
(***************************************************************************)
(* The queue of a chat as its event journal remembers it                   *)
(* (server/agent_server.py, scan_queued_turns_from_events).  Recovery      *)
(* folds these events over events.jsonl; the model keeps the result of the *)
(* fold and applies one operator per event that is appended.  A journal is *)
(* the order of the rows that wait, with those that recovery restores held *)
(* and those whose delivery to the provider is uncertain.                  *)
(***************************************************************************)
EXTENDS Integers, SequencesExt

NoRows == [order |-> <<>>, held |-> {}, fenced |-> {}]

Waiting(j) == ToSet(j.order)

\* The place of a message among rows, or 0.
Place(rows, m) == SelectInSeq(rows, LAMBDA x : x = m)

\* turn_queued: a fresh row, at the end unless the id already has a place.
Queued(j, m) ==
  [order |-> IF m \in Waiting(j) THEN j.order ELSE Append(j.order, m),
   held |-> j.held \ {m}, fenced |-> j.fenced \ {m}]

\* Mutant: the hold is only in memory.
PausedInMemory(j, ms) == j
\* turn_queue_paused: Stop holds the rows it names.
Paused(j, ms) == [j EXCEPT !.held = @ \cup (ms \cap Waiting(j))]

\* Mutant: the row goes, its hold stays.
ConsumedKeepingMarks(j, m) == [j EXCEPT !.order = RemoveFirst(@, m)]
\* turn_started and turn_unqueued consume the row.
Consumed(j, m) == [order |-> RemoveFirst(j.order, m), held |-> j.held \ {m}, fenced |-> j.fenced \ {m}]

\* Mutant: the tombstone of older servers, without the fence.
Tombstone(j, m, place) == Consumed(j, m)
\* turn_unqueued with turn_queue_delivery_fenced: the row is held and marked at
\* the place that the fence names.
DeliveryFenced(j, m, place) ==
  LET rest == RemoveFirst(j.order, m)
      at == IF place > Len(rest) THEN Len(rest) + 1 ELSE place
  IN [order |-> InsertAt(rest, at, m), held |-> j.held \cup {m}, fenced |-> j.fenced \cup {m}]

\* turn_queue_run_now: the row is released and runs next.
RunNext(j, m) ==
  IF m \in Waiting(j)
  THEN [order |-> <<m>> \o RemoveFirst(j.order, m), held |-> j.held \ {m}, fenced |-> j.fenced \ {m}]
  ELSE j

\* The elements of s that are in T, in the order of s: SelectSeq without its
\* recursion, for the proofs.
Only(s, T) ==
  LET kept == {i \in DOMAIN s : s[i] \in T}
      rank(i) == Cardinality({k \in kept : k <= i})
  IN [n \in 1 .. Cardinality(kept) |-> s[CHOOSE i \in kept : rank(i) = n]]

\* turn_queue_reordered: the rows it lists come first, in its order.
Reordered(j, rows) ==
  [j EXCEPT !.order = Only(rows, Waiting(j)) \o Only(j.order, Waiting(j) \ ToSet(rows))]

=============================================================================
