------------------------------ MODULE UriTable ------------------------------
(***************************************************************************)
(* What the URID map of the live LV2 adapter promises its plugin: ids name *)
(* the rows of a table that only grows and holds a URI once.  A lookup     *)
(* answers the row of its URI or 0, and 0 never for a URI that was in the  *)
(* table when the lookup began.                                            *)
(***************************************************************************)
EXTENDS Naturals, Sequences

CONSTANTS
  Threads,   \* threads of the plugin
  Uris,      \* URIs that it maps
  Capacity   \* rows of the table

VARIABLES
  table,     \* the URIs, in the order of their ids
  call       \* each thread's lookup: its URI, whether that was known, the answer

Rows == {table[i] : i \in DOMAIN table}
Pending == Capacity + 1   \* no answer yet
Idle == [uri |-> "none", known |-> FALSE, answer |-> 0]

Init == table = <<>> /\ call = [t \in Threads |-> Idle]

Begin(t, u) ==
  /\ call[t].answer # Pending
  /\ call' = [call EXCEPT ![t] = [uri |-> u, known |-> u \in Rows, answer |-> Pending]]
  /\ UNCHANGED table

Register(t) ==
  /\ call[t].answer = Pending /\ call[t].uri \notin Rows /\ Len(table) < Capacity
  /\ table' = Append(table, call[t].uri)
  /\ UNCHANGED call

Answer(t) ==
  /\ call[t].answer = Pending
  /\ \/ \E i \in DOMAIN table :
          table[i] = call[t].uri /\ call' = [call EXCEPT ![t].answer = i]
     \/ ~call[t].known /\ call' = [call EXCEPT ![t].answer = 0]
  /\ UNCHANGED table

Next == \E t \in Threads : (\E u \in Uris : Begin(t, u)) \/ Register(t) \/ Answer(t)

Spec == Init /\ [][Next]_<<table, call>>

=============================================================================
