--------------------------- MODULE QueryContract ---------------------------
(***************************************************************************)
(* The contract every catalog query of the driver promises its statement  *)
(* (spec section 4.1, the virtual interface of query/query.h): Execute    *)
(* either fails and leaves the query unexecuted or succeeds and exposes a  *)
(* result sequence with the cursor before its first row; FetchNextRow      *)
(* fails with a sequence error before Execute, moves the cursor one row    *)
(* and reports "no data" once, and again, past the last row; Close and     *)
(* Cancel drop the result and make the query executable again.           *)
(*                                                                         *)
(* pos is the cursor: 0 is "before the first row", 1..Len(rows) a row and *)
(* Len(rows)+1 "after the last row".  An empty result has no row to be     *)
(* before, so a successful Execute of an empty result leaves the cursor   *)
(* after its (absent) last row.                                            *)
(***************************************************************************)
EXTENDS Naturals, Sequences

CONSTANT Row        \* the values a result row may take

VARIABLES
  executed,         \* a successful Execute has not been closed since
  rows,             \* the result sequence
  pos,              \* the cursor
  ret               \* [op, code]: the last contract operation and its return

vars == <<executed, rows, pos, ret>>

Codes == {"SUCCESS", "SUCCESS_WITH_INFO", "ERROR", "NO_DATA"}

Init ==
  /\ executed = FALSE
  /\ rows = <<>>
  /\ pos = 0
  /\ ret = [op |-> "Init", code |-> "SUCCESS"]

Returns(op, code) == ret' = [op |-> op, code |-> code]

ExecuteFails ==
  /\ \E c \in {"ERROR", "NO_DATA"} : Returns("Execute", c)
  /\ executed' = FALSE
  /\ rows' = <<>>
  /\ pos' = 0

ExecuteSucceeds ==
  /\ \E c \in {"SUCCESS", "SUCCESS_WITH_INFO"} : Returns("Execute", c)
  /\ executed' = TRUE
  /\ rows' \in Seq(Row)
  /\ pos' = IF rows' = <<>> THEN 1 ELSE 0

FetchBeforeExecute ==
  /\ ~executed
  /\ Returns("FetchNextRow", "ERROR")
  /\ UNCHANGED <<executed, rows, pos>>

FetchNext ==
  /\ executed
  /\ pos' = IF pos <= Len(rows) THEN pos + 1 ELSE pos
  /\ Returns("FetchNextRow", IF pos' <= Len(rows) THEN "SUCCESS" ELSE "NO_DATA")
  /\ UNCHANGED <<executed, rows>>

Drop(op) ==
  /\ Returns(op, "SUCCESS")
  /\ executed' = FALSE
  /\ rows' = <<>>
  /\ pos' = 0

Next ==
  \/ ExecuteFails
  \/ ExecuteSucceeds
  \/ FetchBeforeExecute
  \/ FetchNext
  \/ Drop("Close")
  \/ Drop("Cancel")

Spec == Init /\ [][Next]_vars

=============================================================================
