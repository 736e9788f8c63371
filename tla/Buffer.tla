-------------------------------- MODULE Buffer --------------------------------
(***************************************************************************)
(* What the memory of one series promises: it has one sample for a         *)
(* timestamp, the one written last, and answers a range with the earliest  *)
(* samples in it, in the order of time.  A drain takes everything.         *)
(***************************************************************************)
EXTENDS Rows

CONSTANTS Timestamps, MaxWrites

VARIABLES
    content, \* the samples
    writes,  \* how many were written; orders them
    reply    \* the last operation asked for, and what it returned

Reply(asked, rows) == reply' = [asked |-> asked, rows |-> rows]

Init == content = {} /\ writes = 0 /\ reply = [asked |-> << >>, rows |-> << >>]

Write(ts) ==
    /\ writes < MaxWrites
    /\ writes' = writes + 1
    /\ content' = {x \in content : x.timestamp_ms # ts}
                      \union {[timestamp_ms |-> ts, seq_no |-> writes]}
    /\ Reply(<<ts>>, << >>)

Read(start_ts, end_ts, n) ==
    /\ LET found == InOrder({x \in content : x.timestamp_ms \in start_ts .. end_ts})
       IN  Reply(<<start_ts, end_ts, n>>, SubSeq(found, 1, IF n < Len(found) THEN n ELSE Len(found)))
    /\ UNCHANGED <<content, writes>>

Drain == Reply(<< >>, InOrder(content)) /\ content' = {} /\ UNCHANGED writes

Next ==
    \/ \E ts \in Timestamps : Write(ts)
    \/ \E start_ts, end_ts \in Timestamps, n \in 0 .. MaxWrites : Read(start_ts, end_ts, n)
    \/ Drain

Spec == Init /\ [][Next]_<<content, writes, reply>>

===============================================================================
