--------------------------- MODULE DataTransfer104 ---------------------------
(***************************************************************************)
(* What a connection promises to the applications at its two ends, with no *)
(* sequence numbers, windows or APDUs: each end's ASDUs form a stream that *)
(* reaches the other end in order, without loss or repetition, as long as  *)
(* both ends are open; and an ASDU counts as confirmed only after it was   *)
(* handed over.  Link104 implements this.                                  *)
(***************************************************************************)
EXTENDS Integers, Sequences

CONSTANTS End,          \* the two ends
          Other(_)      \* the other end

VARIABLES open,         \* open[e]: end e has not closed
          submitted,    \* submitted[e]: ASDUs accepted from e's application
          delivered,    \* delivered[e]: those the other end handed over, by number
          confirmed     \* confirmed[e]: how many of them e knows to be delivered

vars == <<open, submitted, delivered, confirmed>>

Init ==
    /\ open      = [e \in End |-> TRUE]
    /\ submitted = [e \in End |-> 0]
    /\ delivered = [e \in End |-> <<>>]
    /\ confirmed = [e \in End |-> 0]

Submit(e) ==
    /\ open[e]
    /\ submitted' = [submitted EXCEPT ![e] = @ + 1]
    /\ UNCHANGED <<open, delivered, confirmed>>

\* End e takes one message of the other end: it may carry the next ASDU of the
\* other end's stream, and confirm some of e's own.
Take(e) ==
    /\ open[e]
    /\ \/ UNCHANGED delivered
       \/ /\ Len(delivered[Other(e)]) < submitted[Other(e)]
          /\ delivered' = [delivered EXCEPT ![Other(e)] = Append(@, Len(@) + 1)]
    /\ \E n \in confirmed[e] .. Len(delivered[e]) :
          confirmed' = [confirmed EXCEPT ![e] = n]
    /\ UNCHANGED <<open, submitted>>

Close(e) ==
    /\ open[e]
    /\ open' = [open EXCEPT ![e] = FALSE]
    /\ UNCHANGED <<submitted, delivered, confirmed>>

Next == \E e \in End : Submit(e) \/ Take(e) \/ Close(e)

Spec == Init /\ [][Next]_vars
==============================================================================
