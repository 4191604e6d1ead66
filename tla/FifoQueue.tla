----------------------------- MODULE FifoQueue -----------------------------
(* What a future_queue promises its users: a bounded first-in first-out queue *)
(* in which a producer first reserves a place and later publishes the entry   *)
(* there, an overwriting producer may remove the last published entry after   *)
(* locking it, and the single consumer takes the first published entry and    *)
(* then removes it.                                                           *)
EXTENDS Integers, Sequences

CONSTANTS Producers, Length, Entries, NoItem, Nobody

VARIABLES
    cells,      \* the places in use, in queue order
    taken,      \* the consumer has taken the first entry (and may look at it)
    out         \* everything the consumer removed, in order

vars == <<cells, taken, out>>

Pending(p)    == [state |-> "pending", by |-> p, entry |-> NoItem]
Locked(p, e)  == [state |-> "locked", by |-> p, entry |-> e]
Full(e)       == [state |-> "full", by |-> Nobody, entry |-> e]

Places     == 1 .. Len(cells)
HeldBy(p)  == {k \in Places : cells[k].by = p}
DropEnd(s) == SubSeq(s, 1, Len(s) - 1)

Init == cells = <<>> /\ taken = FALSE /\ out = <<>>

Reserve(p) ==
    /\ HeldBy(p) = {}
    /\ Len(cells) < Length
    /\ cells' = Append(cells, Pending(p))
    /\ UNCHANGED <<taken, out>>

Publish(p) ==
    \E k \in HeldBy(p) :
        /\ cells[k] = Pending(p)
        /\ \E e \in Entries : e.id[1] = p /\ cells' = [cells EXCEPT ![k] = Full(e)]
        /\ UNCHANGED <<taken, out>>

(* A published entry may be locked unless the consumer has taken it.          *)
Lock(p) ==
    /\ HeldBy(p) = {}
    /\ \E k \in Places :
        /\ cells[k].state = "full"
        /\ taken => k # 1
        /\ cells' = [cells EXCEPT ![k] = Locked(p, @.entry)]
        /\ UNCHANGED <<taken, out>>

Unlock(p) ==
    \E k \in HeldBy(p) :
        /\ cells[k].state = "locked"
        /\ cells' = [cells EXCEPT ![k] = Full(@.entry)]
        /\ UNCHANGED <<taken, out>>

DropLast(p) ==
    \E k \in HeldBy(p) :
        /\ cells[k].state = "locked"
        /\ k = Len(cells)
        /\ cells' = DropEnd(cells)
        /\ UNCHANGED <<taken, out>>

Take ==
    /\ ~taken
    /\ cells # <<>> /\ cells[1].state = "full"
    /\ taken' = TRUE
    /\ UNCHANGED <<cells, out>>

Remove ==
    /\ taken
    /\ taken' = FALSE
    /\ cells' = Tail(cells)
    /\ out' = Append(out, cells[1].entry)

Next == \/ Take \/ Remove
        \/ \E p \in Producers : Reserve(p) \/ Publish(p) \/ Lock(p) \/ Unlock(p) \/ DropLast(p)

Spec == Init /\ [][Next]_vars
=============================================================================
