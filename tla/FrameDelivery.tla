--------------------------- MODULE FrameDelivery ---------------------------
(***************************************************************************)
(* What a jitter buffer promises, whatever its data structures: packets are *)
(* held until their frame is settled, frames that are held are settled      *)
(* oldest first, a frame is settled once, and what is handed over as ready  *)
(* has no hole.                                                             *)
(***************************************************************************)
EXTENDS Naturals, Sequences, FiniteSets

CONSTANTS
    Packets,    \* the packets of the stream, numbered in the order they are sent
    FrameOf     \* FrameOf[p]: the frame that packet p is part of, numbered in the order of time

VARIABLES
    held,       \* the packets in the buffer
    out         \* the frames settled so far: [frame, ready, packets]

Init == held = {} /\ out = <<>>

Settled == {out[i].frame : i \in 1..Len(out)}

Part(f) == {p \in held : FrameOf[p] = f}

NoHole(S) == \A p, q \in S : \A r \in Packets : p < r /\ r < q => r \in S

Accept(p) ==
    /\ FrameOf[p] \notin Settled
    /\ held' = held \cup {p}
    /\ UNCHANGED out

Settle(f, ready) ==
    /\ Part(f) # {}
    /\ \A q \in held : f <= FrameOf[q]
    /\ ready => NoHole(Part(f))
    /\ held' = held \ Part(f)
    /\ out' = Append(out, [frame |-> f, ready |-> ready, packets |-> Part(f)])

Next ==
    \/ \E p \in Packets : Accept(p)
    \/ \E p \in Packets, ready \in BOOLEAN : Settle(FrameOf[p], ready)

Spec == Init /\ [][Next]_<<held, out>>

\* A frame is settled at most once, and nothing of a settled frame is held: no packet that comes
\* late brings a frame back.
SettledOnce ==
    /\ \A i, j \in 1..Len(out) : out[i].frame = out[j].frame => i = j
    /\ \A p \in held : FrameOf[p] \notin Settled
=============================================================================
