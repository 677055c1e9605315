---------------------------- MODULE ReplayFilter ----------------------------
(***************************************************************************)
(* What a node promises about replayed frames, without slots, clocks or    *)
(* eviction order: it remembers at most one (epoch, seq) mark per origin,  *)
(* lets a frame pass only if it is strictly after that mark, and loses a   *)
(* mark only by restarting or when a frame of an origin it does not know   *)
(* needs the room.                                                         *)
(***************************************************************************)
EXTENDS Integers

CONSTANTS Origins, Epochs, Seqs

VARIABLE marks

Frames == [mac: Origins, epoch: Epochs, seq: Seqs]

\* Frame f is strictly after mark m: the comparison of ReplayCache::isReplay.
Newer(f, m) == f.epoch > m.epoch \/ (f.epoch = m.epoch /\ f.seq > m.seq)

Init == marks = {}

\* A frame of a known origin moves its mark forward.
Advance(f) ==
    \E m \in marks :
        /\ m.mac = f.mac
        /\ Newer(f, m)
        /\ marks' = (marks \ {m}) \cup {f}

\* A frame of an unknown origin gets a mark; at most one other is lost for it.
Learn(f) ==
    /\ \A m \in marks : m.mac /= f.mac
    /\ \E lost \in SUBSET marks :
         /\ \A m1, m2 \in lost : m1 = m2
         /\ marks' = (marks \ lost) \cup {f}

Forget == marks' = {}

Next ==
    \/ \E f \in Frames : Advance(f) \/ Learn(f)
    \/ Forget

Spec == Init /\ [][Next]_marks
=============================================================================
