------------------------------ MODULE HalSubmitInv ------------------------------
(***************************************************************************)
(* The inductive invariant of HalSubmit about the buffer objects that hold *)
(* command buffers: who owns one at each step of a call.                   *)
(***************************************************************************)
EXTENDS HalSubmit

ContextFields == {"list", "patches", "cb", "flushed", "pool", "fetch", "refs"}

Context(o) == ContextFields \subseteq DOMAIN o /\ "bo" \in DOMAIN o.cb

\* The steps at which a call writes its command buffer.
Writing == {"state", "surfaces", "work", "end", "submit"}

TypeOK ==
    /\ Context(os)
    /\ os.refs \in [CmdBos -> Int]
    /\ os.pool \in [Slots -> CmdBos \cup {NoBo}]
    /\ os.fetch \in Slots
    /\ os.flushed \in BOOLEAN
    /\ osData \subseteq CmdBos
    /\ running \in Seq(ToSet(running))
    /\ \A i \in DOMAIN running : running[i].bo \in CmdBos
    /\ call.at = "kernel" => "bo" \in DOMAIN call
    /\ "at" \in DOMAIN call /\ call.at \in {"idle", "kernel", "wait"} \cup Writing
    /\ hw \in Machines

InRing(b) == \E s \in Slots : os.pool[s] = b

\* What the GPU has is in the ring, each in a slot of its own.
RingInv ==
    /\ \A i, j \in DOMAIN running : running[i].bo = running[j].bo => i = j
    /\ \A i \in DOMAIN running : InRing(running[i].bo)
    /\ \A r, s \in Slots : os.pool[r] = os.pool[s] /\ os.pool[r] # NoBo => r = s

\* A command buffer that is not flushed is in the ring, and nobody else's; one
\* that waits for its slot is nobody's and not in the ring yet.
Unshared(b) == b \in CmdBos /\ Idle(b) /\ b \notin osData

PreparedInv ==
    /\ ~os.flushed => Unshared(os.cb.bo) /\ InRing(os.cb.bo)
    /\ call.at \in Writing => ~os.flushed
    /\ call.at = "wait" => os.flushed /\ Unshared(call.bo) /\ ~InRing(call.bo)

One(condition) == IF condition THEN 1 ELSE 0

OwnersInv ==
    \A b \in CmdBos :
        os.refs[b] = One(InRing(b)) + One(b \in osData)
                        + One(call.at = "wait" /\ call.bo = b)

SubmitInv == TypeOK /\ RingInv /\ PreparedInv /\ OwnersInv
=============================================================================
