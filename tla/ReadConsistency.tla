-------------------------- MODULE ReadConsistency --------------------------
(***************************************************************************)
(* An observer of ProxyServer that remembers, for every key, the last     *)
(* write the proxy acknowledged, so that what a later GET answers can be   *)
(* compared with it.  The observer only reads the state ProxyServer        *)
(* already has (`last`, `reps`); it does not change what the system does. *)
(***************************************************************************)
EXTENDS ProxyServer

VARIABLE
    acked   \* acked[k]: the last acknowledged write of k: who made it, the
            \* current_ids it went through, the value it left (Absent for a
            \* DEL), and whether any replica's copy of k changed since
            \* without an acknowledgement

obsVars == <<vars, acked>>

AckedWrite == [by : Clients \union {NoId}, view : Seq(Int), val : Vals \union {Absent}, clean : BOOLEAN]

ObsInit ==
    /\ Init
    \* all replicas start empty: an absent key is what a reader should see
    /\ acked = [k \in Keys |-> [by |-> NoId, view |-> <<>>, val |-> Absent, clean |-> TRUE]]

\* A PUT or DEL that reports success sets the acknowledged value; any
\* other change to a replica's copy of the key (a write that faulted
\* part-way) makes the expectation unknown.
ObsNext ==
    /\ Next
    /\ acked' =
         [k \in Keys |->
            IF last'.key = k /\ last'.cmd \in {"put", "del"} /\ last'.out = "ok"
            THEN [by    |-> last'.c,
                  view  |-> currentIds[last'.srv],
                  val   |-> IF last'.cmd = "put" THEN last'.val ELSE Absent,
                  clean |-> TRUE]
            ELSE IF \E u \in Urls : reps'[u][k] # reps[u][k]
            THEN [acked[k] EXCEPT !.clean = FALSE]
            ELSE acked[k]]

ObsSpec == ObsInit /\ [][ObsNext]_obsVars

\* A GET answer that contradicts the acknowledged write a: the key reported
\* missing although a value was acknowledged, or a value reported that is
\* not the acknowledged one.  The text "Err" of a fully failed read is not
\* counted here; FailureNotShownAsData is about that.
StaleAnswer(a) ==
    IF a.val = Absent
    THEN last'.out = "found" /\ last'.val # "Err"
    ELSE \/ last'.out = "notfound"
         \/ last'.out = "found" /\ last'.val \notin {a.val, "Err"}

\* Spec section 8 round trip: after a client's PUT (or DEL) of k is
\* acknowledged, and while no replica's copy of k has changed since, a GET
\* of k by the same client through the same current_ids answers the value
\* it wrote (or absent after a DEL).  The view is held fixed so that only
\* the replica calls of the write and of the read can make them disagree.
ReadYourWrites ==
    [][ LET a == acked[last'.key] IN
        (/\ last'.cmd = "get" /\ a.clean /\ a.by = last'.c
         /\ a.view = currentIds[last'.srv]) => ~StaleAnswer(a) ]_obsVars
=============================================================================
