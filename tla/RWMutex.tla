------------------------------ MODULE RWMutex ------------------------------
(***************************************************************************)
(* What the locks of libcds promise (cds/lock): a section entered for      *)
(* writing excludes every other, one entered for reading excludes writing. *)
(* The spin locks use it without readers.                                  *)
(***************************************************************************)
CONSTANT Thread

VARIABLE mode     \* out, waiting to read or to write, or inside

Mode == {"out", "rwait", "wwait", "read", "write"}

MInit == mode = [t \in Thread |-> "out"]

Inside(t) == mode[t] \in {"read", "write"}

Call(t) ==
    /\ mode[t] = "out"
    /\ \E m \in {"rwait", "wwait"} : mode' = [mode EXCEPT ![t] = m]

EnterRead(t) ==
    /\ mode[t] = "rwait"
    /\ \A u \in Thread : mode[u] # "write"
    /\ mode' = [mode EXCEPT ![t] = "read"]

EnterWrite(t) ==
    /\ mode[t] = "wwait"
    /\ \A u \in Thread : ~Inside(u)
    /\ mode' = [mode EXCEPT ![t] = "write"]

\* An attempt fails, at an instant when another thread is inside.
GiveUp(t) ==
    /\ mode[t] = "wwait"
    /\ \E u \in Thread : Inside(u)
    /\ mode' = [mode EXCEPT ![t] = "out"]

Leave(t) ==
    /\ Inside(t)
    /\ mode' = [mode EXCEPT ![t] = "out"]

\* The thread in a section makes another one its owner.
HandOver(t, u) ==
    /\ mode[t] = "write" /\ mode[u] = "out"
    /\ mode' = [mode EXCEPT ![t] = "out", ![u] = "write"]

MNext ==
    \E t \in Thread :
        \/ Call(t) \/ EnterRead(t) \/ EnterWrite(t) \/ GiveUp(t) \/ Leave(t)
        \/ \E u \in Thread : HandOver(t, u)

MSpec == MInit /\ [][MNext]_mode
=============================================================================
