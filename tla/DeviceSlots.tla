---------------------------- MODULE DeviceSlots ----------------------------
(***************************************************************************)
(* What the agent registry promises to the rest of the relay, without      *)
(* goroutines, contexts or sockets: every device has one slot, a slot is   *)
(* held by at most one connection, a connection holds a slot at most once  *)
(* in its life, and mail is accepted only for the holder of a slot, in     *)
(* order, while mail accepted earlier may still be taken by a connection   *)
(* that has lost its slot.                                                 *)
(***************************************************************************)
EXTENDS Naturals, Sequences

CONSTANTS
    Devices,    \* device identifiers
    Conns,      \* agent connections
    Frames,     \* what can be mailed to an agent
    BufSize,    \* capacity of a mailbox
    NoConn      \* holder of an empty slot

VARIABLES
    owner,      \* owner[d]: the connection that holds the slot of d
    spent,      \* connections that hold, or once held, a slot
    mail        \* mail[c]: frames accepted for c and not yet taken

vars == <<owner, spent, mail>>

Init ==
    /\ owner = [d \in Devices |-> NoConn]
    /\ spent = {}
    /\ mail = [c \in Conns |-> <<>>]

\* A fresh connection takes the slot of d, from nobody or from its holder.
Claim(c, d) ==
    /\ c \notin spent
    /\ owner' = [owner EXCEPT ![d] = c]
    /\ spent' = spent \cup {c}
    /\ UNCHANGED mail

\* The holder of the slot of d gives it up.
Release(c, d) ==
    /\ owner[d] = c
    /\ owner' = [owner EXCEPT ![d] = NoConn]
    /\ UNCHANGED <<spent, mail>>

\* A frame is accepted for the current holder of a slot.
Post(c, f) ==
    /\ \E d \in Devices : owner[d] = c
    /\ Len(mail[c]) < BufSize
    /\ mail' = [mail EXCEPT ![c] = Append(@, f)]
    /\ UNCHANGED <<owner, spent>>

\* The oldest frame leaves the mailbox.
Take(c) ==
    /\ mail[c] # <<>>
    /\ mail' = [mail EXCEPT ![c] = Tail(@)]
    /\ UNCHANGED <<owner, spent>>

Next ==
    \E c \in Conns :
        \/ \E d \in Devices : Claim(c, d) \/ Release(c, d)
        \/ \E f \in Frames : Post(c, f)
        \/ Take(c)

Spec == Init /\ [][Next]_vars
=============================================================================
