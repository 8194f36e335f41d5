--------------------------- MODULE NodeLifecycle ---------------------------
(***************************************************************************)
(* What the registration of standbys promises: the life of a name, from the *)
(* draw of its suffix to its end.  Rows, roles, slots, transactions and the  *)
(* requests that make them are not visible here.                             *)
(***************************************************************************)
CONSTANTS Names, Labels, SlugOf, None

VARIABLES
    life,      \* where each name stands
    label,     \* the label a name was drawn for
    streaming  \* the names whose standby streams

lvars == <<life, label, streaming>>

LInit ==
    /\ life = [d \in Names |-> "unused"]
    /\ label = [d \in Names |-> None]
    /\ streaming = {}

Becomes(d, stage) == life' = [life EXCEPT ![d] = stage]
Registered == {d \in Names : life[d] = "registered"}
SameApplication(d) == {e \in Names : label[e] # None /\ SlugOf[label[e]] = SlugOf[label[d]]}

Draw(d, l) ==
    /\ life[d] = "unused"
    /\ Becomes(d, "reserved")
    /\ label' = [label EXCEPT ![d] = l]
    /\ UNCHANGED streaming

\* An application has one registered name at a time.
Register(d) ==
    /\ life[d] = "reserved"
    /\ SameApplication(d) \cap Registered = {}
    /\ Becomes(d, "registered")
    /\ UNCHANGED <<label, streaming>>

GiveUp(d) ==
    /\ life[d] = "reserved"
    /\ Becomes(d, "gone")
    /\ UNCHANGED <<label, streaming>>

\* A name that has gone never comes back, and none goes while it streams.
Unregister(d) ==
    /\ life[d] = "registered"
    /\ d \notin streaming
    /\ Becomes(d, "gone")
    /\ UNCHANGED <<label, streaming>>

\* One standby at a time for an application.
Connect(d) ==
    /\ life[d] = "registered"
    /\ SameApplication(d) \cap streaming = {}
    /\ streaming' = streaming \cup {d}
    /\ UNCHANGED <<life, label>>

Disconnect(d) ==
    /\ streaming' = streaming \ {d}
    /\ UNCHANGED <<life, label>>

LNext ==
    \E d \in Names :
        \/ \E l \in Labels : Draw(d, l)
        \/ Register(d) \/ GiveUp(d) \/ Unregister(d) \/ Connect(d) \/ Disconnect(d)

LSpec == LInit /\ [][LNext]_lvars
=============================================================================
