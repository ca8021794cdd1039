--------------------------- MODULE MessageService ---------------------------
(***************************************************************************)
(* What the mesh promises its users, without packets, caches or routes: a  *)
(* trigger fires at a node only for a message that somebody sent before,   *)
(* in the name the trigger gives, to somebody this node is; and for each   *)
(* message at most once while the node stays up and remembers it. What the *)
(* node answers is sent in the same step.                                  *)
(***************************************************************************)
EXTENDS Integers, Sequences

CONSTANTS
  Nodes,
  Expire  \* how long a node remembers a message

VARIABLES
  sent,   \* the messages sent so far; m.to is what m is addressed to
  fired,  \* for each node, the triggers fired, in order: message, time, boot
  boots,  \* how often each node has rebooted
  now,
  names   \* for each node, the addresses it answers to

vars == <<sent, fired, boots, now, names>>

Init ==
  /\ sent = {}
  /\ fired = [n \in Nodes |-> <<>>]
  /\ boots = [n \in Nodes |-> 0]
  /\ now = 0

Send(m) ==
  /\ sent' = sent \cup {m}
  /\ UNCHANGED <<fired, boots, now, names>>

Remembers(n, m) ==
  \E i \in 1..Len(fired[n]) :
    /\ fired[n][i].msg = m
    /\ fired[n][i].boot = boots[n]
    /\ now - fired[n][i].at <= Expire

Fire(n, m) ==
  /\ m \in sent
  /\ m.to \in names[n]
  /\ ~Remembers(n, m)
  /\ fired' = [fired EXCEPT ![n] =
                 Append(@, [msg |-> m, at |-> now, boot |-> boots[n]])]
  /\ sent \subseteq sent'
  /\ UNCHANGED <<boots, now, names>>

\* A node changes its names when it starts.
Setup == UNCHANGED <<sent, fired, boots, now>>

Reboot(n) ==
  /\ boots' = [boots EXCEPT ![n] = @ + 1]
  /\ UNCHANGED <<sent, fired, now>>

Pass == now' > now /\ UNCHANGED <<sent, fired, boots, names>>

Next ==
  \/ Pass
  \/ Setup
  \/ \E m \in sent' : Send(m)
  \/ \E n \in Nodes : Reboot(n) \/ \E m \in sent : Fire(n, m)

Spec == Init /\ [][Next]_vars
=============================================================================
