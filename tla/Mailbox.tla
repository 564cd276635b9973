------------------------------- MODULE Mailbox -------------------------------
(* What receiving promises, whatever frames, buffers, pending replies and    *)
(* re-entrant callbacks do: a channel is a mailbox.  Messages are handed to  *)
(* the program in the order in which they were sent on their channel, each   *)
(* at most once, none skipped and none mixed with another.  Only once the    *)
(* link is lost may one be handed over cut short or be lost, and only when   *)
(* the connection ends is everything left in the boxes gone.                 *)
EXTENDS Naturals

CONSTANTS
    Channels,
    Messages,   \* the numbers messages get in the order they are sent
    None        \* no message handed over yet

VARIABLES
    box,        \* the messages in the box of each channel
    sent,       \* history: every message that was put into a box
    handed,     \* the message handed over last
    up          \* the link is up

vars == <<box, sent, handed, up>>

Handed(m, b) == [msg |-> m, body |-> b]

Init ==
    /\ box = [c \in Channels |-> {}]
    /\ sent = {}
    /\ handed = Handed(None, "whole")
    /\ up = TRUE

(* A message gets a number no message had before, and comes after them all. *)
Send(c) ==
    /\ up
    /\ \E m \in Messages :
         /\ \A n \in sent : n < m
         /\ sent' = sent \cup {m}
         /\ box' = [box EXCEPT ![c] = @ \cup {m}]
    /\ UNCHANGED <<handed, up>>

(* The oldest goes first. *)
HandOver(c) ==
    /\ \E m \in box[c] :
         /\ \A n \in box[c] : m <= n
         /\ \/ handed' = Handed(m, "whole")
            \/ ~up /\ handed' = Handed(m, "cut")
         /\ box' = [box EXCEPT ![c] = @ \ {m}]
    /\ UNCHANGED <<sent, up>>

(* What had not arrived is lost, and that is the newest of each box. *)
LinkLost ==
    /\ up' = FALSE
    /\ DOMAIN box' = Channels
    /\ \A c \in Channels :
         /\ box'[c] \subseteq box[c]
         /\ \A m \in box'[c] : \A n \in box[c] \ box'[c] : m < n
    /\ UNCHANGED <<sent, handed>>

Close ==
    /\ up' = FALSE
    /\ box' = [c \in Channels |-> {}]
    /\ UNCHANGED <<sent, handed>>

Next ==
    \/ \E c \in Channels : Send(c) \/ HandOver(c)
    \/ LinkLost
    \/ Close

Spec == Init /\ [][Next]_vars
=============================================================================
