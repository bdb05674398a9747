--------------------------- MODULE MessageChannel ---------------------------
(***************************************************************************)
(* What a session promises its two users: a message is delivered to the    *)
(* other party, at most once, and only if it was sent.  Order and eventual *)
(* delivery are not promised.                                              *)
(***************************************************************************)
EXTENDS Naturals

CONSTANT Party

VARIABLES
    sent,           \* the messages handed to the channel
    delivered,      \* the messages handed to each party
    decrypted       \* how often a message was handed to each party

vars == <<sent, delivered, decrypted>>

Init ==
    /\ sent = {}
    /\ delivered = [p \in Party |-> {}]
    /\ decrypted = [p \in Party |-> 0]

Send(p) ==
    /\ \E m \in sent' : m \notin sent /\ m.from = p /\ sent' = sent \cup {m}
    /\ UNCHANGED <<delivered, decrypted>>

Receive(p) ==
    /\ \E m \in sent :
          /\ m.from # p
          /\ m \notin delivered[p]
          /\ delivered' = [delivered EXCEPT ![p] = @ \cup {m}]
    /\ decrypted' = [decrypted EXCEPT ![p] = @ + 1]
    /\ UNCHANGED sent

Next == \E p \in Party : Send(p) \/ Receive(p)

Spec == Init /\ [][Next]_vars
=============================================================================
