------------------------------ MODULE Mailbox -------------------------------
(***************************************************************************)
(* The mailboxes of the cores (demo/mem.c): a message is put and taken as  *)
(* a whole, a new one replaces one that has not been taken, and no other   *)
(* message is lost or taken twice.                                         *)
(*                                                                         *)
(* Spec is what remote_recv takes for granted of compare_exchange_64,      *)
(* OnceSpec what it has: a message that has been put more than once since  *)
(* the mailbox was last empty may be taken with the upper word of another. *)
(***************************************************************************)
EXTENDS Sequences, Naturals

CONSTANTS Box, Message, Empty

VARIABLES
  box,   \* what each mailbox has
  sent,  \* what has been put there since it was last empty
  got    \* the last message taken from each

mailVars == <<box, sent, got>>

Send(n, m) ==
  /\ box' = [box EXCEPT ![n] = m]
  /\ sent' = [sent EXCEPT ![n] = Append(@, m)]
  /\ UNCHANGED got

Take(n, m) ==
  /\ box[n] # Empty
  /\ got' = [got EXCEPT ![n] = m]
  /\ box' = [box EXCEPT ![n] = Empty]
  /\ sent' = [sent EXCEPT ![n] = <<>>]

Receive(n) == Take(n, box[n])

Once(n) == \A i \in DOMAIN sent[n] : sent[n][i] = box[n] => i = Len(sent[n])

ReceiveMixed(n) ==
  \E i \in DOMAIN sent[n] : /\ Once(n) => sent[n][i].hi = box[n].hi
                            /\ Take(n, [box[n] EXCEPT !.hi = sent[n][i].hi])

Next == \E n \in Box : Receive(n) \/ \E m \in Message : Send(n, m)
OnceNext == \E n \in Box : ReceiveMixed(n) \/ \E m \in Message : Send(n, m)

Init ==
  /\ box = [n \in Box |-> Empty] /\ got = box
  /\ sent = [n \in Box |-> <<>>]

Spec == Init /\ [][Next]_mailVars
OnceSpec == Init /\ [][OnceNext]_mailVars
=============================================================================
