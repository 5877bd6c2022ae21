--------------------------- MODULE CoherentMemory ---------------------------
(***************************************************************************)
(* What the caches promise to the cores: one memory, in which every        *)
(* request takes effect at once, in the cycle in which the core sees       *)
(* waitrequest low, with the ldrex and strex of a single word at a time.   *)
(*                                                                         *)
(* A core holds a request until it has been shown an answer.  A load is    *)
(* answered with the word the memory has in that very cycle.  A store is   *)
(* answered while nobody else is shown anything of the line.  A strex may  *)
(* fail for any reason, but succeeds only if the word is what the core's   *)
(* last ldrex of it was answered.                                          *)
(***************************************************************************)
CONSTANTS Cpu, Line, Offset, Value, Zero, Requests, None

VARIABLES
  mem,      \* the data of each line
  req,      \* what each core asks for, or None
  answer,   \* what each core is shown in this cycle, or None
  link      \* per core: the line it has linked, and the words it got of it

vars == <<mem, req, answer, link>>

NoWords == [o \in Offset |-> None]
NoLink == [line |-> None, words |-> NoWords]

\* Answer a to request r is right, with the given memory and link.
Right(r, a, data, l) ==
  /\ r.op = "read" => a = [ok |-> TRUE, word |-> data[r.off]]
  /\ r.op = "write" => a.word = None
  /\ r.op = "write" /\ ~r.lock => a.ok
  /\ r.op = "write" /\ r.lock /\ a.ok =>
       l.line = r.line /\ l.words[r.off] = data[r.off]

Linked(l, r, a) ==
  CASE r.lock /\ r.op = "read" ->
         [line |-> r.line,
          words |-> [(IF l.line = r.line THEN l.words ELSE NoWords) EXCEPT ![r.off] = a.word]]
    [] r.lock /\ r.op = "write" ->
         IF l.line = r.line /\ \E o \in Offset \ {r.off} : l.words[o] # None
           THEN [l EXCEPT !.words[r.off] = None] ELSE NoLink
    [] ~r.lock -> l

Answered == {n \in Cpu : answer[n] # None}
Storing(l) == {n \in Answered : req[n].line = l /\ req[n].op = "write" /\ answer[n].ok}

\* Whoever stores to a line is alone with it.
StoresAlone ==
  \A n, m \in Answered :
    n # m /\ req[n].line = req[m].line => n \notin Storing(req[n].line)

Answers ==
  \A n \in Cpu :
    answer[n] # None => req[n] # None /\ Right(req[n], answer[n], mem[req[n].line], link[n])

Cycle ==
  /\ mem' = [l \in Line |->
               IF Storing(l) = {} THEN mem[l]
               ELSE LET n == CHOOSE n \in Storing(l) : TRUE
                    IN [mem[l] EXCEPT ![req[n].off] = req[n].data]]
  /\ link' = [n \in Cpu |-> IF n \in Answered THEN Linked(link[n], req[n], answer[n])
                                              ELSE link[n]]
  /\ \A n \in Cpu :
       IF req[n] # None /\ n \notin Answered THEN req'[n] = req[n]
                                             ELSE req'[n] \in Requests[n] \cup {None}
  /\ Answers' /\ StoresAlone'

Init ==
  /\ mem = [l \in Line |-> [o \in Offset |-> Zero]]
  /\ req = [n \in Cpu |-> None]
  /\ answer = [n \in Cpu |-> None]
  /\ link = [n \in Cpu |-> NoLink]

Spec == Init /\ [][Cycle]_vars
=============================================================================
