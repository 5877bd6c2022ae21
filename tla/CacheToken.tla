----------------------------- MODULE CacheToken -----------------------------
(***************************************************************************)
(* The lock token of the coherence ring (rtl/cache/cache_token.sv).        *)
(*                                                                         *)
(* A token circulates among the caches, one cache per clock cycle.  It     *)
(* carries the locks the last `Slots' caches it visited have put on a      *)
(* line, newest first.  A cache puts a request on the data ring only while *)
(* it has such a lock, and it keeps the line locked until its core's       *)
(* request is finished.                                                    *)
(*                                                                         *)
(* All registers change on the same clock edge, so a step of the module is *)
(* one cycle of the whole ring (Tick): every cache takes one of the events *)
(* that its controller (cache_control.sv) can produce in that cycle.  The  *)
(* token registers of the caches that do not have the valid token are not  *)
(* represented: nothing that leaves a cache depends on them.               *)
(***************************************************************************)
EXTENDS Naturals

CONSTANTS
  N,       \* caches on the ring (CONFIG_CPUS)
  Slots,   \* locks a token can carry (e0, e1 and e2 of ring_token: three)
  Line,    \* the lines, each a <<tag, index>> pair of the address
  None     \* no request, no lock

ASSUME TokenAssumption ==
  /\ N \in Nat \ {0}
  /\ Slots \in Nat \ {0}
  /\ None \notin Line

Node == 0 .. N - 1
Slot == 0 .. Slots - 1

NextNode(n) == IF n = N - 1 THEN 0 ELSE n + 1

VARIABLES
  pos,        \* the cache whose out_token register holds the valid token
  token,      \* the locks in it, slot 0 is e0: a line, or None
  line,       \* core_tag and core_index of the request each core holds, or None
  locked,     \* each cache's `locked' register
  phase,      \* "CORE" while the controller serves its core, else "ACCEPT"
  waitReply   \* the cache has a request on the ring or at the memory

vars == <<pos, token, line, locked, phase, waitReply>>

-----------------------------------------------------------------------------
(***************************************************************************)
(* cache_token.sv                                                          *)
(***************************************************************************)

\* may_send_if_token_held: no lock in the token is on this cache's line.
Free(n) == \A k \in Slot : token[k] = None \/ token[k] # line[n]

\* may_send: the valid token is at the input of cache n.
MaySend(n) == n = NextNode(pos) /\ Free(n)

\* The lock is left behind only in the cycle of the send.
PostAtSendOnly(n, send, unlock) ==
  IF Free(n) /\ send /\ ~unlock THEN line[n] ELSE None

\* out_token.e0: the lock cache n leaves in a token that passes through it.
Post(n, send, unlock) ==
  IF Free(n) /\ (send \/ locked[n]) /\ ~unlock THEN line[n] ELSE None

-----------------------------------------------------------------------------
(***************************************************************************)
(* What the controller (cache_control.sv) can do in a cycle.               *)
(***************************************************************************)

\* A cache that has locked its line gives the SRAM to its core at any time.
EntersWithoutToken(n) == phase[n] = "ACCEPT" /\ line[n] # None /\ ~waitReply[n]

\* ACCEPT may give the SRAM to the core.
MayEnter(n) ==
  /\ phase[n] = "ACCEPT" /\ line[n] # None /\ ~waitReply[n]
  /\ ~locked[n] \/ MaySend(n)

InCore == {n \in Node : phase[n] = "CORE"}

(***************************************************************************)
(* A cycle of the ring.  entering: caches that pass from ACCEPT to CORE.   *)
(* wanting, finishing: caches whose CORE cycle raises lock_line (it wants  *)
(* to send), or unlock_line (its core's request is done).  Of the wanting  *)
(* ones, those that neither hold the token nor a lock only take the lock.  *)
(* answered: caches whose request comes back, or whose memory read ends.   *)
(* next: the requests that the cores with none, or with a new one, have.   *)
(***************************************************************************)
Cycle(entering, wanting, finishing, answered, next) ==
  LET sending == {n \in wanting : MaySend(n) \/ locked[n]}
      holder == NextNode(pos)
  IN /\ pos' = holder
     /\ token' = [k \in Slot |->
                    IF k = 0 THEN Post(holder, holder \in sending, holder \in finishing)
                             ELSE token[k - 1]]
     /\ line' = [n \in Node |-> IF n \in DOMAIN next THEN next[n] ELSE line[n]]
     /\ locked' = [n \in Node |-> n \notin finishing /\ (n \in wanting \/ locked[n])]
     /\ phase' = [n \in Node |-> IF n \in entering THEN "CORE" ELSE "ACCEPT"]
     /\ waitReply' = [n \in Node |-> n \in sending \/ (waitReply[n] /\ n \notin answered)]

Tick ==
  \E entering \in SUBSET {n \in Node : MayEnter(n)},
     wanting \in SUBSET InCore, answered \in SUBSET {n \in Node : waitReply[n]} :
  \E finishing \in SUBSET (InCore \ wanting) :
  \E next \in [{n \in Node : line[n] = None} \cup finishing -> Line \cup {None}] :
    Cycle(entering, wanting, finishing, answered, next)

\* TOKEN_AT_RESET(ID == 0)
ResetHolder == 0

Init ==
  /\ pos = ResetHolder
  /\ token = [k \in Slot |-> None]
  /\ line = [n \in Node |-> None]
  /\ locked = [n \in Node |-> FALSE]
  /\ phase = [n \in Node |-> "ACCEPT"]
  /\ waitReply = [n \in Node |-> FALSE]

Spec == Init /\ [][Tick]_vars

-----------------------------------------------------------------------------
(***************************************************************************)
(* Properties.                                                             *)
(***************************************************************************)
TypeOK ==
  /\ pos \in Node
  /\ token \in [Slot -> Line \cup {None}]
  /\ line \in [Node -> Line \cup {None}]
  /\ locked \in [Node -> BOOLEAN]
  /\ phase \in [Node -> {"ACCEPT", "CORE"}]
  /\ waitReply \in [Node -> BOOLEAN]

\* Two caches never have requests for the same line on the ring or at the
\* memory.  This is what may_send is for: a request crosses the ring knowing
\* that no other cache is changing its state for that line.
MutualExclusion ==
  \A n, m \in Node : n # m /\ waitReply[n] /\ waitReply[m] => line[n] # line[m]

\* The slot in which cache n's last lock is, if the token has N - 1 of them.
\* Slot N - 1 does not exist: the token is about to reach n again.
SlotOf(n) == IF pos >= n THEN pos - n ELSE pos - n + N

\* Cache n has its line: its lock is in the token, or will be put in it next.
Claimed(n) ==
  /\ locked[n]
  /\ IF n = NextNode(pos) THEN Free(n) ELSE token[SlotOf(n)] = line[n]

\* A cache that has a line keeps it until its core is done, through every
\* revolution of the token: no other cache takes it between the answer and the
\* retried write ("Desbloquear la linea hasta que la request del core termine").
ClaimKept == [][\A n \in Node : Claimed(n) /\ locked'[n] => Claimed(n)']_vars

\* May act on its line without looking at the token: it waits for its request,
\* or is in CORE with the lock.
Entitled(n) == waitReply[n] \/ (locked[n] /\ phase[n] = "CORE")

\* The inductive invariant behind MutualExclusion.
HasLine == \A n \in Node : locked[n] \/ phase[n] = "CORE" => line[n] # None
WaitLocked == \A n \in Node : waitReply[n] => locked[n] /\ phase[n] = "ACCEPT"
EntitledClaims == \A n \in Node : Entitled(n) => Claimed(n)
LocksDistinct == \A j, k \in Slot : token[j] = token[k] /\ token[j] # None => j = k

TokenInv == TypeOK /\ HasLine /\ WaitLocked /\ EntitledClaims /\ LocksDistinct

=============================================================================
