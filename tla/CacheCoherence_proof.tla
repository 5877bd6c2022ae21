-------------------------- MODULE CacheCoherence_proof --------------------------
(***************************************************************************)
(* Proofs of coherence, for any lines, words and values, and for a ring    *)
(* with as many caches as it has room for: CacheToken_proof is about a     *)
(* token with a slot for every cache but one, and the token of the code    *)
(* has three slots, so CPUS = RingSize is the ring it was made for.        *)
(*                                                                         *)
(* The argument: the token gives a line to one cache at a time (TokenInv), *)
(* so that while a message is under way nobody but its sender gets a copy  *)
(* of its line (NoNewCopies), and no cache that it has passed has one      *)
(* (Clean).  When it is home, nobody has.  A cache is EXCLUSIVE beside     *)
(* SHARED ones only as long as its own invalidation is under way (Alone).  *)
(* Data come with an answer, which has what the copies have (AnswersAgree),*)
(* or from the memory when there are no copies: they all agree.            *)
(***************************************************************************)
EXTENDS CacheSystem_proof

\* The theorems of CacheToken_proof, about the caches' token.
Ring == INSTANCE CacheToken_proof
          WITH N <- CPUS,
               line <- [n \in Cpu |-> CoreLine(n)],
               locked <- [n \in Cpu |-> cache[n].locked],
               phase <- [n \in Cpu |-> IF cache[n].state = "CORE" THEN "CORE" ELSE "ACCEPT"],
               waitReply <- [n \in Cpu |-> cache[n].waitReply]

\* They are about the same token.
LEMMA SameToken ==
  /\ Token!TokenInv <=> Ring!TokenInv
  /\ Token!Tick <=> Ring!Tick
  /\ Token!Init <=> Ring!Init
  /\ Token!vars = Ring!vars
<1>1. Token!TokenInv <=> Ring!TokenInv
  BY DEF Token!TokenInv, Ring!TokenInv, Token!TypeOK, Ring!TypeOK, Token!HasLine, Ring!HasLine,
         Token!WaitLocked, Ring!WaitLocked, Token!EntitledClaims, Ring!EntitledClaims,
         Token!LocksDistinct, Ring!LocksDistinct, Token!Entitled, Ring!Entitled,
         Token!Claimed, Ring!Claimed, Token!Free, Ring!Free, Token!SlotOf, Ring!SlotOf,
         Token!NextNode, Ring!NextNode, Token!Node, Ring!Node, Token!Slot, Ring!Slot
<1>2. Token!Tick <=> Ring!Tick
  BY DEF Token!Tick, Ring!Tick, Token!Cycle, Ring!Cycle, Token!MayEnter, Ring!MayEnter,
         Token!InCore, Ring!InCore, Token!MaySend, Ring!MaySend, Token!Post, Ring!Post,
         Token!Free, Ring!Free, Token!NextNode, Ring!NextNode,
         Token!Node, Ring!Node, Token!Slot, Ring!Slot
<1>3. Token!Init <=> Ring!Init
  BY DEF Token!Init, Ring!Init, Token!ResetHolder, Ring!ResetHolder, Token!Node, Ring!Node,
         Token!Slot, Ring!Slot
<1>4. Token!vars = Ring!vars
  BY DEF Token!vars, Ring!vars
<1> QED BY <1>1, <1>2, <1>3, <1>4

\* What they assume.
LEMMA RingFull ==
  ASSUME CPUS = RingSize
  PROVE  Slots = CPUS - 1 /\ CPUS \in Nat \ {0} /\ Slots \in Nat \ {0} /\ None \notin Line
BY NoneAssumption DEF RingSize, Slots

\* The token starts with its invariant.
LEMMA TokenInvStarts ==
  ASSUME CPUS = RingSize, Init
  PROVE  Token!TokenInv
<1>1. Ring!Init
  BY TokenInit, SameToken
<1>2. Ring!TokenInv
  BY <1>1, RingFull, Ring!InitInv DEF Ring!TokenAssumption
<1> QED BY <1>2, SameToken

\* A cycle keeps it.
LEMMA TokenInvStays ==
  ASSUME CPUS = RingSize, Inv, Token!TokenInv, [Tick]_vars
  PROVE  Token!TokenInv'
<1>1. [Token!Tick]_Token!vars
  BY TokenStep
<1>2. [Ring!Tick]_Ring!vars /\ Ring!TokenInv
  <2>1. Ring!TokenInv
    BY SameToken
  <2>2. CASE Token!Tick
    BY <2>1, <2>2, SameToken
  <2>3. CASE UNCHANGED Token!vars
    BY <2>1, <2>3 DEF Token!vars, Ring!vars
  <2> QED BY <1>1, <2>2, <2>3
<1>3. Ring!TokenInv'
  BY <1>2, RingFull, Ring!StepInv DEF Ring!TokenAssumption
<1>4. Token!TokenInv' <=> Ring!TokenInv'
  BY DEF Token!TokenInv, Ring!TokenInv, Token!TypeOK, Ring!TypeOK, Token!HasLine, Ring!HasLine,
         Token!WaitLocked, Ring!WaitLocked, Token!EntitledClaims, Ring!EntitledClaims,
         Token!LocksDistinct, Ring!LocksDistinct, Token!Entitled, Ring!Entitled,
         Token!Claimed, Ring!Claimed, Token!Free, Ring!Free, Token!SlotOf, Ring!SlotOf,
         Token!NextNode, Ring!NextNode, Token!Node, Ring!Node, Token!Slot, Ring!Slot
<1> QED BY <1>3, <1>4

-----------------------------------------------------------------------------
\* A cache acts on the line of its core: it waits for a message, or it may send
\* one in this cycle.
Acts(n) ==
  \/ cache[n].waitReply
  \/ cache[n].state = "CORE" /\ (Token!MaySend(n) \/ cache[n].locked)

\* Whoever acts has a request.
LEMMA ActsAsks ==
  ASSUME Inv, NEW n \in Cpu, Acts(n)
  PROVE  Asks(n) /\ req[n] \in Request /\ req[n].line \in Line /\ CoreLine(n) = req[n].line
BY DEF Acts, Inv, Serving, TypeOK, Asks, Request, CoreLine

\* The token keeps them apart.
LEMMA ActsAlone ==
  ASSUME CPUS = RingSize, Inv, Token!TokenInv, NEW n \in Cpu, NEW m \in Cpu, n # m,
         Acts(n), Acts(m)
  PROVE  req[n].line # req[m].line
<1>0. Cpu = Token!Node /\ Cpu = Ring!Node
  BY DEF Cpu, Token!Node, Ring!Node
<1>1. ASSUME NEW k \in Cpu, Acts(k)
      PROVE  \/ Token!Claimed(k)
             \/ Token!MaySend(k)
  <2>1. CASE Token!Entitled(k)
    BY <1>0, <2>1 DEF Token!TokenInv, Token!EntitledClaims
  <2>2. CASE ~Token!Entitled(k)
    BY <1>1, <2>2 DEF Acts, Token!Entitled
  <2> QED BY <2>1, <2>2
<1>2. ASSUME NEW k \in Cpu, NEW j \in Cpu, k # j, Token!MaySend(k), Token!Claimed(j), Acts(j), Acts(k)
      PROVE  req[k].line # req[j].line
  <2>1. k = Token!NextNode(pos) /\ Token!Free(k)
    BY <1>2 DEF Token!MaySend
  <2>2. token[Token!SlotOf(j)] = CoreLine(j)
    BY <1>2, <2>1 DEF Token!Claimed
  <2>3. Token!SlotOf(j) \in Token!Slot
    <3>1. pos \in 0 .. 3 /\ j \in 0 .. 3 /\ CPUS = 4 /\ j # Token!NextNode(pos)
      BY <1>0, <1>2, <2>1 DEF Token!TokenInv, Token!TypeOK, Cpu, RingSize, Token!Node
    <3> QED BY <3>1, SMT DEF Token!NextNode, Token!SlotOf, Token!Slot, Slots
  <2>4. token[Token!SlotOf(j)] = None \/ token[Token!SlotOf(j)] # CoreLine(k)
    BY <2>1, <2>3 DEF Token!Free
  <2>5. CoreLine(j) = req[j].line /\ CoreLine(k) = req[k].line /\ req[j].line \in Line
    BY <1>2, ActsAsks
  <2> QED BY <2>2, <2>4, <2>5, NoneAssumption
<1>3. CASE Token!Claimed(n) /\ Token!Claimed(m)
  <2>1. Ring!Claimed(n) /\ Ring!Claimed(m)
    BY <1>3 DEF Token!Claimed, Ring!Claimed, Token!Free, Ring!Free, Token!SlotOf, Ring!SlotOf,
                Token!NextNode, Ring!NextNode, Token!Slot, Ring!Slot
  <2>2. Ring!TokenInv
    BY SameToken
  <2>3. [k \in Cpu |-> CoreLine(k)][n] # [k \in Cpu |-> CoreLine(k)][m]
    BY <1>0, <2>1, <2>2, RingFull, Ring!ClaimsDiffer DEF Ring!TokenAssumption
  <2>4. CoreLine(n) = req[n].line /\ CoreLine(m) = req[m].line
    BY ActsAsks
  <2> QED BY <2>3, <2>4
<1>4. CASE Token!MaySend(n) /\ Token!MaySend(m)
  BY <1>4 DEF Token!MaySend
<1> QED BY <1>1, <1>2, <1>3, <1>4

-----------------------------------------------------------------------------
\* The state a cache has of a line.
State(n, l) == cache[n].sram[IndexOf[l]].state

\* An answer.
Answered(p) == p[2] # "mem" /\ At(p).reply

\* The line that a cache waits for is there.
Comes(n, l, state) ==
  /\ cache[n].waitReply /\ req[n].line = l /\ state \in {"EXCLUSIVE", "SHARED"}
  /\ \E p \in Place : /\ Going(p) /\ Home(p) = n /\ Left(p) = 0 /\ LineOf(p) = l
                      /\ Answered(p) /\ ~At(p).inval => state = "SHARED"

\* What makes a copy in a state: its data arrive, it was there, the core shares it
\* no more or stores in it, or another cache gets a copy.
CopyStep(n, s, l, new) ==
  \/ Comes(n, l, new) /\ cache[n].state # "CORE"
  \/ HasCopy(n, l, Valid) /\ State(n, l) = new
  \/ /\ HasCopy(n, l, {"SHARED"}) /\ new = "EXCLUSIVE" /\ cache[n].state = "CORE"
     /\ s.send = <<FALSE, TRUE>> /\ req[n].line = l
  \/ /\ HasCopy(n, l, Owned) /\ new = "MODIFIED" /\ cache[n].state = "CORE"
     /\ req[n].line = l
  \/ HasCopy(n, l, Owned) /\ new = "SHARED" /\ cache[n].state = "SNOOP"

\* A copy comes from nowhere else.
LEMMA CopyMoves ==
  ASSUME Inv, NEW wait, NEW sig, NEW issue, Moves(wait, sig, issue),
         NEW n \in Cpu, NEW l \in Line, HasCopy(n, l, Valid)', NEW new, new = State(n, l)'
  PROVE  /\ new \in Valid
         /\ CopyStep(n, sig[n], l, new)
<1>0. PICK s, i, old, e : s = sig[n] /\ i = IndexOf[l] /\ old = cache[n].sram[i] /\ e = cache'[n].sram[i]
  OBVIOUS
<1>1. i \in Index /\ s = Signals(n, wait)
  BY <1>0, LineIndex, Zenon DEF Moves
<1>2. e.line = l /\ e.state \in Valid /\ new = e.state
  BY <1>0 DEF HasCopy, State
<1>3. EntryStep(n, wait, s, i, old, e)
  BY <1>0, <1>1, EntryMoves
<1>4. HasCopy(n, l, Valid) <=> old.line = l /\ old.state \in Valid
  BY <1>0 DEF HasCopy
<1>5. CASE e = old
  BY <1>0, <1>2, <1>4, <1>5 DEF State, CopyStep
<1>6. CASE MemReadEnd(n, wait) /\ Loaded(n, e) /\ e.state = "EXCLUSIVE"
  <2>1. /\ <<n, "mem">> \in Place /\ Going(<<n, "mem">>) /\ Home(<<n, "mem">>) = n
        /\ cache[n].waitReply /\ cache[n].mem.line = req[n].line
    BY <1>6, ReadIsOwn DEF MemReadEnd
  <2>2. req[n].line = l
    BY <1>2, <1>6 DEF Loaded
  <2>3. Left(<<n, "mem">>) = 0 /\ LineOf(<<n, "mem">>) = l /\ ~Answered(<<n, "mem">>)
    BY <2>1, <2>2 DEF Left, LineOf, Answered
  <2>4. cache[n].state # "CORE"
    BY <2>1 DEF Inv, Serving
  <2>5. Comes(n, l, new)
    BY <1>2, <1>6, <2>1, <2>2, <2>3 DEF Comes
  <2> QED BY <1>2, <2>4, <2>5 DEF CopyStep
<1>7. CASE /\ cache[n].state = "REPLY" /\ cache[n].hold.reply
           /\ Loaded(n, e) /\ e.state = (IF cache[n].hold.inval THEN "EXCLUSIVE" ELSE "SHARED")
  <2>1. /\ cache[n].waitReply /\ cache[n].hold.line = req[n].line
        /\ cache[n].hold # None /\ LastHop(cache[n].hold)
    BY <1>7, TakenIsData DEF Inv, Serving
  <2>2. <<n, "hold">> \in Place /\ Going(<<n, "hold">>) /\ Home(<<n, "hold">>) = n
    BY <2>1, HomeTypes
  <2>3. req[n].line = l
    BY <1>2, <1>7 DEF Loaded
  <2>4. At(<<n, "hold">>) = cache[n].hold
    BY DEF At
  <2>5. Left(<<n, "hold">>) = 0 /\ LineOf(<<n, "hold">>) = l
    BY <2>1, <2>3, <2>4 DEF Left, LineOf, LastHop
  <2>6. Comes(n, l, new)
    BY <1>2, <1>7, <2>1, <2>2, <2>3, <2>4, <2>5 DEF Comes
  <2> QED BY <1>2, <1>7, <2>6 DEF CopyStep
<1>8. CASE cache[n].state = "CORE" /\ Upgrades(n, s) /\ old.line = req[n].line /\ old.state = "SHARED"
           /\ Restated(old, "EXCLUSIVE", e)
  <2>1. e.line = old.line /\ e.state = "EXCLUSIVE" /\ s.send = <<FALSE, TRUE>>
    BY <1>8, Zenon DEF Restated, Upgrades
  <2>2. HasCopy(n, l, {"SHARED"})
    BY <1>0, <1>2, <1>8, <2>1 DEF HasCopy
  <2> QED BY <1>0, <1>2, <1>8, <2>1, <2>2 DEF CopyStep
<1>9. CASE cache[n].state = "CORE" /\ old.line = req[n].line /\ old.state \in Owned /\ Modified(n, e)
  <2>1. e.line = req[n].line /\ e.state = "MODIFIED"
    BY <1>9, Zenon DEF Modified
  <2>2. HasCopy(n, l, Owned)
    BY <1>0, <1>2, <1>9, <2>1 DEF HasCopy
  <2> QED BY <1>2, <1>9, <2>1, <2>2 DEF CopyStep
<1>10. CASE cache[n].state = "SNOOP" /\ old.state \in Owned /\ Restated(old, "SHARED", e)
  <2>1. e.line = old.line /\ e.state = "SHARED"
    BY <1>10, Zenon DEF Restated
  <2>2. HasCopy(n, l, Owned)
    BY <1>0, <1>2, <1>10, <2>1 DEF HasCopy
  <2> QED BY <1>2, <1>10, <2>1, <2>2 DEF CopyStep
<1>11. ~Dropped(old, e)
  <2>1. Dropped(old, e) => e.state = "INVALID"
    BY DEF Dropped
  <2> QED BY <1>2, <2>1 DEF Valid, Owned
<1> QED BY <1>3, <1>5, <1>6, <1>7, <1>8, <1>9, <1>10, <1>11, Zenon DEF EntryStep

-----------------------------------------------------------------------------
\* A cycle in which what was at q goes no further, and one in which a cache takes
\* it and passes it on, with an answer perhaps.
Rests(p, q) == Left(p)' = Left(q) /\ (Answered(p)' <=> Answered(q))
Passes(sig, p, q) ==
  /\ q = <<q[1], "hold">> /\ q[1] \in Cpu /\ At(q) \in Message /\ ~LastHop(At(q))
  /\ sig[q[1]].ready /\ Left(p)' = Left(q) - 1
  /\ Answered(p)' <=> sig[q[1]].setReply \/ Answered(q)

\* How far everything gets in a cycle.
LEMMA Travels ==
  ASSUME CPUS = RingSize, Inv, NEW wait, NEW sig, NEW issue, Moves(wait, sig, issue),
         NEW p \in Place, Going(p)', NEW q, q = Origin(sig, p)
  PROVE  /\ q[2] = "core" => Left(p)' = 3 /\ ~Answered(p)'
         /\ q[2] # "core" => Rests(p, q) \/ Passes(sig, p, q)
<1>1. Stays(wait, sig, p, q) \/ Arrives(sig, p, q) \/ Fetched(sig, p, q)
  BY Flow
<1>2. CASE Stays(wait, sig, p, q)
  <2>1. p[1] \in Cpu /\ p[2] \in {"hold", "stall", "mem"} /\ q = p
    BY <1>2 DEF Place, Stays
  <2>2. CASE p[2] = "hold"
    <3>1. cache'[p[1]].hold = cache[p[1]].hold
      BY <1>2, <2>2 DEF Stays
    <3> QED BY <2>1, <2>2, <3>1 DEF Rests, Left, Answered, At
  <2>3. CASE p[2] = "mem"
    BY <2>1, <2>3 DEF Rests, Left, Answered
  <2> QED BY <1>2, <2>1, <2>2, <2>3 DEF Stays
<1>3. CASE Arrives(sig, p, q)
  <2>1. PICK o, i \in Message :
          /\ o # None /\ Leaves(q[1], sig[q[1]], o, q) /\ At(p)' = i
          /\ i.read = o.read /\ i.inval = o.inval /\ i.line = o.line /\ i.reply = o.reply
          /\ i.ttl = o.ttl
    BY <1>3 DEF Arrives
  <2>2. p[2] # "mem" /\ q[1] \in Cpu
    BY <1>3 DEF Arrives
  <2>3. Left(p)' = o.ttl /\ (Answered(p)' <=> o.reply)
    BY <2>1, <2>2 DEF Left, Answered
  <2>4. CASE q = <<q[1], "stall">> /\ Keeps(q[1], o)
    <3>1. At(q) = o /\ q[2] = "stall"
      BY <2>4 DEF At, Keeps
    <3> QED BY <2>3, <3>1 DEF Rests, Left, Answered
  <2>5. CASE q = <<q[1], "core">> /\ Sent(q[1], sig[q[1]], o)
    <3>1. q[2] = "core" /\ o.ttl = 3 /\ ~o.reply
      BY <2>5 DEF Sent
    <3> QED BY <2>3, <3>1
  <2>6. CASE q = <<q[1], "hold">> /\ Forwards(q[1], sig[q[1]], o)
    <3>1. q[2] = "hold" /\ At(q) = cache[q[1]].hold
      BY <2>6 DEF At
    <3>2. /\ At(q) \in Message /\ ~LastHop(At(q)) /\ sig[q[1]].ready /\ o.ttl = At(q).ttl - 1
          /\ o.reply = (sig[q[1]].setReply \/ At(q).reply)
      BY <2>6, <3>1 DEF Forwards
    <3>3. Left(q) = At(q).ttl /\ (Answered(q) <=> At(q).reply)
      BY <3>1 DEF Left, Answered
    <3>4. Answered(p)' <=> sig[q[1]].setReply \/ Answered(q)
      BY <2>3, <3>2, <3>3
    <3> QED BY <2>2, <2>3, <2>6, <3>1, <3>2, <3>3, <3>4 DEF Passes
  <2> QED BY <2>1, <2>4, <2>5, <2>6 DEF Leaves
<1>4. CASE Fetched(sig, p, q)
  <2>1. /\ p[2] = "mem" /\ q[2] = "hold" /\ q[1] \in Cpu /\ cache[q[1]].state = "REPLY"
        /\ ~cache[q[1]].hold.reply
    BY <1>4 DEF Fetched, Fetches
  <2>2. At(q) = cache[q[1]].hold /\ LastHop(At(q))
    BY <2>1 DEF At, Inv, Serving
  <2> QED BY <2>1, <2>2 DEF Rests, Left, Answered, LastHop
<1> QED BY <1>1, <1>2, <1>3, <1>4

-----------------------------------------------------------------------------
\* A message asks for data or tells others to give up their copies.
Sensible == \A p \in Place : Going(p) /\ p[2] # "mem" => At(p).read \/ At(p).inval

\* What a cache sees in SNOOP is all it has.
SnoopSees ==
  \A n \in Cpu :
    cache[n].state = "SNOOP" /\ (cache[n].rd.state = "INVALID" \/ ~Hit(n))
      => ~HasCopy(n, cache[n].hold.line, Valid)

\* Message p has passed cache k.
Passed(p, k) == (k + RingSize - Home(p)) % RingSize < RingSize - Left(p)

\* The answer to a load leaves copies behind.
Shares(p) == Answered(p) /\ ~At(p).inval

\* What a message leaves behind: no copies, or none that is owned.
Clean ==
  \A p \in Place, k \in Cpu : Going(p) /\ k # Home(p) =>
    /\ Answered(p) => ~HasCopy(k, LineOf(p), Owned)
    /\ ~Shares(p) /\ Passed(p, k) => ~HasCopy(k, LineOf(p), Valid)

\* A cache that owns a line has it alone, or is just telling the others.
Alone ==
  \A n, m \in Cpu, l \in Line :
    n # m /\ HasCopy(n, l, Owned) /\ HasCopy(m, l, Valid) =>
      /\ State(n, l) = "EXCLUSIVE" /\ State(m, l) = "SHARED"
      /\ cache[n].waitReply /\ req[n].line = l

\* The data of a copy.
CopyData(n, l) == cache[n].sram[IndexOf[l]].data

\* There is one value of a line, in whatever copies there are of it,
CopiesAgree ==
  \A n, m \in Cpu, l \in Line :
    HasCopy(n, l, Valid) /\ HasCopy(m, l, Valid) => CopyData(n, l) = CopyData(m, l)

\* and in an answer on its way.
AnswersAgree ==
  \A p \in Place, k \in Cpu :
    Going(p) /\ Answered(p) /\ k # Home(p) /\ HasCopy(k, LineOf(p), Valid)
      => At(p).data = CopyData(k, LineOf(p))

\* The inductive invariant of coherence.
CoherenceInv ==
  Inv /\ Token!TokenInv /\ Sensible /\ SnoopSees /\ Clean /\ Alone /\ CopiesAgree /\ AnswersAgree

\* What is under way is about a line, and its home acts on it.
LEMMA LineTypes ==
  ASSUME Inv, NEW p \in Place, Going(p)
  PROVE  /\ Home(p) \in Cpu /\ cache[Home(p)].waitReply /\ Acts(Home(p))
         /\ LineOf(p) = req[Home(p)].line /\ LineOf(p) \in Line
<1>1. Home(p) \in Cpu /\ cache[Home(p)].waitReply /\ LineOf(p) = req[Home(p)].line
  BY DEF Inv, HomeWaits, About
<1>2. Acts(Home(p))
  BY <1>1 DEF Acts
<1>3. req[Home(p)].line \in Line
  BY <1>1, <1>2, ActsAsks
<1> QED BY <1>1, <1>2, <1>3

\* Nobody else acts on a line that is under way.
LEMMA Others ==
  ASSUME CPUS = RingSize, Inv, Token!TokenInv, NEW p \in Place, Going(p),
         NEW m \in Cpu, m # Home(p), Acts(m)
  PROVE  req[m].line # LineOf(p)
<1>1. /\ Home(p) \in Cpu /\ Acts(Home(p)) /\ LineOf(p) = req[Home(p)].line
  BY LineTypes
<1> QED BY <1>1, ActsAlone

\* A cache that sends acts.
LEMMA SendsActs ==
  ASSUME Inv, NEW wait, NEW sig, NEW issue, Moves(wait, sig, issue), NEW n \in Cpu,
         sig[n].send # None
  PROVE  Acts(n) /\ cache[n].state = "CORE" /\ (Misses(n, sig[n]) \/ Upgrades(n, sig[n]))
<1>1. sig[n] = Signals(n, wait)
  BY Zenon DEF Moves
<1> QED BY <1>1, Sends DEF Acts

\* An invalidation is something.
LEMMA PairIsSend == <<FALSE, TRUE>> # None
<1>1. <<FALSE, TRUE>> \in BOOLEAN \X BOOLEAN
  OBVIOUS
<1> QED BY <1>1, NoneAssumption

\* While a line is under way nobody else gets a copy of it, nor more of one.
LEMMA NoNewCopies ==
  ASSUME CPUS = RingSize, Inv, Token!TokenInv, NEW wait, NEW sig, NEW issue, Moves(wait, sig, issue),
         NEW h \in Cpu, Acts(h), NEW l \in Line, req[h].line = l, NEW k \in Cpu, k # h,
         HasCopy(k, l, Valid)', NEW new, new = State(k, l)'
  PROVE  \/ HasCopy(k, l, Valid) /\ State(k, l) = new
         \/ HasCopy(k, l, Owned) /\ new = "SHARED"
         \/ HasCopy(k, l, Owned) /\ new = "MODIFIED" /\ cache[k].state = "CORE" /\ req[k].line = l
<1>2. ~(Acts(k) /\ req[k].line = l)
  BY ActsAlone
<1>3. ~Comes(k, l, new)
  BY <1>2 DEF Comes, Acts
<1>4. sig[k].send = <<FALSE, TRUE>> => Acts(k)
  BY SendsActs, PairIsSend
<1>5. CopyStep(k, sig[k], l, new)
  BY CopyMoves
<1> QED BY <1>2, <1>3, <1>4, <1>5, Zenon DEF CopyStep

-----------------------------------------------------------------------------
\* In particular no copy comes up, and no more copies are owned.
LEMMA CopiesKept ==
  ASSUME CPUS = RingSize, Inv, Token!TokenInv, NEW wait, NEW sig, NEW issue, Moves(wait, sig, issue),
         NEW h \in Cpu, Acts(h), NEW l \in Line, req[h].line = l, NEW k \in Cpu, k # h
  PROVE  /\ HasCopy(k, l, Valid)' => HasCopy(k, l, Valid)
         /\ HasCopy(k, l, Owned)' => HasCopy(k, l, Owned)
<1>1. /\ HasCopy(k, l, Owned)' => HasCopy(k, l, Valid)' /\ State(k, l)' \in Owned
      /\ HasCopy(k, l, Owned) => HasCopy(k, l, Valid)
      /\ HasCopy(k, l, Valid) /\ State(k, l) \in Owned => HasCopy(k, l, Owned)
  BY DEF HasCopy, Valid, State
<1> SUFFICES ASSUME HasCopy(k, l, Valid)'
             PROVE  HasCopy(k, l, Valid) /\ (State(k, l)' \in Owned => HasCopy(k, l, Owned))
  BY <1>1
<1>2. PICK new : new = State(k, l)'
  OBVIOUS
<1>3. \/ HasCopy(k, l, Valid) /\ State(k, l) = new
      \/ HasCopy(k, l, Owned) /\ new = "SHARED"
      \/ HasCopy(k, l, Owned) /\ new = "MODIFIED" /\ cache[k].state = "CORE" /\ req[k].line = l
  BY <1>2, NoNewCopies
<1> QED BY <1>1, <1>2, <1>3 DEF Owned

\* Every message is sent with a question in it, and keeps it.
LEMMA SensibleStays ==
  ASSUME Inv, Sensible, NEW wait, NEW sig, NEW issue, Moves(wait, sig, issue)
  PROVE  Sensible'
<1> SUFFICES ASSUME NEW p \in Place, Going(p)', p[2] # "mem"
             PROVE  At(p)'.read \/ At(p)'.inval
  BY DEF Sensible
<1>1. PICK q : q = Origin(sig, p)
  OBVIOUS
<1>2. /\ q[1] \in Cpu
      /\ q[2] = "core" => New(p, q[1], sig[q[1]])
      /\ q[2] # "core" => Same(p, q)
  BY <1>1, Kept
<1>3. CASE q[2] = "core"
  <2>1. New(p, q[1], sig[q[1]])
    BY <1>2, <1>3
  <2>2. Misses(q[1], sig[q[1]]) \/ Upgrades(q[1], sig[q[1]])
    BY <1>2, <2>1, SendsActs DEF New
  <2>3. sig[q[1]].send[1] \/ sig[q[1]].send[2]
    <3>1. CASE Misses(q[1], sig[q[1]])
      <4>1. PICK v \in BOOLEAN : sig[q[1]].send = <<TRUE, v>>
        BY <3>1, Zenon DEF Misses
      <4> QED BY <4>1
    <3>2. CASE Upgrades(q[1], sig[q[1]])
      BY <3>2 DEF Upgrades
    <3> QED BY <2>2, <3>1, <3>2
  <2> QED BY <2>1, <2>3 DEF New
<1>4. CASE q[2] # "core"
  <2>1. Same(p, q)
    BY <1>2, <1>4
  <2>2. /\ q \in Place /\ Going(q) /\ q[2] # "mem" /\ At(p)'.inval = At(q).inval
        /\ Reads(p)' = Reads(q)
    BY <2>1 DEF Same
  <2>3. At(q).read \/ At(q).inval
    BY <2>2 DEF Sensible
  <2>4. Reads(p)' = At(p)'.read /\ Reads(q) = At(q).read
    BY <2>2, Zenon DEF Reads
  <2> QED BY <2>2, <2>3, <2>4
<1> QED BY <1>3, <1>4

\* A cache that looks at a message of another one sees what it has, and nothing
\* comes before it has answered.
LEMMA SnoopSeesStays ==
  ASSUME CPUS = RingSize, Inv, Token!TokenInv, NEW wait, NEW sig, NEW issue, Moves(wait, sig, issue)
  PROVE  SnoopSees'
<1> SUFFICES ASSUME NEW n \in Cpu, cache'[n].state = "SNOOP",
                    cache'[n].rd.state = "INVALID" \/ cache'[n].rd.line # cache'[n].hold.line
             PROVE  ~HasCopy(n, cache[n].hold.line, Valid)'
  BY DEF SnoopSees, Hit
<1>0. PICK s, ready, m, l : s = sig[n] /\ ready = sig[NextCpu(n)].ready /\ m = cache[n].hold /\ l = m.line
  OBVIOUS
<1>1. /\ s = Signals(n, wait)
      /\ cache'[n].state = NextState(n, ready)
      /\ s.ready \/ cache'[n].hold = m
      /\ cache'[n].rd = NextRd(n, NextState(n, ready))
  BY <1>0, NextRegisters
<1>2. NextState(n, ready) = "SNOOP"
  BY <1>1
<1>3. cache[n].state = "ACCEPT" /\ m # None /\ ~LastHop(m) /\ (m.inval \/ ~m.reply)
  BY <1>0, <1>2 DEF NextState, AcceptSnoop
<1>4. s.ready = (m = None \/ Finished(n) \/ PassesBy(n))
  BY <1>0, <1>1, <1>3, AcceptSignals
<1>5. cache'[n].hold = m
  BY <1>0, <1>1, <1>3, <1>4 DEF Finished, PassesBy
<1>6. m \in Message /\ l \in Line /\ m.ttl \in 1 .. 3
  <2>1. m \in Message
    BY <1>0, <1>3, CacheTypes DEF Inv
  <2> QED BY <1>0, <1>3, <2>1, MessageTypes DEF LastHop
<1>7. cache'[n].rd = cache[n].sram[IndexOf[l]]
  BY <1>0, <1>1, <1>2 DEF NextRd
<1>8. ~HasCopy(n, l, Valid)
  BY <1>0, <1>5, <1>7 DEF HasCopy, Valid, Owned
\* What it has not can only come to its own request.
<1>9. PICK p \in Place : Going(p) /\ Home(p) # n /\ LineOf(p) = l
  <2> DEFINE p == <<n, "hold">>
  <2>1. p \in Place /\ At(p) = m /\ Going(p) /\ LineOf(p) = l
    BY <1>0, <1>3 DEF Place, At, Going, LineOf
  <2>2. Home(p) = (n + m.ttl) % RingSize
    BY <1>0 DEF Home, At
  <2>3. Home(p) # n
    <3>1. n \in 0 .. 3
      BY RingOrder
    <3> HIDE DEF p
    <3> QED BY <1>6, <2>2, <3>1, SMT DEF RingSize
  <2> QED BY <2>1, <2>3
<1>10. Home(p) \in Cpu /\ Acts(Home(p)) /\ req[Home(p)].line = l
  BY <1>9, LineTypes
<1>11. ~HasCopy(n, l, Valid)'
  BY <1>6, <1>8, <1>9, <1>10, CopiesKept
<1>12. cache'[n].hold.line = l
  BY <1>0, <1>5
<1> QED BY <1>11, <1>12 DEF HasCopy

\* What a cache does to its copy for the message of another one.
LEMMA SnoopWrites ==
  ASSUME Inv, NEW wait, NEW sig, NEW issue, Moves(wait, sig, issue),
         NEW n \in Cpu, cache[n].state = "SNOOP", sig[n].ready, NEW l, cache[n].hold.line = l
  PROVE  /\ Snoops(n, sig[n]) /\ l \in Line
         /\ Hit(n) /\ cache[n].hold.inval => ~HasCopy(n, l, Valid)'
         /\ Asked(n) /\ ~cache[n].hold.inval => ~HasCopy(n, l, Owned)' /\ HasCopy(n, l, Valid)
<1>0. PICK s, i, old, new, w : /\ s = sig[n] /\ i = IndexOf[l] /\ old = cache[n].sram[i]
                               /\ new = cache'[n].sram[i] /\ w = s.write
  OBVIOUS
<1>1. s = Signals(n, wait) /\ cache'[n].sram = NextSram(n, SramWrite(n, s, wait))
  BY <1>0, NextRegisters
<1>2. Snoops(n, s)
  BY <1>0, <1>1, SnoopSignals
<1>3. l \in Line /\ cache[n].rd \in Entry /\ (cache[n].rd.state # "INVALID" => cache[n].rd = old)
  BY <1>0, SnoopFacts
<1>4. i \in Index
  BY <1>0, <1>3, LineIndex
<1>5. HasCopy(n, l, Valid)' => new.state \in Valid
  BY <1>0 DEF HasCopy
<1>6. HasCopy(n, l, Owned)' => new.state \in Owned
  BY <1>0 DEF HasCopy
<1>7. ASSUME NEW st \in {"INVALID", "SHARED"}, w = StateOnly(l, st)
      PROVE  new.state = st
  <2>1. w.line = l /\ w.state = st
    BY <1>7, Zenon DEF StateOnly
  <2>2. w \in Write
    BY <1>3, <1>7 DEF StateOnly, Write, Valid
  <2>3. w # None
    BY <2>2, NoneAssumption
  <2>4. SramWrite(n, s, wait) = w
    BY <1>0, <1>1, <2>3, WritesAlone
  <2>5. new = [line |-> IF w.data = None THEN old.line ELSE w.line,
               state |-> w.state,
               data |-> IF w.state = "INVALID" \/ w.data # None THEN w.data ELSE old.data]
    <3>1. new = NextSram(n, w)[i]
      BY <1>0, <1>1, <2>4
    <3> QED BY <1>0, <1>4, <2>1, <2>3, <3>1, EntryEffect
  <2> QED BY <2>1, <2>5
<1>8. ASSUME Hit(n), cache[n].hold.inval PROVE ~HasCopy(n, l, Valid)'
  <2>1. w = StateOnly(l, "INVALID")
    BY <1>0, <1>2, <1>8 DEF Snoops
  <2> QED BY <1>5, <1>7, <2>1 DEF Valid, Owned
<1>9. ASSUME Asked(n), ~cache[n].hold.inval PROVE ~HasCopy(n, l, Owned)' /\ HasCopy(n, l, Valid)
  <2>1. cache[n].rd.state # "INVALID" /\ cache[n].rd = old /\ old.line = l
    BY <1>3, <1>9 DEF Asked, Hit
  <2>2. old.state \in Valid
    BY <1>3, <2>1 DEF Entry
  <2>3. HasCopy(n, l, Valid)
    BY <1>0, <2>1, <2>2 DEF HasCopy
  <2>4. CASE old.state \in Owned
    <3>1. w = StateOnly(l, "SHARED")
      BY <1>0, <1>2, <1>9, <2>1, <2>4 DEF Snoops
    <3> QED BY <1>6, <1>7, <2>3, <3>1 DEF Owned
  <2>5. CASE old.state = "SHARED"
    <3>1. EntryStep(n, wait, s, i, old, new)
      BY <1>0, <1>4, EntryMoves
    <3>2. new = old \/ Dropped(old, new) \/ Restated(old, "SHARED", new)
      BY <2>5, <3>1 DEF EntryStep
    <3>3. new.state \in {"SHARED", "INVALID"}
      BY <2>5, <3>2 DEF Dropped, Restated
    <3> QED BY <1>6, <2>3, <3>3 DEF Owned
  <2> QED BY <2>2, <2>4, <2>5 DEF Valid
<1> QED BY <1>0, <1>2, <1>3, <1>8, <1>9

-----------------------------------------------------------------------------
\* A message that goes on from a cache has passed that one, too.
LEMMA PassedMore ==
  ASSUME NEW h \in 0 .. 3, NEW n \in 0 .. 3, NEW k \in 0 .. 3, k # n,
         NEW t \in 1 .. 3, h = (n + t) % RingSize,
         (k + RingSize - h) % RingSize < RingSize - (t - 1)
  PROVE  (k + RingSize - h) % RingSize < RingSize - t
BY SMT DEF RingSize

\* A message has passed nobody when it is new.
LEMMA PassedNone ==
  ASSUME NEW h \in 0 .. 3, NEW k \in 0 .. 3, k # h
  PROVE  ~((k + RingSize - h) % RingSize < RingSize - 3)
BY SMT DEF RingSize

\* A cache that passes on a message that has not been answered, or tells the
\* others to give their copies up, has no copy any more; if it answers a load it
\* has one that it does not own.
LEMMA PassingCleans ==
  ASSUME CPUS = RingSize, CoherenceInv, NEW wait, NEW sig, NEW issue, Moves(wait, sig, issue),
         NEW n \in Cpu, NEW m, m = cache[n].hold, m \in Message, m # None, ~LastHop(m), sig[n].ready,
         NEW q, q = <<n, "hold">>, NEW l \in Line, m.line = l
  PROVE  /\ ~(m.reply /\ ~m.inval) =>
              /\ cache[n].state = "SNOOP"
              /\ m.inval \/ ~sig[n].setReply => ~HasCopy(n, l, Valid)'
         /\ sig[n].setReply => cache[n].state = "SNOOP" /\ HasCopy(n, l, Valid)
         /\ sig[n].setReply /\ ~m.inval => ~HasCopy(n, l, Owned)'
<1>0. /\ q \in Place /\ At(q) = m /\ Going(q) /\ LineOf(q) = l
      /\ sig[n] = Signals(n, wait) /\ Inv /\ Token!TokenInv
  BY Zenon DEF Place, At, Going, LineOf, Moves, CoherenceInv
<1>1. Home(q) # n
  <2>1. Home(q) = (n + m.ttl) % RingSize
    BY DEF Home, At
  <2>2. n \in 0 .. 3 /\ m.ttl \in 1 .. 3
    BY RingOrder, MessageTypes DEF LastHop
  <2> QED BY <2>1, <2>2, SMT DEF RingSize
<1>2. /\ HasCopy(n, l, Valid)' => HasCopy(n, l, Valid)
      /\ HasCopy(n, l, Owned)' => HasCopy(n, l, Owned)
  <2>1. Home(q) \in Cpu /\ Acts(Home(q)) /\ req[Home(q)].line = l
    BY <1>0, LineTypes
  <2> QED BY <1>0, <1>1, <2>1, CopiesKept
<1>3. cache[n].state \in {"ACCEPT", "CORE", "SNOOP", "REPLY"}
  BY <1>0, CacheTypes DEF Inv
<1>4. CASE cache[n].state = "ACCEPT"
  <2>1. /\ ~sig[n].setReply
        /\ sig[n].ready = (m = None \/ Finished(n) \/ PassesBy(n))
    BY <1>0, <1>4, AcceptSignals
  <2>2. m.reply /\ ~m.inval
    BY <2>1 DEF Finished, PassesBy
  <2> QED BY <2>1, <2>2
<1>5. cache[n].state # "CORE"
  BY <1>0, CoreSignals
<1>6. cache[n].state # "REPLY"
  BY <1>0 DEF Inv, Serving
<1>7. CASE cache[n].state = "SNOOP"
  <2>1. /\ Snoops(n, sig[n])
        /\ Hit(n) /\ m.inval => ~HasCopy(n, l, Valid)'
        /\ Asked(n) /\ ~m.inval => ~HasCopy(n, l, Owned)' /\ HasCopy(n, l, Valid)
    BY <1>0, <1>7, SnoopWrites
  <2>2. sig[n].setReply = Asked(n)
    BY <2>1 DEF Snoops
  <2>3. ASSUME cache[n].rd.state = "INVALID" \/ ~Hit(n) PROVE ~HasCopy(n, l, Valid)'
    <3>1. ~HasCopy(n, l, Valid)
      BY <1>7, <2>3 DEF CoherenceInv, SnoopSees
    <3> QED BY <1>2, <3>1
  <2>4. CASE m.inval
    <3>1. ~HasCopy(n, l, Valid)'
      BY <2>1, <2>3, <2>4
    <3>2. Asked(n) => HasCopy(n, l, Valid)
      BY <1>0, <1>7, SnoopFacts DEF Asked, Hit, HasCopy, Entry
    <3> QED BY <1>7, <2>2, <2>4, <3>1, <3>2
  <2>5. CASE ~m.inval
    <3>1. m.read
      BY <1>0, <2>5 DEF CoherenceInv, Sensible
    <3>2. ~Asked(n) => ~HasCopy(n, l, Valid)'
      BY <2>3, <3>1 DEF Asked
    <3> QED BY <1>7, <2>1, <2>2, <2>5, <3>2
  <2> QED BY <2>4, <2>5
<1> QED BY <1>3, <1>4, <1>5, <1>6, <1>7

\* What a message has passed stays clean.
LEMMA CleanStays ==
  ASSUME CPUS = RingSize, CoherenceInv, NEW wait, NEW sig, NEW issue, Moves(wait, sig, issue)
  PROVE  Clean'
<1> SUFFICES ASSUME NEW p \in Place, NEW k \in Cpu, Going(p)', k # Home(p)'
             PROVE  /\ Answered(p)' => ~HasCopy(k, LineOf(p), Owned)'
                    /\ ~Shares(p)' /\ Passed(p, k)' => ~HasCopy(k, LineOf(p), Valid)'
  BY DEF Clean
<1>0. PICK q, h, l : q = Origin(sig, p) /\ h = Home(p)' /\ l = LineOf(p)'
  OBVIOUS
<1>1. /\ HasCopy(k, LineOf(p), Owned)' <=> HasCopy(k, l, Owned)'
      /\ HasCopy(k, LineOf(p), Valid)' <=> HasCopy(k, l, Valid)'
  BY <1>0 DEF HasCopy
<1>2. Inv /\ Token!TokenInv /\ Sensible /\ SnoopSees /\ Clean /\ Alone
  BY DEF CoherenceInv
<1>3. /\ q[1] \in Cpu
      /\ q[2] = "core" => New(p, q[1], sig[q[1]]) /\ Left(p)' = 3 /\ ~Answered(p)'
      /\ q[2] # "core" => Same(p, q) /\ (Rests(p, q) \/ Passes(sig, p, q))
  BY <1>0, <1>2, Kept, Travels
<1>4. Passed(p, k)' <=> (k + RingSize - h) % RingSize < RingSize - Left(p)'
  BY <1>0 DEF Passed
<1>5. k \in 0 .. 3 /\ (\A j \in Cpu : j \in 0 .. 3)
  BY RingOrder
<1>6. CASE q[2] = "core"
  <2>1. h \in 0 .. 3 /\ ~Answered(p)' /\ Left(p)' = 3
    BY <1>0, <1>3, <1>5, <1>6 DEF New
  <2>2. ~Passed(p, k)'
    BY <1>0, <1>4, <1>5, <2>1, PassedNone
  <2> QED BY <2>1, <2>2
<1>7. CASE q[2] # "core"
  <2>1. /\ q \in Place /\ Going(q) /\ h = Home(q) /\ l = LineOf(q)
        /\ p[2] # "mem" => q[2] # "mem" /\ At(p)'.inval = At(q).inval
        /\ Rests(p, q) \/ Passes(sig, p, q)
    BY <1>0, <1>3, <1>7 DEF Same
  <2>2. h \in Cpu /\ Acts(h) /\ req[h].line = l /\ l \in Line
    BY <1>2, <2>1, LineTypes
  <2>3. /\ HasCopy(k, l, Valid)' => HasCopy(k, l, Valid)
        /\ HasCopy(k, l, Owned)' => HasCopy(k, l, Owned)
    BY <1>0, <1>2, <2>2, CopiesKept
  <2>4. /\ Answered(q) => ~HasCopy(k, l, Owned)
        /\ ~Shares(q) /\ Passed(q, k) => ~HasCopy(k, l, Valid)
    BY <1>0, <1>2, <2>1 DEF Clean
  <2>5. Passed(q, k) <=> (k + RingSize - h) % RingSize < RingSize - Left(q)
    BY <2>1 DEF Passed
  <2>6. CASE Rests(p, q)
    <3>1. Passed(p, k)' <=> Passed(q, k)
      BY <1>4, <2>5, <2>6 DEF Rests
    <3>2. (Shares(p)' <=> Shares(q)) /\ (Answered(p)' <=> Answered(q))
      <4>1. Answered(p)' <=> Answered(q)
        BY <2>6 DEF Rests
      <4>2. Answered(p)' => p[2] # "mem"
        BY DEF Answered
      <4> QED BY <2>1, <4>1, <4>2 DEF Shares
    <3> QED BY <1>1, <2>3, <2>4, <3>1, <3>2
  <2>7. CASE Passes(sig, p, q)
    <3>0. PICK n, m : n = q[1] /\ m = cache[n].hold
      OBVIOUS
    <3>1. /\ n \in Cpu /\ q = <<n, "hold">> /\ At(q) = m /\ m \in Message /\ m # None /\ ~LastHop(m)
          /\ sig[n].ready /\ Left(p)' = Left(q) - 1
          /\ Answered(p)' <=> sig[n].setReply \/ Answered(q)
      BY <2>1, <2>7, <3>0 DEF Passes, At, Going
    <3>2. /\ Left(q) = m.ttl /\ m.ttl \in 1 .. 3 /\ m.line = l
          /\ h = (n + m.ttl) % RingSize
      BY <2>1, <3>1, MessageTypes DEF Left, LineOf, Home, LastHop
    <3>3. k # n /\ Passed(p, k)' => Passed(q, k)
      BY <1>4, <1>5, <2>2, <2>5, <3>1, <3>2, PassedMore
    <3>4. /\ ~(m.reply /\ ~m.inval) =>
               /\ cache[n].state = "SNOOP"
               /\ m.inval \/ ~sig[n].setReply => ~HasCopy(n, l, Valid)'
          /\ sig[n].setReply => cache[n].state = "SNOOP" /\ HasCopy(n, l, Valid)
          /\ sig[n].setReply /\ ~m.inval => ~HasCopy(n, l, Owned)'
      BY <2>2, <3>0, <3>1, <3>2, PassingCleans
    <3>5. Shares(q) <=> m.reply /\ ~m.inval
      BY <3>1 DEF Shares, Answered
    <3>6. /\ Shares(p)' <=> (sig[n].setReply \/ m.reply) /\ ~m.inval
          /\ Answered(q) <=> m.reply
      <4>1. p[2] # "mem"
        <5>1. p[2] = "mem" => \/ q = p
                              \/ q = <<p[1], "hold">> /\ sig[p[1]].mem = "read"
          BY <1>0 DEF Origin
        <5>2. sig[n].mem = "read" => cache[n].state = "REPLY"
          <6>1. sig[n] = Signals(n, wait)
            BY <3>1, Zenon DEF Moves
          <6> QED BY <1>2, <3>1, <6>1, MemWants
        <5>3. cache[n].state # "REPLY"
          BY <1>2, <3>0, <3>1 DEF Inv, Serving
        <5> QED BY <3>1, <5>1, <5>2, <5>3
      <4>2. At(p)'.inval = m.inval /\ (Answered(q) <=> m.reply)
        BY <2>1, <3>1, <4>1 DEF Answered
      <4> QED BY <3>1, <4>2 DEF Shares
    <3>7. ASSUME Answered(p)' PROVE ~HasCopy(k, l, Owned)'
      <4>1. CASE Answered(q)
        BY <2>3, <2>4, <4>1
      <4>2. CASE ~Answered(q) /\ k = n
        <5>1. HasCopy(n, l, Owned)' => HasCopy(n, l, Valid)'
          BY DEF HasCopy, Valid
        <5> QED BY <3>1, <3>4, <3>6, <3>7, <4>2, <5>1
      <4>3. CASE ~Answered(q) /\ k # n
        <5>1. HasCopy(n, l, Valid)
          BY <3>1, <3>4, <3>6, <3>7, <4>3
        <5>2. HasCopy(k, l, Owned) => cache[k].waitReply /\ req[k].line = l
          BY <1>2, <2>2, <3>1, <4>3, <5>1 DEF Alone
        <5>3. ~(cache[k].waitReply /\ req[k].line = l)
          BY <1>0, <1>2, <2>1, <2>2, Others DEF Acts
        <5> QED BY <2>3, <5>2, <5>3
      <4> QED BY <4>1, <4>2, <4>3
    <3>8. ASSUME ~Shares(p)', Passed(p, k)' PROVE ~HasCopy(k, l, Valid)'
      <4>1. ~Shares(q)
        BY <3>5, <3>6, <3>8
      <4>2. CASE k # n
        BY <2>3, <2>4, <3>3, <3>8, <4>1, <4>2
      <4>3. CASE k = n
        BY <3>4, <3>5, <3>6, <3>8, <4>1, <4>3
      <4> QED BY <4>2, <4>3
    <3> QED BY <1>1, <3>7, <3>8
  <2> QED BY <2>1, <2>6, <2>7
<1> QED BY <1>6, <1>7

-----------------------------------------------------------------------------
\* The states of a copy.
LEMMA CopyIs ==
  ASSUME NEW n, NEW l
  PROVE  /\ HasCopy(n, l, Owned) <=> HasCopy(n, l, Valid) /\ State(n, l) \in Owned
         /\ HasCopy(n, l, {"SHARED"}) <=> HasCopy(n, l, Valid) /\ State(n, l) = "SHARED"
         /\ HasCopy(n, l, {"EXCLUSIVE"}) <=> HasCopy(n, l, Valid) /\ State(n, l) = "EXCLUSIVE"
         /\ HasCopy(n, l, Valid) => State(n, l) \in Owned \/ State(n, l) = "SHARED"
BY DEF HasCopy, State, Valid, Owned

\* A message that has come home has been everywhere.
LEMMA HomeCleans ==
  ASSUME CoherenceInv, NEW p \in Place, Going(p), Left(p) = 0, NEW m \in Cpu, m # Home(p)
  PROVE  /\ Shares(p) => ~HasCopy(m, LineOf(p), Owned)
         /\ ~Shares(p) => ~HasCopy(m, LineOf(p), Valid)
<1>1. Home(p) \in Cpu
  BY LineTypes DEF CoherenceInv
<1>2. Passed(p, m)
  <2>1. m \in 0 .. 3 /\ Home(p) \in 0 .. 3
    BY <1>1, RingOrder
  <2>2. PICK h : h = Home(p)
    OBVIOUS
  <2>3. (m + RingSize - h) % RingSize < RingSize - 0
    BY <2>1, <2>2, SMT DEF RingSize
  <2> QED BY <2>2, <2>3 DEF Passed
<1> QED BY <1>2 DEF CoherenceInv, Clean, Shares

\* The line that a cache waited for is nobody else's.
LEMMA ComesAlone ==
  ASSUME CPUS = RingSize, CoherenceInv, NEW n \in Cpu, NEW m \in Cpu, n # m, NEW l \in Line,
         NEW state, Comes(n, l, state)
  PROVE  /\ state \in Owned => ~HasCopy(m, l, Valid)
         /\ ~HasCopy(m, l, Owned)
         /\ ~(Acts(m) /\ req[m].line = l)
<1>1. PICK p \in Place : /\ Going(p) /\ Home(p) = n /\ Left(p) = 0 /\ LineOf(p) = l
                         /\ Answered(p) /\ ~At(p).inval => state = "SHARED"
  BY DEF Comes
<1>2. /\ Shares(p) => ~HasCopy(m, l, Owned)
      /\ ~Shares(p) => ~HasCopy(m, l, Valid)
  BY <1>1, HomeCleans
<1>3. Shares(p) => state = "SHARED"
  BY <1>1 DEF Shares
<1>4. HasCopy(m, l, Owned) => HasCopy(m, l, Valid)
  BY CopyIs
<1>5. ~(Acts(m) /\ req[m].line = l)
  BY <1>1, Others DEF CoherenceInv
<1> QED BY <1>2, <1>3, <1>4, <1>5 DEF Owned

\* As long as there are copies beside the one of a cache that takes the line for
\* itself, it waits.
LEMMA OwnerWaits ==
  ASSUME CPUS = RingSize, CoherenceInv, NEW wait, NEW sig, NEW issue, Moves(wait, sig, issue),
         NEW n \in Cpu, NEW m \in Cpu, n # m, NEW l \in Line,
         HasCopy(n, l, Owned), HasCopy(m, l, Valid)
  PROVE  /\ State(n, l) = "EXCLUSIVE" /\ State(m, l) = "SHARED" /\ Acts(n) /\ req[n].line = l
         /\ cache[n].state # "CORE"
         /\ cache'[n].waitReply /\ req'[n].line = l
<1>1. /\ Inv /\ State(n, l) = "EXCLUSIVE" /\ State(m, l) = "SHARED" /\ cache[n].waitReply
      /\ req[n].line = l
  BY DEF CoherenceInv, Alone
<1>2. cache[n].state # "CORE" /\ req'[n] = req[n] /\ Acts(n)
  BY <1>1, WaitingKept DEF Acts
<1>3. PICK s, ready : s = sig[n] /\ ready = sig[NextCpu(n)].ready
  OBVIOUS
<1>4. /\ s = Signals(n, wait)
      /\ cache'[n].waitReply = (~(s.endReply \/ MemReadEnd(n, wait))
                                  /\ (s.send # None \/ cache[n].waitReply))
  BY <1>3, NextRegisters, <1>1
<1>5. cache[n].sram[IndexOf[req[n].line]].state # "INVALID"
  BY <1>1 DEF State
<1>6. ~MemReadEnd(n, wait)
  BY <1>1, <1>5, ReadIsOwn DEF MemReadEnd
<1>7. ASSUME s.endReply PROVE FALSE
  <2>1. /\ cache[n].hold # None /\ LastHop(cache[n].hold)
        /\ \/ cache[n].state = "ACCEPT" /\ ~cache[n].hold.read
           \/ cache[n].state = "REPLY" /\ Takes(n, s)
    BY <1>1, <1>4, <1>7, EndsReply
  <2>2. ~Takes(n, s) \/ cache[n].state # "REPLY"
    BY <1>1, <1>5, TakenIsData DEF Takes
  <2>3. PICK p : p = <<n, "hold">>
    OBVIOUS
  <2>4. p \in Place /\ Going(p) /\ Home(p) = n
    BY <1>1, <2>1, <2>3, HomeTypes
  <2>5. At(p) = cache[n].hold /\ p[2] = "hold"
    BY <2>3 DEF At
  <2>6. Left(p) = 0 /\ ~Shares(p) /\ LineOf(p) = l
    <3>1. Left(p) = 0
      BY <2>1, <2>5 DEF Left, LastHop
    <3>2. LineOf(p) = l
      BY <1>1, <2>4, LineTypes
    <3>3. At(p).inval
      BY <2>1, <2>2, <2>4, <2>5 DEF CoherenceInv, Sensible
    <3> QED BY <3>1, <3>2, <3>3 DEF Shares
  <2>7. ~HasCopy(m, l, Valid)
    BY <2>4, <2>6, HomeCleans
  <2> QED BY <2>7
<1>8. cache'[n].waitReply
  BY <1>1, <1>4, <1>6, <1>7
<1> QED BY <1>1, <1>2, <1>8

\* A cycle leaves owners alone.
LEMMA AloneStays ==
  ASSUME CPUS = RingSize, CoherenceInv, NEW wait, NEW sig, NEW issue, Moves(wait, sig, issue)
  PROVE  Alone'
<1> SUFFICES ASSUME NEW n \in Cpu, NEW m \in Cpu, NEW l \in Line, n # m,
                    HasCopy(n, l, Owned)', HasCopy(m, l, Valid)'
             PROVE  /\ State(n, l)' = "EXCLUSIVE" /\ State(m, l)' = "SHARED"
                    /\ cache'[n].waitReply /\ req'[n].line = l
  BY DEF Alone
<1>1. PICK a, b : a = State(n, l)' /\ b = State(m, l)'
  OBVIOUS
<1>2. HasCopy(n, l, Valid)' /\ a \in Owned
  BY <1>1 DEF HasCopy, State, Valid
<1>3. CopyStep(n, sig[n], l, a) /\ CopyStep(m, sig[m], l, b) /\ b \in Valid
  BY <1>1, <1>2, CopyMoves DEF CoherenceInv
<1>4. ASSUME NEW k \in Cpu, sig[k].send = <<FALSE, TRUE>> PROVE Acts(k)
  BY <1>4, SendsActs, PairIsSend DEF CoherenceInv
<1>5. ~Comes(n, l, a)
  <2> SUFFICES ASSUME Comes(n, l, a) PROVE FALSE
    OBVIOUS
  <2>1. ~HasCopy(m, l, Valid) /\ ~(Acts(m) /\ req[m].line = l)
    BY <1>2, ComesAlone
  <2>2. ~Comes(m, l, b)
    BY <2>1 DEF Comes, Acts
  <2> QED BY <1>3, <2>1, <2>2, CopyIs DEF CopyStep
<1>6. ~Comes(m, l, b)
  <2> SUFFICES ASSUME Comes(m, l, b) PROVE FALSE
    OBVIOUS
  <2>1. ~HasCopy(n, l, Owned) /\ ~(Acts(n) /\ req[n].line = l)
    BY ComesAlone
  <2>2. HasCopy(n, l, Valid) => State(n, l) \notin Owned
    BY <2>1, CopyIs
  <2> QED BY <1>2, <1>3, <1>4, <1>5, <2>1, <2>2 DEF CopyStep, Owned
<1>7. HasCopy(n, l, Valid) /\ HasCopy(m, l, Valid)
  BY <1>3, <1>5, <1>6, CopyIs DEF CopyStep
<1>8. CASE HasCopy(n, l, Owned)
  <2>1. /\ State(n, l) = "EXCLUSIVE" /\ State(m, l) = "SHARED" /\ Acts(n) /\ req[n].line = l
        /\ cache[n].state # "CORE"
        /\ cache'[n].waitReply /\ req'[n].line = l
    BY <1>7, <1>8, OwnerWaits
  <2>2. ~(Acts(m) /\ req[m].line = l)
    BY <2>1, ActsAlone DEF CoherenceInv
  <2>3. ~HasCopy(m, l, Owned) /\ ~HasCopy(n, l, {"SHARED"})
    BY <2>1, CopyIs DEF Owned
  <2>4. a = "EXCLUSIVE"
    BY <1>2, <1>3, <1>5, <2>1, <2>3 DEF CopyStep, Owned
  <2>5. b = "SHARED"
    BY <1>3, <1>4, <1>6, <2>1, <2>2, <2>3 DEF CopyStep
  <2> QED BY <1>1, <2>1, <2>4, <2>5
<1>9. CASE ~HasCopy(n, l, Owned)
  <2>1. /\ a = "EXCLUSIVE" /\ cache[n].state = "CORE"
        /\ sig[n].send = <<FALSE, TRUE>> /\ req[n].line = l
    <3>1. State(n, l) \notin Owned
      BY <1>7, <1>9, CopyIs
    <3> QED BY <1>2, <1>3, <1>5, <1>9, <3>1 DEF CopyStep, Owned
  <2>2. Acts(n) /\ sig[n].send # None
    BY <1>4, <2>1, PairIsSend
  <2>3. ~(Acts(m) /\ req[m].line = l)
    BY <2>1, <2>2, ActsAlone DEF CoherenceInv
  <2>4. ~HasCopy(m, l, Owned)
    BY <1>7, <2>3, OwnerWaits
  <2>5. State(m, l) = "SHARED"
    BY <1>7, <2>4, CopyIs
  <2>6. b = "SHARED"
    BY <1>3, <1>4, <1>6, <2>3, <2>4, <2>5 DEF CopyStep
  <2>7. cache'[n].waitReply /\ req'[n] = req[n]
    BY <2>2, SenderWaits DEF CoherenceInv
  <2> QED BY <1>1, <2>1, <2>6, <2>7
<1> QED BY <1>8, <1>9

-----------------------------------------------------------------------------
\* Where data are that arrive.
Brings(n, l, d) ==
  /\ cache[n].waitReply /\ req[n].line = l
  /\ \E p \in Place : /\ Going(p) /\ Home(p) = n /\ Left(p) = 0 /\ LineOf(p) = l
                      /\ Answered(p) => At(p).data = d

\* A copy keeps its data, is stored in, or has just arrived.
LEMMA DataMoves ==
  ASSUME Inv, NEW wait, NEW sig, NEW issue, Moves(wait, sig, issue),
         NEW n \in Cpu, NEW l \in Line, HasCopy(n, l, Valid)', NEW d, d = CopyData(n, l)'
  PROVE  \/ HasCopy(n, l, Valid) /\ CopyData(n, l) = d
         \/ HasCopy(n, l, Owned) /\ cache[n].state = "CORE" /\ req[n].line = l
         \/ Brings(n, l, d)
<1>0. PICK s, i, old, e : s = sig[n] /\ i = IndexOf[l] /\ old = cache[n].sram[i] /\ e = cache'[n].sram[i]
  OBVIOUS
<1>1. i \in Index /\ s = Signals(n, wait)
  BY <1>0, LineIndex, Zenon DEF Moves
<1>2. e.line = l /\ e.state \in Valid /\ d = e.data
  BY <1>0 DEF HasCopy, CopyData
<1>3. EntryStep(n, wait, s, i, old, e)
  BY <1>0, <1>1, EntryMoves
<1>4. /\ HasCopy(n, l, Valid) <=> old.line = l /\ old.state \in Valid
      /\ HasCopy(n, l, Owned) <=> old.line = l /\ old.state \in Owned
      /\ CopyData(n, l) = old.data
  BY <1>0 DEF HasCopy, CopyData
<1>5. CASE e = old
  BY <1>2, <1>4, <1>5
<1>6. CASE MemReadEnd(n, wait) /\ Loaded(n, e)
  <2>1. /\ <<n, "mem">> \in Place /\ Going(<<n, "mem">>) /\ Home(<<n, "mem">>) = n
        /\ cache[n].waitReply /\ cache[n].mem.line = req[n].line
    BY <1>6, ReadIsOwn DEF MemReadEnd
  <2>2. req[n].line = l
    BY <1>2, <1>6 DEF Loaded
  <2>3. Left(<<n, "mem">>) = 0 /\ LineOf(<<n, "mem">>) = l /\ ~Answered(<<n, "mem">>)
    BY <2>1, <2>2 DEF Left, LineOf, Answered
  <2> QED BY <2>1, <2>2, <2>3 DEF Brings
<1>7. CASE cache[n].state = "REPLY" /\ cache[n].hold.reply /\ Loaded(n, e) /\ e.data = cache[n].hold.data
  <2>1. /\ cache[n].waitReply /\ cache[n].hold.line = req[n].line
        /\ cache[n].hold # None /\ LastHop(cache[n].hold)
    BY <1>7, TakenIsData DEF Inv, Serving
  <2>2. <<n, "hold">> \in Place /\ Going(<<n, "hold">>) /\ Home(<<n, "hold">>) = n
    BY <2>1, HomeTypes
  <2>3. req[n].line = l
    BY <1>2, <1>7 DEF Loaded
  <2>4. At(<<n, "hold">>) = cache[n].hold
    BY DEF At
  <2>5. Left(<<n, "hold">>) = 0 /\ LineOf(<<n, "hold">>) = l
    BY <2>1, <2>3, <2>4 DEF Left, LineOf, LastHop
  <2> QED BY <1>2, <1>7, <2>1, <2>2, <2>3, <2>4, <2>5 DEF Brings
<1>8. CASE Restated(old, e.state, e) /\ old.line = l /\ old.state \in Valid
  BY <1>2, <1>4, <1>8 DEF Restated
<1>9. CASE cache[n].state = "CORE" /\ old.line = req[n].line /\ old.state \in Owned /\ Modified(n, e)
  <2>1. e.line = req[n].line
    BY <1>9 DEF Modified
  <2> QED BY <1>2, <1>4, <1>9, <2>1
<1>10. CASE \/ old.state = "SHARED" /\ Restated(old, "EXCLUSIVE", e)
            \/ old.state \in Owned /\ Restated(old, "SHARED", e)
  <2>1. Restated(old, e.state, e) /\ e.line = old.line /\ old.state \in Valid
    BY <1>10 DEF Restated, Valid
  <2> QED BY <1>2, <1>8, <2>1
<1>11. ~Dropped(old, e)
  <2>1. Dropped(old, e) => e.state = "INVALID"
    BY DEF Dropped
  <2> QED BY <1>2, <2>1 DEF Valid, Owned
<1> QED BY <1>3, <1>5, <1>6, <1>7, <1>9, <1>10, <1>11, Zenon DEF EntryStep

\* What arrives is what the others have.
LEMMA BringsAlike ==
  ASSUME CPUS = RingSize, CoherenceInv, NEW n \in Cpu, NEW m \in Cpu, n # m, NEW l \in Line,
         NEW d, Brings(n, l, d)
  PROVE  /\ HasCopy(m, l, Valid) => CopyData(m, l) = d
         /\ ~HasCopy(m, l, Owned)
         /\ ~(Acts(m) /\ req[m].line = l)
<1>1. PICK p \in Place : /\ Going(p) /\ Home(p) = n /\ Left(p) = 0 /\ LineOf(p) = l
                         /\ Answered(p) => At(p).data = d
  BY DEF Brings
<1>2. /\ Shares(p) => ~HasCopy(m, l, Owned)
      /\ ~Shares(p) => ~HasCopy(m, l, Valid)
  BY <1>1, HomeCleans
<1>3. HasCopy(m, l, Owned) => HasCopy(m, l, Valid)
  BY CopyIs
<1>4. ~(Acts(m) /\ req[m].line = l)
  BY <1>1, Others DEF CoherenceInv
<1>5. ASSUME HasCopy(m, l, Valid) PROVE CopyData(m, l) = d
  <2>1. Answered(p)
    BY <1>2, <1>5 DEF Shares
  <2>2. At(p).data = CopyData(m, l)
    BY <1>1, <1>5, <2>1 DEF CoherenceInv, AnswersAgree
  <2> QED BY <1>1, <2>1, <2>2
<1> QED BY <1>2, <1>3, <1>4, <1>5

\* So all copies are alike after a cycle: two that were there, and one that arrives
\* beside another.
LEMMA CopiesAgreeStays ==
  ASSUME CPUS = RingSize, CoherenceInv, NEW wait, NEW sig, NEW issue, Moves(wait, sig, issue)
  PROVE  CopiesAgree'
<1> SUFFICES ASSUME NEW n \in Cpu, NEW m \in Cpu, NEW l \in Line, n # m,
                    HasCopy(n, l, Valid)', HasCopy(m, l, Valid)'
             PROVE  CopyData(n, l)' = CopyData(m, l)'
  BY DEF CopiesAgree
<1>0. PICK a, b : a = CopyData(n, l)' /\ b = CopyData(m, l)'
  OBVIOUS
<1>1. /\ \/ HasCopy(n, l, Valid) /\ CopyData(n, l) = a
         \/ HasCopy(n, l, Owned) /\ cache[n].state = "CORE" /\ req[n].line = l
         \/ Brings(n, l, a)
      /\ \/ HasCopy(m, l, Valid) /\ CopyData(m, l) = b
         \/ HasCopy(m, l, Owned) /\ cache[m].state = "CORE" /\ req[m].line = l
         \/ Brings(m, l, b)
  BY <1>0, DataMoves DEF CoherenceInv
<1>2. /\ HasCopy(n, l, Owned) => HasCopy(n, l, Valid)
      /\ HasCopy(m, l, Owned) => HasCopy(m, l, Valid)
  BY CopyIs
<1>3. CASE Brings(n, l, a)
  <2>1. /\ HasCopy(m, l, Valid) => CopyData(m, l) = a
        /\ ~HasCopy(m, l, Owned) /\ ~(Acts(m) /\ req[m].line = l)
    BY <1>3, BringsAlike
  <2>2. ~Brings(m, l, b)
    BY <2>1 DEF Brings, Acts
  <2> QED BY <1>0, <1>1, <2>1, <2>2
<1>4. CASE Brings(m, l, b)
  <2>1. /\ HasCopy(n, l, Valid) => CopyData(n, l) = b
        /\ ~HasCopy(n, l, Owned) /\ ~(Acts(n) /\ req[n].line = l)
    BY <1>4, BringsAlike
  <2>2. ~Brings(n, l, a)
    BY <2>1 DEF Brings, Acts
  <2> QED BY <1>0, <1>1, <2>1, <2>2
<1>5. CASE ~Brings(n, l, a) /\ ~Brings(m, l, b)
  <2>1. HasCopy(n, l, Valid) /\ HasCopy(m, l, Valid)
    BY <1>1, <1>2, <1>5
  <2>2. /\ HasCopy(n, l, Owned) => cache[n].state # "CORE"
        /\ HasCopy(m, l, Owned) => cache[m].state # "CORE"
    BY <2>1, OwnerWaits
  <2>3. CopyData(n, l) = a /\ CopyData(m, l) = b
    BY <1>1, <1>5, <2>2
  <2>4. CopyData(n, l) = CopyData(m, l)
    BY <2>1 DEF CoherenceInv, CopiesAgree
  <2> QED BY <1>0, <2>3, <2>4
<1> QED BY <1>3, <1>4, <1>5

-----------------------------------------------------------------------------
\* An answer is carried on, or comes from the copy of the cache that it leaves.
LEMMA AnswerMoves ==
  ASSUME CPUS = RingSize, CoherenceInv, NEW wait, NEW sig, NEW issue, Moves(wait, sig, issue),
         NEW p \in Place, Going(p)', Answered(p)', NEW q, q = Origin(sig, p)
  PROVE  /\ q \in Place /\ Going(q) /\ Home(p)' = Home(q) /\ LineOf(p)' = LineOf(q)
         /\ \/ Answered(q) /\ At(p)'.data = At(q).data
            \/ /\ q[1] \in Cpu /\ cache[q[1]].state = "SNOOP"
               /\ HasCopy(q[1], LineOf(q), Valid) /\ At(p)'.data = CopyData(q[1], LineOf(q))
<1>0. Inv
  BY DEF CoherenceInv
<1>1. q[2] # "core" /\ Same(p, q)
  BY <1>0, Kept, Travels
<1>2. q \in Place /\ Going(q) /\ Home(p)' = Home(q) /\ LineOf(p)' = LineOf(q)
  BY <1>1 DEF Same
<1>3. p[2] # "mem" /\ At(p)'.reply
  BY DEF Answered
<1>4. Stays(wait, sig, p, q) \/ Arrives(sig, p, q) \/ Fetched(sig, p, q)
  BY <1>0, Flow
<1>5. CASE Stays(wait, sig, p, q)
  <2>1. q = p /\ p[2] = "hold" /\ cache'[p[1]].hold = cache[p[1]].hold
    BY <1>3, <1>5 DEF Stays, Place
  <2>2. At(p)' = At(q)
    BY <2>1 DEF At
  <2> QED BY <1>2, <1>3, <2>1, <2>2 DEF Answered
<1>6. CASE Arrives(sig, p, q)
  <2>1. PICK o, i \in Message :
          /\ o # None /\ Leaves(q[1], sig[q[1]], o, q) /\ At(p)' = i
          /\ i.reply = o.reply /\ i.data = o.data
    BY <1>6 DEF Arrives
  <2>2. q[1] \in Cpu /\ o.reply /\ At(p)'.data = o.data
    BY <1>3, <1>6, <2>1 DEF Arrives
  <2>3. CASE q = <<q[1], "stall">> /\ Keeps(q[1], o)
    <3>1. At(q) = o /\ q[2] = "stall"
      BY <2>3 DEF At, Keeps
    <3> QED BY <1>2, <2>2, <3>1 DEF Answered
  <2>4. CASE q = <<q[1], "hold">> /\ Forwards(q[1], sig[q[1]], o)
    <3>0. PICK n, m : n = q[1] /\ m = cache[n].hold
      OBVIOUS
    <3>1. q[2] = "hold" /\ At(q) = m /\ q = <<n, "hold">> /\ n \in Cpu
      BY <2>2, <2>4, <3>0 DEF At
    <3>2. /\ m \in Message /\ m # None /\ ~LastHop(m) /\ sig[n].ready
          /\ o.reply = (sig[n].setReply \/ m.reply)
          /\ o.data = IF sig[n].setReply THEN cache[n].rd.data ELSE m.data
      BY <2>4, <3>0 DEF Forwards
    <3>3. CASE ~sig[n].setReply
      <4>1. At(q).reply /\ At(p)'.data = At(q).data
        BY <2>2, <3>1, <3>2, <3>3
      <4> QED BY <1>2, <3>1, <4>1 DEF Answered
    <3>4. CASE sig[n].setReply
      <4>1. PICK l : l = LineOf(q)
        OBVIOUS
      <4>2. l = m.line /\ l \in Line
        BY <1>0, <1>2, <3>1, <4>1, LineTypes DEF LineOf
      <4>3. cache[n].state = "SNOOP" /\ HasCopy(n, l, Valid)
        BY <3>0, <3>1, <3>2, <3>4, <4>2, PassingCleans
      <4>4. Snoops(n, sig[n])
        BY <1>0, <3>0, <3>1, <3>2, <4>2, <4>3, SnoopWrites
      <4>5. cache[n].rd.state # "INVALID"
        BY <3>4, <4>4 DEF Snoops, Asked
      <4>6. cache[n].rd = cache[n].sram[IndexOf[l]]
        BY <1>0, <3>0, <3>1, <4>2, <4>3, <4>5, SnoopFacts
      <4>7. At(p)'.data = CopyData(n, l)
        BY <2>2, <3>2, <3>4, <4>6 DEF CopyData
      <4> QED BY <1>2, <3>0, <3>1, <4>1, <4>3, <4>7
    <3> QED BY <3>3, <3>4
  <2>5. ~Sent(q[1], sig[q[1]], o)
    BY <2>2 DEF Sent
  <2> QED BY <2>1, <2>3, <2>4, <2>5 DEF Leaves
<1>7. ~Fetched(sig, p, q)
  BY <1>3 DEF Fetched
<1> QED BY <1>4, <1>5, <1>6, <1>7

\* It stays what the copies are.
LEMMA AnswersAgreeStays ==
  ASSUME CPUS = RingSize, CoherenceInv, NEW wait, NEW sig, NEW issue, Moves(wait, sig, issue)
  PROVE  AnswersAgree'
<1> SUFFICES ASSUME NEW p \in Place, NEW k \in Cpu, Going(p)', Answered(p)', k # Home(p)',
                    HasCopy(k, LineOf(p), Valid)'
             PROVE  At(p)'.data = CopyData(k, LineOf(p))'
  BY DEF AnswersAgree
<1>0. PICK q, l, d : q = Origin(sig, p) /\ l = LineOf(p)' /\ d = CopyData(k, l)'
  OBVIOUS
<1>1. CopyData(k, LineOf(p))' = d /\ HasCopy(k, l, Valid)'
  BY <1>0 DEF CopyData, HasCopy
<1>2. /\ q \in Place /\ Going(q) /\ k # Home(q) /\ l = LineOf(q)
      /\ \/ Answered(q) /\ At(p)'.data = At(q).data
         \/ /\ q[1] \in Cpu /\ cache[q[1]].state = "SNOOP"
            /\ HasCopy(q[1], l, Valid) /\ At(p)'.data = CopyData(q[1], l)
  BY <1>0, AnswerMoves
<1>3. Inv /\ Token!TokenInv
  BY DEF CoherenceInv
<1>4. l \in Line /\ ~(Acts(k) /\ req[k].line = l)
  BY <1>2, <1>3, LineTypes, Others
<1>5. ~Brings(k, l, d)
  BY <1>4 DEF Brings, Acts
<1>6. ~(HasCopy(k, l, Owned) /\ cache[k].state = "CORE")
  <2>1. CASE Answered(q)
    BY <1>2, <2>1 DEF CoherenceInv, Clean
  <2>2. CASE q[1] \in Cpu /\ cache[q[1]].state = "SNOOP" /\ HasCopy(q[1], l, Valid)
    <3>1. CASE q[1] = k
      BY <2>2, <3>1
    <3>2. CASE q[1] # k
      <4>1. HasCopy(k, l, Owned) => Acts(k) /\ req[k].line = l
        BY <1>4, <2>2, <3>2, OwnerWaits
      <4> QED BY <1>4, <4>1
    <3> QED BY <3>1, <3>2
  <2> QED BY <1>2, <2>1, <2>2
<1>7. HasCopy(k, l, Valid) /\ CopyData(k, l) = d
  BY <1>0, <1>1, <1>3, <1>4, <1>5, <1>6, DataMoves
<1>8. CASE Answered(q) /\ At(p)'.data = At(q).data
  <2>1. At(q).data = CopyData(k, l)
    BY <1>2, <1>7, <1>8 DEF CoherenceInv, AnswersAgree
  <2> QED BY <1>1, <1>7, <1>8, <2>1
<1>9. CASE q[1] \in Cpu /\ HasCopy(q[1], l, Valid) /\ At(p)'.data = CopyData(q[1], l)
  <2>1. CopyData(q[1], l) = CopyData(k, l)
    BY <1>4, <1>7, <1>9 DEF CoherenceInv, CopiesAgree
  <2> QED BY <1>1, <1>7, <1>9, <2>1
<1> QED BY <1>2, <1>8, <1>9

-----------------------------------------------------------------------------
\* At reset there are no copies.
LEMMA CoherenceStarts ==
  ASSUME CPUS = RingSize, Init
  PROVE  CoherenceInv
<1>1. \A n \in Cpu : /\ cache[n].state = "ACCEPT" /\ cache[n].hold = None /\ cache[n].stall = None
                     /\ cache[n].mem.op = "none"
                     /\ \A l \in Line : cache[n].sram[IndexOf[l]].state = "INVALID"
  <2>1. \A n \in Cpu : cache[n] = ResetCache
    BY DEF Init
  <2>2. \A l \in Line : ResetCache.sram[IndexOf[l]] = Empty
    BY LineIndex DEF ResetCache
  <2> QED BY <2>1, <2>2 DEF ResetCache, Empty, NoAccess
<1>2. \A p \in Place : ~Going(p)
  BY <1>1 DEF Place, Going, At
<1>3. \A n \in Cpu, l \in Line : ~HasCopy(n, l, Valid) /\ ~HasCopy(n, l, Owned)
  BY <1>1 DEF HasCopy, Valid, Owned
<1>4. SnoopSees
  BY <1>1 DEF SnoopSees
<1> QED BY <1>2, <1>3, <1>4, InitInv, TokenInvStarts, Zenon
        DEF CoherenceInv, Sensible, Clean, Alone, CopiesAgree, AnswersAgree

\* A cycle keeps it all.
LEMMA CoherenceStays ==
  ASSUME CPUS = RingSize, CoherenceInv, [Tick]_vars
  PROVE  CoherenceInv'
<1>1. Inv' /\ Token!TokenInv'
  BY StepInv, TokenInvStays DEF CoherenceInv
<1>2. CASE Tick
  <2>1. Inv /\ Token!TokenInv /\ Sensible
    BY DEF CoherenceInv
  <2>2. PICK wait, sig, issue : Moves(wait, sig, issue)
    BY <1>2, <2>1, TickMoves
  <2>3. Sensible' /\ SnoopSees' /\ Clean' /\ Alone'
    BY <2>1, <2>2, SensibleStays, SnoopSeesStays, CleanStays, AloneStays
  <2>4. CopiesAgree' /\ AnswersAgree'
    BY <2>2, CopiesAgreeStays, AnswersAgreeStays
  <2> QED BY <1>1, <2>3, <2>4 DEF CoherenceInv
<1>3. CASE UNCHANGED vars
  <2>1. req' = req /\ cache' = cache
    BY <1>3 DEF vars
  <2>2. \A p \in Place :
          /\ Going(p)' <=> Going(p)
          /\ Home(p)' = Home(p) /\ Left(p)' = Left(p) /\ LineOf(p)' = LineOf(p)
          /\ At(p)' = At(p)
    BY <2>1 DEF Going, Home, Left, LineOf, At
  <2>3. \A n \in Cpu : \A l :
          /\ HasCopy(n, l, Valid)' <=> HasCopy(n, l, Valid)
          /\ HasCopy(n, l, Owned)' <=> HasCopy(n, l, Owned)
          /\ State(n, l)' = State(n, l)
    BY <2>1 DEF HasCopy, State
  <2>4. Sensible'
    BY <2>2, Zenon DEF CoherenceInv, Sensible
  <2>5. SnoopSees'
    BY <2>1 DEF CoherenceInv, SnoopSees, Hit, HasCopy
  <2>6. Clean'
    <3> SUFFICES ASSUME NEW p \in Place, NEW k \in Cpu, Going(p)', k # Home(p)'
                 PROVE  /\ Answered(p)' => ~HasCopy(k, LineOf(p), Owned)'
                        /\ ~Shares(p)' /\ Passed(p, k)' => ~HasCopy(k, LineOf(p), Valid)'
      BY DEF Clean
    <3>1. Going(p) /\ k # Home(p)
      BY <2>2
    <3>2. /\ (Shares(p)' <=> Shares(p)) /\ (Passed(p, k)' <=> Passed(p, k))
          /\ Answered(p)' <=> Answered(p)
      BY <2>2 DEF Shares, Answered, Passed
    <3>3. /\ HasCopy(k, LineOf(p), Owned)' <=> HasCopy(k, LineOf(p), Owned)
          /\ HasCopy(k, LineOf(p), Valid)' <=> HasCopy(k, LineOf(p), Valid)
      BY <2>1, <2>2 DEF HasCopy
    <3> QED BY <3>1, <3>2, <3>3, Zenon DEF CoherenceInv, Clean
  <2>7. Alone'
    BY <2>1 DEF CoherenceInv, Alone, HasCopy, State
  <2>8. CopiesAgree'
    BY <2>1 DEF CoherenceInv, CopiesAgree, HasCopy, CopyData
  <2>9. AnswersAgree'
    <3> SUFFICES ASSUME NEW p \in Place, NEW k \in Cpu, Going(p)', Answered(p)', k # Home(p)',
                        HasCopy(k, LineOf(p), Valid)'
                 PROVE  At(p)'.data = CopyData(k, LineOf(p))'
      BY DEF AnswersAgree
    <3>1. Going(p) /\ k # Home(p) /\ Answered(p) /\ At(p)' = At(p)
      BY <2>2 DEF Answered
    <3>2. /\ HasCopy(k, LineOf(p), Valid)' <=> HasCopy(k, LineOf(p), Valid)
          /\ CopyData(k, LineOf(p))' = CopyData(k, LineOf(p))
      BY <2>1, <2>2 DEF HasCopy, CopyData
    <3> QED BY <3>1, <3>2, Zenon DEF CoherenceInv, AnswersAgree
  <2> QED BY <1>1, <2>4, <2>5, <2>6, <2>7, <2>8, <2>9 DEF CoherenceInv
<1> QED BY <1>2, <1>3

\* The inductive invariant of coherence.
LEMMA CoherenceHolds == CPUS = RingSize => (Spec => []CoherenceInv)
<1> SUFFICES ASSUME CPUS = RingSize PROVE Spec => []CoherenceInv
  OBVIOUS
<1>1. Init => CoherenceInv
  BY CoherenceStarts
<1>2. CoherenceInv /\ [Tick]_vars => CoherenceInv'
  BY CoherenceStays
<1> QED BY <1>1, <1>2, PTL DEF Spec

-----------------------------------------------------------------------------
\* No two caches have requests for the same line on the ring or at the memory:
\* what may_send is for holds of the caches themselves.
THEOREM LinesExclusive == CPUS = RingSize => (Spec => []Token!MutualExclusion)
<1> SUFFICES ASSUME CPUS = RingSize PROVE Spec => []Token!MutualExclusion
  OBVIOUS
<1>1. CoherenceInv => Token!MutualExclusion
  <2> SUFFICES ASSUME CoherenceInv, NEW n \in Cpu, NEW m \in Cpu, n # m,
                      cache[n].waitReply, cache[m].waitReply
               PROVE  CoreLine(n) # CoreLine(m)
    BY DEF Token!MutualExclusion, Token!Node, Cpu
  <2>1. Acts(n) /\ Acts(m) /\ Inv /\ Token!TokenInv
    BY DEF Acts, CoherenceInv
  <2>2. req[n].line # req[m].line
    BY <2>1, ActsAlone
  <2>3. CoreLine(n) = req[n].line /\ CoreLine(m) = req[m].line
    BY <2>1, ActsAsks
  <2> QED BY <2>2, <2>3
<1> QED BY <1>1, CoherenceHolds, PTL

\* MESI, on the ring the processor has: a cache with an EXCLUSIVE or MODIFIED
\* copy has the only one, but while it waits for its own invalidation to go
\* round, as EXCLUSIVE beside SHARED ones; it is never MODIFIED then, and
\* whatever it has on the ring tells the others to give their copies up.
THEOREM OneOwner == CPUS = RingSize => (Spec => []SingleOwner)
<1> SUFFICES ASSUME CPUS = RingSize PROVE Spec => []SingleOwner
  OBVIOUS
<1>1. CoherenceInv => SingleOwner
  <2> SUFFICES ASSUME CoherenceInv, NEW n \in Cpu, NEW m \in Cpu, NEW l \in Line, n # m,
                      HasCopy(n, l, Owned), HasCopy(m, l, Valid)
               PROVE  /\ HasCopy(n, l, {"EXCLUSIVE"}) /\ HasCopy(m, l, {"SHARED"})
                      /\ cache[n].waitReply /\ CoreLine(n) = l
                      /\ \A x \in Messages(n) : x[3].line = l /\ x[3].inval
    BY DEF SingleOwner
  <2>1. /\ Inv /\ State(n, l) = "EXCLUSIVE" /\ State(m, l) = "SHARED"
        /\ cache[n].waitReply /\ req[n].line = l
    BY DEF CoherenceInv, Alone
  <2>2. HasCopy(n, l, {"EXCLUSIVE"}) /\ HasCopy(m, l, {"SHARED"})
    BY <2>1, CopyIs
  <2>3. CoreLine(n) = l
    BY <2>1, ActsAsks DEF Acts
  <2>4. ASSUME NEW x \in Messages(n)
        PROVE  x[3].line = l /\ x[3].inval
    <3>2. PICK p \in Place : Going(p) /\ Home(p) = n /\ p[2] # "mem" /\ x[3] = At(p)
      BY MessagePlace
    <3>3. LineOf(p) = At(p).line /\ LineOf(p) = l
      BY <2>1, <3>2, LineTypes DEF LineOf
    <3>4. Reads(p) => State(n, l) = "INVALID"
      BY <2>1, <3>2, <3>3 DEF Inv, About, State
    <3>5. ~At(p).read
      BY <2>1, <3>2, <3>4 DEF Reads
    <3>6. At(p).inval
      BY <3>2, <3>5 DEF CoherenceInv, Sensible
    <3> QED BY <3>2, <3>3, <3>6
  <2> QED BY <2>1, <2>2, <2>3, <2>4
<1> QED BY <1>1, CoherenceHolds, PTL

\* A line has one value: all caches that have a copy of it have the same data, and
\* so do the answers under way.  Which data that is depends on the memory (stale4
\* shows that it need not be what was stored last), but two cores that find the
\* line in their caches read the same.
THEOREM OneValue == CPUS = RingSize => (Spec => []CopiesAgree)
<1> SUFFICES ASSUME CPUS = RingSize PROVE Spec => []CopiesAgree
  OBVIOUS
<1>1. CoherenceInv => CopiesAgree
  BY DEF CoherenceInv
<1> QED BY <1>1, CoherenceHolds, PTL
=============================================================================
