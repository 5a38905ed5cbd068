----------------------------- MODULE MoneyTrail -----------------------------
(***************************************************************************)
(* What trace_outgoing_funds returns and how the investigator reduces it:  *)
(* the breadth-first walk of agent/tools.py, the search for a returning    *)
(* path and the choice of root, return leg and counterparties of           *)
(* agent/investigator.py.  Pure functions of the canonical records and of  *)
(* outgoing, what list_outgoing answers of each account.                   *)
(***************************************************************************)
EXTENDS CanonicalData, SequencesExt

(* The members of a sequence that are in a set, in their order: the list
   comprehensions of the code, in the form the proofs are about. *)
Keep(s, S) == FlattenSeq([i \in DOMAIN s |-> IF s[i] \in S THEN <<s[i]>> ELSE << >>])

(* The members of a sequence that are not in a set, each where it first
   occurs: what a loop passes that skips what it has seen. *)
Unseen(s, seen) ==
  FlattenSeq([i \in DOMAIN s |-> IF s[i] \notin seen /\ \A j \in 1..(i - 1) : s[j] # s[i]
                                 THEN <<s[i]>> ELSE << >>])

(***************************************************************************)
(* One hop of the breadth-first walk.  The frontier is every account first *)
(* reached in the hop before, in order of discovery, so an account is      *)
(* expanded once and with its least depth.                                 *)
(***************************************************************************)
Hop(outgoing, walk) ==
  LET listed == FlattenSeq([i \in DOMAIN walk.frontier |-> outgoing[walk.frontier[i]]])
      found  == Unseen(listed, Range(walk.txs))
      to     == [i \in DOMAIN found |-> ToAccount[found[i]]]
  IN [txs      |-> walk.txs \o found,
      seen     |-> walk.seen \cup Range(to),
      frontier |-> Unseen(to, walk.seen)]

(* Fault: an account max_depth hops away is still expanded. *)
TraceOutgoingTooFar(outgoing, account, maxDepth) ==
  LET walk[depth \in 0..(maxDepth + 1)] ==
        IF depth = 0 THEN [txs |-> << >>, seen |-> {account}, frontier |-> <<account>>]
        ELSE Hop(outgoing, walk[depth - 1])
  IN walk[maxDepth + 1].txs

(***************************************************************************)
(* ToolRegistry._trace_outgoing_funds: the FIFO queue is walked one hop at *)
(* a time, up to max_depth.                                                *)
(***************************************************************************)
TraceOutgoing(outgoing, account, maxDepth) ==
  LET walk[depth \in 0..maxDepth] ==
        IF depth = 0 THEN [txs |-> << >>, seen |-> {account}, frontier |-> <<account>>]
        ELSE Hop(outgoing, walk[depth - 1])
  IN walk[maxDepth].txs

(* Whether a walk is a round trip.  Fault: one transfer is enough. *)
RoundTripOfOne(path, start) == path # << >> /\ ToAccount[Last(path)] = start

RoundTrip(path, start) == Len(path) >= 2 /\ ToAccount[Last(path)] = start

(* Every way in which one more of the transfers takes a path from start
   further, without taking one of them twice. *)
Longer(path, txs, start) ==
  LET end    == IF path = << >> THEN start ELSE ToAccount[Last(path)]
      onward == Keep(txs, {tx \in Range(txs) \ Range(path) : FromAccount[tx] = end})
  IN [i \in DOMAIN onward |-> Append(path, onward[i])]

(***************************************************************************)
(* ForensicInvestigator._select_cycle_path: depth-first search for a walk  *)
(* of at most five distinct transfers that returns to where it started,    *)
(* << >> when there is none.  Of the ways on from a path a returning one   *)
(* ends the search; the others are pushed and popped in reverse, each with *)
(* all that lies beyond it before the one below it.                        *)
(***************************************************************************)
SelectCyclePath(txs, start) ==
  LET explore[path \in Seq(Range(txs))] ==
        LET longer == Longer(path, txs, start)
            home   == {i \in DOMAIN longer : RoundTrip(longer[i], start)}
            beyond == [i \in DOMAIN longer |->
                         IF Len(longer[i]) < 5 THEN explore[longer[i]] ELSE << >>]
            hits   == {i \in DOMAIN longer : beyond[i] # << >>}
        IN IF home # {} THEN longer[Min(home)]
           ELSE IF hits # {} THEN beyond[Max(hits)] ELSE << >>
  IN explore[<< >>]

Focus(txs, account) ==
  LET cycle == SelectCyclePath(txs, account)
  IN IF cycle = << >> THEN txs ELSE cycle

(* The transfers that settle a payment: those of the focus if there are
   any, otherwise those anywhere in the trace. *)
PaymentLinked(txs, focus) ==
  LET linked(s) == Keep(s, {tx \in Range(s) : PaymentOf[tx] # None})
  IN IF linked(focus) # << >> THEN linked(focus) ELSE linked(txs)

(* RFCs of the holders of the accounts the focus touches, one per account
   and in account order, so an entity with two accounts appears twice. *)
CounterpartyRfcs(focus, origin) ==
  LET touched == UNION {{FromAccount[tx], ToAccount[tx]} : tx \in Range(focus)} \ {origin}
      known   == Keep(AccountOrder, {a \in touched : RfcOf[a] # None})
  IN [i \in DOMAIN known |-> RfcOf[known[i]]]

(* The transaction the exposure will be that of.  Fault: the newest one. *)
NewestRoot(focus, linked, knownRoot) ==
  IF linked # << >> THEN linked[1]
  ELSE IF knownRoot = None /\ focus # << >> THEN Last(focus)
  ELSE knownRoot

RootOf(focus, linked, knownRoot) ==
  IF linked # << >> THEN linked[1]
  ELSE IF knownRoot = None /\ focus # << >> THEN focus[1]
  ELSE knownRoot

(***************************************************************************)
(* The trace branch of _update_context_from_tool.  knownRoot is the root   *)
(* the context holds when the trace returns.  A None payment or returned   *)
(* leaves what the context had.                                            *)
(***************************************************************************)
ReduceTrace(outgoing, account, maxDepth, knownRoot) ==
  LET txs    == TraceOutgoing(outgoing, account, maxDepth)
      focus  == Focus(txs, account)
      linked == PaymentLinked(txs, focus)
      root   == RootOf(focus, linked, knownRoot)
      origin == IF root \in Range(txs) THEN FromAccount[root] ELSE account
      returns == Keep(focus, {tx \in Range(focus) : tx # root /\ ToAccount[tx] = origin})
  IN [found    |-> Range(txs),
      focus    |-> focus,
      root     |-> root,
      payment  |-> IF linked # << >> THEN PaymentOf[linked[1]] ELSE None,
      returned |-> IF returns # << >> THEN Last(returns) ELSE None,
      rfcs     |-> CounterpartyRfcs(focus, origin)]
=============================================================================
